---------------------------- MODULE MechanismRegistry ----------------------------
(***************************************************************************)
(* How a compiled candidate becomes the active version of a mechanism:     *)
(* ReviewRegistry of src/src/edon/registry/store.py.  Its handlers run in  *)
(* the threads of the HTTP server, each with a connection of its own.  A   *)
(* transaction begins with the first statement that writes, so that what a *)
(* handler reads before may have changed when it writes; what it reads     *)
(* after is its own.  submit_review reads the status first and the reviews *)
(* after its insert; promote reads the reviews twice, both times before.   *)
(*                                                                         *)
(* Data.  The columns of a candidate other than its status are constants,  *)
(* and a review is what a reviewer submits, with the conflicts it has      *)
(* something to say about.  Hashes and times are left out.  Of the audit   *)
(* events those that change which version is active are kept in order; the *)
(* others repeat a row that is never changed.                              *)
(***************************************************************************)
EXTENDS Naturals, Sequences, FiniteSets

CONSTANTS
    Candidates, Mechanism, Version, \* a candidate is for a version of a mechanism
    Risk, Conflicts,                \* its risk class and its conflicts
    Runs, CandidatesOf,             \* compiler runs
    Submissions,                    \* the reviews that are submitted
    Callers,                        \* threads of the server
    MaxChanges,                     \* bounds the audit events that are kept
    None

RiskClasses == {"LOW", "HIGH", "CRITICAL"}
Decisions == {"APPROVE", "REJECT", "REVISION_REQUIRED"}

ASSUME RegistryAssumption ==
    /\ Risk \in [Candidates -> RiskClasses]
    /\ CandidatesOf \in [Runs -> SUBSET Candidates]
    /\ IsFiniteSet(Submissions)
    /\ \A v \in Submissions : v.candidate \in Candidates /\ v.decision \in Decisions
    /\ MaxChanges \in Nat
    /\ None \notin Candidates \cup Submissions

VARIABLES
    runs,      \* the compiler runs there are
    status,    \* of each candidate; "NONE": not registered
    reviews,
    artifact,  \* the approvals named by the artifact of a promoted candidate
    active,    \* the candidates whose mechanism row is active
    changes,   \* the MECHANISM_PROMOTED and MECHANISM_ROLLED_BACK events
    calls      \* what each caller is doing

tables == <<runs, status, reviews, artifact, active, changes>>
vars == <<tables, calls>>

Promoted(k) == artifact[k] # {}

Call(op, about, approvals) == [op |-> op, about |-> about, approvals |-> approvals]
Idle == Call("IDLE", None, {})

Continues(c, call) == calls' = [calls EXCEPT ![c] = call]
Starts(c, call) == calls[c] = Idle /\ Continues(c, call)
Ends(c) == Continues(c, Idle)

-----------------------------------------------------------------------------
(* What the reviews say of a candidate. *)

Decided(R, k, decision) == {v \in R : v.candidate = k /\ v.decision = decision}
Approvals(R, k) == Decided(R, k, "APPROVE")

RequiredApprovals(k) ==
    CASE Risk[k] = "LOW" -> 1 [] Risk[k] = "HIGH" -> 2 [] Risk[k] = "CRITICAL" -> 3

RequiredRoles(k) ==
    CASE Risk[k] = "LOW" -> {}
      [] Risk[k] = "HIGH" -> {"DOMAIN_REVIEWER", "SAFETY_REVIEWER"}
      [] Risk[k] = "CRITICAL" ->
            {"DOMAIN_REVIEWER", "SAFETY_REVIEWER", "EXECUTIVE_RISK_OWNER"}

Enough(k, A) ==
    /\ Cardinality(A) >= RequiredApprovals(k)
    /\ RequiredRoles(k) \subseteq {v.role : v \in A}
    /\ Conflicts[k] \subseteq UNION {v.resolves : v \in A}

CandidateStatus(R, k) ==
    IF Decided(R, k, "REJECT") # {} THEN "REJECTED"
    ELSE IF Decided(R, k, "REVISION_REQUIRED") # {} THEN "REVISION_REQUIRED"
    ELSE IF Enough(k, Approvals(R, k)) THEN "READY_TO_PROMOTE"
    ELSE IF Approvals(R, k) # {} THEN "UNDER_REVIEW" ELSE "REGISTERED"

-----------------------------------------------------------------------------
(* The handlers. *)

\* All candidates of a run, or none: one that is registered already undoes the rest.
RegisterCompilerRun(r) ==
    /\ r \notin runs
    /\ \A k \in CandidatesOf[r] : status[k] = "NONE"
    /\ runs' = runs \cup {r}
    /\ status' = [k \in Candidates |->
            IF k \in CandidatesOf[r] THEN "REGISTERED" ELSE status[k]]
    /\ UNCHANGED <<reviews, artifact, active, changes, calls>>

\* What the handler asks of the review itself.
Admissible(v) ==
    /\ v.resolves \subseteq Conflicts[v.candidate]
    /\ v.decision = "APPROVE" /\ Conflicts[v.candidate] # {} => v.resolves # {}

\* Mutant: what is promoted can be reviewed.
ReviewableUnlessRejected(k) == status[k] \notin {"NONE", "REJECTED"}

Reviewable(k) == status[k] \notin {"NONE", "PROMOTED", "REJECTED"}

\* submit_review: the candidate's row, then the transaction.
SubmitReview(c, v) ==
    /\ Reviewable(v.candidate) /\ Admissible(v)
    /\ Starts(c, Call("REVIEW", v, {}))
    /\ UNCHANGED tables

\* Mutant: UNIQUE (review_id) alone, so that a reviewer can decide twice.
UnusedReview(v) == v \notin reviews

\* UNIQUE (candidate_id, reviewer_id)
Unreviewed(v) ==
    \A w \in reviews : w.candidate = v.candidate => w.reviewer # v.reviewer

StatusAfter(v) == CandidateStatus(reviews \cup {v}, v.candidate)

ReviewWrites(c) == LET v == calls[c].about IN
    /\ calls[c].op = "REVIEW"
    /\ Unreviewed(v)
    /\ reviews' = reviews \cup {v}
    /\ status' = [status EXCEPT ![v.candidate] = StatusAfter(v)]
    /\ Ends(c)
    /\ UNCHANGED <<runs, artifact, active, changes>>

\* promote: the reviews for the status, the reviews for the artifact, the transaction.
Promote(c, k) ==
    /\ status[k] # "NONE"
    /\ CandidateStatus(reviews, k) = "READY_TO_PROMOTE"
    /\ Starts(c, Call("CHECKED", k, {}))
    /\ UNCHANGED tables

PromoteReadsApprovals(c) ==
    /\ calls[c].op = "CHECKED"
    /\ Continues(c, Call("PROMOTE", calls[c].about, Approvals(reviews, calls[c].about)))
    /\ UNCHANGED tables

OfSameMechanism(k) == {j \in Candidates : Mechanism[j] = Mechanism[k]}

\* Mutant: the active version stays active.
ActivateToo(k) == active \cup {k}

Activate(k) == (active \ OfSameMechanism(k)) \cup {k}

\* PRIMARY KEY (mechanism_id, version): a row that is there undoes the transaction.
VersionIsNew(k) == \A j \in OfSameMechanism(k) : Version[j] = Version[k] => ~Promoted(j)

PromoteWrites(c) == LET k == calls[c].about IN
    /\ calls[c].op = "PROMOTE"
    /\ VersionIsNew(k)
    /\ artifact' = [artifact EXCEPT ![k] = calls[c].approvals]
    /\ active' = Activate(k)
    /\ status' = [status EXCEPT ![k] = "PROMOTED"]
    /\ changes' = Append(changes, [event |-> "MECHANISM_PROMOTED", candidate |-> k])
    /\ Ends(c)
    /\ UNCHANGED <<runs, reviews>>

\* A mechanism row is never removed, so that reading it is no step of its own.
Rollback(k) ==
    /\ Promoted(k)
    /\ Len(changes) < MaxChanges
    /\ active' = Activate(k)
    /\ changes' = Append(changes, [event |-> "MECHANISM_ROLLED_BACK", candidate |-> k])
    /\ UNCHANGED <<runs, status, reviews, artifact, calls>>

\* A constraint, a lock that is not had in time, or the end of the process.
Abandon(c) == calls[c] # Idle /\ Ends(c) /\ UNCHANGED tables

-----------------------------------------------------------------------------

Init ==
    /\ runs = {} /\ reviews = {} /\ active = {} /\ changes = <<>>
    /\ status = [k \in Candidates |-> "NONE"]
    /\ artifact = [k \in Candidates |-> {}]
    /\ calls = [c \in Callers |-> Idle]

CallNext(c) ==
    \/ \E v \in Submissions : SubmitReview(c, v)
    \/ \E k \in Candidates : Promote(c, k)
    \/ ReviewWrites(c) \/ PromoteReadsApprovals(c) \/ PromoteWrites(c) \/ Abandon(c)

Next ==
    \/ \E r \in Runs : RegisterCompilerRun(r)
    \/ \E k \in Candidates : Rollback(k)
    \/ \E c \in Callers : CallNext(c)

Spec == Init /\ [][Next]_vars

-----------------------------------------------------------------------------
(* Properties. *)

Statuses == {"NONE", "REGISTERED", "UNDER_REVIEW", "REVISION_REQUIRED", "REJECTED",
             "READY_TO_PROMOTE", "PROMOTED"}
ChangeRecords ==
    [event : {"MECHANISM_PROMOTED", "MECHANISM_ROLLED_BACK"}, candidate : Candidates]
CallRecords ==
    [op : {"IDLE"}, about : {None}, approvals : {{}}]
        \cup [op : {"REVIEW"}, about : Submissions, approvals : {{}}]
        \cup [op : {"CHECKED", "PROMOTE"}, about : Candidates,
              approvals : SUBSET Submissions]

\* The types of the tables and of the calls.
TypeOK ==
    /\ runs \subseteq Runs /\ reviews \subseteq Submissions /\ active \subseteq Candidates
    /\ status \in [Candidates -> Statuses]
    /\ artifact \in [Candidates -> SUBSET Submissions]
    /\ changes \in Seq(ChangeRecords)
    /\ calls \in [Callers -> CallRecords]

\* The status of a candidate that was not promoted is what its reviews say, whatever
\* order they came in, and it has one exactly when a run with it was registered.
\* (submit_review computes it inside the transaction, _candidate_status.)
StatusFollowsReviews == \A k \in Candidates :
    /\ status[k] = "NONE" <=> \A r \in runs : k \notin CandidatesOf[r]
    /\ status[k] \notin {"NONE", "PROMOTED"} => status[k] = CandidateStatus(reviews, k)
    /\ status[k] = "PROMOTED" => Promoted(k)

Approver(k, role) == {v.reviewer : v \in {w \in artifact[k] : w.role = role}}

\* Every artifact names approvals that were given to its candidate, among them those
\* of different people in each role that its risk class needs, and every conflict was
\* resolved by one of them, though reviews and promotions come between the check,
\* the second read and the write.  (promote)
PromotedIsApproved == \A k \in Candidates : Promoted(k) =>
    /\ artifact[k] \subseteq Approvals(reviews, k)
    /\ \A q \in Conflicts[k] : \E v \in artifact[k] : q \in v.resolves
    /\ Risk[k] # "LOW" =>
        \E d \in Approver(k, "DOMAIN_REVIEWER"), s \in Approver(k, "SAFETY_REVIEWER") :
            /\ d # s
            /\ Risk[k] = "CRITICAL" =>
                \E x \in Approver(k, "EXECUTIVE_RISK_OWNER") : x \notin {d, s}

LastOf(i) == \A j \in DOMAIN changes : j > i =>
    Mechanism[changes[j].candidate] # Mechanism[changes[i].candidate]

\* The active version of a mechanism is the one of its last audit event, and each
\* version was promoted by one event, before it was rolled back to.  So a mechanism
\* has one active version from its first promotion on.  (promote, rollback)
ActiveIsLastReleased == \A k \in Candidates :
    /\ k \in active <=> \E i \in DOMAIN changes : changes[i].candidate = k /\ LastOf(i)
    /\ Promoted(k) <=> \E i \in DOMAIN changes : changes[i].candidate = k
    /\ \A j \in OfSameMechanism(k) \ {k} :
            Promoted(k) /\ Promoted(j) => Version[j] # Version[k]

ReviewsOf(k) == {v \in reviews : v.candidate = k}
Reviewing(c, k) == calls[c].op = "REVIEW" /\ calls[c].about.candidate = k
Promoting(c, k) == calls[c].op \in {"CHECKED", "PROMOTE"} /\ calls[c].about = k

\* What was decided stays decided, as far as no call is on its way that had read
\* otherwise: what is promoted or rejected is not reviewed again, and keeps its status;
\* what was rejected is not promoted; and an artifact never changes.  (the guards of
\* submit_review and promote)
VerdictIsFinal == [][\A k \in Candidates :
    /\ Promoted(k) => artifact'[k] = artifact[k]
    /\ status[k] \in {"PROMOTED", "REJECTED"} /\ (\A c \in Callers : ~Reviewing(c, k)) =>
        /\ ReviewsOf(k)' = ReviewsOf(k)
        /\ \A c \in Callers : ~Reviewing(c, k)'
        /\ status[k] = "PROMOTED" => status'[k] = "PROMOTED"
    /\ Decided(reviews, k, "REJECT") # {} /\ (\A c \in Callers : ~Promoting(c, k)) =>
        /\ artifact'[k] = artifact[k]
        /\ \A c \in Callers : ~Promoting(c, k)']_vars

\* What the guards of submit_review and promote say together: no candidate is both
\* promoted and rejected.
RejectedIsNotPromoted == \A k \in Candidates :
    Promoted(k) => Decided(reviews, k, "REJECT") = {}
=============================================================================
