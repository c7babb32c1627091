------------------------------ MODULE ControlPlane ------------------------------
(***************************************************************************)
(* The decision path of the control-plane API                              *)
(* (src/apps/control-plane-api/src/server.ts) on PostgreSQL: observations, *)
(* proposals, human reviews and execution commands of one tenant.          *)
(*                                                                         *)
(* A request is one transaction at READ COMMITTED.  Its statements each    *)
(* see what is committed at that time, so other transactions come between  *)
(* them; its writes become visible together.  Each read that decides is a  *)
(* step of a call, the writes are one.  A request that is refused, raises  *)
(* or loses its connection is rolled back: it ends without a trace         *)
(* (GiveUp).  An observation is one step, since an advisory lock on its    *)
(* scope serializes the whole request.                                     *)
(*                                                                         *)
(* Data.  A value is what relevantState keeps of a state, Odd an           *)
(* observation that is admitted but that the projector does not accept.    *)
(* Versions count from the base state's.  A proposal's hashes are compared *)
(* with those of the row itself, which does not change.  Outbox messages   *)
(* are inserted with the rows they announce (DurableOutbox takes them from *)
(* there); incidents, evidence and diffs are written here and not read.    *)
(*                                                                         *)
(* The journal keeps the first event of an identity and passes over a      *)
(* second.  Clients choose the identities of observations, also those that *)
(* the server derives for projected events (ProjectedId).  That they do    *)
(* not bring about those it derives for the other events, of evidence,     *)
(* proposals, reviews (server.ts:193) and commands, nor evidence whose     *)
(* event has the identity of a projected one, is an assumption.            *)
(***************************************************************************)
EXTENDS Naturals, FiniteSets

CONSTANTS
    Scopes,     \* what observations are about
    Values, Base, Odd,
    Events,     \* identities of observations
    ProjectedId, \* that of each observation's projected event, None if no client uses it
    Proposals,
    Commands,   \* identities of execution commands
    Keys,       \* external idempotency keys
    Clients,    \* actors, with one request at a time and one key per proposal
    Stamps,     \* request timestamps, which clients choose
    Opening,    \* bound: those of proposals; only which stamp is later decides anything
    MaxReceived, \* bound of the observations in the journal
    None

Statuses ==
    {"DISPATCH_PENDING", "DISPATCHED", "ACKNOWLEDGED", "OUTCOME_REPORTED",
     "OUTCOME_VERIFIED", "COMPLETED", "DISPATCH_REJECTED", "DISPATCH_FAILED",
     "OUTCOME_UNKNOWN", "RECONCILIATION_REQUIRED", "PARTIALLY_COMPLETED",
     "COMPENSATION_REQUIRED", "CANCELLED", "EXPIRED"}

Dispositions == {"APPROVAL_REQUIRED", "ABSTAIN", "REVISE", "DENY", "ALLOW"}

ASSUME ControlPlaneAssumption ==
    /\ Base \in Values /\ Odd \notin Values
    /\ Stamps \subseteq Nat /\ Opening \subseteq Stamps /\ MaxReceived \in Nat
    /\ None \notin Scopes \cup Clients \cup Proposals \cup Commands \cup Keys \cup Events
    /\ ProjectedId \in [Events -> Events \cup {None}]
    /\ \A e, f \in Events : ProjectedId[e] = ProjectedId[f] => e = f \/ ProjectedId[e] = None

VARIABLES
    received,    \* observations in the journal
    admitted,    \* those of them that moved a scope, <<observation, scope>>
    derived,     \* identities that STATE_PROJECTED events have in the journal
    projected,   \* the STATE_PROJECTED events of each scope
    snapshot,    \* version of each scope's row of state_snapshots, 0 without one
    proposal,    \* a row for each proposal that was made
    initial,     \* the decision stored with the proposal
    reviewed,    \* the decision stored with the review
    review,      \* the row of human_reviews
    authorized,  \* the HUMAN_REVIEWED event
    record,      \* the answer kept under each client's idempotency key
    command,     \* execution_commands
    requested,   \* <<command, proposal>> of the DISPATCH_REQUESTED events
    transitions, \* execution_transitions, each with its journal event
    call         \* what each client is doing

observed == <<received, admitted, derived, projected, snapshot>>
proposed == <<proposal, initial>>
decided == <<reviewed, review, authorized, record>>
executed == <<command, requested, transitions>>
vars == <<observed, proposed, decided, executed, call>>

Unmoved == [version |-> 0, value |-> Base]
NoProposal == [scope |-> None, version |-> 0, value |-> Base, sound |-> FALSE]
NoDecision == [disposition |-> "NONE", version |-> 0, stamp |-> 0]
NoReview == [by |-> None, approved |-> FALSE]
NoEvent == [by |-> None, scope |-> None, version |-> 0, disposition |-> "NONE"]
NoCommand == [proposal |-> None, key |-> None, authorization |-> NoDecision,
              status |-> "NONE"]
Idle == [op |-> "IDLE", about |-> None, scope |-> None, seen |-> Unmoved, read |-> "NONE"]

-----------------------------------------------------------------------------
(* What the handlers read and compute. *)

\* Mutant: insert or overwrite, as the in-memory repository does.
Replaced(row, empty, new) == new

\* INSERT ... ON CONFLICT DO NOTHING
Kept(row, empty, new) == IF row = empty THEN new ELSE row

\* The projector passes over events it does not accept.
Accepted(s) == {r \in projected[s] : r.value # Odd}

\* state(): the last accepted event of the scope
State(s) ==
    IF Accepted(s) = {} THEN Unmoved
    ELSE CHOOSE r \in Accepted(s) : \A q \in Accepted(s) : q.version =< r.version

\* getKernelDecision: the latest by the request's timestamp, the review's in a tie
Decision(p) ==
    IF reviewed[p] # NoDecision /\ reviewed[p].stamp >= initial[p].stamp
    THEN reviewed[p] ELSE initial[p]

\* evaluateAt without a review
Initially(sound) == IF sound THEN "APPROVAL_REQUIRED" ELSE "ABSTAIN"

\* evaluateAt with a review, at the version just read
Reevaluated(sound, approved, covered) ==
    IF ~sound THEN "ABSTAIN"
    ELSE IF ~approved THEN "REVISE"
    ELSE IF covered THEN "ALLOW" ELSE "DENY"

\* The table of execution-assurance.ts
Transitions == [s \in Statuses |->
    CASE s = "DISPATCH_PENDING" -> {"DISPATCHED", "DISPATCH_REJECTED", "DISPATCH_FAILED",
                                    "EXPIRED", "CANCELLED"}
      [] s = "DISPATCHED" -> {"ACKNOWLEDGED", "OUTCOME_UNKNOWN", "DISPATCH_FAILED", "EXPIRED"}
      [] s = "ACKNOWLEDGED" -> {"OUTCOME_REPORTED", "OUTCOME_UNKNOWN", "RECONCILIATION_REQUIRED"}
      [] s = "OUTCOME_REPORTED" -> {"OUTCOME_VERIFIED", "PARTIALLY_COMPLETED",
                                    "COMPENSATION_REQUIRED", "RECONCILIATION_REQUIRED"}
      [] s = "OUTCOME_VERIFIED" -> {"COMPLETED", "PARTIALLY_COMPLETED", "COMPENSATION_REQUIRED"}
      [] s = "OUTCOME_UNKNOWN" -> {"ACKNOWLEDGED", "RECONCILIATION_REQUIRED", "CANCELLED"}
      [] s = "RECONCILIATION_REQUIRED" -> {"ACKNOWLEDGED", "OUTCOME_REPORTED", "CANCELLED",
                                           "PARTIALLY_COMPLETED", "COMPENSATION_REQUIRED"}
      [] s = "PARTIALLY_COMPLETED" -> {"OUTCOME_VERIFIED", "COMPENSATION_REQUIRED", "COMPLETED"}
      [] s = "COMPENSATION_REQUIRED" -> {"DISPATCH_PENDING", "CANCELLED", "COMPLETED"}
      [] OTHER -> {}]

\* What /dispatch, which always rejects, and the other endpoints ask for
Targets ==
    {"DISPATCH_REJECTED", "ACKNOWLEDGED", "OUTCOME_REPORTED", "OUTCOME_VERIFIED",
     "RECONCILIATION_REQUIRED", "CANCELLED", "COMPENSATION_REQUIRED"}

Starts(c, request) == call[c] = Idle /\ call' = [call EXCEPT ![c] = request]
Ends(c) == call' = [call EXCEPT ![c] = Idle]

-----------------------------------------------------------------------------
(* POST /v1/events *)

\* Mutant: an upsert without AND version=...
StorableAlways(s) == TRUE

\* putState updates the row of the version before, or inserts the first one.
Storable(s) == snapshot[s] \in {State(s).version, 0}

\* The journal has no event of this identity.
Unused(e) == e \notin received \cup derived

\* The projected event, which the journal passes over if it has an observation of its
\* identity.  The handler does not look at that.
Project(e, s, v) ==
    \/ /\ ProjectedId[e] \in received
       /\ UNCHANGED <<derived, projected>>
    \/ /\ ProjectedId[e] \notin received
       /\ derived' = derived \cup {ProjectedId[e]}
       /\ projected' = [projected EXCEPT ![s] =
              @ \cup {[version |-> State(s).version + 1, value |-> v]}]

\* An admitted observation: its event, the projected one and the row.
\* When the row does not have the version before, all is rolled back.
SubmitEvent(e, s, v) ==
    /\ Unused(e)
    /\ Storable(s)
    /\ received' = received \cup {e}
    /\ admitted' = admitted \cup {<<e, s>>}
    /\ Project(e, s, v)
    /\ snapshot' = [snapshot EXCEPT ![s] = State(s).version + 1]
    /\ UNCHANGED <<proposed, decided, executed, call>>

\* An observation that is restricted or rejected is only recorded.
SetAside(e) ==
    /\ Unused(e)
    /\ received' = received \cup {e}
    /\ UNCHANGED <<admitted, derived, projected, snapshot, proposed, decided, executed, call>>

-----------------------------------------------------------------------------
(* POST /v1/proposals *)

OpenProposal(c, p, s) ==
    /\ Starts(c, [Idle EXCEPT !.op = "PROPOSE", !.about = p, !.scope = s, !.seen = State(s)])
    /\ UNCHANGED <<observed, proposed, decided, executed>>

\* One that exists is answered as it is, whether it was found or met on insert.
PutProposal(c, sound, stamp) ==
    LET p == call[c].about IN
    /\ call[c].op = "PROPOSE"
    /\ proposal' = [proposal EXCEPT ![p] = Kept(@, NoProposal,
           [scope |-> call[c].scope, version |-> call[c].seen.version,
            value |-> call[c].seen.value, sound |-> sound])]
    /\ initial' = [initial EXCEPT ![p] = Kept(@, NoDecision,
           [disposition |-> Initially(sound), version |-> call[c].seen.version,
            stamp |-> stamp])]
    /\ Ends(c)
    /\ UNCHANGED <<observed, decided, executed>>

-----------------------------------------------------------------------------
(* POST /v1/reviews *)

\* No answer is kept under the client's key and nobody has reviewed.  The scope
\* is the request's, or is named by the incident: it need not be the proposal's.
OpenReview(c, p, s) ==
    /\ proposal[p] # NoProposal
    /\ record[c][p] = NoDecision
    /\ review[p] = NoReview
    /\ Starts(c, [Idle EXCEPT !.op = "REVIEW", !.about = p, !.scope = s])
    /\ UNCHANGED <<observed, proposed, decided, executed>>

\* Mutant: the state is compared with nothing.
ReadStateOnly(c) ==
    /\ call[c].op = "REVIEW"
    /\ call' = [call EXCEPT ![c].op = "STATE", ![c].seen = State(call[c].scope)]
    /\ UNCHANGED <<observed, proposed, decided, executed>>

\* The relevant values must be those the proposal was made on.
ReadState(c) ==
    /\ call[c].op = "REVIEW"
    /\ State(call[c].scope).value = proposal[call[c].about].value
    /\ call' = [call EXCEPT ![c].op = "STATE", ![c].seen = State(call[c].scope)]
    /\ UNCHANGED <<observed, proposed, decided, executed>>

\* Mutant: the decision overwrites, the rest does not.
StoredLast(p, decision) == decision

Stored(p, decision) == Kept(reviewed[p], NoDecision, decision)

\* The reviewer's membership, of which this step reads whether its limit covers
\* the cost, is changed elsewhere at any time.  The Kernel decides anew; decision,
\* review, answer and event are inserted unless a review got there first.
PutReview(c, approved, covered, stamp) ==
    LET p == call[c].about
        disposition == Reevaluated(proposal[p].sound, approved, covered)
        decision == [disposition |-> disposition, version |-> call[c].seen.version,
                     stamp |-> stamp]
    IN
    /\ call[c].op = "STATE"
    /\ reviewed' = [reviewed EXCEPT ![p] = Stored(p, decision)]
    /\ review' = [review EXCEPT ![p] = Kept(@, NoReview, [by |-> c, approved |-> approved])]
    /\ authorized' = [authorized EXCEPT ![p] = Kept(@, NoEvent,
           [by |-> c, scope |-> call[c].scope, version |-> call[c].seen.version,
            disposition |-> disposition])]
    /\ record' = [record EXCEPT ![c][p] = Kept(@, NoDecision, decision)]
    /\ Ends(c)
    /\ UNCHANGED <<observed, proposed, executed>>

-----------------------------------------------------------------------------
(* POST /v1/executions and what follows *)

Authorized(p) == Decision(p).disposition = "ALLOW"

\* One step: a decision that allows does not change.  A command that exists is
\* kept, also when the request is about another proposal; a new one must have a
\* key of its own.
Execute(k, p, x) ==
    /\ Authorized(p)
    /\ command[k] # NoCommand \/ \A j \in Commands : command[j].key # x
    /\ command' = [command EXCEPT ![k] = Kept(@, NoCommand,
           [proposal |-> p, key |-> x, authorization |-> Decision(p),
            status |-> "DISPATCH_PENDING"])]
    /\ requested' = requested \cup {<<k, p>>}
    /\ transitions' = transitions \cup
           {[command |-> k, from |-> "NONE", to |-> "DISPATCH_PENDING"]}
    /\ UNCHANGED <<observed, proposed, decided, call>>

OpenTransition(c, k) ==
    /\ command[k] # NoCommand
    /\ Starts(c, [Idle EXCEPT !.op = "TRANSITION", !.about = k, !.read = command[k].status])
    /\ UNCHANGED <<observed, proposed, decided, executed>>

\* Mutant: UPDATE without AND status=...
UpdatableAlways(c) == TRUE

\* updateExecution compares the status with the one that was read.
Updatable(c) == command[call[c].about].status = call[c].read

\* A target outside the table, or a status that has changed, raises.
CommitTransition(c, to) ==
    LET k == call[c].about IN
    /\ call[c].op = "TRANSITION"
    /\ to \in Transitions[call[c].read]
    /\ Updatable(c)
    /\ command' = [command EXCEPT ![k].status = to]
    /\ transitions' = transitions \cup {[command |-> k, from |-> call[c].read, to |-> to]}
    /\ Ends(c)
    /\ UNCHANGED <<observed, proposed, decided, requested>>

GiveUp(c) ==
    /\ call[c] # Idle
    /\ Ends(c)
    /\ UNCHANGED <<observed, proposed, decided, executed>>

-----------------------------------------------------------------------------

Init ==
    /\ received = {} /\ admitted = {} /\ derived = {}
    /\ projected = [s \in Scopes |-> {}]
    /\ snapshot = [s \in Scopes |-> 0]
    /\ proposal = [p \in Proposals |-> NoProposal]
    /\ initial = [p \in Proposals |-> NoDecision]
    /\ reviewed = [p \in Proposals |-> NoDecision]
    /\ review = [p \in Proposals |-> NoReview]
    /\ authorized = [p \in Proposals |-> NoEvent]
    /\ record = [c \in Clients |-> [p \in Proposals |-> NoDecision]]
    /\ command = [k \in Commands |-> NoCommand]
    /\ requested = {}
    /\ transitions = {}
    /\ call = [c \in Clients |-> Idle]

EventNext ==
    /\ Cardinality(received) < MaxReceived
    /\ \E e \in Events :
        \/ \E s \in Scopes, v \in Values \cup {Odd} : SubmitEvent(e, s, v)
        \/ SetAside(e)

ProposalNext ==
    \E c \in Clients :
        \/ \E p \in Proposals, s \in Scopes : OpenProposal(c, p, s)
        \/ \E sound \in BOOLEAN, stamp \in Opening : PutProposal(c, sound, stamp)

ReviewNext ==
    \E c \in Clients :
        \/ \E p \in Proposals, s \in Scopes : OpenReview(c, p, s)
        \/ ReadState(c)
        \/ \E approved, covered \in BOOLEAN, stamp \in Stamps :
               PutReview(c, approved, covered, stamp)

ExecutionNext ==
    \/ \E k \in Commands, p \in Proposals, x \in Keys : Execute(k, p, x)
    \/ \E c \in Clients :
        \/ \E k \in Commands : OpenTransition(c, k)
        \/ \E to \in Targets : CommitTransition(c, to)
        \/ GiveUp(c)

Next == EventNext \/ ProposalNext \/ ReviewNext \/ ExecutionNext

Spec == Init /\ [][Next]_vars

-----------------------------------------------------------------------------
(* Properties *)

Rows == [version : Nat \ {0}, value : Values \cup {Odd}]
Seen == [version : Nat, value : Values]
DecisionRows == [disposition : Dispositions, version : Nat, stamp : Stamps]
ProposalRows == [scope : Scopes, version : Nat, value : Values, sound : BOOLEAN]
CommandRows == [proposal : Proposals, key : Keys, authorization : DecisionRows, status : Statuses]
CallRecords ==
    [op : {"IDLE"}, about : {None}, scope : {None}, seen : {Unmoved}, read : {"NONE"}] \cup
    [op : {"PROPOSE", "REVIEW", "STATE"}, about : Proposals, scope : Scopes, seen : Seen,
     read : {"NONE"}] \cup
    [op : {"TRANSITION"}, about : Commands, scope : {None}, seen : {Unmoved}, read : Statuses]

\* Every table and every call under way keeps its type (server.ts and the
\* migrations of the control-plane API).
TypeOK ==
    /\ received \subseteq Events
    /\ admitted \subseteq Events \X Scopes
    /\ derived \subseteq Events \cup {None}
    /\ projected \in [Scopes -> SUBSET Rows]
    /\ snapshot \in [Scopes -> Nat]
    /\ proposal \in [Proposals -> ProposalRows \cup {NoProposal}]
    /\ initial \in [Proposals -> DecisionRows \cup {NoDecision}]
    /\ reviewed \in [Proposals -> DecisionRows \cup {NoDecision}]
    /\ review \in [Proposals -> [by : Clients, approved : BOOLEAN] \cup {NoReview}]
    /\ authorized \in [Proposals ->
           [by : Clients, scope : Scopes, version : Nat, disposition : Dispositions] \cup {NoEvent}]
    /\ record \in [Clients -> [Proposals -> DecisionRows \cup {NoDecision}]]
    /\ command \in [Commands -> CommandRows \cup {NoCommand}]
    /\ requested \subseteq Commands \X Proposals
    /\ transitions \subseteq [command : Commands, from : Statuses \cup {"NONE"}, to : Statuses]
    /\ call \in [Clients -> CallRecords]

\* The versions of a scope are contiguous and each is projected once; an event that the
\* projector or the journal passes over is the last there will be, and the journal
\* does so only where it has an observation of that identity; and the row of
\* state_snapshots is at the last version.  (State and row are two records of one
\* thing: the journal is replayed, the row only compared, server.ts:118-133.)
StateIsContiguous ==
    \A s \in Scopes :
        /\ \A r, q \in projected[s] : r.version = q.version => r = q
        /\ \A r \in projected[s] : /\ r.version =< snapshot[s]
                                   /\ r.value = Odd => r.version = snapshot[s]
        /\ \A v \in 1..snapshot[s] :
               \/ \E r \in projected[s] : r.version = v
               \/ v = snapshot[s] /\ \E a \in admitted : a[2] = s /\ ProjectedId[a[1]] \in received

\* The scope had the value at the version.
Had(s, version, value) ==
    \/ version = 0 /\ value = Base
    \/ [version |-> version, value |-> value] \in projected[s]

\* What was decided on can be found again (server.ts:150-191): a proposal's value
\* is that of its scope at its version; a review was decided when the scope that
\* its event names had the same value; and only an approved review of a proposal
\* with a valid model output allows anything.
DecisionsAreGrounded ==
    \A p \in Proposals :
        /\ proposal[p] # NoProposal => Had(proposal[p].scope, proposal[p].version, proposal[p].value)
        /\ reviewed[p] # NoDecision =>
               /\ Had(authorized[p].scope, authorized[p].version, proposal[p].value)
               /\ reviewed[p].version = authorized[p].version
        /\ initial[p].disposition # "ALLOW"
        /\ reviewed[p].disposition = "ALLOW" => review[p].approved /\ proposal[p].sound

\* Of two reviewers one decides, with everything (server.ts:170-196): decision,
\* review row, event and the answer kept for the reviewer are of one request.  The
\* other's answer may differ; its key then keeps a decision that is not stored.
ReviewStandsWhole ==
    \A p \in Proposals :
        /\ (proposal[p] = NoProposal) = (initial[p] = NoDecision)
        /\ (reviewed[p] = NoDecision) = (review[p] = NoReview)
        /\ (reviewed[p] = NoDecision) = (authorized[p] = NoEvent)
        /\ reviewed[p] # NoDecision =>
               /\ proposal[p] # NoProposal
               /\ review[p].by = authorized[p].by
               /\ record[review[p].by][p] = reviewed[p]
               /\ authorized[p].disposition = reviewed[p].disposition
        /\ \A c \in Clients : record[c][p] # NoDecision => reviewed[p] # NoDecision

\* A command, and every request for one in the journal, rests on the review of
\* its proposal, and no two commands share an external key (server.ts:198-206).
CommandsAreAuthorized ==
    /\ \A k \in Commands : command[k] # NoCommand =>
           /\ command[k].authorization = reviewed[command[k].proposal]
           /\ <<k, command[k].proposal>> \in requested
           /\ \A j \in Commands : command[j].key = command[k].key => j = k
    /\ \A r \in requested :
           /\ reviewed[r[2]].disposition = "ALLOW"
           /\ command[r[1]] # NoCommand

Moves(k) == {<<t.from, t.to>> : t \in {u \in transitions : u.command = k}}

\* The journal of a command's transitions tells its status: it was made once and
\* then dispatched or cancelled, not both, though both may have read it pending;
\* and shadow mode never dispatches (execution-assurance.ts:6-36).
TransitionsExplainStatus ==
    \A k \in Commands :
        \/ command[k] = NoCommand /\ Moves(k) = {}
        \/ /\ command[k].status = "DISPATCH_PENDING"
           /\ Moves(k) = {<<"NONE", "DISPATCH_PENDING">>}
        \/ /\ command[k].status \in {"DISPATCH_REJECTED", "CANCELLED"}
           /\ Moves(k) = {<<"NONE", "DISPATCH_PENDING">>, <<"DISPATCH_PENDING", command[k].status>>}

\* What is decided stands, whichever calls are still under way: a proposal, a
\* review with its decision, the authority a command rests on, the binding of a
\* command and its end (migrations of the tables; repositories.ts:168-200).
WhatIsDecidedStands ==
    [][/\ \A p \in Proposals :
            /\ proposal[p] # NoProposal =>
                   /\ proposal'[p] = proposal[p]
                   /\ initial'[p] = initial[p]
            /\ review[p] # NoReview =>
                   /\ review'[p] = review[p]
                   /\ reviewed'[p] = reviewed[p]
                   /\ authorized'[p] = authorized[p]
                   /\ Decision(p)' = Decision(p)
       /\ \A k \in Commands : command[k] # NoCommand =>
            /\ [command'[k] EXCEPT !.status = command[k].status] = command[k]
            /\ command[k].status # "DISPATCH_PENDING" => command'[k] = command[k]]_vars

\* Claimed: an admitted observation advances the state it is about
\* (src/scripts/observation-state-validation.mjs:16-17), so the row is at the
\* version that the journal replays to.
ObservationsAdvance == \A s \in Scopes : snapshot[s] = State(s).version

\* The same of the scopes all of whose projected events the projector accepts
\* (ControlPlaneTaken.cfg: it fails too, by an identity a client chose).
AcceptedAdvance ==
    \A s \in Scopes : Accepted(s) = projected[s] => snapshot[s] = State(s).version
=============================================================================
