------------------------ MODULE MechanismRegistry_proofs ------------------------
(***************************************************************************)
(* Proofs about MechanismRegistry, for any candidates, runs, reviews and   *)
(* callers.  Reviews are only added, so that approvals that were enough    *)
(* when a promotion read them are so when it writes; what is lost by the   *)
(* reads outside of the transaction is only that a rejection is seen.      *)
(***************************************************************************)
EXTENDS MechanismRegistry, FiniteSetTheorems, TLAPS

\* What a call has read: the candidate is there, and a promotion has enough approvals.
CallSound(c) ==
    /\ calls[c].op = "REVIEW" => status[calls[c].about.candidate] # "NONE"
    /\ calls[c].op \in {"CHECKED", "PROMOTE"} => status[calls[c].about] # "NONE"
    /\ calls[c].op = "CHECKED" =>
            Enough(calls[c].about, Approvals(reviews, calls[c].about))
    /\ calls[c].op = "PROMOTE" =>
            /\ calls[c].approvals \subseteq Approvals(reviews, calls[c].about)
            /\ Enough(calls[c].about, calls[c].approvals)
CallInv == \A c \in Callers : CallSound(c)

\* One review of a reviewer for a candidate, and only of candidates that are there.
ReviewInv ==
    /\ \A v, w \in reviews :
            v.candidate = w.candidate /\ v.reviewer = w.reviewer => v = w
    /\ \A v \in reviews : status[v.candidate] # "NONE"

ArtifactInv == \A k \in Candidates : Promoted(k) =>
    /\ status[k] # "NONE"
    /\ artifact[k] \subseteq Approvals(reviews, k)
    /\ Enough(k, artifact[k])

IInv ==
    TypeOK /\ CallInv /\ ReviewInv /\ ArtifactInv /\ StatusFollowsReviews
           /\ ActiveIsLastReleased

-----------------------------------------------------------------------------
(* The reviews of a candidate. *)

LEMMA Required ==
    ASSUME NEW k \in Candidates
    PROVE  /\ RequiredApprovals(k) \in Nat /\ RequiredApprovals(k) >= 1
           /\ Risk[k] # "LOW" =>
                {"DOMAIN_REVIEWER", "SAFETY_REVIEWER"} \subseteq RequiredRoles(k)
           /\ Risk[k] = "CRITICAL" => "EXECUTIVE_RISK_OWNER" \in RequiredRoles(k)
<1>1. Risk[k] \in {"LOW", "HIGH", "CRITICAL"} BY RegistryAssumption DEF RiskClasses
<1>2. CASE Risk[k] = "LOW" BY <1>2 DEF RequiredApprovals, RequiredRoles
<1>3. CASE Risk[k] = "HIGH" BY <1>3 DEF RequiredApprovals, RequiredRoles
<1>4. CASE Risk[k] = "CRITICAL" BY <1>4 DEF RequiredApprovals, RequiredRoles
<1> QED BY <1>1, <1>2, <1>3, <1>4

LEMMA NothingIsNotEnough == ASSUME NEW k \in Candidates PROVE ~Enough(k, {})
<1>1. Cardinality({}) = 0 BY FS_EmptySet
<1> QED BY <1>1, Required DEF Enough

\* More approvals are enough too.
LEMMA EnoughGrows ==
    ASSUME NEW k \in Candidates, NEW A, NEW B \in SUBSET Submissions, A \subseteq B,
           Enough(k, A)
    PROVE  Enough(k, B)
<1>1. IsFiniteSet(B) BY RegistryAssumption, FS_Subset
<1>2. IsFiniteSet(A) /\ Cardinality(A) <= Cardinality(B) BY <1>1, FS_Subset
<1>3. Cardinality(A) \in Nat /\ Cardinality(B) \in Nat BY <1>1, <1>2, FS_CardinalityType
<1>4. Cardinality(B) >= RequiredApprovals(k) BY <1>2, <1>3, Required DEF Enough
<1>5. {v.role : v \in A} \subseteq {v.role : v \in B} OBVIOUS
<1>6. UNION {v.resolves : v \in A} \subseteq UNION {v.resolves : v \in B} OBVIOUS
<1> QED BY <1>4, <1>5, <1>6 DEF Enough

LEMMA StatusOfReviews ==
    ASSUME NEW k \in Candidates, NEW R
    PROVE  /\ CandidateStatus(R, k) \in Statuses \ {"NONE", "PROMOTED"}
           /\ CandidateStatus(R, k) = "REJECTED" <=> Decided(R, k, "REJECT") # {}
           /\ CandidateStatus(R, k) = "READY_TO_PROMOTE" => Enough(k, Approvals(R, k))
BY DEF CandidateStatus, Statuses

LEMMA StatusOfNothing ==
    ASSUME NEW k \in Candidates, NEW R, \A v \in R : v.candidate # k
    PROVE  CandidateStatus(R, k) = "REGISTERED"
<1>1. \A d : Decided(R, k, d) = {} BY DEF Decided
<1>2. Approvals(R, k) = {} BY <1>1 DEF Approvals
<1>3. ~Enough(k, Approvals(R, k)) BY <1>2, NothingIsNotEnough
<1> QED BY <1>1, <1>2, <1>3 DEF CandidateStatus

\* A review of one candidate says nothing of another.
LEMMA StatusOfOthers ==
    ASSUME NEW k \in Candidates, NEW R, NEW v, v.candidate # k
    PROVE  CandidateStatus(R \cup {v}, k) = CandidateStatus(R, k)
<1>1. \A d : Decided(R \cup {v}, k, d) = Decided(R, k, d) BY DEF Decided
<1>2. Approvals(R \cup {v}, k) = Approvals(R, k) BY <1>1 DEF Approvals
<1> QED BY <1>1, <1>2 DEF CandidateStatus

LEMMA ApprovalsGrow ==
    ASSUME NEW k, NEW R, NEW S, R \subseteq S
    PROVE  Approvals(R, k) \subseteq Approvals(S, k)
BY DEF Approvals, Decided

LEMMA ApprovalsType ==
    ASSUME NEW k, NEW R \in SUBSET Submissions
    PROVE  Approvals(R, k) \in SUBSET Submissions
BY DEF Approvals, Decided

-----------------------------------------------------------------------------
(* Types. *)

LEMMA CallType ==
    /\ Idle \in CallRecords /\ Idle.op = "IDLE"
    /\ \A v \in Submissions : /\ Call("REVIEW", v, {}) \in CallRecords
                              /\ Call("REVIEW", v, {}).op = "REVIEW"
                              /\ Call("REVIEW", v, {}).about = v
    /\ \A op \in {"CHECKED", "PROMOTE"}, k \in Candidates, A \in SUBSET Submissions :
            /\ Call(op, k, A) \in CallRecords
            /\ Call(op, k, A).op = op /\ Call(op, k, A).about = k
            /\ Call(op, k, A).approvals = A
BY DEF Idle, Call, CallRecords

LEMMA CallOf ==
    ASSUME TypeOK, NEW c \in Callers
    PROVE  /\ calls[c] \in CallRecords
           /\ calls[c].op \in {"IDLE", "REVIEW", "CHECKED", "PROMOTE"}
           /\ calls[c].op = "REVIEW" =>
                /\ calls[c].about \in Submissions
                /\ calls[c].about.candidate \in Candidates
           /\ calls[c].op \in {"CHECKED", "PROMOTE"} =>
                /\ calls[c].about \in Candidates
                /\ calls[c].approvals \in SUBSET Submissions
<1>1. calls[c] \in CallRecords BY DEF TypeOK
<1>2. CASE calls[c] \in [op : {"IDLE"}, about : {None}, approvals : {{}}]
  BY <1>1, <1>2
<1>3. CASE calls[c] \in [op : {"REVIEW"}, about : Submissions, approvals : {{}}]
  BY <1>1, <1>3, RegistryAssumption
<1>4. CASE calls[c] \in [op : {"CHECKED", "PROMOTE"}, about : Candidates,
                         approvals : SUBSET Submissions]
  BY <1>1, <1>4
<1> QED BY <1>1, <1>2, <1>3, <1>4 DEF CallRecords

LEMMA ContinueType ==
    ASSUME TypeOK, NEW c \in Callers, NEW call \in CallRecords, Continues(c, call)
    PROVE  /\ calls' \in [Callers -> CallRecords] /\ calls'[c] = call
           /\ \A d \in Callers \ {c} : calls'[d] = calls[d]
BY DEF Continues, TypeOK

LEMMA EndType ==
    ASSUME TypeOK, NEW c \in Callers, Ends(c)
    PROVE  /\ calls' \in [Callers -> CallRecords] /\ calls'[c] = Idle
           /\ \A d \in Callers \ {c} : calls'[d] = calls[d]
BY ContinueType, CallType DEF Ends

-----------------------------------------------------------------------------
(* The invariant, one action at a time. *)

LEMMA InitInv == ASSUME Init PROVE IInv
<1>1. TypeOK
  <2>1. <<>> \in Seq(ChangeRecords) OBVIOUS
  <2> QED BY <2>1, CallType DEF Init, TypeOK, Statuses
<1>2. CallInv BY CallType DEF Init, CallInv, CallSound
<1>3. ReviewInv /\ ArtifactInv BY DEF Init, ReviewInv, ArtifactInv, Promoted
<1>4. StatusFollowsReviews BY DEF Init, StatusFollowsReviews
<1>5. ActiveIsLastReleased BY DEF Init, ActiveIsLastReleased, Promoted
<1> QED BY <1>1, <1>2, <1>3, <1>4, <1>5 DEF IInv

\* Steps of one call that leave the tables alone.
LEMMA CallStep ==
    ASSUME IInv, NEW c \in Callers, UNCHANGED tables,
           calls' \in [Callers -> CallRecords],
           \A d \in Callers \ {c} : calls'[d] = calls[d],
           CallSound(c)'
    PROVE  IInv'
<1>1. TypeOK' BY DEF IInv, TypeOK, tables
<1>2. CallInv'
  <2>1. \A d \in Callers \ {c} : CallSound(d)' = CallSound(d) BY DEF CallSound, tables
  <2> QED BY <2>1 DEF IInv, CallInv
<1>3. ReviewInv' /\ ArtifactInv' /\ StatusFollowsReviews' /\ ActiveIsLastReleased'
  BY DEF IInv, ReviewInv, ArtifactInv, Promoted, StatusFollowsReviews,
         ActiveIsLastReleased, LastOf, tables
<1> QED BY <1>1, <1>2, <1>3 DEF IInv

LEMMA SubmitReviewInv ==
    ASSUME IInv, NEW c \in Callers, NEW v \in Submissions, SubmitReview(c, v)
    PROVE  IInv'
<1>1. TypeOK /\ UNCHANGED tables BY DEF IInv, SubmitReview
<1>2. /\ calls' \in [Callers -> CallRecords] /\ calls'[c] = Call("REVIEW", v, {})
      /\ \A d \in Callers \ {c} : calls'[d] = calls[d]
  BY <1>1, CallType, ContinueType DEF SubmitReview, Starts
<1>3. CallSound(c)'
  BY <1>1, <1>2, CallType DEF CallSound, SubmitReview, Reviewable, tables
<1> QED BY <1>1, <1>2, <1>3, CallStep

LEMMA PromoteInv ==
    ASSUME IInv, NEW c \in Callers, NEW k \in Candidates, Promote(c, k)
    PROVE  IInv'
<1>1. TypeOK /\ UNCHANGED tables BY DEF IInv, Promote
<1>2. /\ calls' \in [Callers -> CallRecords] /\ calls'[c] = Call("CHECKED", k, {})
      /\ \A d \in Callers \ {c} : calls'[d] = calls[d]
  BY <1>1, CallType, ContinueType DEF Promote, Starts
<1>3. status[k] # "NONE" /\ Enough(k, Approvals(reviews, k))
  BY StatusOfReviews DEF Promote
<1>4. calls'[c].op = "CHECKED" /\ calls'[c].about = k BY <1>2, CallType
<1>5. CallSound(c)' BY <1>1, <1>3, <1>4 DEF CallSound, tables
<1> QED BY <1>1, <1>2, <1>5, CallStep

LEMMA PromoteReadsInv ==
    ASSUME IInv, NEW c \in Callers, PromoteReadsApprovals(c)
    PROVE  IInv'
<1> DEFINE k == calls[c].about
           A == Approvals(reviews, k)
<1>1. TypeOK /\ UNCHANGED tables /\ calls[c].op = "CHECKED"
  BY DEF IInv, PromoteReadsApprovals
<1>2. k \in Candidates /\ A \in SUBSET Submissions
  BY <1>1, CallOf, ApprovalsType DEF TypeOK
<1>3. status[k] # "NONE" /\ Enough(k, A) BY <1>1 DEF IInv, CallInv, CallSound
<1>4. Call("PROMOTE", k, A) \in CallRecords BY <1>2, CallType
<1>5. /\ calls' \in [Callers -> CallRecords] /\ calls'[c] = Call("PROMOTE", k, A)
      /\ \A d \in Callers \ {c} : calls'[d] = calls[d]
  BY <1>1, <1>4, ContinueType DEF PromoteReadsApprovals
<1>6. calls'[c].op = "PROMOTE" /\ calls'[c].about = k /\ calls'[c].approvals = A
  BY <1>2, <1>5, CallType
<1>7. CallSound(c)' BY <1>1, <1>3, <1>6 DEF CallSound, tables
<1> QED BY <1>1, <1>5, <1>7, CallStep

LEMMA AbandonInv == ASSUME IInv, NEW c \in Callers, Abandon(c) PROVE IInv'
<1>1. TypeOK /\ UNCHANGED tables BY DEF IInv, Abandon
<1>2. /\ calls' \in [Callers -> CallRecords] /\ calls'[c] = Idle
      /\ \A d \in Callers \ {c} : calls'[d] = calls[d]
  BY <1>1, EndType DEF Abandon
<1>3. CallSound(c)' BY <1>2, CallType DEF CallSound
<1> QED BY <1>1, <1>2, <1>3, CallStep

LEMMA RegisterInv == ASSUME IInv, NEW r \in Runs, RegisterCompilerRun(r) PROVE IInv'
<1>1. TypeOK /\ UNCHANGED <<reviews, artifact, active, changes, calls>>
  BY DEF IInv, RegisterCompilerRun
<1>2. \A k \in Candidates :
        status'[k] = IF k \in CandidatesOf[r] THEN "REGISTERED" ELSE status[k]
  BY DEF RegisterCompilerRun
<1>3. \A k \in Candidates : status[k] # "NONE" => status'[k] = status[k]
  BY <1>2 DEF RegisterCompilerRun
<1>4. TypeOK'
  <2>1. runs' \subseteq Runs BY <1>1 DEF RegisterCompilerRun, TypeOK
  <2>2. status' \in [Candidates -> Statuses]
    BY <1>1 DEF RegisterCompilerRun, TypeOK, Statuses
  <2> QED BY <1>1, <2>1, <2>2 DEF TypeOK
<1>5. CallInv'
  <2>1. ASSUME NEW c \in Callers PROVE CallSound(c)'
    <3>1. CallSound(c) BY DEF IInv, CallInv
    <3> QED BY <1>1, <1>3, <3>1, CallOf DEF CallSound
  <2> QED BY <2>1 DEF CallInv
<1>6. ReviewInv'
  <2>1. \A v \in reviews : v.candidate \in Candidates BY <1>1, RegistryAssumption DEF TypeOK
  <2> QED BY <1>1, <1>3, <2>1 DEF IInv, ReviewInv
<1>7. ArtifactInv' BY <1>1, <1>3 DEF IInv, ArtifactInv, Promoted
<1>8. StatusFollowsReviews'
  <2>1. ASSUME NEW k \in Candidates
        PROVE  /\ status'[k] = "NONE" <=> \A q \in runs' : k \notin CandidatesOf[q]
               /\ status'[k] \notin {"NONE", "PROMOTED"} =>
                    status'[k] = CandidateStatus(reviews, k)
               /\ status'[k] = "PROMOTED" => Promoted(k)
    <3>1. CASE k \in CandidatesOf[r]
      <4>1. status'[k] = "REGISTERED" /\ status[k] = "NONE" BY <1>2, <3>1 DEF RegisterCompilerRun
      <4>2. \A v \in reviews : v.candidate # k BY <4>1 DEF IInv, ReviewInv
      <4>3. CandidateStatus(reviews, k) = "REGISTERED" BY <4>2, StatusOfNothing
      <4> QED BY <3>1, <4>1, <4>3 DEF RegisterCompilerRun
    <3>2. CASE k \notin CandidatesOf[r]
      <4>1. status'[k] = status[k] BY <1>2, <3>2
      <4> QED BY <3>2, <4>1 DEF IInv, StatusFollowsReviews, RegisterCompilerRun
    <3> QED BY <3>1, <3>2
  <2> QED BY <1>1, <2>1 DEF StatusFollowsReviews, Promoted
<1>9. ActiveIsLastReleased'
  BY <1>1 DEF IInv, ActiveIsLastReleased, Promoted, LastOf
<1> QED BY <1>4, <1>5, <1>6, <1>7, <1>8, <1>9 DEF IInv

LEMMA ReviewWritesInv == ASSUME IInv, NEW c \in Callers, ReviewWrites(c) PROVE IInv'
<1> DEFINE v == calls[c].about
           S == reviews \cup {v}
<1>1. TypeOK /\ UNCHANGED <<runs, artifact, active, changes>> /\ calls[c].op = "REVIEW"
  BY DEF IInv, ReviewWrites
<1>2. v \in Submissions /\ v.candidate \in Candidates BY <1>1, CallOf
<1>3. status[v.candidate] # "NONE" BY <1>1 DEF IInv, CallInv, CallSound
<1>4. /\ reviews' = S
      /\ status' = [status EXCEPT ![v.candidate] = CandidateStatus(S, v.candidate)]
  BY DEF ReviewWrites, StatusAfter
<1>5. /\ status'[v.candidate] = CandidateStatus(S, v.candidate)
      /\ \A k \in Candidates \ {v.candidate} : status'[k] = status[k]
  BY <1>1, <1>2, <1>4 DEF TypeOK
<1>6. /\ calls' \in [Callers -> CallRecords] /\ calls'[c] = Idle
      /\ \A d \in Callers \ {c} : calls'[d] = calls[d]
  BY <1>1, EndType DEF ReviewWrites
<1>7. \A k \in Candidates : status[k] # "NONE" => status'[k] # "NONE"
  BY <1>2, <1>5, StatusOfReviews
<1>8. TypeOK'
  <2>1. reviews' \subseteq Submissions BY <1>1, <1>2, <1>4 DEF TypeOK
  <2>2. CandidateStatus(S, v.candidate) \in Statuses BY <1>2, StatusOfReviews
  <2>3. status' \in [Candidates -> Statuses] BY <1>1, <1>4, <2>2 DEF TypeOK
  <2> QED BY <1>1, <1>6, <2>1, <2>3 DEF TypeOK
<1>9. \A k : Approvals(reviews, k) \subseteq Approvals(S, k) BY ApprovalsGrow
<1>10. CallInv'
  <2>1. CallSound(c)' BY <1>6, CallType DEF CallSound
  <2>2. ASSUME NEW d \in Callers \ {c} PROVE CallSound(d)'
    <3>1. CallSound(d) /\ calls'[d] = calls[d] BY <1>6 DEF IInv, CallInv
    <3>2. ASSUME calls[d].op = "CHECKED"
          PROVE  Enough(calls[d].about, Approvals(S, calls[d].about))
      <4>1. calls[d].about \in Candidates BY <1>1, <3>2, CallOf
      <4>2. Approvals(S, calls[d].about) \in SUBSET Submissions
        BY <1>1, <1>2, ApprovalsType DEF TypeOK
      <4> QED BY <1>9, <3>1, <3>2, <4>1, <4>2, EnoughGrows DEF CallSound
    <3>3. calls[d].op = "PROMOTE" =>
            calls[d].approvals \subseteq Approvals(S, calls[d].about)
      BY <1>9, <3>1 DEF CallSound
    <3>4. /\ calls[d].op = "REVIEW" => calls[d].about.candidate \in Candidates
          /\ calls[d].op \in {"CHECKED", "PROMOTE"} => calls[d].about \in Candidates
      BY <1>1, CallOf
    <3> QED BY <1>4, <1>7, <3>1, <3>2, <3>3, <3>4 DEF CallSound
  <2> QED BY <2>1, <2>2 DEF CallInv
<1>11. ReviewInv'
  <2>1. \A w \in reviews : w.candidate \in Candidates BY <1>1, RegistryAssumption DEF TypeOK
  <2>2. Unreviewed(v) BY DEF ReviewWrites
  <2>3. \A w, x \in S : w.candidate = x.candidate /\ w.reviewer = x.reviewer => w = x
    BY <2>2 DEF IInv, ReviewInv, Unreviewed
  <2>4. \A w \in S : status'[w.candidate] # "NONE"
    BY <1>2, <1>3, <1>7, <2>1 DEF IInv, ReviewInv
  <2> QED BY <1>4, <2>3, <2>4 DEF ReviewInv
<1>12. ArtifactInv'
  BY <1>1, <1>4, <1>7, <1>9 DEF IInv, ArtifactInv, Promoted
<1>13. StatusFollowsReviews'
  <2>1. ASSUME NEW k \in Candidates
        PROVE  /\ status'[k] = "NONE" <=> \A q \in runs : k \notin CandidatesOf[q]
               /\ status'[k] \notin {"NONE", "PROMOTED"} => status'[k] = CandidateStatus(S, k)
               /\ status'[k] = "PROMOTED" => Promoted(k)
    <3>1. CASE k = v.candidate
      <4>1. status'[k] \notin {"NONE", "PROMOTED"} BY <1>2, <1>5, <3>1, StatusOfReviews
      <4> QED BY <1>3, <1>5, <3>1, <4>1 DEF IInv, StatusFollowsReviews
    <3>2. CASE k # v.candidate
      <4>1. CandidateStatus(S, k) = CandidateStatus(reviews, k) BY <3>2, StatusOfOthers
      <4> QED BY <1>5, <3>2, <4>1 DEF IInv, StatusFollowsReviews
    <3> QED BY <3>1, <3>2
  <2> QED BY <1>1, <1>4, <2>1 DEF StatusFollowsReviews, Promoted
<1>14. ActiveIsLastReleased'
  BY <1>1 DEF IInv, ActiveIsLastReleased, Promoted, LastOf
<1> QED BY <1>8, <1>10, <1>11, <1>12, <1>13, <1>14 DEF IInv

\* An audit event for k makes k the active version of its mechanism.
LEMMA ReleaseInv ==
    ASSUME TypeOK, ActiveIsLastReleased, NEW k \in Candidates,
           NEW e \in ChangeRecords, e.candidate = k,
           changes' = Append(changes, e), active' = Activate(k),
           \A j \in Candidates : Promoted(j)' <=> Promoted(j) \/ j = k,
           Promoted(k) \/ VersionIsNew(k)
    PROVE  ActiveIsLastReleased'
<1> DEFINE last == Len(changes) + 1
<1>1. /\ changes \in Seq(ChangeRecords) /\ Len(changes) \in Nat
      /\ DOMAIN changes = 1 .. Len(changes) /\ DOMAIN changes' = 1 .. last
      /\ \A i \in 1 .. Len(changes) : changes'[i] = changes[i]
      /\ changes'[last] = e
  BY DEF TypeOK
<1>2. ASSUME NEW j \in Candidates
      PROVE  j \in active' <=> \E i \in DOMAIN changes' :
                changes'[i].candidate = j /\ LastOf(i)'
  <2>1. CASE j = k
    <3>1. last \in DOMAIN changes' /\ changes'[last].candidate = j BY <1>1, <2>1
    <3>2. LastOf(last)' BY <1>1 DEF LastOf
    <3>3. j \in active' BY <2>1 DEF Activate
    <3>4. \E i \in DOMAIN changes' : changes'[i].candidate = j /\ LastOf(i)'
      BY <3>1, <3>2 DEF LastOf
    <3> QED BY <3>3, <3>4
  <2>2. CASE j # k /\ Mechanism[j] = Mechanism[k]
    <3>1. j \notin active' BY <2>2 DEF Activate, OfSameMechanism
    <3>2. ASSUME NEW i \in DOMAIN changes', changes'[i].candidate = j, LastOf(i)'
          PROVE  FALSE
      <4>1. i # last BY <1>1, <2>2, <3>2
      <4>2. last > i BY <1>1, <4>1
      <4>3. Mechanism[changes'[last].candidate] # Mechanism[changes'[i].candidate]
        BY <1>1, <3>2, <4>2 DEF LastOf
      <4> QED BY <1>1, <2>2, <3>2, <4>3
    <3> QED BY <3>1, <3>2
  <2>3. CASE Mechanism[j] # Mechanism[k]
    <3>1. j # k BY <2>3
    <3>2. j \in active' <=> j \in active BY <2>3, <3>1 DEF Activate, OfSameMechanism
    <3>3. ASSUME NEW i \in 1 .. Len(changes), changes[i].candidate = j
          PROVE  LastOf(i)' <=> LastOf(i)
      <4>1. Mechanism[changes'[last].candidate] # Mechanism[changes'[i].candidate]
        BY <1>1, <2>3, <3>3
      <4> QED BY <1>1, <4>1 DEF LastOf
    <3>4. (\E i \in DOMAIN changes' : changes'[i].candidate = j /\ LastOf(i)')
            <=> \E i \in DOMAIN changes : changes[i].candidate = j /\ LastOf(i)
      <4>1. \A i \in DOMAIN changes' : changes'[i].candidate = j => i \in 1 .. Len(changes)
        BY <1>1, <3>1
      <4>2. \A i \in DOMAIN changes : i \in DOMAIN changes' BY <1>1
      <4> QED BY <1>1, <3>3, <4>1, <4>2
    <3> QED BY <3>2, <3>4 DEF ActiveIsLastReleased
  <2> QED BY <2>1, <2>2, <2>3
<1>3. ASSUME NEW j \in Candidates
      PROVE  Promoted(j)' <=> \E i \in DOMAIN changes' : changes'[i].candidate = j
  <2>1. Promoted(j) <=> \E i \in DOMAIN changes : changes[i].candidate = j
    BY DEF ActiveIsLastReleased
  <2>2. (\E i \in DOMAIN changes' : changes'[i].candidate = j)
            <=> j = k \/ \E i \in DOMAIN changes : changes[i].candidate = j
    <3>1. \A i \in DOMAIN changes' : i = last \/ i \in 1 .. Len(changes) BY <1>1
    <3>2. last \in DOMAIN changes' /\ DOMAIN changes \subseteq DOMAIN changes' BY <1>1
    <3> QED BY <1>1, <3>1, <3>2
  <2> QED BY <2>1, <2>2
<1>4. ASSUME NEW i \in Candidates, NEW j \in OfSameMechanism(i) \ {i},
             Promoted(i)', Promoted(j)'
      PROVE  Version[j] # Version[i]
  <2>1. j \in Candidates /\ Mechanism[j] = Mechanism[i] /\ i \in OfSameMechanism(j) \ {j}
    BY <1>4 DEF OfSameMechanism
  <2>2. CASE i # k /\ j # k BY <1>4, <2>1, <2>2 DEF ActiveIsLastReleased
  <2>3. CASE Promoted(k)
    <3>1. Promoted(i) /\ Promoted(j) BY <1>4, <2>1, <2>3
    <3> QED BY <1>4, <3>1 DEF ActiveIsLastReleased
  <2>4. CASE VersionIsNew(k) /\ i = k /\ ~Promoted(k)
    <3>1. Promoted(j) BY <1>4, <2>1, <2>4
    <3> QED BY <1>4, <2>4, <3>1 DEF VersionIsNew
  <2>5. CASE VersionIsNew(k) /\ j = k /\ ~Promoted(k)
    <3>1. Promoted(i) /\ i \in OfSameMechanism(k) BY <1>4, <2>1, <2>5
    <3> QED BY <2>5, <3>1 DEF VersionIsNew
  <2> QED BY <2>2, <2>3, <2>4, <2>5
<1> QED BY <1>2, <1>3, <1>4 DEF ActiveIsLastReleased

LEMMA PromoteWritesInv == ASSUME IInv, NEW c \in Callers, PromoteWrites(c) PROVE IInv'
<1> DEFINE k == calls[c].about
           A == calls[c].approvals
           e == [event |-> "MECHANISM_PROMOTED", candidate |-> k]
<1>1. TypeOK /\ UNCHANGED <<runs, reviews>> /\ calls[c].op = "PROMOTE"
  BY DEF IInv, PromoteWrites
<1>2. k \in Candidates /\ A \in SUBSET Submissions BY <1>1, CallOf
<1>3. status[k] # "NONE" /\ A \subseteq Approvals(reviews, k) /\ Enough(k, A)
  BY <1>1 DEF IInv, CallInv, CallSound
<1>4. A # {} BY <1>2, <1>3, NothingIsNotEnough
<1>5. /\ artifact'[k] = A /\ status'[k] = "PROMOTED"
      /\ \A j \in Candidates \ {k} : artifact'[j] = artifact[j] /\ status'[j] = status[j]
  BY <1>1, <1>2 DEF PromoteWrites, TypeOK
<1>6. /\ calls' \in [Callers -> CallRecords] /\ calls'[c] = Idle
      /\ \A d \in Callers \ {c} : calls'[d] = calls[d]
  BY <1>1, EndType DEF PromoteWrites
<1>7. e \in ChangeRecords /\ e.candidate = k BY <1>2 DEF ChangeRecords
<1>8. VersionIsNew(k) /\ active' = Activate(k) /\ changes' = Append(changes, e)
  BY DEF PromoteWrites
<1>9. \A j \in Candidates : status[j] # "NONE" => status'[j] # "NONE" BY <1>5
<1>10. TypeOK'
  <2>1. artifact' \in [Candidates -> SUBSET Submissions]
    BY <1>1, <1>2 DEF PromoteWrites, TypeOK
  <2>2. status' \in [Candidates -> Statuses] BY <1>1 DEF PromoteWrites, TypeOK, Statuses
  <2>3. active' \subseteq Candidates BY <1>1, <1>2, <1>8 DEF Activate, TypeOK
  <2>4. changes' \in Seq(ChangeRecords) BY <1>1, <1>7, <1>8 DEF TypeOK
  <2> QED BY <1>1, <1>6, <2>1, <2>2, <2>3, <2>4 DEF TypeOK
<1>11. CallInv'
  <2>1. CallSound(c)' BY <1>6, CallType DEF CallSound
  <2>2. ASSUME NEW d \in Callers \ {c} PROVE CallSound(d)'
    <3>1. CallSound(d) /\ calls'[d] = calls[d] BY <1>6 DEF IInv, CallInv
    <3>2. /\ calls[d].op = "REVIEW" => calls[d].about.candidate \in Candidates
          /\ calls[d].op \in {"CHECKED", "PROMOTE"} => calls[d].about \in Candidates
      BY <1>1, CallOf
    <3> QED BY <1>1, <1>9, <3>1, <3>2 DEF CallSound
  <2> QED BY <2>1, <2>2 DEF CallInv
<1>12. ReviewInv'
  <2>1. \A w \in reviews : w.candidate \in Candidates BY <1>1, RegistryAssumption DEF TypeOK
  <2> QED BY <1>1, <1>9, <2>1 DEF IInv, ReviewInv
<1>13. ArtifactInv'
  <2>1. ASSUME NEW j \in Candidates, Promoted(j)'
        PROVE  /\ status'[j] # "NONE" /\ artifact'[j] \subseteq Approvals(reviews, j)
               /\ Enough(j, artifact'[j])
    <3>1. CASE j = k BY <1>3, <1>5, <3>1
    <3>2. CASE j # k BY <1>5, <2>1, <3>2 DEF IInv, ArtifactInv, Promoted
    <3> QED BY <3>1, <3>2
  <2> QED BY <1>1, <2>1 DEF ArtifactInv
<1>14. StatusFollowsReviews'
  <2>1. ASSUME NEW j \in Candidates
        PROVE  /\ status'[j] = "NONE" <=> \A q \in runs : j \notin CandidatesOf[q]
               /\ status'[j] \notin {"NONE", "PROMOTED"} =>
                    status'[j] = CandidateStatus(reviews, j)
               /\ status'[j] = "PROMOTED" => artifact'[j] # {}
    <3>1. CASE j = k BY <1>3, <1>4, <1>5, <3>1 DEF IInv, StatusFollowsReviews
    <3>2. CASE j # k BY <1>5, <3>2 DEF IInv, StatusFollowsReviews, Promoted
    <3> QED BY <3>1, <3>2
  <2> QED BY <1>1, <2>1 DEF StatusFollowsReviews, Promoted
<1>15. ActiveIsLastReleased'
  <2>1. \A j \in Candidates : Promoted(j)' <=> Promoted(j) \/ j = k
    BY <1>4, <1>5 DEF Promoted
  <2>2. ActiveIsLastReleased BY DEF IInv
  <2> HIDE DEF e, k
  <2> QED BY <1>1, <1>2, <1>7, <1>8, <2>1, <2>2, ReleaseInv
<1> QED BY <1>10, <1>11, <1>12, <1>13, <1>14, <1>15 DEF IInv

LEMMA RollbackInv == ASSUME IInv, NEW k \in Candidates, Rollback(k) PROVE IInv'
<1> DEFINE e == [event |-> "MECHANISM_ROLLED_BACK", candidate |-> k]
<1>1. TypeOK /\ UNCHANGED <<runs, status, reviews, artifact, calls>> /\ Promoted(k)
  BY DEF IInv, Rollback
<1>2. e \in ChangeRecords /\ e.candidate = k BY DEF ChangeRecords
<1>3. active' = Activate(k) /\ changes' = Append(changes, e) BY DEF Rollback
<1>4. TypeOK'
  <2>1. active' \subseteq Candidates BY <1>1, <1>3 DEF Activate, TypeOK
  <2>2. changes' \in Seq(ChangeRecords) BY <1>1, <1>2, <1>3 DEF TypeOK
  <2> QED BY <1>1, <2>1, <2>2 DEF TypeOK
<1>5. CallInv' BY <1>1 DEF IInv, CallInv, CallSound
<1>6. ReviewInv' /\ ArtifactInv' BY <1>1 DEF IInv, ReviewInv, ArtifactInv, Promoted
<1>7. StatusFollowsReviews' BY <1>1 DEF IInv, StatusFollowsReviews, Promoted
<1>8. ActiveIsLastReleased'
  <2>1. \A j \in Candidates : Promoted(j)' <=> Promoted(j) \/ j = k BY <1>1 DEF Promoted
  <2>2. ActiveIsLastReleased BY DEF IInv
  <2> HIDE DEF e
  <2> QED BY <1>1, <1>2, <1>3, <2>1, <2>2, ReleaseInv
<1> QED BY <1>4, <1>5, <1>6, <1>7, <1>8 DEF IInv

LEMMA Invariance == IInv /\ [Next]_vars => IInv'
<1> SUFFICES ASSUME IInv, [Next]_vars PROVE IInv' OBVIOUS
<1>1. CASE UNCHANGED vars
  BY <1>1 DEF vars, tables, IInv, TypeOK, CallInv, CallSound, ReviewInv, ArtifactInv,
              Promoted, StatusFollowsReviews, ActiveIsLastReleased, LastOf
<1>2. ASSUME NEW r \in Runs, RegisterCompilerRun(r) PROVE IInv' BY <1>2, RegisterInv
<1>3. ASSUME NEW k \in Candidates, Rollback(k) PROVE IInv' BY <1>3, RollbackInv
<1>4. ASSUME NEW c \in Callers, CallNext(c) PROVE IInv'
  <2>1. ASSUME NEW v \in Submissions, SubmitReview(c, v) PROVE IInv'
    BY <2>1, SubmitReviewInv
  <2>2. ASSUME NEW k \in Candidates, Promote(c, k) PROVE IInv' BY <2>2, PromoteInv
  <2>3. CASE ReviewWrites(c) BY <2>3, ReviewWritesInv
  <2>4. CASE PromoteReadsApprovals(c) BY <2>4, PromoteReadsInv
  <2>5. CASE PromoteWrites(c) BY <2>5, PromoteWritesInv
  <2>6. CASE Abandon(c) BY <2>6, AbandonInv
  <2> QED BY <1>4, <2>1, <2>2, <2>3, <2>4, <2>5, <2>6 DEF CallNext
<1> QED BY <1>1, <1>2, <1>3, <1>4 DEF Next

LEMMA Invariant == Spec => []IInv
BY InitInv, Invariance, PTL DEF Spec

-----------------------------------------------------------------------------
(* The theorems. *)

\* The tables and the calls keep their types, whatever the handlers do.
THEOREM TypeCorrect == Spec => []TypeOK
<1>1. IInv => TypeOK BY DEF IInv
<1> QED BY <1>1, Invariant, PTL

\* The status of a candidate that is not promoted is what its reviews say
\* (_candidate_status in the transaction of submit_review).
THEOREM StatusIsComputed == Spec => []StatusFollowsReviews
<1>1. IInv => StatusFollowsReviews BY DEF IInv
<1> QED BY <1>1, Invariant, PTL

\* Enough approvals are those of different people in every role that is needed,
\* because a reviewer has one review of a candidate.
LEMMA EnoughIsFourEyes == IInv => PromotedIsApproved
<1> SUFFICES ASSUME IInv, NEW k \in Candidates, Promoted(k)
    PROVE  /\ artifact[k] \subseteq Approvals(reviews, k)
           /\ \A q \in Conflicts[k] : \E v \in artifact[k] : q \in v.resolves
           /\ Risk[k] # "LOW" =>
                \E d \in Approver(k, "DOMAIN_REVIEWER"), s \in Approver(k, "SAFETY_REVIEWER") :
                    /\ d # s
                    /\ Risk[k] = "CRITICAL" =>
                        \E x \in Approver(k, "EXECUTIVE_RISK_OWNER") : x \notin {d, s}
  BY DEF PromotedIsApproved
<1>1. artifact[k] \subseteq Approvals(reviews, k) /\ Enough(k, artifact[k])
  BY DEF IInv, ArtifactInv
<1>2. \A q \in Conflicts[k] : \E v \in artifact[k] : q \in v.resolves
  BY <1>1 DEF Enough
<1>3. \A v \in artifact[k] : v \in reviews /\ v.candidate = k
  BY <1>1 DEF Approvals, Decided
<1>4. \A v, w \in artifact[k] : v.role # w.role => v.reviewer # w.reviewer
  BY <1>3 DEF IInv, ReviewInv
<1>5. \A role \in RequiredRoles(k) : \E v \in artifact[k] : v.role = role
  BY <1>1 DEF Enough
<1>6. ASSUME Risk[k] # "LOW"
      PROVE  \E d \in Approver(k, "DOMAIN_REVIEWER"), s \in Approver(k, "SAFETY_REVIEWER") :
                /\ d # s
                /\ Risk[k] = "CRITICAL" =>
                    \E x \in Approver(k, "EXECUTIVE_RISK_OWNER") : x \notin {d, s}
  <2>1. PICK v \in artifact[k] : v.role = "DOMAIN_REVIEWER" BY <1>5, <1>6, Required
  <2>2. PICK w \in artifact[k] : w.role = "SAFETY_REVIEWER" BY <1>5, <1>6, Required
  <2>3. /\ v.reviewer \in Approver(k, "DOMAIN_REVIEWER")
        /\ w.reviewer \in Approver(k, "SAFETY_REVIEWER")
    BY <2>1, <2>2 DEF Approver
  <2>4. v.reviewer # w.reviewer BY <1>4, <2>1, <2>2
  <2>5. ASSUME Risk[k] = "CRITICAL"
        PROVE  \E x \in Approver(k, "EXECUTIVE_RISK_OWNER") : x \notin {v.reviewer, w.reviewer}
    <3>1. PICK u \in artifact[k] : u.role = "EXECUTIVE_RISK_OWNER"
      BY <1>5, <2>5, Required
    <3>2. u.reviewer \in Approver(k, "EXECUTIVE_RISK_OWNER") BY <3>1 DEF Approver
    <3>3. u.reviewer \notin {v.reviewer, w.reviewer} BY <1>4, <2>1, <2>2, <3>1
    <3> QED BY <3>2, <3>3
  <2> QED BY <2>3, <2>4, <2>5
<1> QED BY <1>1, <1>2, <1>6

\* A promoted mechanism has the approvals that its risk class asks for, of different
\* people, and every conflict resolved, whatever runs beside its promotion (promote).
THEOREM ApprovedByEnough == Spec => []PromotedIsApproved
BY EnoughIsFourEyes, Invariant, PTL

\* The active version is the one of the last audit event (promote, rollback).
THEOREM ActiveIsAudited == Spec => []ActiveIsLastReleased
<1>1. IInv => ActiveIsLastReleased BY DEF IInv
<1> QED BY <1>1, Invariant, PTL

-----------------------------------------------------------------------------
(* What a step may do to a candidate that was decided. *)

VerdictStays(k) ==
    /\ Promoted(k) => artifact'[k] = artifact[k]
    /\ status[k] \in {"PROMOTED", "REJECTED"} /\ (\A c \in Callers : ~Reviewing(c, k)) =>
        /\ ReviewsOf(k)' = ReviewsOf(k)
        /\ \A c \in Callers : ~Reviewing(c, k)'
        /\ status[k] = "PROMOTED" => status'[k] = "PROMOTED"
    /\ Decided(reviews, k, "REJECT") # {} /\ (\A c \in Callers : ~Promoting(c, k)) =>
        /\ artifact'[k] = artifact[k]
        /\ \A c \in Callers : ~Promoting(c, k)'

\* A step of one call that is about k afterwards only where it may be.
LEMMA CallsStay ==
    ASSUME TypeOK, NEW c \in Callers, NEW k \in Candidates,
           artifact' = artifact, status' = status, reviews' = reviews,
           \A d \in Callers \ {c} : calls'[d] = calls[d],
           Reviewing(c, k)' => Reviewing(c, k) \/ status[k] \notin {"PROMOTED", "REJECTED"},
           Promoting(c, k)' => Promoting(c, k) \/ Decided(reviews, k, "REJECT") = {}
    PROVE  VerdictStays(k)
<1>1. \A d \in Callers \ {c} : /\ Reviewing(d, k)' <=> Reviewing(d, k)
                               /\ Promoting(d, k)' <=> Promoting(d, k)
  BY DEF Reviewing, Promoting
<1> QED BY <1>1 DEF VerdictStays, ReviewsOf

LEMMA TablesStay ==
    ASSUME NEW k \in Candidates, UNCHANGED <<artifact, reviews, calls>>,
           status[k] # "NONE" => status'[k] = status[k]
    PROVE  VerdictStays(k)
BY DEF VerdictStays, ReviewsOf, Reviewing, Promoting

LEMMA StepKeepsVerdict ==
    ASSUME IInv, Next, NEW k \in Candidates
    PROVE  VerdictStays(k)
<1> USE DEF Reviewing, Promoting
<1>1. TypeOK BY DEF IInv
<1>2. ASSUME NEW r \in Runs, RegisterCompilerRun(r) PROVE VerdictStays(k)
  BY <1>2, TablesStay DEF RegisterCompilerRun
<1>3. ASSUME NEW j \in Candidates, Rollback(j) PROVE VerdictStays(k)
  BY <1>3, TablesStay DEF Rollback
<1>4. ASSUME NEW c \in Callers, NEW v \in Submissions, SubmitReview(c, v)
      PROVE  VerdictStays(k)
  <2>1. /\ calls'[c] = Call("REVIEW", v, {})
        /\ \A d \in Callers \ {c} : calls'[d] = calls[d]
    BY <1>1, <1>4, CallType, ContinueType DEF SubmitReview, Starts
  <2>2. calls'[c].op = "REVIEW" /\ calls'[c].about = v BY <2>1, CallType
  <2> QED BY <1>1, <1>4, <2>1, <2>2, CallsStay DEF SubmitReview, Reviewable, tables
<1>5. ASSUME NEW c \in Callers, NEW j \in Candidates, Promote(c, j)
      PROVE  VerdictStays(k)
  <2>1. /\ calls'[c] = Call("CHECKED", j, {})
        /\ \A d \in Callers \ {c} : calls'[d] = calls[d]
    BY <1>1, <1>5, CallType, ContinueType DEF Promote, Starts
  <2>2. calls'[c].op = "CHECKED" /\ calls'[c].about = j BY <2>1, CallType
  <2>3. Decided(reviews, j, "REJECT") = {} BY <1>5, StatusOfReviews DEF Promote
  <2> QED BY <1>1, <1>5, <2>1, <2>2, <2>3, CallsStay DEF Promote, tables
<1>6. ASSUME NEW c \in Callers, PromoteReadsApprovals(c) PROVE VerdictStays(k)
  <2> DEFINE j == calls[c].about
             A == Approvals(reviews, j)
  <2>1. j \in Candidates /\ A \in SUBSET Submissions
    BY <1>1, <1>6, CallOf, ApprovalsType DEF TypeOK, PromoteReadsApprovals
  <2>2. /\ calls'[c] = Call("PROMOTE", j, A)
        /\ \A d \in Callers \ {c} : calls'[d] = calls[d]
    BY <1>1, <1>6, <2>1, CallType, ContinueType DEF PromoteReadsApprovals
  <2>3. calls'[c].op = "PROMOTE" /\ calls'[c].about = j BY <2>1, <2>2, CallType
  <2> QED BY <1>1, <1>6, <2>2, <2>3, CallsStay DEF PromoteReadsApprovals, tables
<1>7. ASSUME NEW c \in Callers, Abandon(c) PROVE VerdictStays(k)
  <2>1. calls'[c] = Idle /\ \A d \in Callers \ {c} : calls'[d] = calls[d]
    BY <1>1, <1>7, EndType DEF Abandon
  <2> QED BY <1>1, <1>7, <2>1, CallType, CallsStay DEF Abandon, tables
<1>8. ASSUME NEW c \in Callers, ReviewWrites(c) PROVE VerdictStays(k)
  <2> DEFINE v == calls[c].about
  <2>1. calls'[c].op = "IDLE" /\ \A d \in Callers \ {c} : calls'[d] = calls[d]
    BY <1>1, <1>8, CallType, EndType DEF ReviewWrites
  <2>2. artifact' = artifact /\ calls[c].op = "REVIEW" BY <1>8 DEF ReviewWrites
  <2>3. \A d \in Callers : /\ Reviewing(d, k)' => Reviewing(d, k)
                           /\ Promoting(d, k)' => Promoting(d, k)
    BY <2>1
  <2>4. v.candidate # k => ReviewsOf(k)' = ReviewsOf(k) /\ status'[k] = status[k]
    BY <1>1, <1>8 DEF ReviewWrites, ReviewsOf, TypeOK
  <2> QED BY <2>2, <2>3, <2>4 DEF VerdictStays
<1>9. ASSUME NEW c \in Callers, PromoteWrites(c) PROVE VerdictStays(k)
  <2> DEFINE j == calls[c].about
  <2>1. calls'[c].op = "IDLE" /\ \A d \in Callers \ {c} : calls'[d] = calls[d]
    BY <1>1, <1>9, CallType, EndType DEF PromoteWrites
  <2>2. reviews' = reviews /\ calls[c].op = "PROMOTE" /\ j \in Candidates
    BY <1>1, <1>9, CallOf DEF PromoteWrites
  <2>3. \A d \in Callers : /\ Reviewing(d, k)' => Reviewing(d, k)
                           /\ Promoting(d, k)' => Promoting(d, k)
    BY <2>1
  <2>4. /\ k # j => artifact'[k] = artifact[k] /\ status'[k] = status[k]
        /\ k = j => status'[k] = "PROMOTED"
    BY <1>1, <1>9 DEF PromoteWrites, TypeOK
  <2>5. ~Promoted(j) BY <1>9, <2>2 DEF PromoteWrites, VersionIsNew, OfSameMechanism
  <2>6. ReviewsOf(k)' = ReviewsOf(k) BY <2>2 DEF ReviewsOf
  <2> QED BY <2>2, <2>3, <2>4, <2>5, <2>6 DEF VerdictStays
<1> QED BY <1>2, <1>3, <1>4, <1>5, <1>6, <1>7, <1>8, <1>9 DEF Next, CallNext

\* A candidate that was promoted or rejected stays so, but for the calls that were
\* on their way (the guards of submit_review and promote).
THEOREM VerdictsAreFinal == Spec => VerdictIsFinal
<1> DEFINE Stay == \A k \in Candidates : VerdictStays(k)
<1>1. IInv /\ [Next]_vars => [Stay]_vars BY StepKeepsVerdict
<1>2. [Stay]_vars => [\A k \in Candidates :
        /\ Promoted(k) => artifact'[k] = artifact[k]
        /\ status[k] \in {"PROMOTED", "REJECTED"} /\ (\A c \in Callers : ~Reviewing(c, k)) =>
            /\ ReviewsOf(k)' = ReviewsOf(k)
            /\ \A c \in Callers : ~Reviewing(c, k)'
            /\ status[k] = "PROMOTED" => status'[k] = "PROMOTED"
        /\ Decided(reviews, k, "REJECT") # {} /\ (\A c \in Callers : ~Promoting(c, k)) =>
            /\ artifact'[k] = artifact[k]
            /\ \A c \in Callers : ~Promoting(c, k)']_vars
  BY DEF VerdictStays
<1> QED BY <1>1, <1>2, Invariant, PTL DEF Spec, VerdictIsFinal

=============================================================================
