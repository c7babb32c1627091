-------------------------- MODULE WorldOutbox_proofs --------------------------
(***************************************************************************)
(* Proofs about WorldOutbox, for any messages, workers, limits and bounds. *)
(* Seen from one message, every transaction leaves it alone, enqueues it,  *)
(* claims it, ends its claim, or does the last two at once; the audit      *)
(* explains the row after each.  IInv adds that claims in memory are of    *)
(* messages that exist, and that what counts as handled had an effect.     *)
(* Budget counts effects against the expiries that the audit shows.        *)
(***************************************************************************)
EXTENDS WorldOutbox, SequenceTheorems, FiniteSetTheorems, TLAPS

HandsMatch ==
    \A w \in Workers : \A d \in hand[w] :
        /\ row[d.message].status # "NONE"
        /\ d.handled => effects[d.message] > 0

DeliveredWasHandled ==
    \A m \in Messages : row[m].status = "DELIVERED" => effects[m] > 0

IInv == TypeOK /\ AuditExplainsRow /\ HandsMatch /\ DeliveredWasHandled

-----------------------------------------------------------------------------
(* The audit of one message, one entry at a time. *)

\* The status in which each audit action leaves a row.
EndStatus(action) ==
    IF action \in {"LEASE_EXPIRED", "RETRY_SCHEDULED"} THEN "PENDING" ELSE action

\* An audit in which the last entry is a claim, and only then, has odd length.
LEMMA LeasedIsOdd ==
    ASSUME NEW a \in Seq(AuditRows), NEW r \in MessageRows, Explains(a, r)
    PROVE  /\ r.status = "LEASED" => Len(a) % 2 = 1
           /\ r.status # "LEASED" => Len(a) % 2 = 0
           /\ r.status = "PENDING" /\ a # <<>> =>
                a[Len(a)].action \notin {"DELIVERED", "DEAD"}
  <1>1. Len(a) \in Nat /\ DOMAIN a = 1 .. Len(a)
    BY LenProperties
  <1>2. CASE a = <<>>
    BY <1>1, <1>2 DEF Explains, StatusAfter
  <1>3. CASE a # <<>>
    <2>1. Len(a) \in 1 .. Len(a)
      BY <1>1, <1>3, EmptySeq
    <2>2. a[Len(a)] \in AuditRows
      BY <2>1, ElementOfSeq
    <2>3. IF Len(a) % 2 = 1 THEN a[Len(a)].action = "CLAIMED"
                            ELSE a[Len(a)].action # "CLAIMED"
      BY <1>1, <2>1 DEF Explains
    <2>4. r.status \in StatusAfter(a)
      BY DEF Explains
    <2> QED
      BY <1>1, <1>3, <2>2, <2>3, <2>4 DEF StatusAfter, AuditRows, AuditActions
  <1> QED BY <1>2, <1>3

\* A claim of a pending message.
LEMMA ClaimExplained ==
    ASSUME NEW a \in Seq(AuditRows), NEW r \in MessageRows, Explains(a, r),
           r.status = "PENDING", NEW w \in Workers
    PROVE  Explains(Append(a, Entry("CLAIMED", w)), Leased(r, w))
  <1> DEFINE b == Append(a, Entry("CLAIMED", w))
             s == Leased(r, w)
  <1>1. Len(a) \in Nat /\ DOMAIN a = 1 .. Len(a)
    BY LenProperties
  <1>2. /\ Len(b) = Len(a) + 1
        /\ DOMAIN b = 1 .. Len(a) + 1
        /\ \A i \in 1 .. Len(a) : b[i] = a[i]
        /\ b[Len(a) + 1] = [action |-> "CLAIMED", worker |-> w]
    BY <1>1 DEF Entry
  <1>3. s.status = "LEASED" /\ s.owner = w /\ s.attempts = r.attempts + 1
    BY DEF Leased, MessageRows
  <1>4. Len(a) % 2 = 0
    BY LeasedIsOdd
  <1>5. ASSUME NEW i \in 1 .. Len(a) + 1
        PROVE  IF i % 2 = 1
                 THEN b[i].action = "CLAIMED"
                 ELSE /\ b[i].action # "CLAIMED"
                      /\ b[i].worker = b[i - 1].worker
                      /\ b[i].action \in {"DELIVERED", "DEAD"} => i = Len(b)
    <2>1. CASE i = Len(a) + 1
      <3>1. i % 2 = 1
        BY <1>1, <1>4, <2>1
      <3>2. b[i] = [action |-> "CLAIMED", worker |-> w]
        BY <1>2, <2>1
      <3> HIDE DEF b
      <3> QED BY <3>1, <3>2
    <2>2. CASE i \in 1 .. Len(a)
      <3>1. IF i % 2 = 1
              THEN a[i].action = "CLAIMED"
              ELSE /\ a[i].action # "CLAIMED"
                   /\ a[i].worker = a[i - 1].worker
                   /\ a[i].action \in {"DELIVERED", "DEAD"} => i = Len(a)
        BY <1>1, <2>2 DEF Explains
      <3>2. a # <<>>
        BY <1>1, <2>2, EmptySeq
      <3>3. a[Len(a)].action \notin {"DELIVERED", "DEAD"}
        BY <3>2, LeasedIsOdd
      <3>4. b[i] = a[i] /\ (i % 2 # 1 => b[i - 1] = a[i - 1])
        BY <1>1, <1>2, <2>2
      <3> HIDE DEF b
      <3> QED BY <3>1, <3>3, <3>4
    <2> QED BY <1>1, <2>1, <2>2
  <1>6. b # <<>>
    BY <1>1, <1>2, EmptySeq
  <1>7. r.attempts = (Len(a) + 1) \div 2
    BY DEF Explains
  <1> HIDE DEF b, s
  <1>8. s.status \in StatusAfter(b)
    BY <1>2, <1>3, <1>6 DEF StatusAfter
  <1>9. s.attempts = (Len(b) + 1) \div 2
    BY <1>1, <1>2, <1>3, <1>4, <1>7
  <1>10. s.owner = b[Len(b)].worker
    BY <1>2, <1>3
  <1>11. Explains(b, s)
    BY <1>2, <1>5, <1>8, <1>9, <1>10 DEF Explains
  <1> QED BY <1>11 DEF b, s

\* The end of a claim, in the name of the worker that made it.
LEMMA EndExplained ==
    ASSUME NEW a \in Seq(AuditRows), NEW r \in MessageRows, Explains(a, r),
           r.status = "LEASED", NEW action \in AuditActions \ {"CLAIMED"},
           NEW available \in BOOLEAN
    PROVE  Explains(Append(a, Entry(action, r.owner)),
                    Released(r, EndStatus(action), available))
  <1> DEFINE b == Append(a, Entry(action, r.owner))
             s == Released(r, EndStatus(action), available)
  <1>1. Len(a) \in Nat /\ DOMAIN a = 1 .. Len(a)
    BY LenProperties
  <1>2. /\ Len(b) = Len(a) + 1
        /\ DOMAIN b = 1 .. Len(a) + 1
        /\ \A i \in 1 .. Len(a) : b[i] = a[i]
        /\ b[Len(a) + 1] = [action |-> action, worker |-> r.owner]
    BY <1>1 DEF Entry
  <1>3. s.status = EndStatus(action) /\ s.attempts = r.attempts
    BY DEF Released, MessageRows
  <1>4. Len(a) % 2 = 1
    BY LeasedIsOdd
  <1>5. r.owner = a[Len(a)].worker /\ r.attempts = (Len(a) + 1) \div 2
    BY DEF Explains
  <1>6. ASSUME NEW i \in 1 .. Len(a) + 1
        PROVE  IF i % 2 = 1
                 THEN b[i].action = "CLAIMED"
                 ELSE /\ b[i].action # "CLAIMED"
                      /\ b[i].worker = b[i - 1].worker
                      /\ b[i].action \in {"DELIVERED", "DEAD"} => i = Len(b)
    <2>1. CASE i = Len(a) + 1
      <3>1. i % 2 # 1 /\ i - 1 = Len(a) /\ Len(a) \in 1 .. Len(a)
        BY <1>1, <1>4, <2>1
      <3>2. b[i] = [action |-> action, worker |-> r.owner] /\ b[i - 1] = a[Len(a)]
        BY <1>2, <2>1, <3>1
      <3> HIDE DEF b
      <3> QED BY <1>2, <1>5, <2>1, <3>1, <3>2 DEF AuditActions
    <2>2. CASE i \in 1 .. Len(a)
      <3>1. IF i % 2 = 1
              THEN a[i].action = "CLAIMED"
              ELSE /\ a[i].action # "CLAIMED"
                   /\ a[i].worker = a[i - 1].worker
                   /\ a[i].action \in {"DELIVERED", "DEAD"} => i = Len(a)
        BY <1>1, <2>2 DEF Explains
      <3>2. i % 2 # 1 => i # Len(a) /\ i - 1 \in 1 .. Len(a)
        <4>1. 1 % 2 = 1
          OBVIOUS
        <4>2. i % 2 # 1 => i # 1 /\ i # Len(a)
          BY <1>4, <4>1
        <4>3. i # 1 => i - 1 \in 1 .. Len(a)
          BY <1>1, <2>2
        <4> QED BY <4>2, <4>3
      <3>3. b[i] = a[i] /\ (i % 2 # 1 => b[i - 1] = a[i - 1])
        BY <1>2, <2>2, <3>2
      <3> HIDE DEF b
      <3> QED BY <3>1, <3>2, <3>3
    <2> QED BY <1>1, <2>1, <2>2
  <1>7. b # <<>>
    BY <1>1, <1>2, EmptySeq
  <1> HIDE DEF b, s
  <1>8. s.status \in StatusAfter(b)
    BY <1>2, <1>3, <1>7 DEF StatusAfter, EndStatus, AuditActions
  <1>9. s.attempts = (Len(b) + 1) \div 2
    BY <1>1, <1>2, <1>3, <1>4, <1>5
  <1>10. s.status # "LEASED"
    BY <1>3 DEF EndStatus, AuditActions
  <1>11. Explains(b, s)
    BY <1>2, <1>6, <1>8, <1>9, <1>10 DEF Explains
  <1> QED BY <1>11 DEF b, s

-----------------------------------------------------------------------------
(* What a step is for one message. *)

Kept(m) ==
    /\ audit'[m] = audit[m]
    /\ row'[m] \in MessageRows
    /\ row'[m].status = row[m].status
    /\ row'[m].owner = row[m].owner
    /\ row'[m].attempts = row[m].attempts

Enqueued(m) ==
    /\ row[m].status = "NONE"
    /\ audit'[m] = audit[m]
    /\ row'[m] \in MessageRows
    /\ row'[m].status = "PENDING"
    /\ row'[m].owner = NoOwner
    /\ row'[m].attempts = 0

Ended(m, action, available) ==
    /\ row[m].status = "LEASED"
    /\ action \in AuditActions \ {"CLAIMED"}
    /\ available \in BOOLEAN
    /\ audit'[m] = Append(audit[m], Entry(action, row[m].owner))
    /\ row'[m] = Released(row[m], EndStatus(action), available)

Claimed(m, w) ==
    /\ row[m].status = "PENDING"
    /\ audit'[m] = Append(audit[m], Entry("CLAIMED", w))
    /\ row'[m] = Leased(row[m], w)

Expired(m) == Released(row[m], "PENDING", row[m].available)

Reclaimed(m, w) ==
    /\ row[m].status = "LEASED"
    /\ audit'[m] = Append(Append(audit[m], Entry("LEASE_EXPIRED", row[m].owner)),
                          Entry("CLAIMED", w))
    /\ row'[m] = Leased(Expired(m), w)

MessageStep(m) ==
    \/ Kept(m)
    \/ Enqueued(m)
    \/ \E action \in AuditActions, available \in BOOLEAN : Ended(m, action, available)
    \/ \E w \in Workers : Claimed(m, w) \/ Reclaimed(m, w)

LEMMA RowTypes ==
    ASSUME NEW r \in MessageRows, NEW w \in Workers, NEW available \in BOOLEAN,
           NEW status \in Statuses
    PROVE  /\ Leased(r, w) \in MessageRows
           /\ Released(r, status, available) \in MessageRows
  <1>1. /\ w \in Workers \cup {NoOwner} /\ NoOwner \in Workers \cup {NoOwner}
        /\ "LEASED" \in Statuses
        /\ r.attempts + 1 \in Nat
    BY DEF MessageRows, Statuses
  <1>2. ASSUME NEW s \in Statuses, NEW v \in BOOLEAN, NEW o \in Workers \cup {NoOwner},
               NEW n \in Nat
        PROVE  /\ [r EXCEPT !.status = s, !.owner = o, !.lapsed = FALSE, !.attempts = n]
                    \in MessageRows
               /\ [r EXCEPT !.status = s, !.available = v, !.owner = o, !.lapsed = FALSE]
                    \in MessageRows
    BY DEF MessageRows
  <1> QED
    BY <1>1, <1>2 DEF Leased, Released

\* The owner of a leased row is a worker.
LEMMA OwnerIsWorker ==
    ASSUME TypeOK, NEW m \in Messages, row[m].status = "LEASED"
    PROVE  row[m].owner \in Workers
  <1>1. row[m] \in MessageRows /\ row[m].owner # NoOwner
    BY DEF TypeOK
  <1> QED BY <1>1 DEF MessageRows

LEMMA ClaimMessageStep ==
    ASSUME TypeOK, NEW m \in Messages, NEW w \in Workers, NEW limit \in Limits,
           Claim(w, limit)
    PROVE  MessageStep(m)
  <1>1. audit[m] \in Seq(AuditRows) /\ row[m] \in MessageRows
    BY DEF TypeOK
  <1>2. /\ row'[m] = IF m \in Batch(limit) THEN Leased(row[m], w)
                     ELSE IF m \in Reaped THEN Released(row[m], "PENDING", row[m].available)
                     ELSE row[m]
        /\ audit'[m] = audit[m]
            \o (IF m \in Reaped THEN <<Entry("LEASE_EXPIRED", row[m].owner)>> ELSE <<>>)
            \o (IF m \in Batch(limit) THEN <<Entry("CLAIMED", w)>> ELSE <<>>)
    BY DEF Claim
  <1>3. Entry("CLAIMED", w) \in AuditRows
    BY DEF Entry, AuditRows, AuditActions
  <1>4. CASE m \in Reaped
    <2>1. row[m].status = "LEASED" /\ Entry("LEASE_EXPIRED", row[m].owner) \in AuditRows
      BY <1>4, OwnerIsWorker DEF Reaped, Entry, AuditRows, AuditActions
    <2> DEFINE e == Entry("LEASE_EXPIRED", row[m].owner)
               b == Append(audit[m], e)
    <2>2. b = audit[m] \o <<e>> /\ b \in Seq(AuditRows)
      BY <1>1, <2>1
    <2>3. CASE m \in Batch(limit)
      <3>1. Append(b, Entry("CLAIMED", w)) = b \o <<Entry("CLAIMED", w)>>
        BY <1>3, <2>2
      <3>2. audit'[m] = Append(b, Entry("CLAIMED", w))
        BY <1>2, <1>4, <2>2, <2>3, <3>1
      <3>3. Leased(row[m], w) = Leased(Expired(m), w)
        BY <1>1 DEF Expired, Leased, Released, MessageRows
      <3>4. Reclaimed(m, w)
        BY <1>2, <2>1, <2>3, <3>2, <3>3 DEF Reclaimed
      <3> QED BY <3>4 DEF MessageStep
    <2>4. CASE m \notin Batch(limit)
      <3>1. b \o <<>> = b
        BY <2>2, ConcatEmptySeq
      <3>2. audit'[m] = b
        BY <1>2, <1>4, <2>2, <2>4, <3>1
      <3>3. row'[m] = Released(row[m], EndStatus("LEASE_EXPIRED"), row[m].available)
        BY <1>2, <1>4, <2>4 DEF EndStatus
      <3>4. row[m].available \in BOOLEAN
        BY <1>1 DEF MessageRows
      <3>5. Ended(m, "LEASE_EXPIRED", row[m].available)
        BY <2>1, <3>2, <3>3, <3>4 DEF Ended, AuditActions
      <3> QED BY <3>4, <3>5 DEF MessageStep, AuditActions
    <2> QED BY <2>3, <2>4
  <1>5. CASE m \notin Reaped
    <2>1. audit[m] \o <<>> = audit[m]
      BY <1>1, ConcatEmptySeq
    <2>2. CASE m \in Batch(limit)
      <3>1. row[m].status = "PENDING"
        BY <1>5, <2>2 DEF Batch, Claimable
      <3>2. audit'[m] = Append(audit[m], Entry("CLAIMED", w))
        BY <1>1, <1>2, <1>3, <1>5, <2>1, <2>2
      <3>3. Claimed(m, w)
        BY <1>2, <2>2, <3>1, <3>2 DEF Claimed
      <3> QED BY <3>3 DEF MessageStep
    <2>3. CASE m \notin Batch(limit)
      <3>1. audit'[m] = audit[m] /\ row'[m] = row[m]
        BY <1>2, <1>5, <2>1, <2>3
      <3> QED BY <1>1, <3>1 DEF MessageStep, Kept
    <2> QED BY <2>2, <2>3
  <1> QED BY <1>4, <1>5

LEMMA StepOfMessage ==
    ASSUME TypeOK, [Next]_vars, NEW m \in Messages
    PROVE  MessageStep(m)
  <1>1. audit[m] \in Seq(AuditRows) /\ row[m] \in MessageRows
    BY DEF TypeOK
  <1>2. CASE UNCHANGED <<row, audit>>
    BY <1>1, <1>2 DEF MessageStep, Kept
  <1>3. ASSUME NEW n \in Messages, NEW rank \in Ranks, NEW available \in BOOLEAN,
               Enqueue(n, rank, available)
        PROVE  MessageStep(m)
    <2>1. CASE m = n
      <3>1. row'[m] = [status |-> "PENDING", attempts |-> 0, available |-> available,
                       owner |-> NoOwner, lapsed |-> FALSE, created |-> rank]
        BY <1>3, <2>1 DEF Enqueue, Absent, TypeOK
      <3>2. row'[m] \in MessageRows
        BY <3>1, OutboxAssumption DEF MessageRows, Statuses
      <3>3. row[m].status = "NONE" /\ audit'[m] = audit[m]
        BY <1>3, <2>1 DEF Enqueue
      <3>4. /\ row'[m].status = "PENDING"
            /\ row'[m].owner = NoOwner
            /\ row'[m].attempts = 0
        BY <3>1
      <3>5. Enqueued(m)
        BY <3>2, <3>3, <3>4 DEF Enqueued
      <3> QED BY <3>5 DEF MessageStep
    <2>2. CASE m # n
      <3>1. row'[m] = row[m] /\ audit'[m] = audit[m]
        BY <1>3, <2>2 DEF Enqueue, TypeOK
      <3> QED BY <1>1, <3>1 DEF MessageStep, Kept
    <2> QED BY <2>1, <2>2
  <1>4. ASSUME NEW w \in Workers, NEW d \in hand[w], Acknowledge(w, d)
        PROVE  MessageStep(m)
    <2>1. CASE ~HasLease(w, d.message)
      BY <1>2, <1>4, <2>1 DEF Acknowledge
    <2>2. CASE HasLease(w, d.message) /\ m = d.message
      <3>1. row'[m] = Released(row[m], "DELIVERED", row[m].available)
            /\ audit'[m] = Append(audit[m], Entry("DELIVERED", w))
        BY <1>4, <2>2 DEF Acknowledge, TypeOK
      <3>2. row[m].status = "LEASED" /\ row[m].owner = w /\ row[m].available \in BOOLEAN
        BY <1>1, <2>2 DEF HasLease, MessageRows
      <3>3. Ended(m, "DELIVERED", row[m].available)
        BY <3>1, <3>2 DEF Ended, EndStatus, AuditActions
      <3> QED BY <3>2, <3>3 DEF MessageStep, AuditActions
    <2>3. CASE HasLease(w, d.message) /\ m # d.message
      <3>1. row'[m] = row[m] /\ audit'[m] = audit[m]
        BY <1>4, <2>3 DEF Acknowledge, TypeOK
      <3> QED BY <1>1, <3>1 DEF MessageStep, Kept
    <2> QED BY <2>1, <2>2, <2>3
  <1>5. ASSUME NEW w \in Workers, NEW d \in hand[w], NEW available \in BOOLEAN,
               Fail(w, d, available)
        PROVE  MessageStep(m)
    <2>1. CASE ~HasLease(w, d.message)
      BY <1>2, <1>5, <2>1 DEF Fail
    <2>2. CASE HasLease(w, d.message) /\ m = d.message
      <3> DEFINE action == IF row[m].attempts >= MaxAttempts THEN "DEAD" ELSE "RETRY_SCHEDULED"
      <3>1. row'[m] = Released(row[m], EndStatus(action), available)
            /\ audit'[m] = Append(audit[m], Entry(action, w))
        BY <1>5, <2>2 DEF Fail, TypeOK, EndStatus
      <3>2. row[m].status = "LEASED" /\ row[m].owner = w
        BY <2>2 DEF HasLease
      <3>3. action \in AuditActions \ {"CLAIMED"}
        BY DEF AuditActions
      <3> HIDE DEF action
      <3>4. Ended(m, action, available)
        BY <3>1, <3>2, <3>3 DEF Ended
      <3> QED BY <3>3, <3>4 DEF MessageStep
    <2>3. CASE HasLease(w, d.message) /\ m # d.message
      <3>1. row'[m] = row[m] /\ audit'[m] = audit[m]
        BY <1>5, <2>3 DEF Fail, TypeOK
      <3> QED BY <1>1, <3>1 DEF MessageStep, Kept
    <2> QED BY <2>1, <2>2, <2>3
  <1>6. ASSUME NEW w \in Workers, Crash(w) \/ \E d \in hand[w] : Handle(w, d)
        PROVE  MessageStep(m)
    BY <1>2, <1>6 DEF Crash, Handle
  <1>7. ASSUME NEW n \in Messages, Lapse(n) \/ BecomeAvailable(n)
        PROVE  MessageStep(m)
    <2>1. /\ audit' = audit
          /\ \/ row' = [row EXCEPT ![n].lapsed = TRUE]
             \/ row' = [row EXCEPT ![n].available = TRUE]
      BY <1>7 DEF Lapse, BecomeAvailable
    <2>2. \/ row'[m] = row[m]
          \/ row'[m] = [row[m] EXCEPT !.lapsed = TRUE]
          \/ row'[m] = [row[m] EXCEPT !.available = TRUE]
      BY <2>1 DEF TypeOK
    <2>3. Kept(m)
      BY <1>1, <2>1, <2>2 DEF Kept, MessageRows
    <2> QED BY <2>3 DEF MessageStep
  <1>8. CASE UNCHANGED vars
    BY <1>2, <1>8 DEF vars
  <1> QED
    BY <1>3, <1>4, <1>5, <1>6, <1>7, <1>8, ClaimMessageStep DEF Next

-----------------------------------------------------------------------------
(* The inductive step, conjunct by conjunct. *)

\* What a message step does to the row and its audit.
LEMMA MessageStepKeeps ==
    ASSUME TypeOK, NEW m \in Messages, MessageStep(m), Explains(audit[m], row[m])
    PROVE  /\ row'[m] \in MessageRows
           /\ audit'[m] \in Seq(AuditRows)
           /\ row'[m].owner # NoOwner <=> row'[m].status = "LEASED"
           /\ row[m].status # "NONE" => row'[m].status # "NONE"
           /\ Explains(audit'[m], row'[m])
  <1> DEFINE Goal == /\ row'[m] \in MessageRows
                     /\ audit'[m] \in Seq(AuditRows)
                     /\ row'[m].owner # NoOwner <=> row'[m].status = "LEASED"
                     /\ row[m].status # "NONE" => row'[m].status # "NONE"
                     /\ Explains(audit'[m], row'[m])
  <1>1. /\ audit[m] \in Seq(AuditRows)
        /\ row[m] \in MessageRows
        /\ row[m].owner # NoOwner <=> row[m].status = "LEASED"
    BY DEF TypeOK
  <1>2. CASE Kept(m)
    <2>1. Explains(audit'[m], row'[m])
      BY <1>2 DEF Kept, Explains
    <2> QED BY <1>1, <1>2, <2>1 DEF Kept
  <1>3. CASE Enqueued(m)
    <2>1. audit[m] = <<>>
      <3>1. SUFFICES ASSUME audit[m] # <<>> PROVE FALSE
        OBVIOUS
      <3>2. Len(audit[m]) \in 1 .. Len(audit[m])
        BY <1>1, <3>1, EmptySeq, LenProperties
      <3>3. audit[m][Len(audit[m])] \in AuditRows
        BY <1>1, <3>2, ElementOfSeq
      <3>4. row[m].status = "NONE" /\ row[m].status \in StatusAfter(audit[m])
        BY <1>3 DEF Enqueued, Explains
      <3> QED BY <3>1, <3>3, <3>4 DEF StatusAfter, AuditRows, AuditActions
    <2>2. Explains(audit'[m], row'[m])
      <3>1. audit'[m] = <<>> /\ row'[m].status = "PENDING" /\ row'[m].attempts = 0
        BY <1>3, <2>1 DEF Enqueued
      <3>2. Len(<<>>) = 0 /\ DOMAIN <<>> = {} /\ (0 + 1) \div 2 = 0
        OBVIOUS
      <3> QED BY <3>1, <3>2 DEF Explains, StatusAfter
    <2> QED BY <1>1, <1>3, <2>2 DEF Enqueued
  <1>4. ASSUME NEW action \in AuditActions, NEW available \in BOOLEAN,
               Ended(m, action, available)
        PROVE  Goal
    <2>1. row[m].owner \in Workers
      BY <1>4, OwnerIsWorker DEF Ended
    <2>2. EndStatus(action) \in Statuses \ {"NONE", "LEASED"}
      BY <1>4 DEF Ended, EndStatus, AuditActions, Statuses
    <2>3. row'[m] \in MessageRows
      BY <1>1, <1>4, <2>1, <2>2, RowTypes DEF Ended
    <2>4. Entry(action, row[m].owner) \in AuditRows
      BY <2>1 DEF Entry, AuditRows
    <2>5. audit'[m] \in Seq(AuditRows)
      BY <1>1, <1>4, <2>4 DEF Ended
    <2>6. row'[m].status = EndStatus(action) /\ row'[m].owner = NoOwner
      BY <1>1, <1>4 DEF Ended, Released, MessageRows
    <2>7. Explains(audit'[m], row'[m])
      BY <1>1, <1>4, EndExplained DEF Ended
    <2> QED BY <2>2, <2>3, <2>5, <2>6, <2>7
  <1>5. ASSUME NEW w \in Workers, NEW a \in Seq(AuditRows), NEW r \in MessageRows,
               Explains(a, r), r.status = "PENDING",
               audit'[m] = Append(a, Entry("CLAIMED", w)), row'[m] = Leased(r, w)
        PROVE  Goal
    <2>1. row'[m] \in MessageRows
      BY <1>5, RowTypes DEF Statuses
    <2>2. Entry("CLAIMED", w) \in AuditRows
      BY DEF Entry, AuditRows, AuditActions
    <2>3. audit'[m] \in Seq(AuditRows)
      BY <1>5, <2>2
    <2>4. row'[m].status = "LEASED" /\ row'[m].owner = w
      BY <1>5 DEF Leased, MessageRows
    <2>5. w # NoOwner
      BY OutboxAssumption
    <2>6. Explains(audit'[m], row'[m])
      BY <1>5, ClaimExplained
    <2> QED BY <2>1, <2>3, <2>4, <2>5, <2>6
  <1>6. ASSUME NEW w \in Workers, Claimed(m, w) PROVE Goal
    BY <1>1, <1>5, <1>6 DEF Claimed
  <1>7. ASSUME NEW w \in Workers, Reclaimed(m, w) PROVE Goal
    <2> DEFINE e == Entry("LEASE_EXPIRED", row[m].owner)
    <2>1. row[m].status = "LEASED" /\ row[m].owner \in Workers /\ row[m].available \in BOOLEAN
      BY <1>1, <1>7, OwnerIsWorker DEF Reclaimed, MessageRows
    <2>2. e \in AuditRows
      BY <2>1 DEF Entry, AuditRows, AuditActions
    <2>3. Append(audit[m], e) \in Seq(AuditRows)
      BY <1>1, <2>2
    <2>4. Expired(m) \in MessageRows /\ Expired(m).status = "PENDING"
      <3>1. "PENDING" \in Statuses
        BY DEF Statuses
      <3>2. Expired(m) \in MessageRows
        BY <1>1, <2>1, <3>1, RowTypes DEF Expired
      <3> QED BY <1>1, <3>2 DEF Expired, Released, MessageRows
    <2>5. Explains(Append(audit[m], e), Expired(m))
      <3>1. EndStatus("LEASE_EXPIRED") = "PENDING" /\ "LEASE_EXPIRED" \in AuditActions \ {"CLAIMED"}
        BY DEF EndStatus, AuditActions
      <3> QED BY <1>1, <2>1, <3>1, EndExplained DEF Expired
    <2> HIDE DEF e
    <2> QED BY <1>5, <1>7, <2>3, <2>4, <2>5 DEF Reclaimed, e
  <1> QED
    BY <1>2, <1>3, <1>4, <1>6, <1>7 DEF MessageStep

\* Rows and audits remain functions on the messages.
LEMMA Domains ==
    ASSUME TypeOK, [Next]_vars
    PROVE  row' = [m \in Messages |-> row'[m]] /\ audit' = [m \in Messages |-> audit'[m]]
  <1> DEFINE Goal == row' = [m \in Messages |-> row'[m]] /\ audit' = [m \in Messages |-> audit'[m]]
  <1>1. row \in [Messages -> MessageRows] /\ audit \in [Messages -> Seq(AuditRows)]
    BY DEF TypeOK
  <1>2. ASSUME NEW w, NEW limit, Claim(w, limit) PROVE Goal
    BY <1>2 DEF Claim
  <1>3. ASSUME NEW m, NEW rank, NEW available, Enqueue(m, rank, available) PROVE Goal
    BY <1>1, <1>3 DEF Enqueue
  <1>4. ASSUME NEW w \in Workers, NEW d \in hand[w],
               Handle(w, d) \/ Acknowledge(w, d) \/ \E available \in BOOLEAN : Fail(w, d, available)
        PROVE  Goal
    BY <1>1, <1>4 DEF Handle, Acknowledge, Fail
  <1>5. ASSUME NEW m, Lapse(m) \/ BecomeAvailable(m) PROVE Goal
    BY <1>1, <1>5 DEF Lapse, BecomeAvailable
  <1>6. ASSUME NEW w, Crash(w) PROVE Goal
    BY <1>1, <1>6 DEF Crash
  <1>7. CASE UNCHANGED vars
    BY <1>1, <1>7 DEF vars
  <1> QED
    BY <1>2, <1>3, <1>4, <1>5, <1>6, <1>7 DEF Next

\* Claims in memory: new ones are of messages being claimed, effects only grow.
LEMMA HandStep ==
    ASSUME TypeOK, [Next]_vars, NEW w \in Workers, NEW d \in hand'[w]
    PROVE  \/ d \in hand[w]
           \/ /\ \E limit \in Limits : Claim(w, limit) /\ d.message \in Batch(limit)
              /\ d \in Claims /\ ~d.handled
           \/ \E c \in hand[w] : /\ Handle(w, c)
                                 /\ d = [c EXCEPT !.handled = TRUE]
  <1>1. hand \in [Workers -> SUBSET Claims]
    BY DEF TypeOK
  <1>2. ASSUME NEW v \in Workers, NEW limit \in Limits, Claim(v, limit), d \notin hand[w]
        PROVE  v = w /\ d.message \in Batch(limit) /\ d \in Claims /\ ~d.handled
    <2>1. v = w
      BY <1>1, <1>2 DEF Claim
    <2>2. PICK m \in Batch(limit) :
            d = [message |-> m, attempt |-> row[m].attempts + 1, handled |-> FALSE]
      BY <1>1, <1>2, <2>1 DEF Claim
    <2>3. m \in Messages
      BY DEF Batch, Claimable
    <2>4. row[m].attempts \in Nat
      BY <2>3 DEF TypeOK, MessageRows
    <2> QED BY <2>1, <2>2, <2>3, <2>4 DEF Claims
  <1>3. ASSUME NEW v \in Workers, NEW c \in hand[v], Handle(v, c), d \notin hand[w]
        PROVE  v = w /\ d = [c EXCEPT !.handled = TRUE]
    BY <1>1, <1>3 DEF Handle
  <1>4. ASSUME NEW v \in Workers, NEW c \in hand[v],
               Acknowledge(v, c) \/ \E available \in BOOLEAN : Fail(v, c, available)
        PROVE  d \in hand[w]
    BY <1>1, <1>4 DEF Acknowledge, Fail, Drop
  <1>5. ASSUME NEW v \in Workers, Crash(v) PROVE d \in hand[w]
    BY <1>1, <1>5 DEF Crash
  <1>6. ASSUME NEW m, Lapse(m) \/ BecomeAvailable(m)
                        \/ \E rank \in Ranks, available \in BOOLEAN : Enqueue(m, rank, available)
        PROVE  d \in hand[w]
    BY <1>6 DEF Lapse, BecomeAvailable, Enqueue
  <1>7. CASE UNCHANGED vars
    BY <1>7 DEF vars
  <1> QED
    BY <1>2, <1>3, <1>4, <1>5, <1>6, <1>7 DEF Next

\* A row claimed in a batch is leased.
LEMMA BatchIsLeased ==
    ASSUME TypeOK, NEW w \in Workers, NEW limit \in Limits, Claim(w, limit),
           NEW m \in Batch(limit)
    PROVE  m \in Messages /\ row'[m].status = "LEASED"
  <1>1. m \in Messages
    BY DEF Batch, Claimable
  <1>2. row'[m] = Leased(row[m], w) /\ row[m] \in MessageRows
    BY <1>1 DEF Claim, TypeOK
  <1> QED BY <1>1, <1>2 DEF Leased, MessageRows

\* Effects only grow, and every Handle counts.
LEMMA EffectsStep ==
    ASSUME TypeOK, [Next]_vars
    PROVE  /\ effects' \in [Messages -> Nat]
           /\ \A m \in Messages : effects'[m] >= effects[m]
           /\ \A w \in Workers : \A c \in hand[w] :
                Handle(w, c) => effects'[c.message] > 0
  <1>1. effects \in [Messages -> Nat] /\ hand \in [Workers -> SUBSET Claims]
    BY DEF TypeOK
  <1>2. ASSUME NEW w \in Workers, NEW c \in hand[w], Handle(w, c)
        PROVE  /\ effects' \in [Messages -> Nat]
               /\ \A m \in Messages : effects'[m] >= effects[m]
               /\ effects'[c.message] > 0
    <2>1. c.message \in Messages
      BY <1>1 DEF Claims
    <2> QED BY <1>1, <1>2, <2>1 DEF Handle
  <1>3. ASSUME ~\E w \in Workers : \E c \in hand[w] : Handle(w, c)
        PROVE  effects' = effects
    <2>1. ASSUME NEW m, NEW rank, NEW available, Enqueue(m, rank, available)
          PROVE  effects' = effects
      BY <2>1 DEF Enqueue
    <2>2. ASSUME NEW w \in Workers, NEW c \in hand[w],
                 Acknowledge(w, c) \/ \E available \in BOOLEAN : Fail(w, c, available)
          PROVE  effects' = effects
      BY <2>2 DEF Acknowledge, Fail
    <2>3. ASSUME NEW w, Crash(w) \/ \E limit \in Limits : Claim(w, limit)
          PROVE  effects' = effects
      BY <2>3 DEF Crash, Claim
    <2>4. ASSUME NEW m, Lapse(m) \/ BecomeAvailable(m) PROVE effects' = effects
      BY <2>4 DEF Lapse, BecomeAvailable
    <2>5. CASE UNCHANGED vars
      BY <2>5 DEF vars
    <2> QED BY <1>3, <2>1, <2>2, <2>3, <2>4, <2>5 DEF Next
  <1> QED
    BY <1>1, <1>2, <1>3

LEMMA CountersStep ==
    ASSUME TypeOK, [Next]_vars
    PROVE  lapses' \in Nat /\ crashes' \in Nat
  <1> USE DEF TypeOK
  <1>1. ASSUME NEW m, Lapse(m) PROVE lapses' \in Nat /\ crashes' \in Nat
    BY <1>1 DEF Lapse
  <1>2. ASSUME NEW w, Crash(w) PROVE lapses' \in Nat /\ crashes' \in Nat
    BY <1>2 DEF Crash
  <1>3. ASSUME NEW w \in Workers,
               \/ \E limit \in Limits : Claim(w, limit)
               \/ \E d \in hand[w] : \/ Handle(w, d) \/ Acknowledge(w, d)
                                     \/ \E available \in BOOLEAN : Fail(w, d, available)
        PROVE  lapses' \in Nat /\ crashes' \in Nat
    BY <1>3 DEF Claim, Handle, Acknowledge, Fail
  <1>4. ASSUME NEW m, \/ BecomeAvailable(m)
                      \/ \E rank \in Ranks, available \in BOOLEAN : Enqueue(m, rank, available)
        PROVE  lapses' \in Nat /\ crashes' \in Nat
    BY <1>4 DEF BecomeAvailable, Enqueue
  <1>5. CASE UNCHANGED vars
    BY <1>5 DEF vars
  <1> QED
    BY <1>1, <1>2, <1>3, <1>4, <1>5 DEF Next

LEMMA HandTypeStep ==
    ASSUME TypeOK, [Next]_vars
    PROVE  hand' \in [Workers -> SUBSET Claims]
  <1>1. hand \in [Workers -> SUBSET Claims]
    BY DEF TypeOK
  <1>2. hand' = [w \in Workers |-> hand'[w]]
    <2>1. ASSUME NEW w \in Workers,
                 \/ Crash(w)
                 \/ \E limit \in Limits : Claim(w, limit)
                 \/ \E d \in hand[w] : \/ Handle(w, d) \/ Acknowledge(w, d)
                                       \/ \E available \in BOOLEAN : Fail(w, d, available)
          PROVE  \E S : hand' = [hand EXCEPT ![w] = S]
      BY <2>1 DEF Crash, Claim, Handle, Acknowledge, Fail, Drop
    <2>2. ASSUME NEW m, \/ Lapse(m) \/ BecomeAvailable(m)
                        \/ \E rank \in Ranks, available \in BOOLEAN : Enqueue(m, rank, available)
          PROVE  hand' = hand
      BY <2>2 DEF Lapse, BecomeAvailable, Enqueue
    <2>3. CASE UNCHANGED vars
      BY <1>1, <2>3 DEF vars
    <2> QED BY <1>1, <2>1, <2>2, <2>3 DEF Next
  <1>3. ASSUME NEW w \in Workers, NEW d \in hand'[w] PROVE d \in Claims
    <2>1. CASE d \in hand[w]
      BY <1>1, <2>1
    <2>2. ASSUME NEW c \in hand[w], d = [c EXCEPT !.handled = TRUE] PROVE d \in Claims
      BY <1>1, <2>2 DEF Claims
    <2> QED BY <2>1, <2>2, HandStep
  <1> QED
    BY <1>2, <1>3

LEMMA TypeStep ==
    ASSUME IInv, [Next]_vars
    PROVE  TypeOK' /\ AuditExplainsRow'
  <1>1. ASSUME NEW m \in Messages
        PROVE  /\ row'[m] \in MessageRows
               /\ audit'[m] \in Seq(AuditRows)
               /\ row'[m].owner # NoOwner <=> row'[m].status = "LEASED"
               /\ Explains(audit'[m], row'[m])
    BY StepOfMessage, MessageStepKeeps DEF IInv, AuditExplainsRow
  <1>2. row' \in [Messages -> MessageRows] /\ audit' \in [Messages -> Seq(AuditRows)]
    BY <1>1, Domains DEF IInv
  <1>3. /\ effects' \in [Messages -> Nat]
        /\ hand' \in [Workers -> SUBSET Claims]
        /\ lapses' \in Nat
        /\ crashes' \in Nat
    BY EffectsStep, HandTypeStep, CountersStep DEF IInv
  <1>4. TypeOK'
    BY <1>1, <1>2, <1>3 DEF TypeOK
  <1>5. AuditExplainsRow'
    BY <1>1 DEF AuditExplainsRow
  <1> QED BY <1>4, <1>5

LEMMA HandsStep ==
    ASSUME IInv, [Next]_vars
    PROVE  HandsMatch'
  <1> SUFFICES ASSUME NEW w \in Workers, NEW d \in hand'[w]
               PROVE  /\ row'[d.message].status # "NONE"
                      /\ d.handled => effects'[d.message] > 0
    BY DEF HandsMatch
  <1>1. TypeOK /\ hand \in [Workers -> SUBSET Claims] /\ effects \in [Messages -> Nat]
    BY DEF IInv, TypeOK
  <1>2. ASSUME NEW c \in hand[w]
        PROVE  /\ c \in Claims /\ c.message \in Messages
               /\ row'[c.message].status # "NONE"
               /\ c.handled => effects'[c.message] > 0
    <2>1. c \in Claims /\ c.message \in Messages
      BY <1>1 DEF Claims
    <2>2. row[c.message].status # "NONE" /\ (c.handled => effects[c.message] > 0)
      BY DEF IInv, HandsMatch
    <2>3. row'[c.message].status # "NONE"
      BY <2>1, <2>2, StepOfMessage, MessageStepKeeps DEF IInv, AuditExplainsRow
    <2>4. effects'[c.message] \in Nat /\ effects'[c.message] >= effects[c.message]
      BY <1>1, <2>1, EffectsStep
    <2>5. effects[c.message] \in Nat
      BY <1>1, <2>1
    <2>6. c.handled => effects'[c.message] > 0
      BY <2>2, <2>4, <2>5
    <2> QED BY <2>1, <2>2, <2>3, <2>6
  <1>3. CASE d \in hand[w]
    BY <1>2, <1>3
  <1>4. ASSUME NEW limit \in Limits, Claim(w, limit), d.message \in Batch(limit), ~d.handled
        PROVE  /\ row'[d.message].status # "NONE"
               /\ d.handled => effects'[d.message] > 0
    BY <1>1, <1>4, BatchIsLeased
  <1>5. ASSUME NEW c \in hand[w], Handle(w, c), d = [c EXCEPT !.handled = TRUE]
        PROVE  /\ row'[d.message].status # "NONE"
               /\ d.handled => effects'[d.message] > 0
    <2>1. d.message = c.message
      BY <1>2, <1>5 DEF Claims
    <2>2. effects'[c.message] > 0
      BY <1>1, <1>5, EffectsStep
    <2> QED BY <1>2, <2>1, <2>2
  <1> QED
    BY <1>1, <1>3, <1>4, <1>5, HandStep

\* How a message may be settled, and that it then stays settled.
SettledStep(m) ==
    /\ row[m].status \in {"DELIVERED", "DEAD"} => row'[m] = row[m]
    /\ row[m].status = "LEASED" /\ row'[m].status # "LEASED" =>
        \/ m \in Reaped /\ row'[m].status = "PENDING"
        \/ \E d \in hand[row[m].owner] \ hand'[row[m].owner] :
            /\ d.message = m
            /\ d.handled = (row'[m].status = "DELIVERED")

LEMMA AnswerStep ==
    ASSUME TypeOK, NEW m \in Messages, NEW w \in Workers, NEW d \in hand[w],
           Acknowledge(w, d) \/ \E available \in BOOLEAN : Fail(w, d, available)
    PROVE  SettledStep(m)
  <1>1. row \in [Messages -> MessageRows] /\ hand \in [Workers -> SUBSET Claims]
    BY DEF TypeOK
  <1>2. hand'[w] = hand[w] \ {d}
    BY <1>1 DEF Acknowledge, Fail, Drop
  <1>3. CASE ~HasLease(w, d.message)
    <2>1. row' = row
      BY <1>3 DEF Acknowledge, Fail
    <2> QED BY <2>1 DEF SettledStep
  <1>4. CASE HasLease(w, d.message) /\ m # d.message
    <2>1. row'[m] = row[m]
      BY <1>1, <1>4 DEF Acknowledge, Fail
    <2> QED BY <2>1 DEF SettledStep
  <1>5. CASE HasLease(w, d.message) /\ m = d.message
    <2>1. row[m].status = "LEASED" /\ row[m].owner = w
      BY <1>5 DEF HasLease
    <2>2. d.handled = (row'[m].status = "DELIVERED")
      <3>1. CASE Acknowledge(w, d)
        <4>1. row'[m] = Released(row[m], "DELIVERED", row[m].available)
          BY <1>1, <1>5, <3>1 DEF Acknowledge
        <4>2. row'[m].status = "DELIVERED"
          BY <1>1, <4>1 DEF Released, MessageRows
        <4>3. d.handled /\ d.handled \in BOOLEAN
          BY <1>1, <3>1 DEF Acknowledge, Claims
        <4> QED BY <4>2, <4>3
      <3>2. ASSUME NEW available \in BOOLEAN, Fail(w, d, available)
            PROVE  d.handled = (row'[m].status = "DELIVERED")
        <4>1. \/ row'[m] = Released(row[m], "DEAD", available)
              \/ row'[m] = Released(row[m], "PENDING", available)
          BY <1>1, <1>5, <3>2 DEF Fail
        <4>2. row'[m].status # "DELIVERED"
          BY <1>1, <4>1 DEF Released, MessageRows
        <4>3. ~d.handled /\ d.handled \in BOOLEAN
          BY <1>1, <3>2 DEF Fail, Claims
        <4> QED BY <4>2, <4>3
      <3> QED BY <3>1, <3>2
    <2>3. d \in hand[row[m].owner] \ hand'[row[m].owner]
      BY <1>2, <2>1
    <2> QED BY <1>5, <2>1, <2>2, <2>3 DEF SettledStep
  <1> QED BY <1>3, <1>4, <1>5

LEMMA Settling ==
    ASSUME TypeOK, [Next]_vars, NEW m \in Messages
    PROVE  SettledStep(m)
  <1>1. row \in [Messages -> MessageRows]
    BY DEF TypeOK
  <1>2. ASSUME row'[m] = row[m] PROVE SettledStep(m)
    BY <1>2 DEF SettledStep
  <1>3. ASSUME NEW n, NEW rank, NEW available, Enqueue(n, rank, available)
        PROVE  SettledStep(m)
    <2>1. CASE m = n
      BY <1>3, <2>1 DEF Enqueue, SettledStep
    <2>2. CASE m # n
      BY <1>1, <1>2, <1>3, <2>2 DEF Enqueue
    <2> QED BY <2>1, <2>2
  <1>4. ASSUME NEW w \in Workers, NEW limit \in Limits, Claim(w, limit)
        PROVE  SettledStep(m)
    <2>1. CASE m \in Batch(limit)
      <3>1. row'[m].status = "LEASED"
        BY <1>4, <2>1, BatchIsLeased
      <3>2. row[m].status \in {"PENDING", "LEASED"}
        BY <2>1 DEF Batch, Claimable, Reaped
      <3> QED BY <3>1, <3>2 DEF SettledStep
    <2>2. CASE m \in Reaped \ Batch(limit)
      <3>1. row'[m] = Released(row[m], "PENDING", row[m].available)
        BY <1>4, <2>2 DEF Claim
      <3>2. row'[m].status = "PENDING" /\ row[m].status = "LEASED"
        BY <1>1, <2>2, <3>1 DEF Released, MessageRows, Reaped
      <3> QED BY <2>2, <3>2 DEF SettledStep
    <2>3. CASE m \notin Reaped /\ m \notin Batch(limit)
      BY <1>2, <1>4, <2>3 DEF Claim
    <2> QED BY <2>1, <2>2, <2>3
  <1>5. ASSUME NEW w \in Workers, Crash(w) \/ \E d \in hand[w] : Handle(w, d)
        PROVE  SettledStep(m)
    BY <1>2, <1>5 DEF Crash, Handle
  <1>6. ASSUME NEW n \in Messages, Lapse(n) \/ BecomeAvailable(n)
        PROVE  SettledStep(m)
    <2>1. CASE m # n
      BY <1>1, <1>2, <1>6, <2>1 DEF Lapse, BecomeAvailable
    <2>2. CASE m = n
      <3>1. row[m].status \in {"PENDING", "LEASED"} /\ row'[m].status = row[m].status
        BY <1>1, <1>6, <2>2 DEF Lapse, BecomeAvailable, MessageRows
      <3> QED BY <3>1 DEF SettledStep
    <2> QED BY <2>1, <2>2
  <1>7. CASE UNCHANGED vars
    BY <1>2, <1>7 DEF vars
  <1> QED
    BY <1>3, <1>4, <1>5, <1>6, <1>7, AnswerStep DEF Next

LEMMA DeliveredStep ==
    ASSUME IInv, [Next]_vars
    PROVE  DeliveredWasHandled'
  <1> SUFFICES ASSUME NEW m \in Messages, row'[m].status = "DELIVERED"
               PROVE  effects'[m] > 0
    BY DEF DeliveredWasHandled
  <1>1. effects[m] \in Nat /\ effects'[m] \in Nat /\ effects'[m] >= effects[m]
    BY EffectsStep DEF IInv, TypeOK
  <1>2. effects[m] > 0
    <2>1. CASE row[m].status = "DELIVERED"
      BY <2>1 DEF IInv, DeliveredWasHandled
    <2>2. CASE row[m].status = "LEASED"
      <3>1. PICK d \in hand[row[m].owner] : d.message = m /\ d.handled
        BY <2>2, Settling DEF IInv, SettledStep
      <3>2. row[m].owner \in Workers
        BY <2>2, OwnerIsWorker DEF IInv
      <3> QED BY <3>1, <3>2 DEF IInv, HandsMatch
    <2>3. row[m].status \in {"DELIVERED", "LEASED"}
      <3>1. row[m] \in MessageRows
        BY DEF IInv, TypeOK
      <3>2. MessageStep(m)
        BY StepOfMessage DEF IInv
      <3>3. ASSUME NEW w \in Workers, NEW r \in MessageRows, row'[m] = Leased(r, w)
            PROVE  FALSE
        BY <3>3 DEF Leased, MessageRows
      <3>4. ASSUME NEW w \in Workers, Claimed(m, w) PROVE FALSE
        BY <3>1, <3>3, <3>4 DEF Claimed
      <3>5. ASSUME NEW w \in Workers, Reclaimed(m, w) PROVE row[m].status = "LEASED"
        BY <3>5 DEF Reclaimed
      <3> QED
        BY <3>2, <3>4, <3>5 DEF MessageStep, Kept, Enqueued, Ended
    <2> QED BY <2>1, <2>2, <2>3
  <1> QED BY <1>1, <1>2

-----------------------------------------------------------------------------
(* The theorems. *)

LEMMA InitInv == Init => IInv
  <1> SUFFICES ASSUME Init PROVE IInv
    OBVIOUS
  <1> USE DEF Init
  <1>1. Absent \in MessageRows /\ Absent.owner = NoOwner /\ Absent.status = "NONE"
        /\ Absent.attempts = 0
    BY DEF Absent, MessageRows, Statuses
  <1>2. TypeOK
    BY <1>1, EmptySeq DEF TypeOK
  <1>3. Explains(<<>>, Absent)
    <2>1. Len(<<>>) = 0 /\ DOMAIN <<>> = {} /\ (0 + 1) \div 2 = 0
      OBVIOUS
    <2> QED BY <1>1, <2>1 DEF Explains, StatusAfter
  <1>4. AuditExplainsRow
    BY <1>3 DEF AuditExplainsRow
  <1>5. HandsMatch /\ DeliveredWasHandled
    BY <1>1 DEF HandsMatch, DeliveredWasHandled
  <1> QED
    BY <1>2, <1>4, <1>5 DEF IInv

LEMMA NextInv == IInv /\ [Next]_vars => IInv'
  BY TypeStep, HandsStep, DeliveredStep DEF IInv

\* The inductive invariant holds in every reachable state.
THEOREM Invariance == Spec => []IInv
  BY InitInv, NextInv, PTL DEF Spec

\* Every row, audit entry and claim keeps its type, and a row has an owner
\* exactly while it is leased (outbox/store.py).
THEOREM TypeCorrect == Spec => []TypeOK
  BY Invariance, PTL DEF IInv

\* The audit of a message is its whole history, and its row is what the audit
\* leaves (claim, acknowledge, fail).
THEOREM AuditTellsAll == Spec => []AuditExplainsRow
  BY Invariance, PTL DEF IInv

\* A worker that was overtaken changes nothing with its late answer, and what is
\* settled stays settled (acknowledge, fail, the reaping in claim).
THEOREM LateAnswers == Spec => OvertakenWorkerChangesNothing
  <1>1. IInv /\ [Next]_vars =>
          [\A m \in Messages :
              /\ row[m].status \in {"DELIVERED", "DEAD"} => row'[m] = row[m]
              /\ row[m].status = "LEASED" /\ row'[m].status # "LEASED" =>
                  \/ m \in Reaped /\ row'[m].status = "PENDING"
                  \/ \E d \in hand[row[m].owner] \ hand'[row[m].owner] :
                      /\ d.message = m
                      /\ d.handled = (row'[m].status = "DELIVERED")]_vars
    BY Settling DEF IInv, SettledStep
  <1> QED
    BY <1>1, Invariance, PTL DEF Spec, OvertakenWorkerChangesNothing

-----------------------------------------------------------------------------
(* Refinement. *)

Fates == [m \in Messages |-> Fate(m)]

\* An answer settles the one message it is about, or nothing.
LEMMA AnswerRefines ==
    ASSUME IInv, NEW w \in Workers, NEW d \in hand[w],
           Acknowledge(w, d) \/ \E available \in BOOLEAN : Fail(w, d, available)
    PROVE  Abstract!Next \/ UNCHANGED <<Fates, effects>>
  <1> DEFINE n == d.message
  <1>1. row \in [Messages -> MessageRows] /\ hand \in [Workers -> SUBSET Claims]
        /\ effects \in [Messages -> Nat]
    BY DEF IInv, TypeOK
  <1>2. n \in Messages /\ UNCHANGED effects
    BY <1>1 DEF Claims, Acknowledge, Fail
  <1>3. CASE ~HasLease(w, n)
    BY <1>2, <1>3 DEF Acknowledge, Fail, Fates, Fate
  <1>4. CASE HasLease(w, n)
    <2>1. Fates[n] = "WAITING"
      BY <1>2, <1>4 DEF HasLease, Fates, Fate
    <2>2. ASSUME NEW f, Fate(n)' = f PROVE Fates' = [Fates EXCEPT ![n] = f]
      <3>1. \A m \in Messages \ {n} : row'[m] = row[m]
        BY <1>1, <1>4 DEF Acknowledge, Fail
      <3>2. \A m \in Messages : Fate(m)' = IF m = n THEN f ELSE Fate(m)
        BY <1>2, <2>2, <3>1 DEF Fate
      <3> QED BY <1>2, <3>2 DEF Fates
    <2>3. CASE Acknowledge(w, d)
      <3>1. row'[n] = Released(row[n], "DELIVERED", row[n].available)
        BY <1>1, <1>2, <1>4, <2>3 DEF Acknowledge
      <3>2. Fate(n)' = "DELIVERED"
        BY <1>1, <1>2, <3>1 DEF Released, MessageRows, Fate
      <3>3. effects[n] > 0
        BY <2>3 DEF Acknowledge, IInv, HandsMatch
      <3>4. Abstract!Settle(n)
        BY <1>2, <2>1, <2>2, <3>2, <3>3 DEF Abstract!Settle, Fates
      <3> QED BY <1>2, <3>4 DEF Abstract!Next
    <2>4. ASSUME NEW available \in BOOLEAN, Fail(w, d, available)
          PROVE  Abstract!Next \/ UNCHANGED <<Fates, effects>>
      <3>1. \/ row'[n] = Released(row[n], "DEAD", available)
            \/ row'[n] = Released(row[n], "PENDING", available)
        BY <1>1, <1>2, <1>4, <2>4 DEF Fail
      <3>2. Fate(n)' = "DEAD" \/ Fate(n)' = "WAITING"
        BY <1>1, <1>2, <3>1 DEF Released, MessageRows, Fate
      <3>3. CASE Fate(n)' = "DEAD"
        <4>1. Abstract!Settle(n)
          BY <1>2, <2>1, <2>2, <3>3 DEF Abstract!Settle, Fates
        <4> QED BY <1>2, <4>1 DEF Abstract!Next
      <3>4. CASE Fate(n)' = "WAITING"
        <4>1. Fates' = [Fates EXCEPT ![n] = "WAITING"]
          BY <2>2, <3>4
        <4>2. Fates' = Fates
          BY <2>1, <4>1 DEF Fates
        <4> QED BY <1>2, <4>2
      <3> QED BY <3>2, <3>3, <3>4
    <2> QED BY <2>3, <2>4
  <1> QED BY <1>3, <1>4

LEMMA ClaimRefines ==
    ASSUME TypeOK, NEW w \in Workers, NEW limit \in Limits, Claim(w, limit)
    PROVE  UNCHANGED <<Fates, effects>>
  <1>1. ASSUME NEW m \in Messages PROVE Fate(m)' = Fate(m)
    <2>1. row[m] \in MessageRows
      BY DEF TypeOK
    <2>2. CASE m \in Batch(limit)
      <3>1. row'[m].status = "LEASED"
        BY <2>2, BatchIsLeased
      <3>2. row[m].status \in {"PENDING", "LEASED"}
        BY <2>2 DEF Batch, Claimable, Reaped
      <3> QED BY <3>1, <3>2 DEF Fate
    <2>3. CASE m \in Reaped \ Batch(limit)
      <3>1. row'[m] = Released(row[m], "PENDING", row[m].available)
        BY <2>3 DEF Claim
      <3>2. row'[m].status = "PENDING" /\ row[m].status = "LEASED"
        BY <2>1, <2>3, <3>1 DEF Released, MessageRows, Reaped
      <3> QED BY <3>2 DEF Fate
    <2>4. CASE m \notin Reaped /\ m \notin Batch(limit)
      <3>1. row'[m] = row[m]
        BY <2>4 DEF Claim
      <3> QED BY <3>1 DEF Fate
    <2> QED BY <2>2, <2>3, <2>4
  <1> QED
    BY <1>1 DEF Fates, Claim

\* Leases, workers, crashes and the audit implement the at-least-once contract:
\* a message is delivered only after it was handled, and settled for good.
THEOREM Refinement == Spec => ImplementsAtLeastOnce
  <1>1. Init => Abstract!Init
    BY DEF Init, Abstract!Init, Fate, Absent
  <1>2. IInv /\ [Next]_vars => [Abstract!Next]_<<Fates, effects>>
    <2> SUFFICES ASSUME IInv, [Next]_vars
                 PROVE  Abstract!Next \/ UNCHANGED <<Fates, effects>>
      OBVIOUS
    <2>1. row \in [Messages -> MessageRows] /\ hand \in [Workers -> SUBSET Claims]
          /\ effects \in [Messages -> Nat]
      BY DEF IInv, TypeOK
    <2>2. ASSUME \A m \in Messages : row'[m].status = row[m].status
          PROVE  Fates' = Fates
      BY <2>2 DEF Fates, Fate
    <2>3. ASSUME NEW n \in Messages, NEW rank, NEW available, Enqueue(n, rank, available)
          PROVE  Abstract!Next
      <3>1. \A m \in Messages : Fate(m)' = IF m = n THEN "WAITING" ELSE Fate(m)
        BY <2>1, <2>3 DEF Enqueue, Fate, Absent
      <3>2. Fates' = [Fates EXCEPT ![n] = "WAITING"]
        BY <3>1 DEF Fates
      <3>3. Fates[n] = "NONE" /\ UNCHANGED effects
        BY <2>3 DEF Enqueue, Fates, Fate
      <3>4. Abstract!Submit(n)
        BY <3>2, <3>3 DEF Abstract!Submit, Fates
      <3> QED BY <3>4 DEF Abstract!Next
    <2>4. ASSUME NEW w \in Workers, NEW d \in hand[w], Handle(w, d)
          PROVE  Abstract!Next
      <3>1. d.message \in Messages /\ row[d.message].status # "NONE"
        BY <2>1 DEF Claims, IInv, HandsMatch
      <3>2. Fates[d.message] # "NONE" /\ Fates' = Fates
        BY <2>2, <2>4, <3>1 DEF Fates, Fate, Handle
      <3>3. Abstract!Handle(d.message)
        BY <2>4, <3>2 DEF Abstract!Handle, Handle, Fates
      <3> QED BY <3>1, <3>3 DEF Abstract!Next
    <2>5. ASSUME NEW w \in Workers, Crash(w) PROVE UNCHANGED <<Fates, effects>>
      BY <2>2, <2>5 DEF Crash
    <2>6. ASSUME NEW n \in Messages, Lapse(n) \/ BecomeAvailable(n)
          PROVE  UNCHANGED <<Fates, effects>>
      <3>1. \A m \in Messages : row'[m].status = row[m].status
        BY <2>1, <2>6 DEF Lapse, BecomeAvailable, MessageRows
      <3> QED BY <2>2, <2>6, <3>1 DEF Lapse, BecomeAvailable
    <2>7. CASE UNCHANGED vars
      BY <2>2, <2>7 DEF vars
    <2> QED
      BY <2>3, <2>4, <2>5, <2>6, <2>7, AnswerRefines, ClaimRefines DEF Next, IInv
  <1> QED
    BY <1>1, <1>2, Invariance, PTL
       DEF Spec, ImplementsAtLeastOnce, Abstract!Spec, Fates

-----------------------------------------------------------------------------
(* How often a message takes effect.  Each unhandled claim in memory, and a    *)
(* row that can still be claimed without an expiry, stand for one effect more. *)

Expiries(a) == Cardinality({i \in DOMAIN a : a[i].action = "LEASE_EXPIRED"})

Unhandled(m) ==
    {p \in Workers \X Claims : p[2] \in hand[p[1]] /\ p[2].message = m /\ ~p[2].handled}

Open(r) == IF r.status \in {"NONE", "PENDING"} THEN 1 ELSE 0

Within(m) ==
    /\ IsFiniteSet(Unhandled(m))
    /\ effects[m] + Cardinality(Unhandled(m)) + Open(row[m]) <= 1 + Expiries(audit[m])

Budget == \A m \in Messages : Within(m)

LEMMA ExpiriesFinite ==
    ASSUME NEW a \in Seq(AuditRows)
    PROVE  /\ IsFiniteSet({i \in DOMAIN a : a[i].action = "LEASE_EXPIRED"})
           /\ Expiries(a) \in Nat
  <1>1. Len(a) \in Nat /\ DOMAIN a = 1 .. Len(a)
    BY LenProperties
  <1>2. IsFiniteSet(1 .. Len(a))
    BY <1>1, FS_Interval
  <1> QED BY <1>1, <1>2, FS_Subset, FS_CardinalityType DEF Expiries

LEMMA ExpiriesAppend ==
    ASSUME NEW a \in Seq(AuditRows), NEW e \in AuditRows
    PROVE  /\ Append(a, e) \in Seq(AuditRows)
           /\ Expiries(Append(a, e)) =
                IF e.action = "LEASE_EXPIRED" THEN Expiries(a) + 1 ELSE Expiries(a)
  <1> DEFINE b == Append(a, e)
             S == {i \in DOMAIN a : a[i].action = "LEASE_EXPIRED"}
             T == {i \in DOMAIN b : b[i].action = "LEASE_EXPIRED"}
  <1>1. /\ Len(a) \in Nat /\ DOMAIN a = 1 .. Len(a)
        /\ b \in Seq(AuditRows) /\ DOMAIN b = 1 .. Len(a) + 1
        /\ \A i \in 1 .. Len(a) : b[i] = a[i]
        /\ b[Len(a) + 1] = e
    BY LenProperties, AppendProperties
  <1>2. Len(a) + 1 \notin S
    BY <1>1
  <1>3. CASE e.action = "LEASE_EXPIRED"
    <2>1. T = S \cup {Len(a) + 1}
      BY <1>1, <1>3
    <2>2. Cardinality(T) = Cardinality(S) + 1
      BY <1>2, <2>1, ExpiriesFinite, FS_AddElement
    <2> QED BY <1>1, <1>3, <2>2 DEF Expiries
  <1>4. CASE e.action # "LEASE_EXPIRED"
    <2>1. T = S
      BY <1>1, <1>4
    <2> QED BY <1>1, <1>4, <2>1 DEF Expiries
  <1> QED BY <1>3, <1>4

\* What the budget is made of.
LEMMA BudgetTypes ==
    ASSUME TypeOK, NEW m \in Messages
    PROVE  /\ audit[m] \in Seq(AuditRows) /\ row[m] \in MessageRows
           /\ effects[m] \in Nat /\ Expiries(audit[m]) \in Nat
           /\ Open(row[m]) \in {0, 1}
           /\ IsFiniteSet(Unhandled(m)) => Cardinality(Unhandled(m)) \in Nat
  BY ExpiriesFinite, FS_CardinalityType DEF TypeOK, Open

\* A step that handles and claims nothing new.
LEMMA NoNewClaims ==
    ASSUME TypeOK, NEW m \in Messages, Within(m), Unhandled(m)' \subseteq Unhandled(m),
           effects'[m] = effects[m],
           Open(row'[m]) - Open(row[m]) <= Expiries(audit'[m]) - Expiries(audit[m]),
           Open(row'[m]) \in {0, 1}, Expiries(audit'[m]) \in Nat
    PROVE  Within(m)'
  <1>1. /\ IsFiniteSet(Unhandled(m)')
        /\ Cardinality(Unhandled(m)') <= Cardinality(Unhandled(m))
        /\ Cardinality(Unhandled(m)') \in Nat
    BY FS_Subset, FS_CardinalityType DEF Within
  <1> QED BY <1>1, BudgetTypes DEF Within

\* A claim of a message spends what its row or its expired lease stood for.
LEMMA ClaimWithin ==
    ASSUME TypeOK, NEW w \in Workers, NEW limit \in Limits, Claim(w, limit),
           NEW m \in Messages, Within(m)
    PROVE  Within(m)'
  <1> DEFINE claimed == m \in Batch(limit)
             d == [message |-> m, attempt |-> row[m].attempts + 1, handled |-> FALSE]
  <1>1. /\ audit[m] \in Seq(AuditRows) /\ row[m] \in MessageRows
        /\ effects'[m] = effects[m] /\ hand \in [Workers -> SUBSET Claims]
    BY DEF TypeOK, Claim
  <1>2. /\ row'[m] = IF claimed THEN Leased(row[m], w)
                     ELSE IF m \in Reaped THEN Released(row[m], "PENDING", row[m].available)
                     ELSE row[m]
        /\ audit'[m] = audit[m]
            \o (IF m \in Reaped THEN <<Entry("LEASE_EXPIRED", row[m].owner)>> ELSE <<>>)
            \o (IF claimed THEN <<Entry("CLAIMED", w)>> ELSE <<>>)
    BY DEF Claim
  <1> DEFINE b == audit[m] \o (IF m \in Reaped THEN <<Entry("LEASE_EXPIRED", row[m].owner)>>
                                              ELSE <<>>)
  <1>3. /\ b \in Seq(AuditRows)
        /\ Expiries(b) = IF m \in Reaped THEN Expiries(audit[m]) + 1 ELSE Expiries(audit[m])
    <2>1. CASE m \in Reaped
      <3> DEFINE e == Entry("LEASE_EXPIRED", row[m].owner)
      <3>1. e \in AuditRows /\ e.action = "LEASE_EXPIRED"
        BY <2>1, OwnerIsWorker DEF Reaped, Entry, AuditRows, AuditActions
      <3>2. b = Append(audit[m], e)
        BY <1>1, <2>1, <3>1
      <3> HIDE DEF e, b
      <3> QED BY <1>1, <2>1, <3>1, <3>2, ExpiriesAppend
    <2>2. CASE m \notin Reaped
      <3>1. b = audit[m]
        BY <1>1, <2>2, ConcatEmptySeq
      <3> HIDE DEF b
      <3> QED BY <1>1, <2>2, <3>1
    <2> QED BY <2>1, <2>2
  <1>4. Expiries(audit'[m]) = Expiries(b) /\ Expiries(audit'[m]) \in Nat
    <2>0. audit'[m] = b \o (IF claimed THEN <<Entry("CLAIMED", w)>> ELSE <<>>)
      BY <1>2
    <2>1. CASE claimed
      <3> DEFINE e == Entry("CLAIMED", w)
      <3>1. e \in AuditRows /\ e.action = "CLAIMED"
        BY DEF Entry, AuditRows, AuditActions
      <3> HIDE DEF e, b, claimed
      <3>2. audit'[m] = b \o <<e>>
        BY <2>0, <2>1 DEF e
      <3>3. audit'[m] = Append(b, e)
        BY <1>3, <3>1, <3>2
      <3> QED BY <1>3, <3>1, <3>3, ExpiriesAppend, ExpiriesFinite
    <2>2. CASE ~claimed
      <3> HIDE DEF b, claimed
      <3>1. audit'[m] = b
        BY <1>3, <2>0, <2>2, ConcatEmptySeq
      <3> QED BY <1>3, <3>1, ExpiriesFinite
    <2> QED BY <2>1, <2>2
  <1>5. Open(row'[m]) + (IF claimed THEN 1 ELSE 0) + Expiries(audit[m])
            <= Open(row[m]) + Expiries(audit'[m])
    <2>0. Expiries(audit[m]) \in Nat
      BY <1>1, ExpiriesFinite
    <2>1. claimed => row[m].status = "PENDING" \/ m \in Reaped
      BY DEF Batch, Claimable
    <2>2. claimed => row'[m].status = "LEASED"
      BY <1>1, <1>2 DEF Leased, MessageRows
    <2>3. m \in Reaped /\ ~claimed => row'[m].status = "PENDING"
      BY <1>1, <1>2 DEF Released, MessageRows
    <2>4. m \in Reaped => row[m].status = "LEASED"
      BY DEF Reaped
    <2>5. m \notin Reaped /\ ~claimed => row'[m] = row[m]
      BY <1>2
    <2> HIDE DEF b, claimed
    <2> QED BY <1>3, <1>4, <2>0, <2>1, <2>2, <2>3, <2>4, <2>5 DEF Open
  <1>6. /\ hand'[w] = hand[w] \cup {[message |-> n, attempt |-> row[n].attempts + 1,
                                     handled |-> FALSE] : n \in Batch(limit)}
        /\ \A v \in Workers : v # w => hand'[v] = hand[v]
    BY <1>1 DEF Claim
  <1>7. CASE claimed
    <2>1. Unhandled(m)' \subseteq Unhandled(m) \cup {<<w, d>>}
      BY <1>6 DEF Unhandled
    <2>2. /\ IsFiniteSet(Unhandled(m) \cup {<<w, d>>})
          /\ Cardinality(Unhandled(m) \cup {<<w, d>>}) <= Cardinality(Unhandled(m)) + 1
          /\ Cardinality(Unhandled(m)) \in Nat
      <3>1. IsFiniteSet(Unhandled(m)) /\ Cardinality(Unhandled(m)) \in Nat
        BY FS_CardinalityType DEF Within
      <3> HIDE DEF d
      <3>2. /\ IsFiniteSet(Unhandled(m) \cup {<<w, d>>})
            /\ Cardinality(Unhandled(m) \cup {<<w, d>>}) =
                 IF <<w, d>> \in Unhandled(m) THEN Cardinality(Unhandled(m))
                                             ELSE Cardinality(Unhandled(m)) + 1
        BY <3>1, FS_AddElement
      <3> QED BY <3>1, <3>2
    <2>3. /\ IsFiniteSet(Unhandled(m)') /\ Cardinality(Unhandled(m)') \in Nat
          /\ Cardinality(Unhandled(m)') <= Cardinality(Unhandled(m) \cup {<<w, d>>})
          /\ Cardinality(Unhandled(m) \cup {<<w, d>>}) \in Nat
      BY <2>1, <2>2, FS_Subset, FS_CardinalityType
    <2>4. Open(row'[m]) \in {0, 1}
      BY DEF Open
    <2>5. Cardinality(Unhandled(m)') <= Cardinality(Unhandled(m)) + 1
      <3> HIDE DEF d
      <3> QED BY <2>2, <2>3
    <2>6. Open(row'[m]) + 1 + Expiries(audit[m]) <= Open(row[m]) + Expiries(audit'[m])
      <3> HIDE DEF b, claimed
      <3> QED BY <1>5, <1>7
    <2>7. /\ effects[m] \in Nat /\ Expiries(audit[m]) \in Nat /\ Open(row[m]) \in {0, 1}
          /\ Expiries(audit'[m]) \in Nat
      <3> HIDE DEF b
      <3> QED BY <1>4, BudgetTypes
    <2>8. effects[m] + Cardinality(Unhandled(m)) + Open(row[m]) <= 1 + Expiries(audit[m])
      BY DEF Within
    <2>9. effects[m] + Cardinality(Unhandled(m)') + Open(row'[m]) <= 1 + Expiries(audit'[m])
      <3>1. Cardinality(Unhandled(m)) \in Nat /\ Cardinality(Unhandled(m)') \in Nat
        BY <2>2, <2>3
      <3> QED BY <2>4, <2>5, <2>6, <2>7, <2>8, <3>1
    <2>10. effects'[m] = effects[m] /\ IsFiniteSet(Unhandled(m)')
      BY <1>1, <2>3
    <2> QED BY <2>9, <2>10 DEF Within
  <1>8. CASE ~claimed
    <2>1. Unhandled(m)' \subseteq Unhandled(m)
      BY <1>6, <1>8 DEF Unhandled
    <2>2. Open(row'[m]) \in {0, 1}
      BY DEF Open
    <2> HIDE DEF b, claimed
    <2> QED BY <1>1, <1>4, <1>5, <1>8, <2>1, <2>2, NoNewClaims, BudgetTypes
  <1> QED BY <1>7, <1>8

\* Handling, or giving up, a claim that was not handled.
LEMMA LosesClaim ==
    ASSUME TypeOK, NEW w \in Workers, NEW d \in hand[w], ~d.handled,
           IsFiniteSet(Unhandled(d.message)),
           Unhandled(d.message)' \subseteq Unhandled(d.message) \ {<<w, d>>}
    PROVE  /\ IsFiniteSet(Unhandled(d.message)')
           /\ Cardinality(Unhandled(d.message)') \in Nat
           /\ Cardinality(Unhandled(d.message)') + 1 <= Cardinality(Unhandled(d.message))
  <1> DEFINE U == Unhandled(d.message)
  <1>1. <<w, d>> \in U
    BY DEF TypeOK, Unhandled
  <1>2. IsFiniteSet(U) /\ Cardinality(U) \in Nat
    BY FS_CardinalityType
  <1>3. IsFiniteSet(U \ {<<w, d>>}) /\ Cardinality(U \ {<<w, d>>}) = Cardinality(U) - 1
    BY <1>1, <1>2, FS_RemoveElement
  <1>4. /\ IsFiniteSet(Unhandled(d.message)')
        /\ Cardinality(Unhandled(d.message)') <= Cardinality(U \ {<<w, d>>})
        /\ Cardinality(Unhandled(d.message)') \in Nat
    BY <1>3, FS_Subset, FS_CardinalityType
  <1> QED BY <1>2, <1>3, <1>4

LEMMA HandleWithin ==
    ASSUME TypeOK, NEW w \in Workers, NEW d \in hand[w], Handle(w, d),
           NEW m \in Messages, Within(m)
    PROVE  Within(m)'
  <1>1. /\ hand \in [Workers -> SUBSET Claims] /\ effects \in [Messages -> Nat]
        /\ row' = row /\ audit' = audit /\ ~d.handled /\ d \in Claims
        /\ hand' = [hand EXCEPT ![w] = (hand[w] \ {d}) \cup {[d EXCEPT !.handled = TRUE]}]
        /\ effects' = [effects EXCEPT ![d.message] = effects[d.message] + 1]
    BY DEF Handle, TypeOK
  <1> DEFINE h == [d EXCEPT !.handled = TRUE]
  <1>2. h.handled = TRUE /\ \A v \in Workers : v # w => hand'[v] = hand[v]
    BY <1>1 DEF Claims
  <1>3. hand'[w] = (hand[w] \ {d}) \cup {h}
    BY <1>1
  <1> HIDE DEF h
  <1>4. ASSUME NEW n, NEW p \in Unhandled(n)'
        PROVE  p \in Unhandled(n) \ {<<w, d>>}
    <2>1. p \in Workers \X Claims /\ p[2] \in hand'[p[1]] /\ p[2].message = n /\ ~p[2].handled
      BY DEF Unhandled
    <2>2. CASE p[1] = w
      <3>1. p[2] \in hand[w] /\ p[2] # d
        BY <1>2, <1>3, <2>1, <2>2
      <3> QED BY <2>1, <2>2, <3>1 DEF Unhandled
    <2>3. CASE p[1] # w
      <3>1. p[2] \in hand[p[1]]
        BY <1>2, <2>1, <2>3
      <3> QED BY <2>1, <2>3, <3>1 DEF Unhandled
    <2> QED BY <2>2, <2>3
  <1>5. row'[m] = row[m] /\ audit'[m] = audit[m]
    BY <1>1
  <1>6. CASE m = d.message
    <2>1. IsFiniteSet(Unhandled(d.message))
      BY <1>6 DEF Within
    <2>2. Unhandled(d.message)' \subseteq Unhandled(d.message) \ {<<w, d>>}
      BY <1>4
    <2>3. Unhandled(m)' = Unhandled(d.message)'
      BY <1>6 DEF Unhandled
    <2>4. /\ IsFiniteSet(Unhandled(m)') /\ Cardinality(Unhandled(m)') \in Nat
          /\ Cardinality(Unhandled(m)') + 1 <= Cardinality(Unhandled(m))
      BY <1>1, <1>6, <2>1, <2>2, <2>3, LosesClaim
    <2>5. effects'[m] = effects[m] + 1
      BY <1>1, <1>6
    <2>6. Cardinality(Unhandled(m)) \in Nat
      BY FS_CardinalityType DEF Within
    <2> QED BY <1>5, <2>4, <2>5, <2>6, BudgetTypes DEF Within
  <1>7. CASE m # d.message
    <2>1. Unhandled(m)' \subseteq Unhandled(m)
      BY <1>4
    <2>2. effects'[m] = effects[m]
      BY <1>1, <1>7
    <2> QED BY <1>5, <2>1, <2>2, NoNewClaims, BudgetTypes
  <1> QED BY <1>6, <1>7

\* A claim that is answered is dropped.
LEMMA DropsClaim ==
    ASSUME TypeOK, NEW w \in Workers, NEW d \in hand[w], Drop(w, d), NEW m
    PROVE  Unhandled(m)' \subseteq Unhandled(m) \ {<<w, d>>}
  <1>1. hand' = [hand EXCEPT ![w] = hand[w] \ {d}] /\ hand \in [Workers -> SUBSET Claims]
    BY DEF Drop, TypeOK
  <1> QED BY <1>1 DEF Unhandled

LEMMA AcknowledgeWithin ==
    ASSUME TypeOK, NEW w \in Workers, NEW d \in hand[w], Acknowledge(w, d),
           NEW m \in Messages, Within(m)
    PROVE  Within(m)'
  <1>1. effects' = effects /\ Drop(w, d)
    BY DEF Acknowledge
  <1>2. Unhandled(m)' \subseteq Unhandled(m)
    BY <1>1, DropsClaim
  <1>3. CASE row'[m] = row[m] /\ audit'[m] = audit[m]
    BY <1>1, <1>2, <1>3, NoNewClaims, BudgetTypes
  <1>4. CASE HasLease(w, d.message) /\ m = d.message
    <2>1. /\ row'[m] = Released(row[m], "DELIVERED", row[m].available)
          /\ audit'[m] = Append(audit[m], Entry("DELIVERED", w))
      BY <1>4 DEF Acknowledge, TypeOK
    <2>2. Entry("DELIVERED", w) \in AuditRows /\ Entry("DELIVERED", w).action = "DELIVERED"
      BY DEF Entry, AuditRows, AuditActions
    <2>3. Expiries(audit'[m]) = Expiries(audit[m])
      BY <2>1, <2>2, BudgetTypes, ExpiriesAppend
    <2>4. Open(row'[m]) = 0
      BY <2>1, BudgetTypes DEF Released, MessageRows, Open
    <2> QED BY <1>1, <1>2, <2>3, <2>4, NoNewClaims, BudgetTypes
  <1>5. CASE ~(HasLease(w, d.message) /\ m = d.message)
    BY <1>3, <1>5 DEF Acknowledge, TypeOK
  <1> QED BY <1>4, <1>5

LEMMA FailWithin ==
    ASSUME TypeOK, NEW w \in Workers, NEW d \in hand[w], NEW available \in BOOLEAN,
           Fail(w, d, available), NEW m \in Messages, Within(m)
    PROVE  Within(m)'
  <1>1. effects' = effects /\ Drop(w, d) /\ ~d.handled
    BY DEF Fail
  <1>2. Unhandled(m)' \subseteq Unhandled(m)
    BY <1>1, DropsClaim
  <1>3. CASE row'[m] = row[m] /\ audit'[m] = audit[m]
    BY <1>1, <1>2, <1>3, NoNewClaims, BudgetTypes
  <1>4. CASE HasLease(w, d.message) /\ m = d.message
    <2> DEFINE action == IF row[m].attempts >= MaxAttempts THEN "DEAD" ELSE "RETRY_SCHEDULED"
               e == Entry(action, w)
    <2>1. audit'[m] = Append(audit[m], e)
      BY <1>4 DEF Fail, TypeOK
    <2>2. e \in AuditRows /\ e.action # "LEASE_EXPIRED"
      BY DEF Entry, AuditRows, AuditActions
    <2> HIDE DEF e, action
    <2>3. Expiries(audit'[m]) = Expiries(audit[m])
      BY <2>1, <2>2, BudgetTypes, ExpiriesAppend
    <2>4. Open(row'[m]) \in {0, 1} /\ Open(row[m]) = 0
      BY <1>4 DEF Open, HasLease
    <2>5. /\ IsFiniteSet(Unhandled(m)') /\ Cardinality(Unhandled(m)') \in Nat
          /\ Cardinality(Unhandled(m)') + 1 <= Cardinality(Unhandled(m))
      <3>1. IsFiniteSet(Unhandled(d.message))
        BY <1>4 DEF Within
      <3>2. Unhandled(d.message)' \subseteq Unhandled(d.message) \ {<<w, d>>}
        BY <1>1, DropsClaim
      <3>3. Unhandled(m)' = Unhandled(d.message)'
        BY <1>4 DEF Unhandled
      <3> QED BY <1>1, <1>4, <3>1, <3>2, <3>3, LosesClaim
    <2>6. Cardinality(Unhandled(m)) \in Nat
      BY FS_CardinalityType DEF Within
    <2> QED BY <1>1, <2>3, <2>4, <2>5, <2>6, BudgetTypes DEF Within
  <1>5. CASE ~(HasLease(w, d.message) /\ m = d.message)
    BY <1>3, <1>5 DEF Fail, TypeOK
  <1> QED BY <1>4, <1>5

LEMMA OtherWithin ==
    ASSUME TypeOK, NEW m \in Messages, Within(m),
           \/ \E w \in Workers : Crash(w)
           \/ \E n \in Messages :
                \/ Lapse(n) \/ BecomeAvailable(n)
                \/ \E rank \in Ranks, available \in BOOLEAN : Enqueue(n, rank, available)
           \/ UNCHANGED vars
    PROVE  Within(m)'
  <1>1. /\ row \in [Messages -> MessageRows] /\ row[m] \in MessageRows
        /\ hand \in [Workers -> SUBSET Claims]
    BY DEF TypeOK
  <1>2. effects' = effects /\ audit' = audit
    BY DEF Crash, Lapse, BecomeAvailable, Enqueue, vars
  <1>3. Unhandled(m)' \subseteq Unhandled(m)
    <2>1. hand' = hand \/ \E w \in Workers : hand' = [hand EXCEPT ![w] = {}]
      BY DEF Crash, Lapse, BecomeAvailable, Enqueue, vars
    <2> QED BY <1>1, <2>1 DEF Unhandled
  <1>4. Open(row'[m]) = Open(row[m])
    <2>1. ASSUME NEW n \in Messages, Lapse(n) \/ BecomeAvailable(n)
          PROVE  row'[m].status = row[m].status
      BY <1>1, <2>1 DEF Lapse, BecomeAvailable, MessageRows
    <2>2. ASSUME NEW n \in Messages, NEW rank \in Ranks, NEW available \in BOOLEAN,
                 Enqueue(n, rank, available)
          PROVE  Open(row'[m]) = Open(row[m])
      <3>1. CASE m = n
        BY <1>1, <2>2, <3>1 DEF Enqueue, Absent, Open
      <3>2. CASE m # n
        BY <1>1, <2>2, <3>2 DEF Enqueue
      <3> QED BY <3>1, <3>2
    <2>3. ASSUME (\E w \in Workers : Crash(w)) \/ UNCHANGED vars PROVE row' = row
      BY <2>3 DEF Crash, vars
    <2> QED BY <2>1, <2>2, <2>3 DEF Open
  <1> QED BY <1>2, <1>3, <1>4, NoNewClaims, BudgetTypes

LEMMA BudgetStep ==
    ASSUME TypeOK, Budget, [Next]_vars
    PROVE  Budget'
  <1> SUFFICES ASSUME NEW m \in Messages PROVE Within(m)'
    BY DEF Budget
  <1>1. Within(m)
    BY DEF Budget
  <1> QED
    BY <1>1, ClaimWithin, HandleWithin, AcknowledgeWithin, FailWithin, OtherWithin DEF Next

LEMMA BudgetInit == Init => Budget
  <1> SUFFICES ASSUME Init, NEW m \in Messages PROVE Within(m)
    BY DEF Budget
  <1>1. Unhandled(m) = {}
    BY DEF Init, Unhandled
  <1>2. effects[m] = 0 /\ audit[m] = <<>> /\ Open(row[m]) = 1
    BY DEF Init, Absent, Open
  <1>3. {i \in DOMAIN audit[m] : audit[m][i].action = "LEASE_EXPIRED"} = {}
    BY <1>2
  <1>4. Expiries(audit[m]) = 0
    BY <1>3, FS_EmptySet DEF Expiries
  <1> QED BY <1>1, <1>2, <1>4, FS_EmptySet DEF Within

\* A message takes effect once, and once more at most for each expiry that its
\* audit shows, whatever answers, failures and crashes there are.  (claim, fail)
THEOREM Duplicates == Spec => []DuplicatesFollowExpiry
  <1>1. IInv /\ Budget /\ [Next]_vars => Budget'
    BY BudgetStep DEF IInv
  <1>2. IInv /\ Budget => DuplicatesFollowExpiry
    <2> SUFFICES ASSUME IInv, Budget, NEW m \in Messages
                 PROVE  effects[m] <= 1 + Count(m, "LEASE_EXPIRED")
      BY DEF DuplicatesFollowExpiry
    <2>1. Within(m) /\ Count(m, "LEASE_EXPIRED") = Expiries(audit[m])
      BY DEF Budget, Count, Expiries
    <2> QED BY <2>1, BudgetTypes DEF IInv, Within
  <1> QED BY BudgetInit, <1>1, <1>2, Invariance, PTL DEF Spec
=============================================================================
