------------------------- MODULE ReceiptSigning_proofs -------------------------
(***************************************************************************)
(* Proofs about DurableOutbox and about ReceiptSigning, which takes the    *)
(* place of its handler, for any messages, receipts, workers, limits and   *)
(* bounds.                                                                 *)
(*                                                                         *)
(* The outbox.  Settled adds to SettledRightly what a worker at COMPLETE   *)
(* and at RETRY_WRITE knows; Accounted turns DuplicatesAccounted into a    *)
(* budget that every action keeps: a message that waits to be claimed, a   *)
(* worker that has yet to handle or retry it, and a lease that has expired *)
(* each stand for one more time the message may be handled.                *)
(*                                                                         *)
(* The signing.  Every step of a signing worker is one of DurableOutbox,   *)
(* so what is proved there holds here.  Beyond that the invariant says     *)
(* what a worker may rely on at each place of the handler although other   *)
(* workers are at work on the same receipt (WorkerSound), and keeps a      *)
(* budget of signatures (ReceiptSound): those made, the workers about to   *)
(* make one, and a claim that can be had stand for one more each.          *)
(***************************************************************************)
EXTENDS ReceiptSigning, FiniteSetTheorems, TLAPS

JobsMatch ==
    \A w \in Workers :
        /\ At(w, "COMPLETE") => handled[job[w].message] > 0
        /\ At(w, "RETRY_WRITE") => job[w].attempts <= row[job[w].message].attempts

Settled == TypeOK /\ JobsMatch /\ SettledRightly

-----------------------------------------------------------------------------
(* Types, one row and one job at a time. *)

LEMMA RowTypes ==
    ASSUME NEW r \in Rows, NEW n \in Nat
    PROVE  /\ Claimed(r) \in Rows
           /\ Completed(r) \in Rows
           /\ Retried(r, n) \in Rows
           /\ Requeued(r) \in Rows
           /\ [r EXCEPT !.available = TRUE] \in Rows
           /\ r.lease = "RUNNING" => [r EXCEPT !.lease = "EXPIRED"] \in Rows
  <1> USE DEF Rows, Statuses
  <1>2. Claimed(r) \in Rows
    <2>1. r.attempts + 1 \in Nat
      OBVIOUS
    <2> QED BY <2>1 DEF Claimed
  <1>3. Completed(r) \in Rows
    BY DEF Completed
  <1>4. Retried(r, n) \in Rows
    <2>1. (IF Exhausted(n) THEN "DEAD_LETTER" ELSE "PENDING") \in {"DEAD_LETTER", "PENDING"}
      OBVIOUS
    <2>2. Exhausted(n) \in BOOLEAN
      BY DurableOutboxAssumption DEF Exhausted
    <2> QED BY <2>1, <2>2 DEF Retried
  <1>5. Requeued(r) \in Rows /\ [r EXCEPT !.available = TRUE] \in Rows
    BY DEF Requeued
  <1>6. r.lease = "RUNNING" => [r EXCEPT !.lease = "EXPIRED"] \in Rows
    OBVIOUS
  <1> QED BY <1>2, <1>3, <1>4, <1>5, <1>6

\* No transaction takes a row away.
LEMMA RowsRemain ==
    ASSUME NEW r \in Rows, NEW n \in Nat, r.status # "NONE"
    PROVE  /\ Claimed(r).status # "NONE"
           /\ Completed(r).status # "NONE"
           /\ Retried(r, n).status # "NONE"
           /\ Requeued(r).status # "NONE"
           /\ [r EXCEPT !.available = TRUE].status # "NONE"
           /\ [r EXCEPT !.lease = "EXPIRED"].status # "NONE"
  <1>1. Retried(r, n).status # "NONE"
    <2>1. CASE Exhausted(n)
      BY <2>1 DEF Retried, Rows
    <2>2. CASE ~Exhausted(n)
      BY <2>2 DEF Retried, Rows
    <2> QED BY <2>1, <2>2
  <1> QED BY <1>1 DEF Claimed, Completed, Requeued, Rows

\* A worker that goes on keeps its message.
LEMMA JobTypes ==
    ASSUME NEW j \in Jobs, j.at # "IDLE", NEW n \in Nat, NEW place \in Places \ {"IDLE"},
           NEW m \in Messages
    PROVE  /\ [j EXCEPT !.at = place] \in Jobs
           /\ [j EXCEPT !.at = place, !.attempts = n] \in Jobs
           /\ [Idle EXCEPT !.at = "VERIFY", !.message = m] \in Jobs
           /\ j.message \in Messages
  BY DurableOutboxAssumption DEF Jobs, Idle, Places

\* The message of a worker at work, and its row.
LEMMA AtWork ==
    ASSUME TypeOK, NEW w \in Workers, ~At(w, "IDLE")
    PROVE  /\ job[w] \in Jobs
           /\ job[w].message \in Messages
           /\ row[job[w].message] \in Rows
           /\ row[job[w].message].attempts \in Nat
           /\ row[job[w].message].status # "NONE"
  <1>1. job[w] \in Jobs
    BY DEF TypeOK
  <1>2. job[w].message \in Messages
    BY <1>1, DurableOutboxAssumption DEF At, Jobs
  <1>3. row[job[w].message] \in Rows
    BY <1>2 DEF TypeOK
  <1> QED BY <1>1, <1>2, <1>3 DEF TypeOK, Rows

\* A statement on the row of one message.
LEMMA RowStep ==
    ASSUME TypeOK, NEW m \in Messages, NEW r \in Rows,
           r.status # "NONE", row' = [row EXCEPT ![m] = r]
    PROVE  /\ row' \in [Messages -> Rows]
           /\ \A n \in Messages : row[n].status # "NONE" => row'[n].status # "NONE"
  BY DEF TypeOK

\* A step of one worker, which goes on with its message, takes one, or rests.
LEMMA JobStep ==
    ASSUME TypeOK, NEW w \in Workers, NEW j \in Jobs, job' = [job EXCEPT ![w] = j],
           row' \in [Messages -> Rows],
           \A n \in Messages : row[n].status # "NONE" => row'[n].status # "NONE",
           j.at # "IDLE" => row'[j.message].status # "NONE"
    PROVE  /\ job' \in [Workers -> Jobs]
           /\ \A v \in Workers : ~At(v, "IDLE")' => row'[job'[v].message].status # "NONE"
  <1>1. job' \in [Workers -> Jobs]
    BY DEF TypeOK
  <1>2. ASSUME NEW v \in Workers, ~At(v, "IDLE")'
        PROVE  row'[job'[v].message].status # "NONE"
    <2>1. CASE v = w
      BY <1>2, <2>1 DEF At, TypeOK
    <2>2. CASE v # w
      <3>1. job'[v] = job[v]
        BY <2>2 DEF TypeOK
      <3>2. ~At(v, "IDLE")
        BY <1>2, <3>1 DEF At
      <3> QED BY <3>1, <3>2, AtWork
    <2> QED BY <2>1, <2>2
  <1> QED BY <1>1, <1>2

LEMMA RestStep ==
    ASSUME TypeOK, NEW w \in Workers, Rest(w), row' \in [Messages -> Rows],
           \A n \in Messages : row[n].status # "NONE" => row'[n].status # "NONE"
    PROVE  /\ job' \in [Workers -> Jobs]
           /\ \A v \in Workers : ~At(v, "IDLE")' => row'[job'[v].message].status # "NONE"
  <1>1. Idle \in Jobs /\ Idle.at = "IDLE"
    BY DEF Idle, Jobs, Places
  <1>2. job' = [job EXCEPT ![w] = Idle]
    BY DEF Rest
  <1> HIDE DEF Idle
  <1> QED BY <1>1, <1>2, JobStep

LEMMA GoStep ==
    ASSUME TypeOK, NEW w \in Workers, NEW place \in Places \ {"IDLE"}, ~At(w, "IDLE"),
           Go(w, place), row' \in [Messages -> Rows],
           \A n \in Messages : row[n].status # "NONE" => row'[n].status # "NONE"
    PROVE  /\ job' \in [Workers -> Jobs]
           /\ \A v \in Workers : ~At(v, "IDLE")' => row'[job'[v].message].status # "NONE"
  <1> DEFINE j == [job[w] EXCEPT !.at = place]
  <1>1. job[w] \in Jobs /\ job[w].at # "IDLE" /\ job[w].message \in Messages
    BY AtWork DEF At
  <1>2. j \in Jobs
    BY <1>1, JobTypes
  <1>3. j.message = job[w].message
    BY <1>1 DEF Jobs
  <1>4. row'[j.message].status # "NONE"
    BY <1>3, AtWork
  <1>5. job' = [job EXCEPT ![w] = j]
    BY DEF Go
  <1> HIDE DEF j
  <1> QED BY <1>2, <1>4, <1>5, JobStep

\* Every action keeps the types, and the lease with its status.
LEMMA TypeStep ==
    ASSUME TypeOK, [Next]_vars
    PROVE  TypeOK'
  <1> DEFINE Remain == \A n \in Messages : row[n].status # "NONE" => row'[n].status # "NONE"
  <1>1. CASE UNCHANGED vars
    BY <1>1 DEF vars, TypeOK, At
  <1>2. row' = row => row' \in [Messages -> Rows] /\ Remain
    BY DEF TypeOK
  <1>3. ASSUME job' = job, Remain
        PROVE  /\ job' \in [Workers -> Jobs]
               /\ \A v \in Workers : ~At(v, "IDLE")' => row'[job'[v].message].status # "NONE"
    BY <1>3, AtWork DEF TypeOK, At
  <1>4. ASSUME NEW m \in Messages, Enqueue(m)
        PROVE  TypeOK'
    <2> DEFINE r == [Absent EXCEPT !.status = "PENDING", !.available = TRUE]
    <2>1. r \in Rows /\ r.status # "NONE"
      BY DEF Absent, Rows, Statuses
    <2>2. row' = [row EXCEPT ![m] = r]
      BY <1>4 DEF Enqueue
    <2> HIDE DEF r
    <2>3. row' \in [Messages -> Rows] /\ Remain
      BY <2>1, <2>2, RowStep
    <2> QED BY <1>3, <1>4, <2>3 DEF Enqueue, history, TypeOK
  <1>5. ASSUME NEW m \in Messages, NEW w \in Workers, ClaimOutbox(w, m)
        PROVE  TypeOK'
    <2> DEFINE j == [Idle EXCEPT !.at = "VERIFY", !.message = m]
               r == Claimed(row[m])
    <2>1. row[m] \in Rows /\ row[m].status # "NONE"
      BY <1>5 DEF ClaimOutbox, Claimable, TypeOK
    <2>2. r \in Rows /\ r.status # "NONE"
      BY <2>1, RowTypes, RowsRemain
    <2>3. row' = [row EXCEPT ![m] = r] /\ job' = [job EXCEPT ![w] = j]
      BY <1>5 DEF ClaimOutbox
    <2>4. j \in Jobs /\ j.message = m
      BY DurableOutboxAssumption DEF Jobs, Idle, Places
    <2> HIDE DEF r, j
    <2>5. row' \in [Messages -> Rows] /\ Remain
      BY <2>2, <2>3, RowStep
    <2>6. row'[j.message].status # "NONE"
      BY <2>1, <2>4, <2>5
    <2>7. /\ job' \in [Workers -> Jobs]
          /\ \A v \in Workers : ~At(v, "IDLE")' => row'[job'[v].message].status # "NONE"
      BY <2>3, <2>4, <2>5, <2>6, JobStep
    <2> QED BY <1>5, <2>5, <2>7 DEF ClaimOutbox, history, TypeOK
  <1>6. ASSUME NEW m \in Messages, Environment(m)
        PROVE  TypeOK'
    <2>1. CASE LeaseExpires(m)
      <3> DEFINE r == [row[m] EXCEPT !.lease = "EXPIRED"]
      <3>1. r \in Rows /\ r.status # "NONE"
        <4>1. row[m] \in Rows /\ row[m].lease = "RUNNING"
          BY <2>1 DEF LeaseExpires, TypeOK
        <4> QED BY <4>1, RowTypes, RowsRemain DEF Rows
      <3>2. row' = [row EXCEPT ![m] = r]
        BY <2>1 DEF LeaseExpires
      <3> HIDE DEF r
      <3>3. row' \in [Messages -> Rows] /\ Remain
        BY <3>1, <3>2, RowStep
      <3>4. lapsed' \in [Messages -> Nat]
        BY <2>1 DEF LeaseExpires, TypeOK
      <3> QED BY <1>3, <2>1, <3>3, <3>4 DEF LeaseExpires, TypeOK
    <2>2. CASE BecomesDue(m)
      <3> DEFINE r == [row[m] EXCEPT !.available = TRUE]
      <3>1. r \in Rows /\ r.status # "NONE"
        <4>1. row[m] \in Rows /\ row[m].status # "NONE"
          BY <2>2 DEF BecomesDue, TypeOK
        <4> QED BY <4>1, RowTypes, RowsRemain
      <3>2. row' = [row EXCEPT ![m] = r]
        BY <2>2 DEF BecomesDue
      <3> HIDE DEF r
      <3>3. row' \in [Messages -> Rows] /\ Remain
        BY <3>1, <3>2, RowStep
      <3> QED BY <1>3, <2>2, <3>3 DEF BecomesDue, history, TypeOK
    <2>3. CASE StateMoves(m)
      BY <1>2, <1>3, <2>3 DEF StateMoves, history, TypeOK
    <2>4. CASE RequeueOutbox(m)
      <3> DEFINE r == Requeued(row[m])
      <3>1. r \in Rows /\ r.status # "NONE"
        <4>1. row[m] \in Rows /\ row[m].status # "NONE"
          BY <2>4 DEF RequeueOutbox, TypeOK
        <4> QED BY <4>1, RowTypes, RowsRemain
      <3>2. row' = [row EXCEPT ![m] = r]
        BY <2>4 DEF RequeueOutbox
      <3> HIDE DEF r
      <3>3. row' \in [Messages -> Rows] /\ Remain
        BY <3>1, <3>2, RowStep
      <3>4. requeues' \in [Messages -> Nat]
        BY <2>4 DEF RequeueOutbox, TypeOK
      <3> QED BY <1>3, <2>4, <3>3, <3>4 DEF RequeueOutbox, history, TypeOK
    <2> QED BY <1>6, <2>1, <2>2, <2>3, <2>4 DEF Environment
  <1>7. ASSUME NEW w \in Workers,
               VerifyPasses(w) \/ VerifyThrows(w) \/ HandlerReturns(w) \/ HandlerThrows(w)
        PROVE  TypeOK'
    <2>1. PICK place \in {"HANDLE", "COMPLETE", "RETRY"} : Go(w, place)
      BY <1>7 DEF VerifyPasses, VerifyThrows, HandlerReturns, HandlerThrows
    <2>2. ~At(w, "IDLE")
      BY <1>7 DEF VerifyPasses, VerifyThrows, HandlerReturns, HandlerThrows, At
    <2>3. row' = row
      BY <1>7 DEF VerifyPasses, VerifyThrows, HandlerReturns, HandlerThrows, rows
    <2>4. /\ job' \in [Workers -> Jobs]
          /\ \A v \in Workers : ~At(v, "IDLE")' => row'[job'[v].message].status # "NONE"
      BY <1>2, <2>1, <2>2, <2>3, GoStep DEF Places
    <2>5. handled' \in [Messages -> Nat]
      BY <1>7 DEF VerifyPasses, VerifyThrows, HandlerReturns, HandlerThrows, history, TypeOK
    <2> QED
      BY <1>2, <1>7, <2>3, <2>4, <2>5
      DEF VerifyPasses, VerifyThrows, HandlerReturns, HandlerThrows, rows, history, TypeOK
  <1>8. ASSUME NEW w \in Workers, CompleteOutbox(w)
        PROVE  TypeOK'
    <2> DEFINE r == Completed(row[job[w].message])
    <2>1. ~At(w, "IDLE")
      BY <1>8 DEF CompleteOutbox, At
    <2>2. job[w].message \in Messages /\ r \in Rows /\ r.status # "NONE"
      BY <2>1, AtWork, RowTypes, RowsRemain
    <2>3. row' = [row EXCEPT ![job[w].message] = r]
      BY <1>8 DEF CompleteOutbox
    <2> HIDE DEF r
    <2>4. row' \in [Messages -> Rows] /\ Remain
      BY <2>2, <2>3, RowStep
    <2>5. /\ job' \in [Workers -> Jobs]
          /\ \A v \in Workers : ~At(v, "IDLE")' => row'[job'[v].message].status # "NONE"
      BY <1>8, <2>4, RestStep DEF CompleteOutbox
    <2> QED BY <1>8, <2>4, <2>5 DEF CompleteOutbox, history, TypeOK
  <1>9. ASSUME NEW w \in Workers, RetryReads(w)
        PROVE  TypeOK'
    <2> DEFINE n == row[job[w].message].attempts
               j == [job[w] EXCEPT !.at = "RETRY_WRITE", !.attempts = n]
    <2>1. ~At(w, "IDLE")
      BY <1>9 DEF RetryReads, At
    <2>2. j \in Jobs /\ j.message = job[w].message
      <3>1. n \in Nat /\ job[w] \in Jobs /\ job[w].message \in Messages /\ job[w].at # "IDLE"
        BY <2>1, AtWork DEF At
      <3> HIDE DEF n
      <3> QED BY <3>1, JobTypes DEF Places, Jobs
    <2>3. job' = [job EXCEPT ![w] = j] /\ row' = row
      BY <1>9 DEF RetryReads, rows
    <2>4. row'[j.message].status # "NONE"
      BY <2>1, <2>2, <2>3, AtWork
    <2> HIDE DEF j
    <2>5. /\ job' \in [Workers -> Jobs]
          /\ \A v \in Workers : ~At(v, "IDLE")' => row'[job'[v].message].status # "NONE"
      BY <1>2, <2>2, <2>3, <2>4, JobStep
    <2> QED BY <1>2, <1>9, <2>3, <2>5 DEF RetryReads, rows, history, TypeOK
  <1>10. ASSUME NEW w \in Workers, RetryWrites(w)
         PROVE  TypeOK'
    <2> DEFINE r == Retried(row[job[w].message], job[w].attempts)
    <2>1. ~At(w, "IDLE")
      BY <1>10 DEF RetryWrites, At
    <2>2. job[w].attempts \in Nat
      BY DEF TypeOK, Jobs
    <2>3. job[w].message \in Messages /\ r \in Rows /\ r.status # "NONE"
      BY <2>1, <2>2, AtWork, RowTypes, RowsRemain
    <2>4. row' = [row EXCEPT ![job[w].message] = r]
      BY <1>10 DEF RetryWrites
    <2> HIDE DEF r
    <2>5. row' \in [Messages -> Rows] /\ Remain
      BY <2>3, <2>4, RowStep
    <2>6. /\ job' \in [Workers -> Jobs]
          /\ \A v \in Workers : ~At(v, "IDLE")' => row'[job'[v].message].status # "NONE"
      BY <1>10, <2>5, RestStep DEF RetryWrites
    <2> QED BY <1>10, <2>5, <2>6 DEF RetryWrites, history, TypeOK
  <1>11. ASSUME NEW w \in Workers, CompletionThrows(w)
         PROVE  TypeOK'
    <2> DEFINE r == Completed(row[job[w].message])
    <2>1. ~At(w, "IDLE")
      BY <1>11 DEF CompletionThrows, At
    <2>2. job[w].message \in Messages /\ r \in Rows /\ r.status # "NONE"
      BY <2>1, AtWork, RowTypes, RowsRemain
    <2>3. row' = row \/ row' = [row EXCEPT ![job[w].message] = r]
      BY <1>11 DEF CompletionThrows
    <2> HIDE DEF r
    <2>4. row' \in [Messages -> Rows] /\ Remain
      BY <1>2, <2>2, <2>3, RowStep
    <2>5. /\ job' \in [Workers -> Jobs]
          /\ \A v \in Workers : ~At(v, "IDLE")' => row'[job'[v].message].status # "NONE"
      BY <1>11, <2>1, <2>4, GoStep DEF CompletionThrows, Places
    <2>6. faults' \in [Messages -> Nat]
      BY <1>11, <2>2 DEF CompletionThrows, TypeOK
    <2> QED BY <1>11, <2>4, <2>5, <2>6 DEF CompletionThrows, TypeOK
  <1>12. ASSUME NEW w \in Workers, Stop(w)
         PROVE  TypeOK'
    <2>1. row' = row
      BY <1>12 DEF Stop, rows
    <2>2. /\ job' \in [Workers -> Jobs]
          /\ \A v \in Workers : ~At(v, "IDLE")' => row'[job'[v].message].status # "NONE"
      BY <1>2, <1>12, <2>1, RestStep DEF Stop
    <2> QED BY <1>2, <1>12, <2>1, <2>2 DEF Stop, rows, TypeOK
  <1> QED
    BY <1>1, <1>4, <1>5, <1>6, <1>7, <1>8, <1>9, <1>10, <1>11, <1>12 DEF Next, Settle

LEMMA TypeInit == Init => TypeOK
  <1> SUFFICES ASSUME Init PROVE TypeOK
    OBVIOUS
  <1>1. Absent \in Rows
    BY DEF Absent, Rows, Statuses
  <1>2. Idle \in Jobs
    BY DEF Idle, Jobs, Places
  <1>3. \A w \in Workers : At(w, "IDLE")
    BY DEF Init, At, Idle
  <1> QED BY <1>1, <1>2, <1>3 DEF Init, TypeOK

\* Rows, jobs and counters keep their types; a row has a lease exactly while it
\* is processed, whichever worker wrote it last.
THEOREM TypeCorrect == Spec => []TypeOK
  <1>1. TypeOK /\ [Next]_vars => TypeOK'
    BY TypeStep
  <1> QED BY TypeInit, <1>1, PTL DEF Spec

-----------------------------------------------------------------------------
(* How messages are settled. *)

\* The statements that settle a row, and what they leave of it.
LEMMA RowFacts ==
    ASSUME NEW r \in Rows, NEW n \in Nat
    PROVE  /\ r.attempts \in Nat
           /\ Claimed(r).status = "PROCESSING" /\ Claimed(r).attempts = r.attempts + 1
           /\ Claimed(r).lease = "RUNNING"
           /\ Completed(r).attempts = r.attempts
           /\ Completed(r).status = (IF r.status = "PROCESSING" THEN "COMPLETED" ELSE r.status)
           /\ Completed(r).lease = "NULL"
           /\ Retried(r, n).attempts = r.attempts
           /\ Retried(r, n).status = (IF Exhausted(n) THEN "DEAD_LETTER" ELSE "PENDING")
           /\ Retried(r, n).lease = "NULL"
           /\ Requeued(r).status = "PENDING" /\ Requeued(r).attempts = r.attempts
           /\ Requeued(r).lease = "NULL"
  BY DEF Rows, Claimed, Completed, Retried, Requeued

\* Only a worker that is past its handler completes a row, and only one that has
\* read as many attempts as the limit buries it; attempts are never taken back.
LEMMA RowEffect ==
    ASSUME TypeOK, [Next]_vars, NEW m \in Messages
    PROVE  /\ row'[m].attempts >= row[m].attempts
           /\ \/ row'[m].status = row[m].status
              \/ row'[m].status \in {"PENDING", "PROCESSING"}
              \/ /\ row'[m].status = "COMPLETED"
                 /\ \E w \in Workers : At(w, "COMPLETE") /\ job[w].message = m
              \/ /\ row'[m].status = "DEAD_LETTER"
                 /\ \E w \in Workers : /\ At(w, "RETRY_WRITE") /\ job[w].message = m
                                       /\ Exhausted(job[w].attempts)
  <1>1. row \in [Messages -> Rows] /\ row[m] \in Rows /\ row[m].attempts \in Nat
    BY DEF TypeOK, Rows
  <1>2. ASSUME row' = row
        PROVE  row'[m].attempts >= row[m].attempts /\ row'[m].status = row[m].status
    BY <1>1, <1>2
  <1>3. CASE \/ UNCHANGED vars \/ \E n \in Messages : StateMoves(n)
             \/ \E w \in Workers : \/ VerifyPasses(w) \/ VerifyThrows(w) \/ HandlerReturns(w)
                                   \/ HandlerThrows(w) \/ RetryReads(w) \/ Stop(w)
    <2>1. row' = row
      BY <1>3 DEF vars, rows, StateMoves, VerifyPasses, VerifyThrows, HandlerReturns,
                  HandlerThrows, RetryReads, Stop
    <2> QED BY <1>2, <2>1
  <1>4. ASSUME NEW n \in Messages, NEW r \in Rows, row' = [row EXCEPT ![n] = r],
               r.attempts >= row[n].attempts,
               \/ r.status = row[n].status
               \/ r.status \in {"PENDING", "PROCESSING"}
        PROVE  /\ row'[m].attempts >= row[m].attempts
               /\ row'[m].status = row[m].status \/ row'[m].status \in {"PENDING", "PROCESSING"}
    BY <1>1, <1>4
  <1>5. CASE \E n \in Messages : \/ Enqueue(n) \/ LeaseExpires(n) \/ BecomesDue(n)
                                 \/ RequeueOutbox(n) \/ \E w \in Workers : ClaimOutbox(w, n)
    <2>1. PICK n \in Messages : \/ Enqueue(n) \/ LeaseExpires(n) \/ BecomesDue(n)
                                \/ RequeueOutbox(n) \/ \E w \in Workers : ClaimOutbox(w, n)
      BY <1>5
    <2>2. row[n] \in Rows /\ row[n].attempts \in Nat
      BY <1>1 DEF Rows
    <2>3. CASE Enqueue(n)
      <3> DEFINE r == [Absent EXCEPT !.status = "PENDING", !.available = TRUE]
      <3>1. r \in Rows /\ r.status = "PENDING" /\ r.attempts = 0
        BY DEF Absent, Rows, Statuses
      <3>2. row' = [row EXCEPT ![n] = r]
        BY <2>3 DEF Enqueue
      <3>3. row[n].attempts = 0
        BY <2>3 DEF Enqueue, Absent
      <3> HIDE DEF r
      <3>4. r.attempts >= row[n].attempts /\ r.status \in {"PENDING", "PROCESSING"}
        BY <3>1, <3>3
      <3> QED BY <1>4, <3>1, <3>2, <3>4
    <2>4. CASE LeaseExpires(n)
      <3> DEFINE r == [row[n] EXCEPT !.lease = "EXPIRED"]
      <3>1. row[n].lease = "RUNNING" /\ row' = [row EXCEPT ![n] = r]
        BY <2>4 DEF LeaseExpires
      <3>2. r \in Rows /\ r.attempts = row[n].attempts /\ r.status = row[n].status
        BY <2>2, <3>1, RowTypes DEF Rows
      <3> HIDE DEF r
      <3>3. r.attempts >= row[n].attempts
        BY <2>2, <3>2
      <3> QED BY <1>4, <3>1, <3>2, <3>3
    <2>5. CASE BecomesDue(n)
      <3> DEFINE r == [row[n] EXCEPT !.available = TRUE]
      <3>1. row' = [row EXCEPT ![n] = r]
        BY <2>5 DEF BecomesDue
      <3>2. r \in Rows /\ r.attempts = row[n].attempts /\ r.status = row[n].status
        BY <2>2, RowTypes DEF Rows
      <3> HIDE DEF r
      <3>3. r.attempts >= row[n].attempts
        BY <2>2, <3>2
      <3> QED BY <1>4, <3>1, <3>2, <3>3
    <2>6. CASE RequeueOutbox(n)
      <3>1. row' = [row EXCEPT ![n] = Requeued(row[n])]
        BY <2>6 DEF RequeueOutbox
      <3>2. /\ Requeued(row[n]) \in Rows /\ Requeued(row[n]).status \in {"PENDING", "PROCESSING"}
            /\ Requeued(row[n]).attempts = row[n].attempts
        BY <2>2, RowTypes, RowFacts
      <3>3. Requeued(row[n]).attempts >= row[n].attempts
        BY <2>2, <3>2
      <3> QED BY <1>4, <3>1, <3>2, <3>3
    <2>7. CASE \E w \in Workers : ClaimOutbox(w, n)
      <3>1. row' = [row EXCEPT ![n] = Claimed(row[n])]
        BY <2>7 DEF ClaimOutbox
      <3>2. Claimed(row[n]) \in Rows /\ Claimed(row[n]).status \in {"PENDING", "PROCESSING"}
        BY <2>2, RowTypes, RowFacts
      <3>3. Claimed(row[n]).attempts >= row[n].attempts
        BY <2>2, RowFacts
      <3> QED BY <1>4, <3>1, <3>2, <3>3
    <2> QED BY <2>1, <2>3, <2>4, <2>5, <2>6, <2>7
  <1>6. CASE \E w \in Workers : CompleteOutbox(w) \/ CompletionThrows(w)
    <2>1. PICK w \in Workers : CompleteOutbox(w) \/ CompletionThrows(w)
      BY <1>6
    <2> DEFINE n == job[w].message
               r == Completed(row[n])
    <2>2. At(w, "COMPLETE") /\ ~At(w, "IDLE")
      BY <2>1 DEF CompleteOutbox, CompletionThrows, At
    <2>3. row' = row \/ row' = [row EXCEPT ![n] = r]
      BY <2>1 DEF CompleteOutbox, CompletionThrows
    <2>4. n \in Messages /\ row[n] \in Rows /\ row[n].attempts \in Nat
      BY <2>2, AtWork
    <2>5. r \in Rows /\ r.attempts = row[n].attempts
          /\ r.status = (IF row[n].status = "PROCESSING" THEN "COMPLETED" ELSE row[n].status)
      BY <2>4, RowTypes, RowFacts
    <2> HIDE DEF r
    <2>6. CASE n = m
      BY <1>1, <1>2, <2>2, <2>3, <2>5, <2>6
    <2>7. CASE n # m
      BY <1>1, <1>2, <2>3, <2>4, <2>7
    <2> QED BY <2>6, <2>7
  <1>7. CASE \E w \in Workers : RetryWrites(w)
    <2>1. PICK w \in Workers : RetryWrites(w)
      BY <1>7
    <2> DEFINE n == job[w].message
               r == Retried(row[n], job[w].attempts)
    <2>2. At(w, "RETRY_WRITE") /\ ~At(w, "IDLE")
      BY <2>1 DEF RetryWrites, At
    <2>3. row' = [row EXCEPT ![n] = r]
      BY <2>1 DEF RetryWrites
    <2>4. n \in Messages /\ row[n] \in Rows /\ row[n].attempts \in Nat
      BY <2>2, AtWork
    <2>5. job[w].attempts \in Nat
      BY DEF TypeOK, Jobs
    <2>6. r \in Rows /\ r.attempts = row[n].attempts
          /\ r.status = (IF Exhausted(job[w].attempts) THEN "DEAD_LETTER" ELSE "PENDING")
      BY <2>4, <2>5, RowTypes, RowFacts
    <2> HIDE DEF r
    <2>7. CASE n = m
      BY <1>1, <2>2, <2>3, <2>6, <2>7
    <2>8. CASE n # m
      BY <1>1, <2>3, <2>4, <2>8
    <2> QED BY <2>7, <2>8
  <1> QED
    BY <1>3, <1>5, <1>6, <1>7 DEF Next, Environment, Settle

\* A worker reaches COMPLETE only when its handler has returned, and RETRY_WRITE
\* with the attempts that the row shows; handled never shrinks.
LEMMA JobEffect ==
    ASSUME TypeOK, [Next]_vars, NEW w \in Workers
    PROVE  \/ job'[w] = job[w]
           \/ job'[w].at \notin {"COMPLETE", "RETRY_WRITE"}
           \/ /\ job'[w].at = "COMPLETE"
              /\ job'[w].message \in Messages /\ handled'[job'[w].message] > 0
           \/ /\ job'[w].at = "RETRY_WRITE"
              /\ job'[w].message \in Messages
              /\ job'[w].attempts = row'[job'[w].message].attempts
  <1>1. job \in [Workers -> Jobs] /\ job[w] \in Jobs
    BY DEF TypeOK
  <1>2. CASE job' = job
    BY <1>2
  <1>3. ASSUME NEW v \in Workers, Rest(v)
        PROVE  job'[w] = job[w] \/ job'[w].at \notin {"COMPLETE", "RETRY_WRITE"}
    BY <1>1, <1>3 DEF Rest, Idle
  <1>4. ASSUME NEW v \in Workers, NEW place \in {"HANDLE", "RETRY"}, Go(v, place)
        PROVE  job'[w] = job[w] \/ job'[w].at \notin {"COMPLETE", "RETRY_WRITE"}
    BY <1>1, <1>4 DEF Go, Jobs
  <1>5. CASE \E v \in Workers, n \in Messages : ClaimOutbox(v, n)
    <2>1. PICK v \in Workers, n \in Messages : ClaimOutbox(v, n)
      BY <1>5
    <2>2. job' = [job EXCEPT ![v] = [Idle EXCEPT !.at = "VERIFY", !.message = n]]
      BY <2>1 DEF ClaimOutbox
    <2> QED BY <1>1, <2>2 DEF Idle
  <1>6. CASE \E v \in Workers : \/ VerifyPasses(v) \/ VerifyThrows(v)
                                \/ HandlerThrows(v) \/ CompletionThrows(v)
    BY <1>4, <1>6 DEF VerifyPasses, VerifyThrows, HandlerThrows, CompletionThrows
  <1>7. CASE \E v \in Workers : CompleteOutbox(v) \/ RetryWrites(v) \/ Stop(v)
    BY <1>3, <1>7 DEF CompleteOutbox, RetryWrites, Stop
  <1>8. CASE \E v \in Workers : HandlerReturns(v)
    <2>1. PICK v \in Workers : HandlerReturns(v)
      BY <1>8
    <2>2. job[v].message \in Messages
      BY <2>1, AtWork DEF HandlerReturns, At
    <2>3. handled'[job[v].message] > 0
      BY <2>1, <2>2 DEF HandlerReturns, TypeOK
    <2>4. job' = [job EXCEPT ![v] = [job[v] EXCEPT !.at = "COMPLETE"]]
      BY <2>1 DEF HandlerReturns, Go
    <2>5. CASE v = w
      <3>1. job'[w] = [job[w] EXCEPT !.at = "COMPLETE"]
        BY <1>1, <2>4, <2>5
      <3> QED BY <1>1, <2>2, <2>3, <2>5, <3>1 DEF Jobs
    <2>6. CASE v # w
      BY <1>1, <2>4, <2>6
    <2> QED BY <2>5, <2>6
  <1>9. CASE \E v \in Workers : RetryReads(v)
    <2>1. PICK v \in Workers : RetryReads(v)
      BY <1>9
    <2>2. job[v].message \in Messages
      BY <2>1, AtWork DEF RetryReads, At
    <2>3. row' = row
      BY <2>1 DEF RetryReads, rows
    <2>4. job' = [job EXCEPT ![v] = [job[v] EXCEPT !.at = "RETRY_WRITE",
                                        !.attempts = row[job[v].message].attempts]]
      BY <2>1 DEF RetryReads
    <2>5. CASE v = w
      <3>1. job'[w] = [job[w] EXCEPT !.at = "RETRY_WRITE",
                                     !.attempts = row[job[w].message].attempts]
        BY <1>1, <2>4, <2>5
      <3> QED BY <1>1, <2>2, <2>3, <2>5, <3>1 DEF Jobs
    <2>6. CASE v # w
      BY <1>1, <2>4, <2>6
    <2> QED BY <2>5, <2>6
  <1>10. CASE UNCHANGED vars \/ \E n \in Messages : Enqueue(n) \/ Environment(n)
    <2>1. job' = job
      BY <1>10 DEF vars, Enqueue, Environment, LeaseExpires, BecomesDue, StateMoves,
                   RequeueOutbox
    <2> QED BY <2>1
  <1> QED
    BY <1>5, <1>6, <1>7, <1>8, <1>9, <1>10 DEF Next, Settle

LEMMA HandledGrows ==
    ASSUME TypeOK, [Next]_vars, NEW m \in Messages
    PROVE  handled'[m] \in Nat /\ handled'[m] >= handled[m]
  <1>1. handled \in [Messages -> Nat]
    BY DEF TypeOK
  <1>2. CASE \E w \in Workers : HandlerReturns(w)
    BY <1>1, <1>2 DEF HandlerReturns
  <1>3. CASE ~\E w \in Workers : HandlerReturns(w)
    <2>1. handled' = handled
      BY <1>3 DEF Next, vars, history, Enqueue, Environment, LeaseExpires, BecomesDue,
                  StateMoves, RequeueOutbox, ClaimOutbox, VerifyPasses, VerifyThrows,
                  HandlerThrows, Settle, CompleteOutbox, RetryReads, RetryWrites,
                  CompletionThrows, Stop
    <2> QED BY <1>1, <2>1
  <1> QED BY <1>2, <1>3

LEMMA SettledStep ==
    ASSUME Settled, [Next]_vars
    PROVE  Settled'
  <1>1. TypeOK /\ TypeOK'
    BY TypeStep DEF Settled
  <1>2. ASSUME NEW w \in Workers
        PROVE  /\ At(w, "COMPLETE")' => handled'[job'[w].message] > 0
               /\ At(w, "RETRY_WRITE")' =>
                    job'[w].attempts <= row'[job'[w].message].attempts
    <2>1. CASE job'[w] = job[w] /\ ~At(w, "IDLE")
      <3>1. job[w].message \in Messages
        BY <1>1, <2>1, AtWork
      <3>2. /\ handled'[job[w].message] \in Nat
            /\ handled'[job[w].message] >= handled[job[w].message]
            /\ row'[job[w].message].attempts >= row[job[w].message].attempts
        BY <1>1, <3>1, HandledGrows, RowEffect
      <3>3. /\ handled[job[w].message] \in Nat
            /\ row[job[w].message].attempts \in Nat
            /\ row'[job[w].message].attempts \in Nat
            /\ job[w].attempts \in Nat
        BY <1>1, <3>1 DEF TypeOK, Rows, Jobs
      <3> QED BY <2>1, <3>2, <3>3 DEF Settled, JobsMatch, At
    <2>2. CASE job'[w] = job[w] /\ At(w, "IDLE")
      BY <2>2 DEF At
    <2>3. CASE job'[w].at \notin {"COMPLETE", "RETRY_WRITE"}
      BY <2>3 DEF At
    <2>4. CASE /\ job'[w].at = "COMPLETE"
               /\ job'[w].message \in Messages /\ handled'[job'[w].message] > 0
      BY <2>4 DEF At
    <2>5. CASE /\ job'[w].at = "RETRY_WRITE"
               /\ job'[w].message \in Messages
               /\ job'[w].attempts = row'[job'[w].message].attempts
      <3>1. row'[job'[w].message].attempts \in Nat
        BY <1>1, <2>5 DEF TypeOK, Rows
      <3> QED BY <2>5, <3>1 DEF At
    <2> QED BY <1>1, <2>1, <2>2, <2>3, <2>4, <2>5, JobEffect
  <1>3. ASSUME NEW m \in Messages
        PROVE  /\ row'[m].status = "COMPLETED" => handled'[m] > 0
               /\ row'[m].status = "DEAD_LETTER" => row'[m].attempts >= MaxAttempts
    <2>1. /\ row[m].attempts \in Nat /\ row'[m].attempts \in Nat
          /\ row'[m].attempts >= row[m].attempts
          /\ handled[m] \in Nat /\ handled'[m] \in Nat /\ handled'[m] >= handled[m]
          /\ MaxAttempts \in Nat
      BY <1>1, RowEffect, HandledGrows, DurableOutboxAssumption DEF TypeOK, Rows
    <2>2. CASE row'[m].status = row[m].status
      BY <2>1, <2>2 DEF Settled, SettledRightly
    <2>3. CASE row'[m].status \in {"PENDING", "PROCESSING"}
      BY <2>3
    <2>4. CASE /\ row'[m].status = "COMPLETED"
               /\ \E w \in Workers : At(w, "COMPLETE") /\ job[w].message = m
      BY <2>1, <2>4 DEF Settled, JobsMatch
    <2>5. CASE /\ row'[m].status = "DEAD_LETTER"
               /\ \E w \in Workers : /\ At(w, "RETRY_WRITE") /\ job[w].message = m
                                     /\ Exhausted(job[w].attempts)
      <3>1. PICK w \in Workers : /\ At(w, "RETRY_WRITE") /\ job[w].message = m
                                 /\ Exhausted(job[w].attempts)
        BY <2>5
      <3>2. job[w].attempts \in Nat
        BY <1>1 DEF TypeOK, Jobs
      <3>3. job[w].attempts <= row[m].attempts /\ job[w].attempts >= MaxAttempts
        BY <3>1 DEF Settled, JobsMatch, Exhausted
      <3> QED BY <2>1, <2>5, <3>2, <3>3
    <2> QED BY <1>1, <2>2, <2>3, <2>4, <2>5, RowEffect
  <1> QED BY <1>1, <1>2, <1>3 DEF Settled, JobsMatch, SettledRightly

\* A message is completed only after a handler returned, and a dead letter only
\* after as many claims as the limit, though late workers complete and retry rows
\* that are not theirs.
THEOREM Settlement == Spec => []SettledRightly
  <1>1. Init => Settled
    <2> SUFFICES ASSUME Init PROVE Settled
      OBVIOUS
    <2> QED BY TypeInit DEF Init, Settled, JobsMatch, SettledRightly, At, Idle, Absent
  <1>2. Settled /\ [Next]_vars => Settled'
    BY SettledStep
  <1>3. Settled => SettledRightly
    BY DEF Settled
  <1> QED BY <1>1, <1>2, <1>3, PTL DEF Spec

-----------------------------------------------------------------------------
(* Messages whose state has moved on. *)

\* Nothing hands a lost message to a handler.
LEMMA LostStep ==
    ASSUME TypeOK, [Next]_vars, NEW m \in Messages, Lost(m)
    PROVE  Lost(m)'
  <1>1. m \in stale'
    BY DEF Lost, Next, vars, rows, Enqueue, Environment, LeaseExpires, BecomesDue,
           StateMoves, RequeueOutbox, ClaimOutbox, VerifyPasses, VerifyThrows,
           HandlerReturns, HandlerThrows, Settle, CompleteOutbox, RetryReads, RetryWrites,
           CompletionThrows, Stop
  <1>2. ASSUME NEW w \in Workers, job'[w].message = m, job'[w].at = "HANDLE"
        PROVE  job[w].message = m /\ job[w].at = "HANDLE"
    <2>1. job \in [Workers -> Jobs]
      BY DEF TypeOK
    <2>2. CASE job' = job
      BY <1>2, <2>2
    <2>3. CASE \E v \in Workers, n \in Messages : ClaimOutbox(v, n)
      BY <1>2, <2>1, <2>3 DEF ClaimOutbox, Idle
    <2>4. CASE \E v \in Workers : VerifyPasses(v)
      <3>1. PICK v \in Workers : VerifyPasses(v)
        BY <2>4
      <3>2. job' = [job EXCEPT ![v] = [job[v] EXCEPT !.at = "HANDLE"]]
            /\ job[v].message # m
        BY <3>1 DEF VerifyPasses, Go, Lost
      <3>3. CASE v = w
        <4>1. job'[w] = [job[w] EXCEPT !.at = "HANDLE"]
          BY <2>1, <3>2, <3>3
        <4> QED BY <1>2, <2>1, <3>2, <3>3, <4>1 DEF Jobs
      <3>4. CASE v # w
        BY <1>2, <2>1, <3>2, <3>4
      <3> QED BY <3>3, <3>4
    <2>5. ASSUME NEW v \in Workers, NEW place \in {"COMPLETE", "RETRY"}, Go(v, place)
          PROVE  job'[w] = job[w]
      BY <1>2, <2>1, <2>5 DEF Go, Jobs
    <2>6. CASE \E v \in Workers : \/ VerifyThrows(v) \/ HandlerThrows(v)
                                  \/ HandlerReturns(v) \/ CompletionThrows(v)
      <3>1. job'[w] = job[w]
        BY <2>5, <2>6 DEF VerifyThrows, HandlerThrows, HandlerReturns, CompletionThrows
      <3> QED BY <1>2, <3>1
    <2>7. CASE \E v \in Workers : CompleteOutbox(v) \/ RetryWrites(v) \/ Stop(v)
      BY <1>2, <2>1, <2>7 DEF CompleteOutbox, RetryWrites, Stop, Rest, Idle
    <2>9. CASE \E v \in Workers : RetryReads(v)
      <3>1. PICK v \in Workers : RetryReads(v)
        BY <2>9
      <3>2. \A k : job' = [job EXCEPT ![v] = [job[v] EXCEPT !.at = "RETRY_WRITE", !.attempts = k]]
                     => job'[w] = job[w]
        BY <1>2, <2>1 DEF Jobs
      <3>3. job'[w] = job[w]
        BY <3>1, <3>2 DEF RetryReads
      <3> QED BY <1>2, <3>3
    <2>8. CASE UNCHANGED vars \/ \E n \in Messages : Enqueue(n) \/ Environment(n)
      <3>1. job' = job
        BY <2>8 DEF vars, Enqueue, Environment, LeaseExpires, BecomesDue, StateMoves,
                    RequeueOutbox
      <3> QED BY <2>2, <3>1
    <2> QED
      BY <2>3, <2>4, <2>6, <2>7, <2>8, <2>9 DEF Next, Settle
  <1>3. handled'[m] = 0
    <2>1. handled \in [Messages -> Nat] /\ handled[m] = 0
      BY DEF TypeOK, Lost
    <2>2. CASE \E w \in Workers : HandlerReturns(w)
      BY <2>1, <2>2 DEF HandlerReturns, At, Lost
    <2>3. CASE ~\E w \in Workers : HandlerReturns(w)
      <3>1. handled' = handled
        BY <2>3 DEF Next, vars, history, Enqueue, Environment, LeaseExpires, BecomesDue,
                    StateMoves, RequeueOutbox, ClaimOutbox, VerifyPasses, VerifyThrows,
                    HandlerThrows, Settle, CompleteOutbox, RetryReads, RetryWrites,
                    CompletionThrows, Stop
      <3> QED BY <2>1, <3>1
    <2> QED BY <2>2, <2>3
  <1> QED BY <1>1, <1>2, <1>3 DEF Lost, At

\* A message whose state has moved on before any worker got past verify is never
\* handled, whatever retries and governed requeues follow.
THEOREM LostForGood == Spec => StaleStaysLost
  <1>1. TypeOK /\ [Next]_vars => [\A m \in Messages : Lost(m) => Lost(m)']_vars
    BY LostStep
  <1> QED BY TypeCorrect, <1>1, PTL DEF Spec, StaleStaysLost

-----------------------------------------------------------------------------
(* How often a message may be handled. *)

\* A worker that has yet to handle the message, or to hand it back.
Waits(j, m) == j.message = m /\ j.at # "COMPLETE"

Waiting(m) == {w \in Workers : Waits(job[w], m)}

\* The row lets a worker take the message up, now or after a requeue.
Open(r) == IF r.status \in {"NONE", "PENDING", "DEAD_LETTER"} THEN 1 ELSE 0

Overdue(r) == IF r.lease = "EXPIRED" THEN 1 ELSE 0

Accounted ==
    \A m \in Messages :
        handled[m] + Cardinality(Waiting(m)) + Open(row[m]) + Overdue(row[m])
            <= 1 + lapsed[m] + faults[m]

LEMMA WaitingFinite ==
    ASSUME NEW m
    PROVE  IsFiniteSet(Waiting(m)) /\ Cardinality(Waiting(m)) \in Nat
  BY DurableOutboxAssumption, FS_Subset, FS_CardinalityType DEF Waiting

\* One worker's step changes the number of those that wait by at most itself.
LEMMA WaitingStep ==
    ASSUME TypeOK, NEW w \in Workers, NEW j, job' = [job EXCEPT ![w] = j], NEW m
    PROVE  Cardinality(Waiting(m)') =
             IF Waits(j, m)
               THEN IF Waits(job[w], m) THEN Cardinality(Waiting(m))
                                        ELSE Cardinality(Waiting(m)) + 1
               ELSE IF Waits(job[w], m) THEN Cardinality(Waiting(m)) - 1
                                        ELSE Cardinality(Waiting(m))
  <1>1. job \in [Workers -> Jobs]
    BY DEF TypeOK
  <1>2. CASE Waits(j, m)
    <2>1. Waiting(m)' = Waiting(m) \cup {w}
      BY <1>1, <1>2 DEF Waiting
    <2>2. w \in Waiting(m) <=> Waits(job[w], m)
      BY DEF Waiting
    <2> QED BY <1>2, <2>1, <2>2, WaitingFinite, FS_AddElement
  <1>3. CASE ~Waits(j, m)
    <2>1. Waiting(m)' = Waiting(m) \ {w}
      BY <1>1, <1>3 DEF Waiting
    <2>2. w \in Waiting(m) <=> Waits(job[w], m)
      BY DEF Waiting
    <2> QED BY <1>3, <2>1, <2>2, WaitingFinite, FS_RemoveElement
  <1> QED BY <1>2, <1>3

LEMMA RowBudget ==
    ASSUME NEW r \in Rows, NEW n \in Nat
    PROVE  /\ Open(r) \in 0 .. 1 /\ Overdue(r) \in 0 .. 1
           /\ (r.status = "PENDING" \/ (r.status = "PROCESSING" /\ r.lease = "EXPIRED"))
                => Open(Claimed(r)) + Overdue(Claimed(r)) = Open(r) + Overdue(r) - 1
           /\ Open(Completed(r)) + Overdue(Completed(r)) <= Open(r) + Overdue(r)
           /\ Open(Retried(r, n)) + Overdue(Retried(r, n)) <= 1
           /\ r.status = "DEAD_LETTER"
                => Open(Requeued(r)) + Overdue(Requeued(r)) <= Open(r) + Overdue(r)
  <1>1. Open(r) \in 0 .. 1 /\ Overdue(r) \in 0 .. 1
    BY DEF Open, Overdue
  <1>2. ASSUME r.status = "PENDING" \/ (r.status = "PROCESSING" /\ r.lease = "EXPIRED")
        PROVE  Open(Claimed(r)) + Overdue(Claimed(r)) = Open(r) + Overdue(r) - 1
    <2>1. Open(Claimed(r)) = 0 /\ Overdue(Claimed(r)) = 0
      BY RowFacts DEF Open, Overdue
    <2>2. Open(r) + Overdue(r) = 1
      <3>1. CASE r.status = "PENDING"
        <4>1. r.lease = "NULL"
          BY <3>1 DEF Rows
        <4>2. Open(r) = 1 /\ Overdue(r) = 0
          BY <3>1, <4>1 DEF Open, Overdue
        <4> QED BY <4>2
      <3>2. CASE r.status = "PROCESSING" /\ r.lease = "EXPIRED"
        <4>1. Open(r) = 0 /\ Overdue(r) = 1
          BY <3>2 DEF Open, Overdue
        <4> QED BY <4>1
      <3> QED BY <1>2, <3>1, <3>2
    <2> QED BY <1>1, <2>1, <2>2
  <1>3. Open(Completed(r)) + Overdue(Completed(r)) <= Open(r) + Overdue(r)
    <2>1. Overdue(Completed(r)) = 0
      BY RowFacts DEF Overdue
    <2>2. Open(Completed(r)) = Open(r)
      <3>1. Completed(r).status = (IF r.status = "PROCESSING" THEN "COMPLETED" ELSE r.status)
        BY RowFacts
      <3> QED BY <3>1 DEF Open
    <2> QED BY <1>1, <2>1, <2>2
  <1>4. Open(Retried(r, n)) + Overdue(Retried(r, n)) <= 1
    <2>1. Overdue(Retried(r, n)) = 0
      BY RowFacts DEF Overdue
    <2>2. Retried(r, n).status \in {"DEAD_LETTER", "PENDING"}
      <3>1. Retried(r, n).status = (IF Exhausted(n) THEN "DEAD_LETTER" ELSE "PENDING")
        BY RowFacts
      <3> QED BY <3>1
    <2>3. Open(Retried(r, n)) = 1
      BY <2>2 DEF Open
    <2> QED BY <2>1, <2>3
  <1>5. ASSUME r.status = "DEAD_LETTER"
        PROVE  Open(Requeued(r)) + Overdue(Requeued(r)) <= Open(r) + Overdue(r)
    <2>1. Open(Requeued(r)) = 1 /\ Overdue(Requeued(r)) = 0
      BY RowFacts DEF Open, Overdue
    <2>2. Open(r) = 1
      BY <1>5 DEF Open
    <2> QED BY <1>1, <2>1, <2>2
  <1> QED BY <1>1, <1>2, <1>3, <1>4, <1>5

\* The budget of one message, with each of its parts written out.
LEMMA BudgetStep ==
    ASSUME TypeOK, [Next]_vars, NEW m \in Messages,
           handled[m] + Cardinality(Waiting(m)) + Open(row[m]) + Overdue(row[m])
             <= 1 + lapsed[m] + faults[m]
    PROVE  handled'[m] + Cardinality(Waiting(m)') + Open(row'[m]) + Overdue(row'[m])
             <= 1 + lapsed'[m] + faults'[m]
  <1> DEFINE c == Cardinality(Waiting(m))
             d == Cardinality(Waiting(m)')
             p == Open(row[m]) + Overdue(row[m])
             q == Open(row'[m]) + Overdue(row'[m])
  <1>1. TypeOK'
    BY TypeStep
  <1>2. /\ handled[m] \in Nat /\ lapsed[m] \in Nat /\ faults[m] \in Nat
        /\ handled'[m] \in Nat /\ lapsed'[m] \in Nat /\ faults'[m] \in Nat
        /\ row[m] \in Rows /\ row'[m] \in Rows
    BY <1>1 DEF TypeOK
  <1>3. p \in 0 .. 2 /\ q \in 0 .. 2
    BY <1>2, RowBudget DEF Rows
  <1>4. c \in Nat
    BY WaitingFinite
  <1>5. job \in [Workers -> Jobs]
    BY DEF TypeOK
  <1>6. handled[m] + c + p <= 1 + lapsed[m] + faults[m]
    BY <1>2, <1>4, RowBudget DEF Rows
  <1>7. SUFFICES handled'[m] + d + q <= 1 + lapsed'[m] + faults'[m] /\ d \in Int
    BY <1>2, RowBudget DEF Rows
  <1>8. job' = job => d = c
    BY DEF Waiting
  <1> HIDE DEF c, d, p, q
  <1>9. CASE UNCHANGED vars
    <2>1. job' = job /\ q = p /\ handled' = handled /\ lapsed' = lapsed /\ faults' = faults
      BY <1>9 DEF vars, p, q
    <2> QED BY <1>2, <1>3, <1>4, <1>6, <1>8, <2>1
  <1>10. CASE \E n \in Messages : Enqueue(n) \/ BecomesDue(n) \/ StateMoves(n) \/ RequeueOutbox(n)
    <2>1. PICK n \in Messages : Enqueue(n) \/ BecomesDue(n) \/ StateMoves(n) \/ RequeueOutbox(n)
      BY <1>10
    <2>2. job' = job /\ handled' = handled /\ lapsed' = lapsed /\ faults' = faults
      BY <2>1 DEF Enqueue, BecomesDue, StateMoves, RequeueOutbox, history
    <2>3. q <= p
      <3>1. CASE Enqueue(n)
        <4>1. row' = [row EXCEPT ![n] = [Absent EXCEPT !.status = "PENDING", !.available = TRUE]]
              /\ row[n] = Absent
          BY <3>1 DEF Enqueue
        <4>2. n = m => p = 1 /\ q = 1
          BY <4>1 DEF TypeOK, Absent, p, q, Open, Overdue
        <4>3. n # m => q = p
          BY <4>1 DEF TypeOK, p, q
        <4> QED BY <1>3, <4>2, <4>3
      <3>2. CASE BecomesDue(n)
        <4>1. row'[m].status = row[m].status /\ row'[m].lease = row[m].lease
          BY <1>2, <3>2 DEF BecomesDue, TypeOK, Rows
        <4>2. q = p
          BY <4>1 DEF p, q, Open, Overdue
        <4> QED BY <1>3, <4>2
      <3>3. CASE StateMoves(n)
        <4>1. row' = row
          BY <3>3 DEF StateMoves
        <4> QED BY <1>3, <4>1 DEF p, q
      <3>4. CASE RequeueOutbox(n)
        <4>1. row' = [row EXCEPT ![n] = Requeued(row[n])] /\ row[n].status = "DEAD_LETTER"
          BY <3>4 DEF RequeueOutbox
        <4>2. n = m => row'[m] = Requeued(row[m]) /\ row[m].status = "DEAD_LETTER"
          BY <4>1 DEF TypeOK
        <4>3. n # m => row'[m] = row[m]
          BY <4>1 DEF TypeOK
        <4>4. n = m => q <= p
          BY <1>2, <4>2, RowBudget DEF p, q
        <4> QED BY <1>3, <4>3, <4>4 DEF p, q
      <3> QED BY <2>1, <3>1, <3>2, <3>3, <3>4
    <2> QED BY <1>2, <1>3, <1>4, <1>6, <1>8, <2>2, <2>3
  <1>11. CASE \E n \in Messages : LeaseExpires(n)
    <2>1. PICK n \in Messages : LeaseExpires(n)
      BY <1>11
    <2>2. job' = job /\ handled' = handled /\ faults' = faults
      BY <2>1 DEF LeaseExpires
    <2>3. CASE n = m
      <3>1. row'[m].status = row[m].status /\ row[m].lease = "RUNNING"
            /\ row'[m].lease = "EXPIRED"
        BY <1>2, <2>1, <2>3 DEF LeaseExpires, TypeOK, Rows
      <3>2. Open(row'[m]) = Open(row[m]) /\ Overdue(row[m]) = 0 /\ Overdue(row'[m]) = 1
        BY <3>1 DEF Open, Overdue
      <3>3. Open(row[m]) \in Nat
        BY DEF Open
      <3>4. q = p + 1
        BY <3>2, <3>3 DEF p, q
      <3>5. lapsed'[m] = lapsed[m] + 1
        BY <2>1, <2>3 DEF LeaseExpires, TypeOK
      <3> QED BY <1>2, <1>3, <1>4, <1>6, <1>8, <2>2, <3>4, <3>5
    <2>4. CASE n # m
      <3>1. row'[m] = row[m] /\ lapsed'[m] = lapsed[m]
        BY <2>1, <2>4 DEF LeaseExpires, TypeOK
      <3>2. q = p
        BY <3>1 DEF p, q
      <3> QED BY <1>2, <1>3, <1>4, <1>6, <1>8, <2>2, <3>1, <3>2
    <2> QED BY <2>3, <2>4
  <1>12. CASE \E w \in Workers, n \in Messages : ClaimOutbox(w, n)
    <2>1. PICK w \in Workers, n \in Messages : ClaimOutbox(w, n)
      BY <1>12
    <2> DEFINE j == [Idle EXCEPT !.at = "VERIFY", !.message = n]
    <2>2. job' = [job EXCEPT ![w] = j] /\ row' = [row EXCEPT ![n] = Claimed(row[n])]
          /\ handled' = handled /\ lapsed' = lapsed /\ faults' = faults
      BY <2>1 DEF ClaimOutbox, history
    <2>3. ~Waits(job[w], m)
      BY <1>5, <2>1, DurableOutboxAssumption DEF ClaimOutbox, At, Jobs, Waits
    <2>4. Waits(j, m) <=> n = m
      BY DEF Waits, Idle
    <2> HIDE DEF j
    <2>5. CASE n = m
      <3>1. d = c + 1
        BY <2>2, <2>3, <2>4, <2>5, WaitingStep DEF c, d
      <3>2. row'[m] = Claimed(row[m])
            /\ (row[m].status = "PENDING" \/ (row[m].status = "PROCESSING" /\ row[m].lease = "EXPIRED"))
        <4>1. row[m].status = "PENDING" \/ (row[m].status = "PROCESSING" /\ row[m].lease = "EXPIRED")
          BY <2>1, <2>5 DEF ClaimOutbox, Claimable
        <4>2. row'[n] = Claimed(row[n])
          BY <2>2 DEF TypeOK
        <4> QED BY <2>5, <4>1, <4>2
      <3>3. q = p - 1
        BY <1>2, <3>2, RowBudget DEF p, q
      <3> QED BY <1>2, <1>3, <1>4, <1>6, <2>2, <3>1, <3>3
    <2>6. CASE n # m
      <3>1. d = c
        BY <2>2, <2>3, <2>4, <2>6, WaitingStep DEF c, d
      <3>2. row'[m] = row[m]
        BY <2>2, <2>6 DEF TypeOK
      <3>3. q = p
        BY <3>2 DEF p, q
      <3> QED BY <1>2, <1>3, <1>4, <1>6, <2>2, <3>1, <3>3
    <2> QED BY <2>5, <2>6
  <1>13. ASSUME NEW w \in Workers, NEW j, job' = [job EXCEPT ![w] = j], NEW k \in {0, 1},
                Waits(j, m) => Waits(job[w], m) \/ k = 1, q <= p,
                handled' = handled, lapsed' = lapsed, faults'[m] = faults[m] + k
         PROVE  handled'[m] + d + q <= 1 + lapsed'[m] + faults'[m] /\ d \in Int
    <2>1. d = c \/ d = c - 1 \/ (d = c + 1 /\ k = 1)
      BY <1>13, WaitingStep DEF c, d
    <2> QED BY <1>2, <1>3, <1>4, <1>6, <1>13, <2>1
  <1>14. CASE \E w \in Workers : VerifyPasses(w) \/ VerifyThrows(w) \/ HandlerThrows(w)
    <2>1. PICK w \in Workers : VerifyPasses(w) \/ VerifyThrows(w) \/ HandlerThrows(w)
      BY <1>14
    <2>2. PICK place \in {"HANDLE", "RETRY"} : Go(w, place)
      BY <2>1 DEF VerifyPasses, VerifyThrows, HandlerThrows
    <2>3. job[w].at # "COMPLETE" /\ job[w] \in Jobs
      BY <1>5, <2>1 DEF VerifyPasses, VerifyThrows, HandlerThrows, At
    <2>4. row' = row /\ handled' = handled /\ lapsed' = lapsed /\ faults' = faults
      BY <2>1 DEF VerifyPasses, VerifyThrows, HandlerThrows, rows, history
    <2> DEFINE j == [job[w] EXCEPT !.at = place]
    <2>5. job' = [job EXCEPT ![w] = j]
      BY <2>2 DEF Go
    <2>6. Waits(j, m) => Waits(job[w], m)
      BY <2>3 DEF Waits, Jobs
    <2> HIDE DEF j
    <2>7. q <= p /\ faults'[m] = faults[m] + 0
      BY <1>2, <1>3, <2>4 DEF p, q
    <2> QED BY <1>13, <2>4, <2>5, <2>6, <2>7
  <1>15. CASE \E w \in Workers : RetryReads(w) \/ Stop(w) \/ CompleteOutbox(w)
    <2>1. PICK w \in Workers : RetryReads(w) \/ Stop(w) \/ CompleteOutbox(w)
      BY <1>15
    <2>2. /\ handled' = handled /\ lapsed' = lapsed /\ faults' = faults
          /\ row' = row \/ row' = [row EXCEPT ![job[w].message] = Completed(row[job[w].message])]
      BY <2>1 DEF RetryReads, Stop, CompleteOutbox, rows, history
    <2>3. q <= p
      <3>1. row'[m] = row[m] \/ row'[m] = Completed(row[m])
        BY <2>2 DEF TypeOK
      <3> QED BY <1>2, <1>3, <3>1, RowBudget DEF p, q
    <2>4. PICK j : job' = [job EXCEPT ![w] = j] /\ (Waits(j, m) => Waits(job[w], m))
      <3>1. CASE RetryReads(w)
        <4> DEFINE j == [job[w] EXCEPT !.at = "RETRY_WRITE",
                                       !.attempts = row[job[w].message].attempts]
        <4>1. job' = [job EXCEPT ![w] = j] /\ job[w].at = "RETRY" /\ job[w] \in Jobs
          BY <1>5, <3>1 DEF RetryReads, At
        <4>2. Waits(j, m) => Waits(job[w], m)
          BY <4>1 DEF Waits, Jobs
        <4> QED BY <4>1, <4>2
      <3>2. CASE Stop(w) \/ CompleteOutbox(w)
        <4>1. job' = [job EXCEPT ![w] = Idle]
          BY <3>2 DEF Stop, CompleteOutbox, Rest
        <4>2. ~Waits(Idle, m)
          BY DurableOutboxAssumption DEF Waits, Idle
        <4> QED BY <4>1, <4>2
      <3> QED BY <2>1, <3>1, <3>2
    <2>5. faults'[m] = faults[m] + 0
      BY <1>2, <2>2
    <2> QED BY <1>13, <2>2, <2>3, <2>4, <2>5
  <1>16. CASE \E w \in Workers : CompletionThrows(w)
    <2>1. PICK w \in Workers : CompletionThrows(w)
      BY <1>16
    <2> DEFINE n == job[w].message
               j == [job[w] EXCEPT !.at = "RETRY"]
    <2>2. n \in Messages /\ job[w] \in Jobs
      BY <2>1, AtWork DEF CompletionThrows, At
    <2>3. /\ job' = [job EXCEPT ![w] = j]
          /\ handled' = handled /\ lapsed' = lapsed
          /\ faults' = [faults EXCEPT ![n] = @ + 1]
          /\ row' = row \/ row' = [row EXCEPT ![n] = Completed(row[n])]
      BY <2>1 DEF CompletionThrows, Go
    <2>4. q <= p
      <3>1. row'[m] = row[m] \/ row'[m] = Completed(row[m])
        BY <2>3 DEF TypeOK
      <3> QED BY <1>2, <1>3, <3>1, RowBudget DEF p, q
    <2>5. Waits(j, m) => n = m
      BY <2>2 DEF Waits, Jobs
    <2>6. faults'[m] = faults[m] + (IF n = m THEN 1 ELSE 0)
      BY <1>2, <2>2, <2>3 DEF TypeOK
    <2> HIDE DEF j, n
    <2>7. CASE n = m
      <3>1. faults'[m] = faults[m] + 1
        BY <2>6, <2>7
      <3> QED BY <1>13, <2>3, <2>4, <3>1
    <2>8. CASE n # m
      <3>1. faults'[m] = faults[m] + 0 /\ ~Waits(j, m)
        BY <2>5, <2>6, <2>8
      <3> QED BY <1>13, <2>3, <2>4, <3>1
    <2> QED BY <2>7, <2>8
  <1>17. CASE \E w \in Workers : HandlerReturns(w)
    <2>1. PICK w \in Workers : HandlerReturns(w)
      BY <1>17
    <2> DEFINE n == job[w].message
               j == [job[w] EXCEPT !.at = "COMPLETE"]
    <2>2. n \in Messages /\ job[w] \in Jobs /\ job[w].at = "HANDLE"
      BY <2>1, AtWork DEF HandlerReturns, At
    <2>3. /\ job' = [job EXCEPT ![w] = j] /\ row' = row
          /\ handled' = [handled EXCEPT ![n] = @ + 1]
          /\ lapsed' = lapsed /\ faults' = faults
      BY <2>1 DEF HandlerReturns, Go, rows
    <2>4. ~Waits(j, m) /\ (Waits(job[w], m) <=> n = m)
      BY <2>2 DEF Waits, Jobs
    <2>5. q = p
      BY <2>3 DEF p, q
    <2>6. handled'[m] = handled[m] + (IF n = m THEN 1 ELSE 0)
      BY <1>2, <2>2, <2>3 DEF TypeOK
    <2>7. d = (IF n = m THEN c - 1 ELSE c)
      <3> HIDE DEF j
      <3> QED BY <2>3, <2>4, WaitingStep DEF c, d
    <2> HIDE DEF j, n
    <2> QED BY <1>2, <1>3, <1>4, <1>6, <2>3, <2>5, <2>6, <2>7
  <1>18. CASE \E w \in Workers : RetryWrites(w)
    <2>1. PICK w \in Workers : RetryWrites(w)
      BY <1>18
    <2> DEFINE n == job[w].message
    <2>2. n \in Messages /\ job[w].at = "RETRY_WRITE" /\ job[w].attempts \in Nat
      BY <1>5, <2>1, AtWork DEF RetryWrites, At, Jobs
    <2>3. /\ job' = [job EXCEPT ![w] = Idle]
          /\ row' = [row EXCEPT ![n] = Retried(row[n], job[w].attempts)]
          /\ handled' = handled /\ lapsed' = lapsed /\ faults' = faults
      BY <2>1 DEF RetryWrites, Rest, history
    <2>4. ~Waits(Idle, m) /\ (Waits(job[w], m) <=> n = m)
      BY <2>2, DurableOutboxAssumption DEF Waits, Idle
    <2>5. d = (IF n = m THEN c - 1 ELSE c)
      BY <2>3, <2>4, WaitingStep DEF c, d
    <2>6. n = m => q <= 1
      BY <1>2, <2>2, <2>3, RowBudget DEF q, TypeOK
    <2>7. n # m => q = p
      BY <2>3 DEF p, q, TypeOK
    <2> HIDE DEF n
    <2> QED BY <1>2, <1>3, <1>4, <1>6, <2>3, <2>5, <2>6, <2>7
  <1> QED
    BY <1>9, <1>10, <1>11, <1>12, <1>14, <1>15, <1>16, <1>17, <1>18
    DEF Next, Environment, Settle

LEMMA AccountedStep ==
    ASSUME TypeOK, Accounted, [Next]_vars
    PROVE  Accounted'
  <1> SUFFICES ASSUME NEW m \in Messages
               PROVE  handled'[m] + Cardinality(Waiting(m)') + Open(row'[m]) + Overdue(row'[m])
                        <= 1 + lapsed'[m] + faults'[m]
    BY DEF Accounted
  <1> QED BY BudgetStep DEF Accounted

LEMMA AccountedInit == Init => Accounted
  <1> SUFFICES ASSUME Init, NEW m \in Messages
               PROVE  handled[m] + Cardinality(Waiting(m)) + Open(row[m]) + Overdue(row[m])
                        <= 1 + lapsed[m] + faults[m]
    BY DEF Accounted
  <1>1. Waiting(m) = {}
    BY DurableOutboxAssumption DEF Init, Waiting, Waits, Idle
  <1>2. Cardinality(Waiting(m)) = 0
    BY <1>1, FS_EmptySet
  <1>3. Open(row[m]) = 1 /\ Overdue(row[m]) = 0
    BY DEF Init, Absent, Open, Overdue
  <1>4. handled[m] = 0 /\ lapsed[m] = 0 /\ faults[m] = 0
    BY DEF Init
  <1> QED BY <1>2, <1>3, <1>4

\* A message is handled at most once more than its leases lapsed and its workers
\* failed after the effect, whatever workers, retries, requeues and crashes do.
THEOREM Duplicates == Spec => []DuplicatesAccounted
  <1>1. TypeOK /\ Accounted /\ [Next]_vars => TypeOK' /\ Accounted'
    BY TypeStep, AccountedStep
  <1>2. TypeOK /\ Accounted => DuplicatesAccounted
    <2> SUFFICES ASSUME TypeOK, Accounted, NEW m \in Messages
                 PROVE  handled[m] <= 1 + lapsed[m] + faults[m]
      BY DEF DuplicatesAccounted
    <2>1. /\ handled[m] \in Nat /\ lapsed[m] \in Nat /\ faults[m] \in Nat
          /\ Cardinality(Waiting(m)) \in Nat
          /\ Open(row[m]) \in Nat /\ Overdue(row[m]) \in Nat
      BY WaitingFinite DEF TypeOK, Open, Overdue
    <2> QED BY <2>1 DEF Accounted
  <1> QED BY TypeInit, AccountedInit, <1>1, <1>2, PTL DEF Spec

\* Without lapsed leases and failures after the effect, completed is final.
LEMMA CompletionStep ==
    ASSUME TypeOK, Accounted, SettledRightly, [Next]_vars, NEW m \in Messages,
           Reopened(m)
    PROVE  lapsed[m] + faults[m] > 0
  <1>1. \E w \in Workers : At(w, "RETRY_WRITE") /\ job[w].message = m
    <2>1. row \in [Messages -> Rows] /\ row[m] \in Rows
      BY DEF TypeOK
    <2>2. row' # row /\ row[m].status = "COMPLETED" /\ row'[m].status # "COMPLETED"
      BY DEF Reopened
    <2>3. ASSUME NEW n \in Messages, NEW r, row' = [row EXCEPT ![n] = r]
          PROVE  row[n].status = "COMPLETED" /\ r.status # "COMPLETED"
      BY <2>1, <2>2, <2>3
    <2>4. ~\E n \in Messages : Enqueue(n) \/ RequeueOutbox(n)
                               \/ \E w \in Workers : ClaimOutbox(w, n)
      <3>1. ASSUME NEW n \in Messages, Enqueue(n) PROVE FALSE
        <4>1. row[n].status = "NONE"
          BY <3>1 DEF Enqueue, Absent
        <4>2. row[n].status = "COMPLETED"
          BY <2>3, <3>1 DEF Enqueue
        <4> QED BY <4>1, <4>2
      <3>2. ASSUME NEW n \in Messages, RequeueOutbox(n) PROVE FALSE
        BY <2>3, <3>2 DEF RequeueOutbox
      <3>3. ASSUME NEW n \in Messages, NEW w \in Workers, ClaimOutbox(w, n) PROVE FALSE
        BY <2>3, <3>3 DEF ClaimOutbox, Claimable
      <3> QED BY <3>1, <3>2, <3>3
    <2>5. ~\E n \in Messages : LeaseExpires(n) \/ BecomesDue(n)
      <3> SUFFICES ASSUME NEW n \in Messages, LeaseExpires(n) \/ BecomesDue(n)
                   PROVE  FALSE
        OBVIOUS
      <3>1. row[n] \in Rows
        BY <2>1
      <3>2. [row[n] EXCEPT !.lease = "EXPIRED"].status = row[n].status
            /\ [row[n] EXCEPT !.available = TRUE].status = row[n].status
        BY <3>1 DEF Rows
      <3> QED BY <2>3, <3>2 DEF LeaseExpires, BecomesDue
    <2>6. ~\E w \in Workers : CompleteOutbox(w) \/ CompletionThrows(w)
      BY <2>1, <2>2 DEF CompleteOutbox, CompletionThrows, Completed
    <2>7. ~(UNCHANGED vars \/ \E n \in Messages : StateMoves(n))
      BY <2>2 DEF vars, StateMoves
    <2>8. ~\E w \in Workers : \/ VerifyPasses(w) \/ VerifyThrows(w) \/ HandlerReturns(w)
                             \/ HandlerThrows(w) \/ RetryReads(w) \/ Stop(w)
      BY <2>2 DEF rows, VerifyPasses, VerifyThrows, HandlerReturns, HandlerThrows,
                  RetryReads, Stop
    <2>9. \E w \in Workers : RetryWrites(w)
      BY <2>4, <2>5, <2>6, <2>7, <2>8 DEF Next, Environment, Settle
    <2>10. PICK w \in Workers : RetryWrites(w)
      BY <2>9
    <2>11. job[w].message = m
      BY <2>1, <2>2, <2>10 DEF RetryWrites
    <2> QED BY <2>10, <2>11 DEF RetryWrites
  <1>2. PICK w \in Workers : w \in Waiting(m)
    BY <1>1 DEF Waiting, Waits, At
  <1>3. Cardinality(Waiting(m)) \in Nat /\ Cardinality(Waiting(m)) # 0
    BY <1>2, WaitingFinite, FS_EmptySet
  <1>4. /\ handled[m] \in Nat /\ lapsed[m] \in Nat /\ faults[m] \in Nat
        /\ Open(row[m]) \in Nat /\ Overdue(row[m]) \in Nat
    BY DEF TypeOK, Open, Overdue
  <1>6. handled[m] > 0
    BY DEF Reopened, SettledRightly
  <1>5. handled[m] + Cardinality(Waiting(m)) + Open(row[m]) + Overdue(row[m])
          <= 1 + lapsed[m] + faults[m]
    BY DEF Accounted
  <1> QED BY <1>3, <1>4, <1>5, <1>6

\* A completed message is reopened only after one of its leases lapsed or one of
\* its workers failed after the effect.
THEOREM Completion == Spec => CompletionFinal
  <1>1. TypeOK /\ Accounted /\ [Next]_vars => TypeOK' /\ Accounted'
    BY TypeStep, AccountedStep
  <1>2. TypeOK /\ Accounted /\ SettledRightly /\ [Next]_vars
           => [\A m \in Messages : Reopened(m) => lapsed[m] + faults[m] > 0]_vars
    BY CompletionStep
  <1> QED BY TypeInit, AccountedInit, Settlement, <1>1, <1>2, PTL DEF Spec, CompletionFinal

-----------------------------------------------------------------------------

StepPlaces == {"OUT", "LOAD", "CHECK", "CLAIM", "SIGN", "STORE", "FINISH", "RETURN"}

Claims == [status : {"NONE", "CLAIMED", "COMPLETED"}, lease : {"NULL", "RUNNING", "EXPIRED"}]

SigningType ==
    /\ step \in [Workers -> StepPlaces]
    /\ signature \in [Workers -> Nat]
    /\ loaded \in [Workers -> BOOLEAN]
    /\ claim \in [Messages -> Claims]
    /\ custody \in [Messages -> Nat]
    /\ made \in [Messages -> Nat]
    /\ claimLapses \in [Messages -> Nat]

\* A receipt that is signed, or that a claim keeps from being signed.
Secured(r) == custody[r] # Unsigned \/ claim[r].status = "CLAIMED"

WorkerSound(w) ==
    /\ OnStep(w, "OUT") <=> ~At(w, "HANDLE")
    /\ OnStep(w, "CHECK") /\ loaded[w] => custody[Receipt(w)] # Unsigned
    /\ step[w] \in {"CLAIM", "SIGN"} => ~loaded[w]
    /\ OnStep(w, "STORE") => signature[w] \in 1 .. made[Receipt(w)]
    /\ OnStep(w, "FINISH") => custody[Receipt(w)] # Unsigned
    /\ OnStep(w, "RETURN") \/ At(w, "COMPLETE") => Secured(Receipt(w))

Signers(r) == {w \in Workers : OnStep(w, "SIGN") /\ Receipt(w) = r}

Free(c) == IF ClaimFree(c) THEN 1 ELSE 0

ReceiptSound(r) ==
    /\ custody[r] <= made[r]
    /\ claim[r].status = "COMPLETED" => custody[r] # Unsigned
    /\ row[r].status = "COMPLETED" => Secured(r)
    /\ made[r] + Cardinality(Signers(r)) + Free(claim[r]) <= 1 + claimLapses[r]

SigningInv ==
    /\ TypeOK /\ SigningType /\ altered = {}
    /\ \A w \in Workers : WorkerSound(w)
    /\ \A r \in Messages : ReceiptSound(r)

-----------------------------------------------------------------------------
(* The handler is one of DurableOutbox. *)

LEMMA StepsOfTheOutbox == [SigningNext]_all => [Next]_vars
<1> SUFFICES ASSUME [SigningNext]_all PROVE [Next]_vars
  OBVIOUS
<1>1. CASE Around
  BY <1>1 DEF Around, Next
<1>2. ASSUME NEW w \in Workers, Begin(w) \/ Handler(w) \/ StopSigning(w)
      PROVE  [Next]_vars
  BY <1>2 DEF Begin, Handler, StopSigning, LoadReceipt, CheckCustody, ClaimReceiptSigning, Sign,
              PutReceiptCustody, CompleteReceiptSigning, Return, Throw, Next
<1>3. (\E r \in Messages : ClaimExpires(r)) \/ UNCHANGED all => UNCHANGED vars
  BY DEF ClaimExpires, all
<1> QED
  BY <1>1, <1>2, <1>3 DEF SigningNext

\* The theorems of DurableOutbox_proofs hold of the signing of receipts.
THEOREM ImplementsOutbox == SigningSpec => Spec
<1>1. SigningInit => Init
  BY DEF SigningInit
<1> QED BY <1>1, StepsOfTheOutbox, PTL DEF SigningSpec, Spec

-----------------------------------------------------------------------------
(* Receipts and workers. *)

LEMMA SignersFinite ==
    ASSUME NEW r
    PROVE  /\ IsFiniteSet(Signers(r)) /\ Cardinality(Signers(r)) \in Nat
           /\ Free(claim[r]) \in Nat
BY DurableOutboxAssumption, FS_Subset, FS_CardinalityType DEF Signers, Free

\* A worker in the handler has a receipt.
LEMMA InHandler ==
    ASSUME SigningInv, NEW w \in Workers, ~OnStep(w, "OUT")
    PROVE  At(w, "HANDLE") /\ Receipt(w) \in Messages
<1>1. At(w, "HANDLE")
  BY DEF SigningInv, WorkerSound
<1>2. ~At(w, "IDLE") /\ TypeOK
  BY <1>1 DEF At, SigningInv
<1> QED BY <1>1, <1>2, AtWork DEF Receipt

LEMMA AtCompletion ==
    ASSUME SigningInv, NEW w \in Workers, At(w, "COMPLETE")
    PROVE  OnStep(w, "OUT") /\ Receipt(w) \in Messages
<1>1. ~At(w, "HANDLE") /\ ~At(w, "IDLE") /\ TypeOK
  BY DEF At, SigningInv
<1> QED BY <1>1, AtWork DEF Receipt, SigningInv, WorkerSound

\* What the tables keep whoever writes them.
Keeps ==
    \A r \in Messages :
        /\ custody[r] # Unsigned => custody'[r] # Unsigned
        /\ made'[r] \in Nat /\ made'[r] >= made[r]
        /\ Secured(r) => Secured(r)'

LEMMA Bystander ==
    ASSUME SigningInv, Keeps, NEW v \in Workers,
           job'[v] = job[v], step'[v] = step[v], signature'[v] = signature[v],
           loaded'[v] = loaded[v]
    PROVE  WorkerSound(v)'
<1>1. WorkerSound(v) /\ signature[v] \in Nat
  BY DEF SigningInv, SigningType
<1>2. CASE Receipt(v) \in Messages
  <2>1. made[Receipt(v)] \in Nat
    BY <1>2 DEF SigningInv, SigningType
  <2> QED BY <1>1, <1>2, <2>1 DEF WorkerSound, Keeps, OnStep, At, Receipt
<1>3. CASE Receipt(v) \notin Messages
  <2>1. OnStep(v, "OUT") /\ ~At(v, "COMPLETE")
    BY <1>3, InHandler, AtCompletion
  <2> QED BY <1>1, <2>1 DEF WorkerSound, OnStep, At, Receipt
<1> QED BY <1>2, <1>3

\* A step that leaves claims and custody alone, and lets no worker sign.
LEMMA Quiet ==
    ASSUME SigningInv, [Next]_vars, UNCHANGED custodian,
           \A v \in Workers : OnStep(v, "SIGN")' => OnStep(v, "SIGN") /\ job'[v] = job[v]
    PROVE  /\ Keeps
           /\ \A r \in Messages : ReceiptSound(r)'
           /\ altered' = {}
<1>1. Keeps
  BY DEF Keeps, custodian, Secured, SigningInv, SigningType
<1>2. ASSUME NEW r \in Messages
      PROVE  ReceiptSound(r)'
  <2>1. ReceiptSound(r) /\ TypeOK
    BY DEF SigningInv
  <2>2. row'[r].status = "COMPLETED" => Secured(r)
    <3>1. CASE \E w \in Workers : At(w, "COMPLETE") /\ job[w].message = r
      BY <3>1 DEF SigningInv, WorkerSound, Receipt
    <3>2. CASE row'[r].status = row[r].status
      BY <2>1, <3>2 DEF ReceiptSound
    <3> QED BY <2>1, <3>1, <3>2, RowEffect
  <2>3. Signers(r)' \subseteq Signers(r)
    BY DEF Signers, Receipt
  <2>4. Cardinality(Signers(r)') \in Nat /\ Cardinality(Signers(r)') <= Cardinality(Signers(r))
    BY <2>3, SignersFinite, FS_Subset, FS_CardinalityType
  <2>5. made[r] \in Nat /\ claimLapses[r] \in Nat
    BY DEF SigningInv, SigningType
  <2>6. /\ made' = made /\ claimLapses' = claimLapses /\ claim' = claim /\ custody' = custody
    BY DEF custodian
  <2>7. made'[r] + Cardinality(Signers(r)') + Free(claim'[r]) <= 1 + claimLapses'[r]
    BY <2>1, <2>4, <2>5, <2>6, SignersFinite DEF ReceiptSound
  <2>8. Secured(r)' <=> Secured(r)
    BY <2>6 DEF Secured
  <2> QED BY <2>1, <2>2, <2>6, <2>7, <2>8 DEF ReceiptSound
<1>3. altered' = {}
  BY DEF custodian, SigningInv
<1> QED BY <1>1, <1>2, <1>3

-----------------------------------------------------------------------------
(* Steps that write neither claims nor custody. *)

\* The outbox around the handler moves no worker into or out of it, and none to
\* COMPLETE.
LEMMA AroundJob ==
    ASSUME TypeOK, Around, NEW v \in Workers
    PROVE  \/ job'[v] = job[v]
           \/ ~At(v, "HANDLE") /\ job'[v].at \notin {"HANDLE", "COMPLETE"}
<1>1. job \in [Workers -> Jobs]
  BY DEF TypeOK
<1>2. ASSUME NEW m \in Messages, Enqueue(m) \/ Environment(m)
      PROVE  job' = job
  BY <1>2 DEF Enqueue, Environment, LeaseExpires, BecomesDue, StateMoves, RequeueOutbox
<1>3. ASSUME NEW m \in Messages, NEW w \in Workers, ClaimOutbox(w, m), w = v
      PROVE  ~At(v, "HANDLE") /\ job'[v].at \notin {"HANDLE", "COMPLETE"}
  BY <1>1, <1>3 DEF ClaimOutbox, At, Idle
<1>4. ASSUME NEW m \in Messages, NEW w \in Workers, ClaimOutbox(w, m), w # v
      PROVE  job'[v] = job[v]
  BY <1>1, <1>4 DEF ClaimOutbox
<1>5. ASSUME NEW w \in Workers, VerifyThrows(w) \/ Settle(w) \/ CompletionThrows(w), w = v
      PROVE  ~At(v, "HANDLE") /\ job'[v].at \notin {"HANDLE", "COMPLETE"}
  <2>1. job[w] \in Jobs
    BY <1>1
  <2>2. CASE CompleteOutbox(w) \/ RetryWrites(w)
    BY <1>1, <1>5, <2>2 DEF CompleteOutbox, RetryWrites, Rest, Idle, At
  <2>3. CASE VerifyThrows(w) \/ CompletionThrows(w)
    <3>1. Go(w, "RETRY") /\ ~At(w, "HANDLE")
      BY <2>3 DEF VerifyThrows, CompletionThrows, At
    <3>2. job'[w].at = "RETRY"
      BY <1>1, <2>1, <3>1 DEF Go, Jobs
    <3> QED BY <1>5, <3>1, <3>2
  <2>4. CASE RetryReads(w)
    <3>1. job'[w] = [job[w] EXCEPT !.at = "RETRY_WRITE",
                                   !.attempts = row[job[w].message].attempts]
      BY <1>1, <2>4 DEF RetryReads
    <3>2. job'[w].at = "RETRY_WRITE"
      BY <2>1, <3>1 DEF Jobs
    <3> QED BY <1>5, <2>4, <3>2 DEF RetryReads, At
  <2> QED BY <1>5, <2>2, <2>3, <2>4 DEF Settle
<1>6. ASSUME NEW w \in Workers, VerifyThrows(w) \/ Settle(w) \/ CompletionThrows(w), w # v
      PROVE  job'[v] = job[v]
  BY <1>1, <1>6 DEF VerifyThrows, Settle, CompletionThrows, CompleteOutbox, RetryReads,
                    RetryWrites, Rest, Go
<1> QED BY <1>2, <1>3, <1>4, <1>5, <1>6 DEF Around

LEMMA AroundStep ==
    ASSUME SigningInv, Around
    PROVE  SigningInv'
<1>1. TypeOK /\ UNCHANGED signing /\ [SigningNext]_all
  BY DEF SigningInv, Around, SigningNext
<1>2. TypeOK'
  BY <1>1, StepsOfTheOutbox, TypeStep
<1>3. SigningType' /\ UNCHANGED custodian /\ step' = step /\ signature' = signature
      /\ loaded' = loaded
  BY <1>1 DEF signing, memory, custodian, SigningInv, SigningType
<1>4. ASSUME NEW v \in Workers, OnStep(v, "SIGN")'
      PROVE  OnStep(v, "SIGN") /\ job'[v] = job[v]
  <2>1. OnStep(v, "SIGN") /\ At(v, "HANDLE")
    BY <1>3, <1>4, InHandler DEF OnStep
  <2> QED BY <1>1, <2>1, AroundJob
<1>5. Keeps /\ (\A r \in Messages : ReceiptSound(r)') /\ altered' = {}
  BY <1>1, <1>3, <1>4, StepsOfTheOutbox, Quiet
<1>6. ASSUME NEW v \in Workers
      PROVE  WorkerSound(v)'
  <2>1. CASE job'[v] = job[v]
    BY <1>3, <1>5, <2>1, Bystander
  <2>2. CASE ~At(v, "HANDLE") /\ job'[v].at \notin {"HANDLE", "COMPLETE"}
    <3>1. OnStep(v, "OUT")
      BY <2>2 DEF SigningInv, WorkerSound
    <3> QED BY <1>3, <2>2, <3>1 DEF WorkerSound, OnStep, At
  <2> QED BY <1>1, <2>1, <2>2, AroundJob
<1> QED BY <1>2, <1>3, <1>5, <1>6 DEF SigningInv

LEMMA OthersStay ==
    ASSUME SigningInv, NEW w \in Workers, Begin(w) \/ Handler(w) \/ StopSigning(w),
           NEW v \in Workers, v # w
    PROVE  /\ job'[v] = job[v] /\ step'[v] = step[v]
           /\ signature'[v] = signature[v] /\ loaded'[v] = loaded[v]
<1>1. job \in [Workers -> Jobs] /\ step \in [Workers -> StepPlaces]
      /\ signature \in [Workers -> Nat] /\ loaded \in [Workers -> BOOLEAN]
  BY DEF SigningInv, TypeOK, SigningType
<1>2. CASE Begin(w) \/ Return(w) \/ Throw(w) \/ StopSigning(w)
  BY <1>1, <1>2 DEF Begin, Return, Throw, StopSigning, VerifyPasses, HandlerReturns,
                    HandlerThrows, Stop, Rest, Go, Step
<1>3. CASE LoadReceipt(w) \/ CheckCustody(w) \/ PutReceiptCustody(w)
           \/ CompleteReceiptSigning(w)
  BY <1>1, <1>3 DEF LoadReceipt, CheckCustody, PutReceiptCustody, CompleteReceiptSigning,
                    Step, vars
<1>4. CASE ClaimReceiptSigning(w) \/ Sign(w)
  BY <1>1, <1>4 DEF ClaimReceiptSigning, Sign, Step, vars
<1> QED BY <1>2, <1>3, <1>4 DEF Handler

QuietWork(w) ==
    Begin(w) \/ LoadReceipt(w) \/ CheckCustody(w) \/ Return(w) \/ Throw(w) \/ StopSigning(w)

LEMMA QuietWorker ==
    ASSUME SigningInv, NEW w \in Workers, QuietWork(w)
    PROVE  SigningType' /\ UNCHANGED custodian /\ WorkerSound(w)' /\ ~OnStep(w, "SIGN")'
<1>1. /\ WorkerSound(w) /\ TypeOK /\ SigningType
      /\ job \in [Workers -> Jobs] /\ step \in [Workers -> StepPlaces]
      /\ loaded \in [Workers -> BOOLEAN]
  BY DEF SigningInv, TypeOK, SigningType
<1>2. ASSUME NEW place, Go(w, place)
      PROVE  job'[w].at = place /\ job'[w].message = job[w].message
  <2>1. job[w] \in Jobs
    BY <1>1
  <2> QED BY <1>1, <1>2, <2>1 DEF Go, Jobs
<1>3. CASE Begin(w)
  <2>1. job'[w].at = "HANDLE"
    BY <1>2, <1>3 DEF Begin, VerifyPasses
  <2>2. step' = [step EXCEPT ![w] = "LOAD"] /\ UNCHANGED <<signature, loaded, custodian>>
    BY <1>3 DEF Begin, Step
  <2> QED BY <1>1, <2>1, <2>2 DEF WorkerSound, OnStep, At, SigningType, StepPlaces, custodian
<1>4. CASE LoadReceipt(w)
  <2>1. At(w, "HANDLE") /\ Receipt(w) \in Messages
    BY <1>4, InHandler DEF LoadReceipt, OnStep
  <2>2. /\ loaded' = [loaded EXCEPT ![w] = custody[Receipt(w)] # Unsigned]
        /\ step' = [step EXCEPT ![w] = "CHECK"] /\ UNCHANGED <<job, signature, custodian>>
    BY <1>4 DEF LoadReceipt, Step, vars
  <2>3. (custody[Receipt(w)] # Unsigned) \in BOOLEAN
    OBVIOUS
  <2> QED
    BY <1>1, <2>1, <2>2, <2>3 DEF WorkerSound, OnStep, At, Receipt, SigningType, StepPlaces,
                                  custodian
<1>5. CASE CheckCustody(w)
  <2>1. At(w, "HANDLE") /\ Receipt(w) \in Messages
    BY <1>5, InHandler DEF CheckCustody, OnStep
  <2>2. /\ step' = [step EXCEPT ![w] = IF custody[Receipt(w)] # Unsigned THEN "RETURN"
                                                                         ELSE "CLAIM"]
        /\ UNCHANGED <<job, signature, loaded, custodian>>
        /\ OnStep(w, "CHECK")
    BY <1>5 DEF CheckCustody, Step, vars
  <2>3. CASE custody[Receipt(w)] # Unsigned
    BY <1>1, <2>1, <2>2, <2>3 DEF WorkerSound, OnStep, At, Receipt, Secured, SigningType,
                                  StepPlaces, custodian
  <2>4. CASE custody[Receipt(w)] = Unsigned
    BY <1>1, <2>1, <2>2, <2>4 DEF WorkerSound, OnStep, At, Receipt, SigningType, StepPlaces,
                                  custodian
  <2> QED BY <2>3, <2>4
<1>6. CASE Return(w)
  <2>1. job'[w].at = "COMPLETE" /\ job'[w].message = job[w].message
    BY <1>2, <1>6 DEF Return, HandlerReturns
  <2>2. /\ step' = [step EXCEPT ![w] = "OUT"] /\ UNCHANGED <<signature, loaded, custodian>>
        /\ OnStep(w, "RETURN")
    BY <1>6 DEF Return, Step
  <2> QED
    BY <1>1, <2>1, <2>2 DEF WorkerSound, OnStep, At, Receipt, Secured, SigningType, StepPlaces,
                            custodian
<1>7. CASE Throw(w) \/ StopSigning(w)
  <2>1. job'[w].at \notin {"HANDLE", "COMPLETE"}
    BY <1>1, <1>2, <1>7 DEF Throw, HandlerThrows, StopSigning, Stop, Rest, Idle
  <2>2. step' = [step EXCEPT ![w] = "OUT"] /\ UNCHANGED <<signature, loaded, custodian>>
    BY <1>7 DEF Throw, StopSigning, Step
  <2> QED BY <1>1, <2>1, <2>2 DEF WorkerSound, OnStep, At, SigningType, StepPlaces, custodian
<1> QED BY <1>3, <1>4, <1>5, <1>6, <1>7 DEF QuietWork

LEMMA QuietWorkStep ==
    ASSUME SigningInv, NEW w \in Workers, QuietWork(w)
    PROVE  SigningInv'
<1>1. Begin(w) \/ Handler(w) \/ StopSigning(w)
  BY DEF QuietWork, Handler
<1>2. [Next]_vars /\ TypeOK'
  BY <1>1, StepsOfTheOutbox, TypeStep DEF SigningNext, SigningInv
<1>3. SigningType' /\ UNCHANGED custodian /\ WorkerSound(w)' /\ ~OnStep(w, "SIGN")'
  BY QuietWorker
<1>4. ASSUME NEW v \in Workers, OnStep(v, "SIGN")'
      PROVE  OnStep(v, "SIGN") /\ job'[v] = job[v]
  BY <1>1, <1>3, <1>4, OthersStay DEF OnStep
<1>5. Keeps /\ (\A r \in Messages : ReceiptSound(r)') /\ altered' = {}
  BY <1>2, <1>3, <1>4, Quiet
<1>6. ASSUME NEW v \in Workers, v # w
      PROVE  WorkerSound(v)'
  BY <1>1, <1>5, <1>6, OthersStay, Bystander
<1> QED BY <1>2, <1>3, <1>5, <1>6 DEF SigningInv

-----------------------------------------------------------------------------
(* Steps that write claims or custody. *)

\* One worker's step changes the number of signers by at most itself.
LEMMA SignersStep ==
    ASSUME SigningInv, NEW w \in Workers, job' = job, NEW place, Step(w, place), NEW r
    PROVE  Cardinality(Signers(r)') =
             IF place = "SIGN" /\ Receipt(w) = r
               THEN IF OnStep(w, "SIGN") THEN Cardinality(Signers(r))
                                         ELSE Cardinality(Signers(r)) + 1
               ELSE IF OnStep(w, "SIGN") /\ Receipt(w) = r THEN Cardinality(Signers(r)) - 1
                                                           ELSE Cardinality(Signers(r))
<1>1. step \in [Workers -> StepPlaces]
  BY DEF SigningInv, SigningType
<1>2. w \in Signers(r) <=> OnStep(w, "SIGN") /\ Receipt(w) = r
  BY DEF Signers
<1>3. CASE place = "SIGN" /\ Receipt(w) = r
  <2>1. Signers(r)' = Signers(r) \cup {w}
    BY <1>1, <1>3 DEF Signers, Step, OnStep, Receipt
  <2> QED BY <1>2, <1>3, <2>1, SignersFinite, FS_AddElement
<1>4. CASE ~(place = "SIGN" /\ Receipt(w) = r)
  <2>1. Signers(r)' = Signers(r) \ {w}
    BY <1>1, <1>4 DEF Signers, Step, OnStep, Receipt
  <2> QED BY <1>2, <1>4, <2>1, SignersFinite, FS_RemoveElement
<1> QED BY <1>3, <1>4

\* A step on one receipt leaves the others as they are.
LEMMA Elsewhere ==
    ASSUME SigningInv, NEW w \in Workers, job' = job, row' = row, NEW place, Step(w, place),
           NEW r \in Messages, r # Receipt(w),
           claim'[r] = claim[r], custody'[r] = custody[r], made'[r] = made[r],
           claimLapses'[r] = claimLapses[r]
    PROVE  ReceiptSound(r)'
<1>1. ReceiptSound(r)
  BY DEF SigningInv
<1>2. Cardinality(Signers(r)') = Cardinality(Signers(r))
  BY SignersStep
<1>3. Secured(r)' <=> Secured(r)
  BY DEF Secured
<1>4. Free(claim'[r]) = Free(claim[r])
  OBVIOUS
<1> QED BY <1>1, <1>2, <1>3, <1>4 DEF ReceiptSound

LEMMA SignStep ==
    ASSUME SigningInv, NEW w \in Workers, Sign(w)
    PROVE  SigningInv'
<1> DEFINE r == Receipt(w)
<1>1. /\ At(w, "HANDLE") /\ r \in Messages
      /\ WorkerSound(w) /\ ReceiptSound(r)
  BY InHandler DEF Sign, OnStep, SigningInv
<1>2. /\ made' = [made EXCEPT ![r] = @ + 1] /\ Step(w, "STORE") /\ OnStep(w, "SIGN")
      /\ signature' = [signature EXCEPT ![w] = made'[r]]
      /\ UNCHANGED <<loaded, claim, custody, claimLapses>> /\ job' = job /\ row' = row
  BY DEF Sign, vars
<1>3. /\ step \in [Workers -> StepPlaces] /\ signature \in [Workers -> Nat]
      /\ made \in [Messages -> Nat] /\ custody \in [Messages -> Nat]
      /\ claimLapses \in [Messages -> Nat]
  BY DEF SigningInv, SigningType
<1>4. [Next]_vars /\ TypeOK'
  BY StepsOfTheOutbox, TypeStep DEF SigningNext, SigningInv, Handler
<1>5. altered' = {}
  BY <1>1, <1>2 DEF Sign, SigningInv, WorkerSound, OnStep
<1>6. made'[r] = made[r] + 1 /\ made'[r] \in Nat /\ made' \in [Messages -> Nat]
  BY <1>1, <1>2, <1>3
<1>7. SigningType'
  BY <1>2, <1>3, <1>6 DEF SigningInv, SigningType, Step, StepPlaces
<1>8. Keeps
  BY <1>2, <1>3 DEF Keeps, Secured
<1>9. ASSUME NEW v \in Workers, v # w
      PROVE  WorkerSound(v)'
  BY <1>8, <1>9, OthersStay, Bystander DEF Handler
<1>10. WorkerSound(w)'
  <2>1. step'[w] = "STORE" /\ signature'[w] = made'[r] /\ Receipt(w)' = r
    BY <1>2, <1>3 DEF Step, Receipt
  <2>2. signature'[w] \in 1 .. made'[r]
    BY <1>1, <1>3, <1>6, <2>1
  <2> HIDE DEF r
  <2> QED BY <1>1, <1>2, <2>1, <2>2 DEF WorkerSound, OnStep, At
<1>11. ASSUME NEW q \in Messages
       PROVE  ReceiptSound(q)'
  <2>1. CASE q # r
    <3>1. made'[q] = made[q]
      BY <1>2, <1>3, <2>1
    <3> QED BY <1>2, <2>1, <3>1, Elsewhere
  <2>2. CASE q = r
    <3>1. Cardinality(Signers(q)') = Cardinality(Signers(q)) - 1
      BY <1>2, <2>2, SignersStep
    <3>2. Secured(q)' <=> Secured(q)
      BY <1>2 DEF Secured
    <3>3. ReceiptSound(q) /\ made'[q] = made[q] + 1
      BY <1>1, <1>6, <2>2
    <3>4. /\ made[q] \in Nat /\ custody[q] \in Nat /\ claimLapses[q] \in Nat
          /\ Cardinality(Signers(q)) \in Nat /\ Free(claim[q]) \in Nat
      BY <1>3, SignersFinite
    <3> QED BY <1>2, <3>1, <3>2, <3>3, <3>4 DEF ReceiptSound
  <2> QED BY <2>1, <2>2
<1> QED BY <1>4, <1>5, <1>7, <1>9, <1>10, <1>11 DEF SigningInv

LEMMA ClaimStep ==
    ASSUME SigningInv, NEW w \in Workers, ClaimReceiptSigning(w)
    PROVE  SigningInv'
<1> DEFINE r == Receipt(w)
           free == ClaimFree(claim[r])
<1>1. /\ At(w, "HANDLE") /\ r \in Messages
      /\ WorkerSound(w) /\ ReceiptSound(r)
  BY InHandler DEF ClaimReceiptSigning, OnStep, SigningInv
<1>2. /\ OnStep(w, "CLAIM") /\ Step(w, IF free THEN "SIGN" ELSE "RETURN")
      /\ claim' = [claim EXCEPT ![r] = IF free THEN Running ELSE @]
      /\ UNCHANGED <<signature, loaded, custody, made, claimLapses>> /\ job' = job /\ row' = row
      /\ altered' = {}
  BY DEF ClaimReceiptSigning, vars, SigningInv, SigningType
<1>3. /\ step \in [Workers -> StepPlaces] /\ signature \in [Workers -> Nat]
      /\ claim \in [Messages -> Claims]
      /\ made \in [Messages -> Nat] /\ custody \in [Messages -> Nat]
      /\ claimLapses \in [Messages -> Nat]
  BY DEF SigningInv, SigningType
<1>4. [Next]_vars /\ TypeOK'
  BY StepsOfTheOutbox, TypeStep DEF SigningNext, SigningInv, Handler
<1>5. claim' \in [Messages -> Claims] /\ claim'[r] = IF free THEN Running ELSE claim[r]
  <2>1. Running \in Claims
    BY DEF Running, Claims
  <2> QED BY <1>1, <1>2, <1>3, <2>1
<1>6. SigningType'
  BY <1>2, <1>3, <1>5 DEF SigningInv, SigningType, Step, StepPlaces
<1>7. ASSUME NEW q \in Messages, Secured(q)
      PROVE  Secured(q)'
  <2>1. CASE q = r /\ free
    BY <1>2, <1>5, <2>1 DEF Secured, Running
  <2>2. CASE ~(q = r /\ free)
    <3>1. claim'[q] = claim[q]
      BY <1>2, <1>3, <1>5, <2>2
    <3> QED BY <1>2, <1>7, <3>1 DEF Secured
  <2> QED BY <2>1, <2>2
<1>8. Keeps
  BY <1>2, <1>3, <1>7 DEF Keeps
<1>9. ASSUME NEW v \in Workers, v # w
      PROVE  WorkerSound(v)'
  BY <1>8, <1>9, OthersStay, Bystander DEF Handler
<1>10. WorkerSound(w)'
  <2>1. CASE free
    <3>1. step'[w] = "SIGN"
      BY <1>2, <1>3, <2>1 DEF Step
    <3> QED BY <1>1, <1>2, <3>1 DEF WorkerSound, OnStep, At
  <2>2. CASE ~free
    <3>1. step'[w] = "RETURN"
      BY <1>2, <1>3, <2>2 DEF Step
    <3>2. claim[r] \in Claims /\ claim'[r] = claim[r]
      BY <1>1, <1>3, <1>5, <2>2
    <3>3. claim[r].status \in {"CLAIMED", "COMPLETED"}
      BY <2>2, <3>2 DEF ClaimFree, Claims
    <3>4. custody'[job'[w].message] # Unsigned \/ claim'[job'[w].message].status = "CLAIMED"
      BY <1>1, <1>2, <3>2, <3>3 DEF ReceiptSound, Receipt
    <3>5. Secured(Receipt(w))'
      BY <3>4 DEF Secured, Receipt
    <3> QED BY <1>1, <1>2, <3>1, <3>5 DEF WorkerSound, OnStep, At
  <2> QED BY <2>1, <2>2
<1>11. ASSUME NEW q \in Messages
       PROVE  ReceiptSound(q)'
  <2>0. /\ ReceiptSound(q) /\ claim[q] \in Claims
        /\ made[q] \in Nat /\ claimLapses[q] \in Nat /\ Cardinality(Signers(q)) \in Nat
    BY <1>3, SignersFinite DEF SigningInv
  <2>1. CASE q # r
    <3>1. claim'[q] = claim[q]
      BY <1>2, <1>3, <2>1
    <3> QED BY <1>2, <2>1, <3>1, Elsewhere
  <2>2. CASE q = r /\ free
    <3>1. Cardinality(Signers(q)') = Cardinality(Signers(q)) + 1
      <4>1. /\ (IF free THEN "SIGN" ELSE "RETURN") = "SIGN"
            /\ Receipt(w) = q /\ ~OnStep(w, "SIGN")
        BY <1>2, <2>2 DEF OnStep
      <4> QED BY <1>2, <4>1, SignersStep
    <3>2. claim'[q] = Running /\ Free(Running) = 0 /\ Free(claim[q]) = 1
      BY <1>5, <2>2 DEF Running, Free, ClaimFree
    <3>3. Secured(q)' /\ claim'[q].status # "COMPLETED"
      BY <3>2 DEF Running, Secured
    <3> QED BY <1>2, <2>0, <3>1, <3>2, <3>3 DEF ReceiptSound
  <2>3. CASE q = r /\ ~free
    <3>1. Cardinality(Signers(q)') = Cardinality(Signers(q))
      <4>1. /\ (IF free THEN "SIGN" ELSE "RETURN") # "SIGN" /\ ~OnStep(w, "SIGN")
        BY <1>2, <2>3 DEF OnStep
      <4> QED BY <1>2, <4>1, SignersStep
    <3>2. claim'[q] = claim[q]
      BY <1>5, <2>3
    <3>3. Secured(q)' <=> Secured(q)
      BY <1>2, <3>2 DEF Secured
    <3> QED BY <1>2, <2>0, <3>1, <3>2, <3>3 DEF ReceiptSound
  <2> QED BY <2>1, <2>2, <2>3
<1> QED BY <1>2, <1>4, <1>6, <1>9, <1>10, <1>11 DEF SigningInv

LEMMA StoreStep ==
    ASSUME SigningInv, NEW w \in Workers, PutReceiptCustody(w)
    PROVE  SigningInv'
<1> DEFINE r == Receipt(w)
<1>1. /\ At(w, "HANDLE") /\ r \in Messages
      /\ WorkerSound(w) /\ ReceiptSound(r)
  BY InHandler DEF PutReceiptCustody, OnStep, SigningInv
<1>2. /\ OnStep(w, "STORE") /\ Step(w, "FINISH")
      /\ custody' = [custody EXCEPT ![r] = Stored(@, signature[w])]
      /\ UNCHANGED <<signature, loaded, claim, made, claimLapses>> /\ job' = job /\ row' = row
      /\ altered' = {}
  BY DEF PutReceiptCustody, vars, SigningInv, SigningType
<1>3. /\ step \in [Workers -> StepPlaces] /\ signature \in [Workers -> Nat]
      /\ claim \in [Messages -> Claims]
      /\ made \in [Messages -> Nat] /\ custody \in [Messages -> Nat]
      /\ claimLapses \in [Messages -> Nat]
  BY DEF SigningInv, SigningType
<1>4. [Next]_vars /\ TypeOK'
  BY StepsOfTheOutbox, TypeStep DEF SigningNext, SigningInv, Handler
<1>5. signature[w] \in 1 .. made[r]
  BY <1>1, <1>2 DEF WorkerSound
<1>6. /\ custody'[r] \in 1 .. made[r] /\ custody' \in [Messages -> Nat]
      /\ custody[r] # Unsigned => custody'[r] = custody[r]
  <2>1. custody'[r] = Stored(custody[r], signature[w])
    BY <1>1, <1>2, <1>3
  <2>2. custody[r] \in Nat /\ custody[r] <= made[r] /\ made[r] \in Nat
    BY <1>1, <1>3 DEF ReceiptSound
  <2>3. custody'[r] \in 1 .. made[r]
    BY <1>5, <2>1, <2>2 DEF Stored, Unsigned
  <2> QED BY <1>2, <1>3, <2>1, <2>2, <2>3 DEF Stored
<1>7. SigningType'
  BY <1>2, <1>3, <1>6 DEF SigningInv, SigningType, Step, StepPlaces
<1>8. Keeps
  <2>1. ASSUME NEW q \in Messages
        PROVE  custody[q] # Unsigned => custody'[q] # Unsigned
    BY <1>2, <1>3, <1>6
  <2> QED BY <1>2, <1>3, <2>1 DEF Keeps, Secured
<1>9. ASSUME NEW v \in Workers, v # w
      PROVE  WorkerSound(v)'
  BY <1>8, <1>9, OthersStay, Bystander DEF Handler
<1>10. WorkerSound(w)'
  <2>1. step'[w] = "FINISH"
    BY <1>2, <1>3 DEF Step
  <2>2. custody'[job'[w].message] # Unsigned
    BY <1>2, <1>6 DEF Receipt, Unsigned
  <2> QED BY <1>1, <1>2, <2>1, <2>2 DEF WorkerSound, OnStep, At, Receipt
<1>11. ASSUME NEW q \in Messages
       PROVE  ReceiptSound(q)'
  <2>1. CASE q # r
    <3>1. custody'[q] = custody[q]
      BY <1>2, <1>3, <2>1
    <3> QED BY <1>2, <2>1, <3>1, Elsewhere
  <2>2. CASE q = r
    <3>1. Cardinality(Signers(q)') = Cardinality(Signers(q))
      BY <1>2, SignersStep DEF OnStep
    <3>2. custody'[q] # Unsigned /\ custody'[q] <= made[q]
      BY <1>3, <1>6, <2>2 DEF Unsigned
    <3>3. ReceiptSound(q) /\ Secured(q)'
      BY <3>2 DEF SigningInv, Secured
    <3> QED BY <1>2, <3>1, <3>2, <3>3 DEF ReceiptSound
  <2> QED BY <2>1, <2>2
<1> QED BY <1>2, <1>4, <1>7, <1>9, <1>10, <1>11 DEF SigningInv

LEMMA FinishStep ==
    ASSUME SigningInv, NEW w \in Workers, CompleteReceiptSigning(w)
    PROVE  SigningInv'
<1> DEFINE r == Receipt(w)
           done == [status |-> "COMPLETED", lease |-> "EXPIRED"]
<1>1. /\ At(w, "HANDLE") /\ r \in Messages
      /\ WorkerSound(w) /\ ReceiptSound(r)
  BY InHandler DEF CompleteReceiptSigning, OnStep, SigningInv
<1>2. /\ OnStep(w, "FINISH") /\ Step(w, "RETURN")
      /\ claim' = [claim EXCEPT ![r] = done]
      /\ UNCHANGED <<signature, loaded, custody, made, claimLapses>> /\ job' = job /\ row' = row
      /\ altered' = {}
  BY DEF CompleteReceiptSigning, vars, SigningInv, SigningType
<1>3. /\ step \in [Workers -> StepPlaces] /\ signature \in [Workers -> Nat]
      /\ claim \in [Messages -> Claims]
      /\ made \in [Messages -> Nat] /\ custody \in [Messages -> Nat]
      /\ claimLapses \in [Messages -> Nat]
  BY DEF SigningInv, SigningType
<1>4. [Next]_vars /\ TypeOK'
  BY StepsOfTheOutbox, TypeStep DEF SigningNext, SigningInv, Handler
<1>5. custody[r] # Unsigned
  BY <1>1, <1>2 DEF WorkerSound
<1>6. claim' \in [Messages -> Claims] /\ claim'[r] = done
  <2>1. done \in Claims
    BY DEF Claims
  <2> HIDE DEF done
  <2> QED BY <1>1, <1>2, <1>3, <2>1
<1>7. SigningType'
  BY <1>2, <1>3, <1>6 DEF SigningInv, SigningType, Step, StepPlaces
<1>8. Keeps
  <2>1. ASSUME NEW q \in Messages, Secured(q)
        PROVE  Secured(q)'
    <3>1. CASE q = r
      BY <1>2, <1>5, <3>1 DEF Secured
    <3>2. CASE q # r
      <4>1. claim'[q] = claim[q]
        BY <1>2, <1>3, <3>2
      <4> QED BY <1>2, <2>1, <4>1 DEF Secured
    <3> QED BY <3>1, <3>2
  <2> QED BY <1>2, <1>3, <2>1 DEF Keeps
<1>9. ASSUME NEW v \in Workers, v # w
      PROVE  WorkerSound(v)'
  BY <1>8, <1>9, OthersStay, Bystander DEF Handler
<1>10. WorkerSound(w)'
  <2>1. step'[w] = "RETURN"
    BY <1>2, <1>3 DEF Step
  <2>2. custody'[job'[w].message] # Unsigned
    BY <1>2, <1>5 DEF Receipt
  <2>3. Secured(Receipt(w))'
    BY <2>2 DEF Secured, Receipt
  <2> QED BY <1>1, <1>2, <2>1, <2>3 DEF WorkerSound, OnStep, At
<1>11. ASSUME NEW q \in Messages
       PROVE  ReceiptSound(q)'
  <2>1. CASE q # r
    <3>1. claim'[q] = claim[q]
      BY <1>2, <1>3, <2>1
    <3> QED BY <1>2, <2>1, <3>1, Elsewhere
  <2>2. CASE q = r
    <3>1. Cardinality(Signers(q)') = Cardinality(Signers(q))
      BY <1>2, SignersStep DEF OnStep
    <3>2. ReceiptSound(q) /\ custody'[q] # Unsigned /\ Secured(q)'
      BY <1>2, <1>5, <2>2 DEF SigningInv, Secured
    <3>3. Free(claim'[q]) = 0 /\ Free(claim[q]) \in {0, 1}
      BY <1>6, <2>2 DEF Free, ClaimFree
    <3>4. made[q] \in Nat /\ claimLapses[q] \in Nat /\ Cardinality(Signers(q)) \in Nat
      BY <1>3, SignersFinite
    <3>5. made'[q] + Cardinality(Signers(q)') + Free(claim'[q]) <= 1 + claimLapses'[q]
      BY <1>2, <3>1, <3>2, <3>3, <3>4 DEF ReceiptSound
    <3> QED BY <1>2, <3>2, <3>5 DEF ReceiptSound
  <2> QED BY <2>1, <2>2
<1> QED BY <1>2, <1>4, <1>7, <1>9, <1>10, <1>11 DEF SigningInv

LEMMA LapseStep ==
    ASSUME SigningInv, NEW r \in Messages, ClaimExpires(r)
    PROVE  SigningInv'
<1> DEFINE lapsedClaim == [status |-> "CLAIMED", lease |-> "EXPIRED"]
<1>1. /\ claim[r] = Running /\ claimLapses' = [claimLapses EXCEPT ![r] = @ + 1]
      /\ UNCHANGED <<step, signature, loaded, custody, made>> /\ job' = job /\ row' = row
      /\ altered' = {}
  BY DEF ClaimExpires, vars, memory, SigningInv
<1>2. /\ claim \in [Messages -> Claims] /\ claimLapses \in [Messages -> Nat]
      /\ made \in [Messages -> Nat] /\ custody \in [Messages -> Nat]
  BY DEF SigningInv, SigningType
<1>3. [Next]_vars /\ TypeOK'
  BY StepsOfTheOutbox, TypeStep DEF SigningNext, SigningInv
<1>4. claim' = [claim EXCEPT ![r] = lapsedClaim]
  <2>1. claim' = [claim EXCEPT ![r] = [claim[r] EXCEPT !.lease = "EXPIRED"]]
    BY <1>2 DEF ClaimExpires
  <2>2. [claim[r] EXCEPT !.lease = "EXPIRED"] = lapsedClaim
    BY <1>1 DEF Running
  <2> HIDE DEF lapsedClaim
  <2> QED BY <2>1, <2>2
<1>5. claim' \in [Messages -> Claims] /\ claim'[r] = lapsedClaim
  <2>1. lapsedClaim \in Claims
    BY DEF Claims
  <2> HIDE DEF lapsedClaim
  <2> QED BY <1>2, <1>4, <2>1
<1>6. SigningType'
  BY <1>1, <1>2, <1>5 DEF SigningInv, SigningType
<1>7. ASSUME NEW q \in Messages
      PROVE  Secured(q)' <=> Secured(q)
  <2>1. CASE q = r
    BY <1>1, <1>5, <2>1 DEF Secured, Running
  <2>2. CASE q # r
    <3>1. claim'[q] = claim[q]
      BY <1>2, <1>4, <2>2
    <3> QED BY <1>1, <3>1 DEF Secured
  <2> QED BY <2>1, <2>2
<1>8. Keeps
  BY <1>1, <1>2, <1>7 DEF Keeps
<1>9. ASSUME NEW v \in Workers
      PROVE  WorkerSound(v)'
  BY <1>1, <1>8, Bystander
<1>10. ASSUME NEW q \in Messages
       PROVE  ReceiptSound(q)'
  <2>1. /\ ReceiptSound(q)
        /\ Secured(q)' <=> Secured(q)
        /\ made[q] \in Nat /\ claimLapses[q] \in Nat /\ Cardinality(Signers(q)) \in Nat
    BY <1>2, <1>7, SignersFinite DEF SigningInv
  <2>2. Signers(q)' = Signers(q)
    BY <1>1 DEF Signers, OnStep, Receipt
  <2>3. CASE q = r
    <3>1. /\ claimLapses'[q] = claimLapses[q] + 1
          /\ Free(claim[q]) = 0 /\ Free(claim'[q]) = 1
          /\ claim'[q].status # "COMPLETED"
      BY <1>1, <1>2, <1>5, <2>3 DEF Free, ClaimFree, Running
    <3> QED BY <1>1, <2>1, <2>2, <3>1 DEF ReceiptSound
  <2>4. CASE q # r
    <3>1. claim'[q] = claim[q] /\ claimLapses'[q] = claimLapses[q]
      BY <1>1, <1>2, <1>4, <2>4
    <3> QED BY <1>1, <2>1, <2>2, <3>1 DEF ReceiptSound
  <2> QED BY <2>3, <2>4
<1> QED BY <1>1, <1>3, <1>6, <1>9, <1>10 DEF SigningInv

-----------------------------------------------------------------------------
(* The invariant, and what follows from it. *)

LEMMA SigningInvInit == SigningInit => SigningInv
<1> SUFFICES ASSUME SigningInit PROVE SigningInv
  OBVIOUS
<1>1. Init /\ TypeOK
  BY TypeInit DEF SigningInit
<1>2. SigningType /\ altered = {}
  BY DEF SigningInit, SigningType, StepPlaces, Claims, NoClaim, Unsigned
<1>3. ASSUME NEW w \in Workers
      PROVE  WorkerSound(w)
  <2>1. OnStep(w, "OUT") /\ At(w, "IDLE")
    BY <1>1 DEF SigningInit, Init, OnStep, At, Idle
  <2> QED BY <2>1 DEF WorkerSound, OnStep, At
<1>4. ASSUME NEW r \in Messages
      PROVE  ReceiptSound(r)
  <2>1. Signers(r) = {}
    BY DEF SigningInit, Signers, OnStep
  <2>2. Cardinality(Signers(r)) = 0
    BY <2>1, FS_EmptySet
  <2>3. /\ custody[r] = 0 /\ made[r] = 0 /\ claimLapses[r] = 0
        /\ claim[r] = NoClaim /\ row[r] = Absent
    BY <1>1 DEF SigningInit, Init, Unsigned
  <2>4. Free(claim[r]) = 1
    BY <2>3 DEF Free, ClaimFree, NoClaim
  <2> QED BY <2>2, <2>3, <2>4 DEF ReceiptSound, NoClaim, Absent
<1> QED BY <1>1, <1>2, <1>3, <1>4 DEF SigningInv

LEMMA SigningInvStep == SigningInv /\ [SigningNext]_all => SigningInv'
<1> SUFFICES ASSUME SigningInv, [SigningNext]_all PROVE SigningInv'
  OBVIOUS
<1>1. CASE Around
  BY <1>1, AroundStep
<1>2. ASSUME NEW w \in Workers, Begin(w) \/ Handler(w) \/ StopSigning(w)
      PROVE  SigningInv'
  BY <1>2, QuietWorkStep, ClaimStep, SignStep, StoreStep, FinishStep DEF QuietWork, Handler
<1>3. ASSUME NEW r \in Messages, ClaimExpires(r)
      PROVE  SigningInv'
  BY <1>3, LapseStep
<1>4. CASE UNCHANGED all
  <2>1. UNCHANGED vars /\ UNCHANGED custodian /\ UNCHANGED memory
    BY <1>4 DEF all, signing
  <2>2. TypeOK' /\ SigningType'
    BY <2>1, TypeStep DEF SigningInv, SigningType, custodian, memory
  <2>3. Keeps /\ (\A r \in Messages : ReceiptSound(r)') /\ altered' = {}
    BY <2>1, Quiet DEF memory, OnStep, vars
  <2>4. \A v \in Workers : WorkerSound(v)'
    BY <2>1, <2>3, Bystander DEF vars, memory
  <2> QED BY <2>2, <2>3, <2>4 DEF SigningInv
<1> QED BY <1>1, <1>2, <1>3, <1>4 DEF SigningNext

\* Types, and what each place of the handler may rely on, whoever else is in it.
THEOREM SigningInvariance == SigningSpec => []SigningInv
<1> QED BY SigningInvInit, SigningInvStep, PTL DEF SigningSpec

\* A completed claim has a signature behind it; a completed message without one
\* left its claim open.  (handle, completeReceiptSigning)
THEOREM ClaimsAndCustody == SigningSpec => []ClaimsTellCustody
<1>1. SigningInv => ClaimsTellCustody
  <2> SUFFICES ASSUME SigningInv, NEW r \in Messages
               PROVE  /\ claim[r].status = "COMPLETED" => custody[r] \in 1 .. made[r]
                      /\ row[r].status = "COMPLETED" /\ custody[r] = Unsigned
                             => claim[r].status = "CLAIMED"
    BY DEF ClaimsTellCustody
  <2>1. ReceiptSound(r) /\ custody[r] \in Nat /\ made[r] \in Nat
    BY DEF SigningInv, SigningType
  <2> QED BY <2>1 DEF ReceiptSound, Secured, Unsigned
<1> QED BY <1>1, SigningInvariance, PTL

\* A receipt is signed again only after a signing claim on it lapsed, and never
\* in a version that shows a signature.  (claimReceiptSigning)
THEOREM SignaturesBudget == SigningSpec => []SignaturesFollowLapses
<1>1. SigningInv => SignaturesFollowLapses
  <2> SUFFICES ASSUME SigningInv, NEW r \in Messages
               PROVE  made[r] <= 1 + claimLapses[r] /\ r \notin altered
    BY DEF SignaturesFollowLapses
  <2>1. /\ ReceiptSound(r) /\ made[r] \in Nat /\ claimLapses[r] \in Nat /\ altered = {}
        /\ Cardinality(Signers(r)) \in Nat /\ Free(claim[r]) \in Nat
    BY SignersFinite DEF SigningInv, SigningType
  <2> QED BY <2>1 DEF ReceiptSound
<1> QED BY <1>1, SigningInvariance, PTL

\* The stored signature is never replaced.  (putReceiptCustody)
THEOREM Custody == SigningSpec => CustodyIsPermanent
<1>1. ASSUME SigningInv, [SigningNext]_all, NEW r \in Messages, custody[r] # Unsigned
      PROVE  custody'[r] = custody[r]
  <2>1. custody \in [Messages -> Nat]
    BY <1>1 DEF SigningInv, SigningType
  <2>2. CASE \E w \in Workers : PutReceiptCustody(w)
    BY <1>1, <2>1, <2>2 DEF PutReceiptCustody, Stored
  <2>3. CASE custody' = custody
    BY <2>3
  <2>4. custody' = custody \/ \E w \in Workers : PutReceiptCustody(w)
    BY <1>1 DEF SigningNext, Around, Begin, Handler, LoadReceipt, CheckCustody,
                ClaimReceiptSigning, Sign, CompleteReceiptSigning, Return, Throw, StopSigning,
                ClaimExpires, all, signing, custodian
  <2> QED BY <2>2, <2>3, <2>4
<1>2. SigningInv /\ [SigningNext]_all
          => [\A r \in Messages : custody[r] # Unsigned => custody'[r] = custody[r]]_all
  BY <1>1
<1> QED BY <1>2, SigningInvariance, PTL DEF SigningSpec, CustodyIsPermanent
=============================================================================
