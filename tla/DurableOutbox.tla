----------------------------- MODULE DurableOutbox -----------------------------
(***************************************************************************)
(* The control plane's outbox in PostgreSQL and the workers that drain it: *)
(* enqueueOutbox, claimOutbox, completeOutbox, retryOutbox, requeueOutbox  *)
(* of repositories.ts, DurableOutboxWorker.processOnce of outbox-worker.ts *)
(* and the verify step of worker.ts, for one tenant.                       *)
(*                                                                         *)
(* A worker holds one message at a time and walks through processOnce: it  *)
(* claims, verifies, handles, completes, and retries when any of these     *)
(* throws.  Each transaction is one action, except that of retryOutbox,    *)
(* which reads the attempts and writes the row in two statements under     *)
(* READ COMMITTED.  completeOutbox and retryOutbox name the message only:  *)
(* neither compares the worker or the lease, so a worker whose lease has   *)
(* lapsed answers for whoever holds the message now.                       *)
(*                                                                         *)
(* Data.  Times are kept as what the queries ask of them: whether          *)
(* available_at has come and whether lease_expires_at has passed.  The     *)
(* handler is abstract here; ReceiptSigning refines it.                    *)
(***************************************************************************)
EXTENDS Integers, FiniteSets

CONSTANTS
    Messages,      \* outbox ids of the tenant, one per dedupe key
    Workers,       \* worker processes
    MaxAttempts,   \* maxAttempts of the workers
    MaxLapses,     \* bound of the leases of a message that lapse under a worker
    MaxFaults,     \* bound of the failures that follow an effect, per message
    MaxStops,      \* bound of the times a worker forgets its message
    MaxRequeues    \* bound of the requeues of a message

NoMessage == "none"

ASSUME DurableOutboxAssumption ==
    /\ IsFiniteSet(Workers)
    /\ MaxAttempts \in Nat \ {0}
    /\ MaxLapses \in Nat
    /\ MaxFaults \in Nat
    /\ MaxStops \in Nat
    /\ MaxRequeues \in Nat
    /\ NoMessage \notin Messages

VARIABLES
    row,       \* transactional_outbox
    job,       \* where each worker is in processOnce, and with which message
    stale,     \* messages bound to a state version that has moved on
    handled,   \* times the effect of each message was brought about
    lapsed,    \* leases of each message that lapsed
    faults,    \* failures of each message that followed its effect
    requeues,  \* governed requeues of each message
    stops      \* times a worker forgot its message

rows == <<row, stale, requeues>>
history == <<handled, lapsed, faults, stops>>
vars == <<row, job, stale, handled, lapsed, faults, requeues, stops>>

-----------------------------------------------------------------------------
(* Rows and jobs. *)

Absent == [status |-> "NONE", attempts |-> 0, available |-> FALSE, lease |-> "NULL"]

Idle == [at |-> "IDLE", message |-> NoMessage, attempts |-> 0]

At(w, place) == job[w].at = place

Go(w, place) == job' = [job EXCEPT ![w] = [@ EXCEPT !.at = place]]

Rest(w) == job' = [job EXCEPT ![w] = Idle]

\* A worker is busy with the message.
InHand(m) == \E w \in Workers : job[w].message = m

-----------------------------------------------------------------------------
(* The statements on a row. *)

\* INSERT ... ON CONFLICT (tenant_id, dedupe_key) DO NOTHING, within the
\* transaction of the operation that reports something.
Enqueue(m) ==
    /\ row[m] = Absent
    /\ row' = [row EXCEPT ![m] = [Absent EXCEPT !.status = "PENDING", !.available = TRUE]]
    /\ UNCHANGED <<job, stale, requeues>>
    /\ UNCHANGED history

\* Mutant: a message at work can be claimed before its lease has expired.
ClaimableAtWork(m) ==
    /\ row[m].available
    /\ row[m].status \in {"PENDING", "PROCESSING"}

\* Mutant: expired leases are not recovered.
ClaimablePending(m) ==
    /\ row[m].available
    /\ row[m].status = "PENDING"

Claimable(m) ==
    /\ row[m].available
    /\ \/ row[m].status = "PENDING"
       \/ row[m].status = "PROCESSING" /\ row[m].lease = "EXPIRED"

\* UPDATE ... SET status='PROCESSING', attempts=attempts+1, lease_expires_at=...
Claimed(r) ==
    [r EXCEPT !.status = "PROCESSING", !.lease = "RUNNING", !.attempts = @ + 1]

\* ORDER BY created_at FOR UPDATE SKIP LOCKED LIMIT 1: the oldest claimable row
\* that no open transaction holds.  Which rows are held is not kept, so any
\* claimable row may be the one.
ClaimOutbox(w, m) ==
    /\ At(w, "IDLE")
    /\ Claimable(m)
    /\ row' = [row EXCEPT ![m] = Claimed(@)]
    /\ job' = [job EXCEPT ![w] = [Idle EXCEPT !.at = "VERIFY", !.message = m]]
    /\ UNCHANGED <<stale, requeues>>
    /\ UNCHANGED history

\* UPDATE ... SET status='COMPLETED' ... WHERE status='PROCESSING'
Completed(r) ==
    IF r.status = "PROCESSING"
      THEN [r EXCEPT !.status = "COMPLETED", !.lease = "NULL"]
      ELSE r

Exhausted(attempts) == attempts >= MaxAttempts

\* The UPDATE of retryOutbox, on whatever has become of the row.
Retried(r, attempts) ==
    [r EXCEPT !.status = IF Exhausted(attempts) THEN "DEAD_LETTER" ELSE "PENDING",
              !.available = Exhausted(attempts), !.lease = "NULL"]

-----------------------------------------------------------------------------
(* processOnce. *)

\* Mutant: the bound version is not compared.
VerifyPassesStale(w) ==
    /\ At(w, "VERIFY")
    /\ Go(w, "HANDLE")
    /\ UNCHANGED rows
    /\ UNCHANGED history

\* verify of worker.ts: the tenant's state is still the one the message is
\* bound to.
VerifyPasses(w) ==
    /\ At(w, "VERIFY")
    /\ job[w].message \notin stale
    /\ Go(w, "HANDLE")
    /\ UNCHANGED rows
    /\ UNCHANGED history

\* STATE_VERSION_BINDING_MISMATCH, or a read that fails.
VerifyThrows(w) ==
    /\ At(w, "VERIFY")
    /\ Go(w, "RETRY")
    /\ UNCHANGED rows
    /\ UNCHANGED history

HandlerReturns(w) ==
    /\ At(w, "HANDLE")
    /\ handled' = [handled EXCEPT ![job[w].message] = @ + 1]
    /\ Go(w, "COMPLETE")
    /\ UNCHANGED rows
    /\ UNCHANGED <<lapsed, faults, stops>>

\* The handler throws before it has brought anything about.
HandlerThrows(w) ==
    /\ At(w, "HANDLE")
    /\ Go(w, "RETRY")
    /\ UNCHANGED rows
    /\ UNCHANGED history

CompleteOutbox(w) ==
    /\ At(w, "COMPLETE")
    /\ row' = [row EXCEPT ![job[w].message] = Completed(@)]
    /\ Rest(w)
    /\ UNCHANGED <<stale, requeues>>
    /\ UNCHANGED history

\* The transaction of completeOutbox throws: it was rolled back, or it was
\* committed and the answer was lost.  A handler that throws after its effect
\* ends here too.
CompletionThrows(w) ==
    LET m == job[w].message
    IN  /\ At(w, "COMPLETE")
        /\ faults[m] < MaxFaults
        /\ faults' = [faults EXCEPT ![m] = @ + 1]
        /\ row' \in {row, [row EXCEPT ![m] = Completed(@)]}
        /\ Go(w, "RETRY")
        /\ UNCHANGED <<stale, requeues, handled, lapsed, stops>>

\* retryOutbox: SELECT attempts
RetryReads(w) ==
    /\ At(w, "RETRY")
    /\ job' = [job EXCEPT ![w] = [@ EXCEPT !.at = "RETRY_WRITE",
                                          !.attempts = row[job[w].message].attempts]]
    /\ UNCHANGED rows
    /\ UNCHANGED history

\* retryOutbox: UPDATE.  A dead letter is available at once, a retry later.
RetryWrites(w) ==
    /\ At(w, "RETRY_WRITE")
    /\ row' = [row EXCEPT ![job[w].message] = Retried(@, job[w].attempts)]
    /\ Rest(w)
    /\ UNCHANGED <<stale, requeues>>
    /\ UNCHANGED history

\* The process dies and is started again, or retryOutbox throws and tick goes
\* on to its next round: the worker has forgotten the message.
Stop(w) ==
    /\ ~At(w, "IDLE")
    /\ stops < MaxStops
    /\ stops' = stops + 1
    /\ Rest(w)
    /\ UNCHANGED rows
    /\ UNCHANGED <<handled, lapsed, faults>>

-----------------------------------------------------------------------------
(* Time, the tenant's state and the operators. *)

\* lease_expires_at passes, perhaps under a worker that is slow.
LeaseExpires(m) ==
    /\ row[m].lease = "RUNNING"
    /\ InHand(m) => lapsed[m] < MaxLapses
    /\ row' = [row EXCEPT ![m] = [@ EXCEPT !.lease = "EXPIRED"]]
    /\ lapsed' = [lapsed EXCEPT ![m] = @ + 1]
    /\ UNCHANGED <<job, stale, requeues, handled, faults, stops>>

\* available_at comes.
BecomesDue(m) ==
    /\ row[m].status # "NONE"
    /\ ~row[m].available
    /\ row' = [row EXCEPT ![m] = [@ EXCEPT !.available = TRUE]]
    /\ UNCHANGED <<job, stale, requeues>>
    /\ UNCHANGED history

\* An event moves the tenant's state away from the version of the message,
\* before or after it is enqueued.
StateMoves(m) ==
    /\ m \notin stale
    /\ stale' = stale \cup {m}
    /\ UNCHANGED <<row, job, requeues>>
    /\ UNCHANGED history

\* UPDATE ... SET status='PENDING', available_at=now(), lease_expires_at=NULL
Requeued(r) == [r EXCEPT !.status = "PENDING", !.available = TRUE, !.lease = "NULL"]

\* POST /v1/outbox/{id}/requeue: the attempts stay.
RequeueOutbox(m) ==
    /\ row[m].status = "DEAD_LETTER"
    /\ requeues[m] < MaxRequeues
    /\ row' = [row EXCEPT ![m] = Requeued(@)]
    /\ requeues' = [requeues EXCEPT ![m] = @ + 1]
    /\ UNCHANGED <<job, stale>>
    /\ UNCHANGED history

-----------------------------------------------------------------------------
Init ==
    /\ row = [m \in Messages |-> Absent]
    /\ job = [w \in Workers |-> Idle]
    /\ stale = {}
    /\ handled = [m \in Messages |-> 0]
    /\ lapsed = [m \in Messages |-> 0]
    /\ faults = [m \in Messages |-> 0]
    /\ requeues = [m \in Messages |-> 0]
    /\ stops = 0

\* What processOnce does besides verifying and handling.
Settle(w) == CompleteOutbox(w) \/ RetryReads(w) \/ RetryWrites(w)

Environment(m) == LeaseExpires(m) \/ BecomesDue(m) \/ StateMoves(m) \/ RequeueOutbox(m)

Next ==
    \/ \E m \in Messages :
        Enqueue(m) \/ Environment(m) \/ \E w \in Workers : ClaimOutbox(w, m)
    \/ \E w \in Workers :
        \/ VerifyPasses(w) \/ VerifyThrows(w)
        \/ HandlerReturns(w) \/ HandlerThrows(w)
        \/ Settle(w) \/ CompletionThrows(w) \/ Stop(w)

Spec == Init /\ [][Next]_vars

\* Every awaited call of a worker returns or throws; tick polls for ever; time
\* passes.  Nothing is assumed of failures, of stops or of requeues.
Fairness ==
    /\ \A w \in Workers :
        /\ WF_vars(\E m \in Messages : ClaimOutbox(w, m))
        /\ WF_vars(VerifyPasses(w) \/ VerifyThrows(w))
        /\ WF_vars(HandlerReturns(w) \/ HandlerThrows(w))
        /\ WF_vars(Settle(w))
    /\ \A m \in Messages : WF_vars(LeaseExpires(m)) /\ WF_vars(BecomesDue(m))

FairSpec == Spec /\ Fairness

-----------------------------------------------------------------------------
(* Properties. *)

Statuses == {"NONE", "PENDING", "PROCESSING", "COMPLETED", "DEAD_LETTER"}

Places == {"IDLE", "VERIFY", "HANDLE", "COMPLETE", "RETRY", "RETRY_WRITE"}

\* A row has a lease exactly while it is processed.
Rows == {r \in [status : Statuses, attempts : Nat, available : BOOLEAN,
                 lease : {"NULL", "RUNNING", "EXPIRED"}] :
            r.lease # "NULL" <=> r.status = "PROCESSING"}

Jobs == {j \in [at : Places, message : Messages \cup {NoMessage}, attempts : Nat] :
            j.message = NoMessage <=> j.at = "IDLE"}

\* Every row keeps its lease with its status, whoever wrote it last, and a worker
\* that is not idle has a message that was enqueued.
TypeOK ==
    /\ row \in [Messages -> Rows]
    /\ job \in [Workers -> Jobs]
    /\ stale \subseteq Messages
    /\ handled \in [Messages -> Nat]
    /\ lapsed \in [Messages -> Nat]
    /\ faults \in [Messages -> Nat]
    /\ requeues \in [Messages -> Nat]
    /\ stops \in Nat
    /\ \A w \in Workers : ~At(w, "IDLE") => row[job[w].message].status # "NONE"

\* What it takes to settle a message: completed only after a handler returned,
\* and a dead letter only after as many claims as the limit, though late workers
\* complete and retry rows that are not theirs.  (completeOutbox, retryOutbox)
SettledRightly ==
    \A m \in Messages :
        /\ row[m].status = "COMPLETED" => handled[m] > 0
        /\ row[m].status = "DEAD_LETTER" => row[m].attempts >= MaxAttempts

\* At least once, and never more often than the leases that lapsed and the
\* failures that came after the effect account for: governed requeues, retries,
\* crashes and answers for another worker's lease add nothing.  (processOnce)
DuplicatesAccounted ==
    \A m \in Messages : handled[m] <= 1 + lapsed[m] + faults[m]

\* A completed message is reopened only if one of its leases lapsed or one of
\* its workers failed after the effect: retryOutbox does not compare the status,
\* and nothing else can bring a failure that late.  (retryOutbox)
Reopened(m) == row[m].status = "COMPLETED" /\ row'[m].status # "COMPLETED"

CompletionFinal ==
    [][\A m \in Messages : Reopened(m) => lapsed[m] + faults[m] > 0]_vars

\* A message whose state has moved on before any worker got past verify is lost:
\* no retry and no governed requeue ever gets it handled.  (verify, requeueOutbox)
Lost(m) ==
    /\ m \in stale
    /\ handled[m] = 0
    /\ \A w \in Workers : job[w].message = m => ~At(w, "HANDLE")

StaleStaysLost == [][\A m \in Messages : Lost(m) => Lost(m)']_vars

\* Every message that is enqueued is in the end completed or a dead letter, for
\* good: retries, lapses, late answers and requeues come to an end.  (tick)
EventuallySettled ==
    \A m \in Messages : <>[](row[m].status \in {"NONE", "COMPLETED", "DEAD_LETTER"})
=============================================================================
