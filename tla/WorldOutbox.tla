------------------------------ MODULE WorldOutbox ------------------------------
(***************************************************************************)
(* Delivery of the messages in world_outbox: src/src/edon/outbox/store.py  *)
(* (TransactionalOutbox) over the rows that world/store.py enqueues.       *)
(*                                                                         *)
(* claim, acknowledge and fail are one BEGIN IMMEDIATE transaction each    *)
(* and one action each.  Between them a worker has claimed messages in its *)
(* memory (hand) and hands them to something downstream; leases lapse,     *)
(* workers crash and come back under the same worker_id, and a worker may  *)
(* claim again while it still has an earlier claim of the same message.    *)
(*                                                                         *)
(* Data.  Timestamps are kept as what the queries ask of them: whether     *)
(* available_at has come, whether lease_expires_at has passed, and the     *)
(* rank of created_at.  message_id is a number, for ORDER BY.  The audit   *)
(* table is split by message.                                              *)
(***************************************************************************)
EXTENDS Integers, Sequences, FiniteSets

CONSTANTS
    Messages,     \* message ids
    Workers,      \* worker ids
    MaxAttempts,  \* max_attempts, as every caller of fail passes it
    Limits,       \* limits that callers of claim pass
    Ranks,        \* values of created_at, which callers may choose
    MaxLapses,    \* bound of the leases that lapse under a worker at work
    MaxCrashes    \* bound of the crashes

NoOwner == "NULL"

ASSUME OutboxAssumption ==
    /\ Messages \subseteq Nat
    /\ MaxAttempts \in Nat \ {0}
    /\ Limits \subseteq Nat \ {0}
    /\ Ranks \subseteq Nat
    /\ MaxLapses \in Nat
    /\ MaxCrashes \in Nat
    /\ NoOwner \notin Workers

VARIABLES
    row,       \* world_outbox
    audit,     \* outbox_delivery_audit, message by message
    hand,      \* claims each worker has in memory
    effects,   \* times each message took effect downstream
    lapses,    \* leases that lapsed under a worker at work
    crashes    \* crashes so far

vars == <<row, audit, hand, effects, lapses, crashes>>

-----------------------------------------------------------------------------
(* Rows and the audit. *)

Absent == [status |-> "NONE", attempts |-> 0, available |-> FALSE,
           owner |-> NoOwner, lapsed |-> FALSE, created |-> 0]

Entry(action, worker) == [action |-> action, worker |-> worker]

\* What leaves a row without a lease.
Released(r, status, available) ==
    [r EXCEPT !.status = status, !.available = available,
              !.owner = NoOwner, !.lapsed = FALSE]

Leased(r, w) ==
    [r EXCEPT !.status = "LEASED", !.owner = w, !.lapsed = FALSE,
              !.attempts = @ + 1]

\* ORDER BY created_at, message_id
Before(m, n) ==
    \/ row[m].created < row[n].created
    \/ row[m].created = row[n].created /\ m < n

-----------------------------------------------------------------------------
(* Operations. *)

\* _enqueue_world_event: the message of a new event.  Its created_at and
\* available_at are the event's timestamp, which the caller may choose.
Enqueue(m, rank, available) ==
    /\ row[m].status = "NONE"
    /\ row' = [row EXCEPT ![m] = [Absent EXCEPT !.status = "PENDING",
                                    !.created = rank, !.available = available]]
    /\ UNCHANGED <<audit, hand, effects, lapses, crashes>>

\* Mutant: expired leases are never recovered.
ReapedNever == {}

\* The first query of claim: leases that have expired, whoever holds them.
Reaped == {m \in Messages : row[m].status = "LEASED" /\ row[m].lapsed}

\* Mutant: a leased message can be claimed.
ClaimableLeased == {m \in Messages :
                        row[m].status \in {"PENDING", "LEASED"} /\ row[m].available}

\* The second query, after the first has returned those to PENDING.
Claimable == {m \in Messages :
                /\ row[m].status = "PENDING" \/ m \in Reaped
                /\ row[m].available}

\* The first messages in order, up to the limit.
Batch(limit) ==
    {m \in Claimable : Cardinality({n \in Claimable : Before(n, m)}) < limit}

Claim(w, limit) ==
    /\ Claimable # {} \/ Reaped # {}
    /\ row' = [m \in Messages |->
            IF m \in Batch(limit) THEN Leased(row[m], w)
            ELSE IF m \in Reaped THEN Released(row[m], "PENDING", row[m].available)
            ELSE row[m]]
    /\ audit' = [m \in Messages |->
            audit[m]
            \o (IF m \in Reaped THEN <<Entry("LEASE_EXPIRED", row[m].owner)>> ELSE <<>>)
            \o (IF m \in Batch(limit) THEN <<Entry("CLAIMED", w)>> ELSE <<>>)]
    /\ hand' = [hand EXCEPT ![w] = @ \cup
            {[message |-> m, attempt |-> row[m].attempts + 1, handled |-> FALSE] :
                m \in Batch(limit)}]
    /\ UNCHANGED <<effects, lapses, crashes>>

\* Downstream takes the message.
Handle(w, d) ==
    /\ d \in hand[w]
    /\ ~d.handled
    /\ hand' = [hand EXCEPT ![w] = (@ \ {d}) \cup {[d EXCEPT !.handled = TRUE]}]
    /\ effects' = [effects EXCEPT ![d.message] = @ + 1]
    /\ UNCHANGED <<row, audit, lapses, crashes>>

Drop(w, d) == hand' = [hand EXCEPT ![w] = @ \ {d}]

\* Mutant: a late answer settles whatever has become of the message.
HasMessage(w, m) == row[m].status # "NONE"

\* acknowledge and fail require the row to be leased by the calling worker.

HasLease(w, m) == row[m].status = "LEASED" /\ row[m].owner = w

\* acknowledge: the lease need not be unexpired, nor be the one of this claim.
\* On a row that is already DELIVERED it returns the row, on any other it
\* raises; either way the worker is done with the claim.
Acknowledge(w, d) ==
    /\ d \in hand[w]
    /\ d.handled
    /\ LET m == d.message
       IN  IF HasLease(w, m)
             THEN /\ row' = [row EXCEPT ![m] = Released(@, "DELIVERED", @.available)]
                  /\ audit' = [audit EXCEPT ![m] = Append(@, Entry("DELIVERED", w))]
             ELSE UNCHANGED <<row, audit>>
    /\ Drop(w, d)
    /\ UNCHANGED <<effects, lapses, crashes>>

\* fail: downstream did not take the message.  available says whether the
\* retry is due at once.
Fail(w, d, available) ==
    /\ d \in hand[w]
    /\ ~d.handled
    /\ LET m    == d.message
           dead == row[m].attempts >= MaxAttempts
       IN  IF HasLease(w, m)
             THEN /\ row' = [row EXCEPT ![m] =
                        Released(@, IF dead THEN "DEAD" ELSE "PENDING", available)]
                  /\ audit' = [audit EXCEPT ![m] =
                        Append(@, Entry(IF dead THEN "DEAD" ELSE "RETRY_SCHEDULED", w))]
             ELSE UNCHANGED <<row, audit>>
    /\ Drop(w, d)
    /\ UNCHANGED <<effects, lapses, crashes>>

\* A worker dies with the claims in its memory.
Crash(w) ==
    /\ hand[w] # {}
    /\ crashes < MaxCrashes
    /\ crashes' = crashes + 1
    /\ hand' = [hand EXCEPT ![w] = {}]
    /\ UNCHANGED <<row, audit, effects, lapses>>

-----------------------------------------------------------------------------
(* Time. *)

\* Whether a worker still has the claim that a lease was given for.
AtWork(m) == \E w \in Workers : \E d \in hand[w] :
                d.message = m /\ d.attempt = row[m].attempts

\* A lease expires: at some point when its worker is gone, or too early.
Lapse(m) ==
    /\ row[m].status = "LEASED"
    /\ ~row[m].lapsed
    /\ row' = [row EXCEPT ![m].lapsed = TRUE]
    /\ IF AtWork(m)
         THEN lapses < MaxLapses /\ lapses' = lapses + 1
         ELSE UNCHANGED lapses
    /\ UNCHANGED <<audit, hand, effects, crashes>>

\* The time of a message comes.
BecomeAvailable(m) ==
    /\ row[m].status = "PENDING"
    /\ ~row[m].available
    /\ row' = [row EXCEPT ![m].available = TRUE]
    /\ UNCHANGED <<audit, hand, effects, lapses, crashes>>

-----------------------------------------------------------------------------
Init ==
    /\ row = [m \in Messages |-> Absent]
    /\ audit = [m \in Messages |-> <<>>]
    /\ hand = [w \in Workers |-> {}]
    /\ effects = [m \in Messages |-> 0]
    /\ lapses = 0
    /\ crashes = 0

Next ==
    \/ \E m \in Messages, rank \in Ranks, available \in BOOLEAN :
         Enqueue(m, rank, available)
    \/ \E w \in Workers :
         \/ \E limit \in Limits : Claim(w, limit)
         \/ \E d \in hand[w] :
              \/ Handle(w, d)
              \/ Acknowledge(w, d)
              \/ \E available \in BOOLEAN : Fail(w, d, available)
         \/ Crash(w)
    \/ \E m \in Messages : Lapse(m) \/ BecomeAvailable(m)

Spec == Init /\ [][Next]_vars

\* Some worker polls, what was claimed is worked on, and time passes.
Settle(w) == \E d \in hand[w] :
                \/ Handle(w, d)
                \/ Acknowledge(w, d)
                \/ \E available \in BOOLEAN : Fail(w, d, available)

Fairness ==
    /\ WF_vars(\E w \in Workers : Settle(w))
    /\ WF_vars(\E w \in Workers, limit \in Limits : Claim(w, limit))
    /\ WF_vars(\E m \in Messages : (~AtWork(m) /\ Lapse(m)) \/ BecomeAvailable(m))

FairSpec == Spec /\ Fairness

-----------------------------------------------------------------------------
(* Properties. *)

Statuses == {"NONE", "PENDING", "LEASED", "DELIVERED", "DEAD"}
AuditActions == {"CLAIMED", "LEASE_EXPIRED", "RETRY_SCHEDULED", "DELIVERED", "DEAD"}

MessageRows ==
    [status : Statuses, attempts : Nat, available : BOOLEAN,
     owner : Workers \cup {NoOwner}, lapsed : BOOLEAN, created : Nat]
AuditRows == [action : AuditActions, worker : Workers]
Claims == [message : Messages, attempt : Nat \ {0}, handled : BOOLEAN]

\* Every row, audit entry and claim in memory holds values of its kind; a row
\* has an owner exactly while it is leased.
TypeOK ==
    /\ row \in [Messages -> MessageRows]
    /\ audit \in [Messages -> Seq(AuditRows)]
    /\ hand \in [Workers -> SUBSET Claims]
    /\ effects \in [Messages -> Nat]
    /\ lapses \in Nat
    /\ crashes \in Nat
    /\ \A m \in Messages : row[m].owner # NoOwner <=> row[m].status = "LEASED"

Count(m, action) == Cardinality({i \in DOMAIN audit[m] : audit[m][i].action = action})

\* The statuses that the last entry of an audit may leave a message in.
StatusAfter(a) ==
    IF a = <<>>
      THEN {"NONE", "PENDING"}
      ELSE CASE a[Len(a)].action = "CLAIMED" -> {"LEASED"}
             [] a[Len(a)].action \in {"LEASE_EXPIRED", "RETRY_SCHEDULED"} -> {"PENDING"}
             [] OTHER -> {a[Len(a)].action}

Explains(a, r) ==
    /\ \A i \in DOMAIN a :
        IF i % 2 = 1
          THEN a[i].action = "CLAIMED"
          ELSE /\ a[i].action # "CLAIMED"
               /\ a[i].worker = a[i - 1].worker
               /\ a[i].action \in {"DELIVERED", "DEAD"} => i = Len(a)
    /\ r.status \in StatusAfter(a)
    /\ r.status = "LEASED" => r.owner = a[Len(a)].worker
    /\ r.attempts = (Len(a) + 1) \div 2

\* "Immutable delivery-audit records": the audit of a message is its whole
\* history.  Claims and what ended them alternate, each claim is ended in the
\* name of the worker that made it, nothing follows DELIVERED or DEAD, and the
\* row is what the audit leaves: its status, its owner and its attempts.
AuditExplainsRow == \A m \in Messages : Explains(audit[m], row[m])

\* A message takes effect downstream more than once only where a lease expired,
\* and the audit shows each of those: one effect, and one more per expiry.
DuplicatesFollowExpiry ==
    \A m \in Messages : effects[m] <= 1 + Count(m, "LEASE_EXPIRED")

\* A row leaves LEASED because its lease expired, or because the worker that
\* the lease names gives up a claim of that message, delivered only if that
\* claim was handled: a worker that was overtaken (its lease reaped, the message
\* leased by another or settled) changes nothing with its late answer.  A
\* settled row never changes.
OvertakenWorkerChangesNothing ==
    [][\A m \in Messages :
        /\ row[m].status \in {"DELIVERED", "DEAD"} => row'[m] = row[m]
        /\ row[m].status = "LEASED" /\ row'[m].status # "LEASED" =>
            \/ m \in Reaped /\ row'[m].status = "PENDING"
            \/ \E d \in hand[row[m].owner] \ hand'[row[m].owner] :
                /\ d.message = m
                /\ d.handled = (row'[m].status = "DELIVERED")]_vars

\* "Workers use bounded leases, [...] retries, lease-expiry recovery": a message
\* that was enqueued is eventually delivered or dead, whatever crashes and lapses
\* a finite number of times.
EventuallySettled ==
    []<>(\A m \in Messages : row[m].status \notin {"PENDING", "LEASED"})

\* docs/architecture/kernel-outbox-supervisor.md: "terminal dead status after a
\* configured attempt limit".  No message is claimed more often than the limit.
AttemptsLimited == \A m \in Messages : row[m].attempts <= MaxAttempts

Fate(m) == IF row[m].status \in {"PENDING", "LEASED"} THEN "WAITING" ELSE row[m].status

Abstract == INSTANCE AtLeastOnce WITH fate <- [m \in Messages |-> Fate(m)]

\* Delivered only once handled, settled for good: the rows implement the
\* at-least-once contract.
ImplementsAtLeastOnce == Abstract!Spec
=============================================================================
