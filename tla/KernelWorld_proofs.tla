-------------------------- MODULE KernelWorld_proofs --------------------------
(***************************************************************************)
(* Proofs about KernelWorld, for any number of callers, tokens, events and *)
(* crashes.  The inductive invariant IInv adds to TypeOK and VerifyWorld   *)
(* what ties the two databases together: event identities are unique, a    *)
(* call past verification holds a token granted to its request, a call     *)
(* past the store's transaction has its event in the log, and the ledger   *)
(* and the outbox refer to events of the log only.                         *)
(* Answered and UnspentOnlyInFlight are inductive beside it.               *)
(***************************************************************************)
EXTENDS KernelWorld, SequenceTheorems, TLAPS

UniqueIdentities ==
    \A i, j \in DOMAIN events :
        events[i].request.event_id = events[j].request.event_id => i = j

EventsGranted ==
    \A i \in DOMAIN events :
        LET r == events[i].request
        IN  r.auth # Direct =>
                issued[r.auth] # NotIssued /\ issued[r.auth].grant = Bound(r)

CallsGranted ==
    \A c \in Clients :
        /\ ~Idle(c) \/ client[c].pc = "RETURNED" =>
                issued[client[c].req.auth] # NotIssued
        /\ client[c].pc \in {"COMMIT", "SPEND", "INSERT", "RETURNED"} =>
                issued[client[c].req.auth].grant = Bound(client[c].req)

CallsCommitted ==
    \A c \in Clients : client[c].pc \in {"SPEND", "INSERT", "RETURNED"} =>
        \E i \in DOMAIN events :
            /\ events[i].request = client[c].req
            /\ client[c].answer.event_hash = events[i].event_hash

CallsPaid ==
    \A c \in Clients : client[c].pc = "RETURNED" =>
        consumed[client[c].req.auth] = Purchase(c)

LedgerMatches ==
    \A t \in Tokens : consumed[t] # NotConsumed =>
        \E i \in DOMAIN events :
            events[i].request.auth = t /\ consumed[t] = Message(i)

OutboxMatches ==
    /\ \A i \in DOMAIN events : Message(i) \in outbox
    /\ \A m \in outbox : \E i \in DOMAIN events : m = Message(i)

Ties ==
    /\ UniqueIdentities
    /\ EventsGranted
    /\ CallsGranted
    /\ CallsCommitted
    /\ CallsPaid
    /\ LedgerMatches
    /\ OutboxMatches

IInv == TypeOK /\ VerifyWorld /\ Ties

-----------------------------------------------------------------------------
(* A transaction of the store. *)

\* What a request must be for Insert to keep the store well formed.
WellFormed(r) ==
    /\ r \in StoredRequests
    /\ r.event_id = Created => r.expected = -1

\* Both kinds of request that reach the store are well formed.
LEMMA RequestsWellFormed ==
    ASSUME NEW r \in Requests PROVE WellFormed(r)
  BY NamesAssumption, BodiesAssumption, BoundsAssumption
     DEF WellFormed, Requests, StoredRequests, States

LEMMA RestoreWellFormed ==
    ASSUME TypeOK, VerifyWorld, NEW id \in EventIds,
           NEW target \in 0 .. world.version, NEW e \in 0 .. MaxVersion - 1
    PROVE  WellFormed(RestoreRequest(id, target, e))
  <1>1. target + 1 \in 1 .. Len(snapshots)
    BY DEF TypeOK, VerifyWorld
  <1>2. snapshots[target + 1].state \in States
    <2>1. snapshots \in Seq([state : States, event_hash : Nat])
      BY DEF TypeOK
    <2>2. snapshots[target + 1] \in [state : States, event_hash : Nat]
      BY <1>1, <2>1, ElementOfSeq
    <2> QED BY <1>1, <2>2
  <1> QED
    BY <1>2, NamesAssumption, BoundsAssumption
       DEF WellFormed, RestoreRequest, StoredRequests

\* The row that Insert appends, and what it leaves of the earlier ones.
LEMMA InsertFacts ==
    ASSUME TypeOK, VerifyWorld, NEW r, WellFormed(r), Insertable(r), Insert(r)
    PROVE  /\ Len(events') = Len(events) + 1
           /\ DOMAIN events' = DOMAIN events \cup {Len(events) + 1}
           /\ \A i \in DOMAIN events : events'[i] = events[i] /\ i # Len(events) + 1
           /\ \A i \in DOMAIN events : snapshots'[i] = snapshots[i]
           /\ events'[Len(events) + 1].request = r
           /\ events'[Len(events) + 1].event_hash = Len(events) + 1
           /\ r.expected = Len(events) - 1
           /\ (r.event_id = Created) <=> (Len(events) = 0)
  <1>1. /\ events \in Seq(EventRows)
        /\ snapshots \in Seq([state : States, event_hash : Nat])
        /\ Len(snapshots) = Len(events)
        /\ world.version = Len(events) - 1
    BY DEF TypeOK, VerifyWorld
  <1>2. r.expected = Len(events) - 1 /\ ((r.event_id = Created) <=> (Len(events) = 0))
    BY <1>1 DEF Insertable, WellFormed
  <1> QED
    BY <1>1, <1>2 DEF Insert

\* The store keeps its types.
LEMMA InsertTypes ==
    ASSUME TypeOK, VerifyWorld, NEW r, WellFormed(r), Insertable(r), Insert(r)
    PROVE  /\ world' \in [version : Int, state : States]
           /\ events' \in Seq(EventRows)
           /\ snapshots' \in Seq([state : States, event_hash : Nat])
           /\ outbox' \subseteq [event_id : EventIds \cup {Created}, event_hash : Nat]
  <1> DEFINE state == ApplyMutations(world.state, r.body)
             hash == Len(events) + 1
             previous == IF events = <<>> THEN 0 ELSE events[Len(events)].event_hash
             row == [request |-> r, resulting_version |-> world.version + 1,
                     resulting_state |-> state, previous_hash |-> previous,
                     event_hash |-> hash]
  <1>1. /\ world.state \in States
        /\ events \in Seq(EventRows)
        /\ world.version = Len(events) - 1
        /\ r \in StoredRequests
    BY DEF TypeOK, VerifyWorld, WellFormed
  <1>2. state \in States
    BY <1>1, NamesAssumption DEF ApplyMutations, Insertable, Applicable, StoredRequests, States
  <1>3. previous \in Nat
    <2>1. CASE events = <<>>
      BY <2>1
    <2>2. CASE events # <<>>
      <3>1. Len(events) \in 1 .. Len(events)
        BY <1>1, <2>2
      <3>2. events[Len(events)] \in EventRows
        BY <1>1, <3>1, ElementOfSeq
      <3> QED BY <2>2, <3>2 DEF EventRows
    <2> QED BY <2>1, <2>2
  <1>4. row \in EventRows
    <2> HIDE DEF state, previous
    <2> QED BY <1>1, <1>2, <1>3 DEF EventRows
  <1>5. events' = Append(events, row) /\ world' = [version |-> world.version + 1, state |-> state]
        /\ snapshots' = Append(snapshots, [state |-> state, event_hash |-> hash])
        /\ outbox' = outbox \cup {[event_id |-> r.event_id, event_hash |-> hash]}
    BY DEF Insert
  <1> HIDE DEF state, row
  <1> QED
    BY <1>1, <1>2, <1>4, <1>5 DEF TypeOK, StoredRequests

\* The store keeps passing verify_world.
LEMMA InsertVerifies ==
    ASSUME TypeOK, VerifyWorld, NEW r, WellFormed(r), Insertable(r), Insert(r)
    PROVE  VerifyWorld'
  <1>0. PICK n \in Int : n = Len(events) + 1
    <2>1. Len(events) + 1 \in Int
      BY DEF TypeOK
    <2> QED BY <2>1
  <1>1. /\ events \in Seq(EventRows)
        /\ snapshots \in Seq([state : States, event_hash : Nat])
        /\ Len(snapshots) = Len(events)
        /\ world.version = Len(events) - 1
        /\ world.state = StateBefore(n)
    BY <1>0 DEF TypeOK, VerifyWorld
  <1>2. /\ Len(events') = n
        /\ DOMAIN events' = DOMAIN events \cup {n}
        /\ \A i \in DOMAIN events : events'[i] = events[i] /\ snapshots'[i] = snapshots[i]
        /\ r.expected = n - 2
        /\ (r.event_id = Created) <=> (n = 1)
    <2>1. Len(events) \in Nat
      BY <1>0, <1>1
    <2>2. Len(events') = Len(events) + 1
      BY InsertFacts
    <2>3. DOMAIN events' = DOMAIN events \cup {Len(events) + 1}
      BY InsertFacts
    <2>4. \A i \in DOMAIN events : events'[i] = events[i] /\ snapshots'[i] = snapshots[i]
      BY InsertFacts
    <2>5. r.expected = Len(events) - 1 /\ ((r.event_id = Created) <=> (Len(events) = 0))
      BY InsertFacts
    <2> QED BY <1>0, <2>1, <2>2, <2>3, <2>4, <2>5
  <1>3. /\ events'[n] = [request |-> r, resulting_version |-> n - 1,
                         resulting_state |-> ApplyMutations(StateBefore(n), r.body),
                         previous_hash |-> n - 1, event_hash |-> n]
        /\ snapshots'[n] = [state |-> ApplyMutations(StateBefore(n), r.body), event_hash |-> n]
        /\ Len(snapshots') = n
        /\ world' = [version |-> n - 1, state |-> ApplyMutations(StateBefore(n), r.body)]
    <2>1. (IF events = <<>> THEN 0 ELSE events[Len(events)].event_hash) = n - 1
      <3>1. CASE events = <<>>
        BY <1>0, <3>1
      <3>2. CASE events # <<>>
        <4>1. Len(events) \in DOMAIN events
          BY <1>0, <1>1, <3>2
        <4>2. EventVerifies(Len(events))
          BY <4>1 DEF VerifyWorld
        <4> QED BY <1>0, <1>1, <3>2, <4>2 DEF EventVerifies
      <3> QED BY <1>0, <1>1, <3>1, <3>2
    <2> QED BY <1>0, <1>1, <2>1 DEF Insert
  <1>4. \A i \in 1 .. n : StateBefore(i)' = StateBefore(i)
    <2> TAKE i \in 1 .. n
    <2>1. CASE i = 1
      BY <2>1 DEF StateBefore
    <2>2. CASE i # 1
      <3>1. i - 1 \in DOMAIN events
        BY <1>0, <1>1, <2>2
      <3>2. events'[i - 1] = events[i - 1]
        BY <1>2, <3>1
      <3> QED BY <2>2, <3>2 DEF StateBefore
    <2> QED BY <2>1, <2>2
  <1>5. world.version' = Len(events') - 1 /\ world.state' = StateBefore(Len(events) + 1)'
    BY <1>0, <1>1, <1>2, <1>3 DEF StateBefore
  <1>6. \A i \in DOMAIN events : EventVerifies(i)'
    <2> TAKE i \in DOMAIN events
    <2>1. EventVerifies(i) BY DEF VerifyWorld
    <2>2. StateBefore(i)' = StateBefore(i) BY <1>0, <1>1, <1>4
    <2> QED BY <1>2, <2>1, <2>2 DEF EventVerifies, ApplyMutations
  <1>7. EventVerifies(n)'
    <2>1. n \in 1 .. n
      BY <1>0, <1>1
    <2>2. StateBefore(n)' = StateBefore(n)
      BY <1>4, <2>1
    <2> DEFINE body == events'[n].request.body
    <2>3. body = r.body
      BY <1>3
    <2>4. ApplyMutations(StateBefore(n), events[n].request.body)'
            = ApplyMutations(StateBefore(n), r.body)
      BY <2>2, <2>3 DEF ApplyMutations
    <2> QED BY <1>0, <1>2, <1>3, <2>2, <2>4 DEF EventVerifies
  <1> QED
    BY <1>2, <1>3, <1>5, <1>6, <1>7 DEF VerifyWorld
-----------------------------------------------------------------------------
(* What every step leaves alone. *)

\* Tokens are issued once (the trigger issued_kernel_tokens_no_update) and
\* spent once (the primary key of consumed_kernel_tokens).
LEMMA LedgersMonotone ==
    ASSUME TypeOK, [Next]_vars, NEW t \in Tokens
    PROVE  /\ issued[t] # NotIssued => issued'[t] = issued[t]
           /\ consumed[t] # NotConsumed => consumed'[t] = consumed[t]
  <1> USE DEF TypeOK, store
  <1>1. CASE \E r \in Requests : DirectAppend(r)
    BY <1>1 DEF DirectAppend
  <1>2. CASE \E id \in EventIds, expected \in 0 .. MaxVersion - 1 :
                \E target \in 0 .. world.version : RestoreVersion(id, target, expected)
    BY <1>2 DEF RestoreVersion, DirectAppend
  <1>3. CASE \E u \in Tokens, grant \in Grants, ttl \in 1 .. MaxTTL : IssueToken(u, grant, ttl)
    BY <1>3 DEF IssueToken
  <1>4. ASSUME NEW c \in Clients, NEW r \in Requests, Call(c, r) PROVE UNCHANGED <<issued, consumed>>
    BY <1>4 DEF Call
  <1>5. ASSUME NEW c \in Clients,
               ReadExisting(c) \/ Verify(c) \/ CommitNew(c) \/ CommitDuplicate(c)
                 \/ CommitRefused(c) \/ Consume(c) \/ Crash(c)
        PROVE  UNCHANGED <<issued, consumed>>
    BY <1>5 DEF ReadExisting, Verify, CommitNew, CommitDuplicate, CommitRefused, Consume, Crash
  <1>6. ASSUME NEW c \in Clients, InsertConsumed(c)
        PROVE  issued' = issued /\ (consumed[t] # NotConsumed => consumed'[t] = consumed[t])
    BY <1>6 DEF InsertConsumed
  <1>7. CASE Tick \/ UNCHANGED vars
    BY <1>7 DEF Tick, vars
  <1> QED
    BY <1>1, <1>2, <1>3, <1>4, <1>5, <1>6, <1>7 DEF Next

LEMMA StepsOfTheLedger ==
    ASSUME [Next]_vars
    PROVE  UNCHANGED consumed \/ \E c \in Clients : InsertConsumed(c)
  <1>1. ASSUME NEW r, DirectAppend(r) PROVE UNCHANGED consumed
    BY <1>1 DEF DirectAppend
  <1>2. ASSUME NEW u, NEW grant, NEW ttl, IssueToken(u, grant, ttl) PROVE UNCHANGED consumed
    BY <1>2 DEF IssueToken
  <1>3. ASSUME NEW c \in Clients,
               (\E r \in Requests : Call(c, r))
                 \/ ReadExisting(c) \/ Verify(c) \/ CommitNew(c) \/ CommitDuplicate(c)
                 \/ CommitRefused(c) \/ Consume(c) \/ Crash(c)
        PROVE  UNCHANGED consumed
    BY <1>3 DEF Call, ReadExisting, Verify, CommitNew, CommitDuplicate, CommitRefused,
                Consume, Crash
  <1>4. CASE Tick \/ UNCHANGED vars
    BY <1>4 DEF Tick, vars
  <1> QED
    BY <1>1, <1>2, <1>3, <1>4 DEF Next, RestoreVersion

\* A step of the store: a well-formed request, granted to the token it carries.
Commits(r) ==
    /\ WellFormed(r) /\ Insertable(r) /\ Insert(r)
    /\ r.auth # Direct => issued[r.auth] # NotIssued /\ issued[r.auth].grant = Bound(r)
    /\ UNCHANGED <<issued, consumed>>

\* An active call has the fields of a call.
LEMMA ActiveCall ==
    ASSUME TypeOK, NEW c \in Clients, client[c].pc \notin {"IDLE", "RAISED"}
    PROVE  /\ client[c] \in ActiveCalls
           /\ client[c].req \in Requests
           /\ client[c].req.auth \in Tokens
  <1>1. client[c] \in Calls
    BY DEF TypeOK
  <1>2. client[c] \in ActiveCalls
    BY <1>1 DEF Calls, NoCall, Raised
  <1> QED
    BY <1>2 DEF ActiveCalls, Requests

LEMMA StepsOfTheStore ==
    ASSUME IInv, [Next]_vars
    PROVE  (\E r : Commits(r)) \/ UNCHANGED store
  <1> USE DEF IInv
  <1>1. ASSUME NEW r \in Requests, DirectAppend(r) PROVE Commits(r)
    BY <1>1, RequestsWellFormed DEF DirectAppend, Commits
  <1>2. ASSUME NEW id \in EventIds, NEW e \in 0 .. MaxVersion - 1,
               NEW target \in 0 .. world.version, RestoreVersion(id, target, e)
        PROVE  Commits(RestoreRequest(id, target, e))
    BY <1>2, RestoreWellFormed DEF RestoreVersion, DirectAppend, Commits
  <1>3. ASSUME NEW c \in Clients, CommitNew(c) PROVE Commits(client[c].req)
    <2>1. client[c].pc = "COMMIT"
      BY <1>3 DEF CommitNew
    <2>2. client[c].req \in Requests
      BY <2>1, ActiveCall
    <2>3. issued[client[c].req.auth] # NotIssued
          /\ issued[client[c].req.auth].grant = Bound(client[c].req)
      BY <2>1 DEF Ties, CallsGranted, Idle
    <2> QED BY <1>3, <2>2, <2>3, RequestsWellFormed DEF CommitNew, Commits
  <1>4. ASSUME NEW u \in Tokens, NEW grant \in Grants, NEW ttl \in 1 .. MaxTTL,
               IssueToken(u, grant, ttl)
        PROVE  UNCHANGED store
    BY <1>4 DEF IssueToken
  <1>5. ASSUME NEW c \in Clients,
               (\E r \in Requests : Call(c, r))
                 \/ ReadExisting(c) \/ Verify(c) \/ CommitDuplicate(c)
                 \/ CommitRefused(c) \/ Consume(c) \/ InsertConsumed(c) \/ Crash(c)
        PROVE  UNCHANGED store
    BY <1>5 DEF Call, ReadExisting, Verify, CommitDuplicate, CommitRefused, Consume,
                InsertConsumed, Crash
  <1>6. CASE Tick \/ UNCHANGED vars
    BY <1>6 DEF Tick, vars, store
  <1> QED
    BY <1>1, <1>2, <1>3, <1>4, <1>5, <1>6 DEF Next

\* Events stay where they are and as they are (the triggers on world_events).
LEMMA EventsStay ==
    ASSUME IInv, [Next]_vars
    PROVE  \A i \in DOMAIN events : i \in DOMAIN events' /\ events'[i] = events[i]
  <1>1. CASE UNCHANGED store
    BY <1>1 DEF store
  <1>2. ASSUME NEW r, Commits(r)
        PROVE  \A i \in DOMAIN events : i \in DOMAIN events' /\ events'[i] = events[i]
    <2>1. /\ DOMAIN events' = DOMAIN events \cup {Len(events) + 1}
          /\ \A i \in DOMAIN events : events'[i] = events[i]
      BY <1>2, InsertFacts DEF Commits, IInv
    <2> QED BY <2>1
  <1> QED
    BY <1>1, <1>2, StepsOfTheStore
-----------------------------------------------------------------------------
(* The inductive step, conjunct by conjunct. *)

LEMMA VerifyStep ==
    ASSUME IInv, [Next]_vars
    PROVE  VerifyWorld'
  <1>1. CASE UNCHANGED store
    <2>1. VerifyWorld /\ UNCHANGED <<world, events, snapshots>>
      BY <1>1 DEF IInv, store
    <2> QED BY <2>1 DEF VerifyWorld, EventVerifies, StateBefore
  <1>2. ASSUME NEW r, Commits(r) PROVE VerifyWorld'
    BY <1>2, InsertVerifies DEF Commits, IInv
  <1> QED
    BY <1>1, <1>2, StepsOfTheStore

LEMMA UniqueIdentitiesStep ==
    ASSUME IInv, [Next]_vars
    PROVE  UniqueIdentities'
  <1> USE DEF UniqueIdentities
  <1>1. CASE UNCHANGED store
    BY <1>1 DEF IInv, Ties, store
  <1>2. ASSUME NEW r, Commits(r) PROVE UniqueIdentities'
    <2>1. /\ DOMAIN events' = DOMAIN events \cup {Len(events) + 1}
          /\ \A i \in DOMAIN events : events'[i] = events[i]
          /\ events'[Len(events) + 1].request = r
      BY <1>2, InsertFacts DEF Commits, IInv
    <2>2. \A i \in DOMAIN events : events[i].request.event_id # r.event_id
      BY <1>2 DEF Commits, Insertable, Rows
    <2> QED BY <2>1, <2>2 DEF IInv, Ties
  <1> QED
    BY <1>1, <1>2, StepsOfTheStore

LEMMA EventsGrantedStep ==
    ASSUME IInv, [Next]_vars
    PROVE  EventsGranted'
  <1> USE DEF EventsGranted
  <1>0. \A i \in DOMAIN events : events[i].request.auth \in Tokens \cup {Direct}
    <2> TAKE i \in DOMAIN events
    <2>1. events \in Seq(EventRows) /\ i \in 1 .. Len(events)
      BY DEF IInv, TypeOK
    <2>2. events[i] \in EventRows
      BY <2>1, ElementOfSeq
    <2> QED BY <2>2 DEF EventRows, StoredRequests
  <1>1. CASE UNCHANGED store
    <2>1. ASSUME NEW i \in DOMAIN events, events[i].request.auth # Direct
          PROVE  /\ issued'[events[i].request.auth] # NotIssued
                 /\ issued'[events[i].request.auth].grant = Bound(events[i].request)
      <3>1. events[i].request.auth \in Tokens
        BY <1>0, <2>1
      <3>2. issued[events[i].request.auth] # NotIssued
            /\ issued[events[i].request.auth].grant = Bound(events[i].request)
        BY <2>1 DEF IInv, Ties
      <3>3. issued'[events[i].request.auth] = issued[events[i].request.auth]
        BY <3>1, <3>2, LedgersMonotone DEF IInv
      <3> QED BY <3>2, <3>3
    <2> QED BY <1>1, <2>1 DEF store, Bound
  <1>2. ASSUME NEW r, Commits(r) PROVE EventsGranted'
    <2>1. /\ DOMAIN events' = DOMAIN events \cup {Len(events) + 1}
          /\ \A i \in DOMAIN events : events'[i] = events[i]
          /\ events'[Len(events) + 1].request = r
      BY <1>2, InsertFacts DEF Commits, IInv
    <2> QED BY <1>2, <2>1 DEF IInv, Ties, Commits, Bound
  <1> QED
    BY <1>1, <1>2, StepsOfTheStore

LEMMA OutboxMatchesStep ==
    ASSUME IInv, [Next]_vars
    PROVE  OutboxMatches'
  <1> USE DEF OutboxMatches, Message
  <1>1. CASE UNCHANGED store
    BY <1>1 DEF IInv, Ties, store
  <1>2. ASSUME NEW r, Commits(r) PROVE OutboxMatches'
    <2>1. /\ DOMAIN events' = DOMAIN events \cup {Len(events) + 1}
          /\ \A i \in DOMAIN events : events'[i] = events[i]
          /\ events'[Len(events) + 1].request = r
          /\ events'[Len(events) + 1].event_hash = Len(events) + 1
      BY <1>2, InsertFacts DEF Commits, IInv
    <2>2. outbox' = outbox \cup {[event_id |-> r.event_id, event_hash |-> Len(events) + 1]}
      BY <1>2 DEF Commits, Insert
    <2> QED BY <2>1, <2>2 DEF IInv, Ties
  <1> QED
    BY <1>1, <1>2, StepsOfTheStore

\* The ledger of consumed tokens changes only when a call past the store's
\* transaction inserts its row, and that call's event is in the log.
LEMMA LedgerMatchesStep ==
    ASSUME IInv, [Next]_vars
    PROVE  LedgerMatches'
  <1> USE DEF LedgerMatches, Message
  <1> SUFFICES ASSUME NEW t \in Tokens, consumed'[t] # NotConsumed
               PROVE  \E i \in DOMAIN events' :
                        events'[i].request.auth = t /\ consumed'[t] = Message(i)'
    OBVIOUS
  <1>1. CASE consumed[t] # NotConsumed
    <2>1. PICK i \in DOMAIN events : events[i].request.auth = t /\ consumed[t] = Message(i)
      BY <1>1 DEF IInv, Ties
    <2>2. consumed'[t] = consumed[t]
      BY <1>1, LedgersMonotone DEF IInv
    <2>3. i \in DOMAIN events' /\ events'[i] = events[i]
      BY EventsStay
    <2> QED BY <2>1, <2>2, <2>3
  <1>2. ASSUME NEW c \in Clients, InsertConsumed(c), consumed[t] = NotConsumed
        PROVE  \E i \in DOMAIN events' :
                 events'[i].request.auth = t /\ consumed'[t] = Message(i)'
    <2>1. client[c].pc = "INSERT" /\ UNCHANGED events
      BY <1>2 DEF InsertConsumed, store
    <2>2. t = client[c].req.auth /\ consumed'[t] = Purchase(c)
      BY <1>2 DEF InsertConsumed, IInv, TypeOK
    <2>3. PICK i \in DOMAIN events :
            events[i].request = client[c].req /\ client[c].answer.event_hash = events[i].event_hash
      BY <2>1 DEF IInv, Ties, CallsCommitted
    <2> QED BY <2>1, <2>2, <2>3 DEF Purchase
  <1>3. CASE UNCHANGED consumed
    <2>1. consumed[t] # NotConsumed
      BY <1>3
    <2> QED BY <1>1, <2>1
  <1>4. CASE consumed[t] = NotConsumed /\ \E c \in Clients : InsertConsumed(c)
    BY <1>2, <1>4
  <1> QED
    BY <1>1, <1>3, <1>4, StepsOfTheLedger
-----------------------------------------------------------------------------
(* The calls. *)

\* A step changes the record of one caller at most.
LEMMA OtherCalls ==
    ASSUME IInv, NEW c \in Clients, NEW d \in Clients, d # c,
           (\E r \in Requests : Call(c, r))
             \/ ReadExisting(c) \/ Verify(c) \/ CommitNew(c) \/ CommitDuplicate(c)
             \/ CommitRefused(c) \/ Consume(c) \/ InsertConsumed(c) \/ Crash(c)
    PROVE  client'[d] = client[d]
  BY DEF IInv, TypeOK, Call, ReadExisting, Verify, CommitNew, CommitDuplicate, CommitRefused,
         Consume, InsertConsumed, Crash, Goto, Raise

\* What becomes of a call that is still under way or has returned: it keeps its
\* request, and it only gets past a point for the reason that point checks.
Continues(c) ==
    LET old == client[c]
        new == client'[c]
    IN  new = old \/
        /\ old.pc \notin {"IDLE", "RAISED", "RETURNED"}
        /\ new.req = old.req
        /\ \/ /\ old.pc = "READ" /\ new.pc = "VERIFY"
              /\ new.answer = old.answer
           \/ /\ old.pc = "VERIFY" /\ new.pc = "COMMIT"
              /\ issued[old.req.auth].grant = Bound(old.req)
              /\ new.answer = old.answer
           \/ /\ old.pc = "COMMIT" /\ new.pc = "SPEND"
              /\ \E i \in DOMAIN events' :
                    /\ events'[i].request = old.req
                    /\ new.answer.event_hash = events'[i].event_hash
           \/ /\ old.pc = "SPEND" /\ new.pc = "INSERT"
              /\ new.answer = old.answer
           \/ /\ old.pc \in {"SPEND", "INSERT"} /\ new.pc = "RETURNED"
              /\ new.answer = old.answer
              /\ consumed'[old.req.auth] = Purchase(c)

Starts(c) ==
    \E r \in Requests :
        /\ r.auth # Direct
        /\ issued[r.auth] # NotIssued
        /\ client'[c] = [pc |-> "READ", req |-> r, existing |-> 0, answer |-> NoAnswer]

Ends(c) == client'[c] \in {NoCall, Raised}

LEMMA CallSteps ==
    ASSUME IInv, [Next]_vars, NEW c \in Clients
    PROVE  Continues(c) \/ Starts(c) \/ Ends(c)
  <1> USE DEF IInv, TypeOK
  <1>1. ASSUME NEW r \in Requests, Call(c, r) PROVE Starts(c)
    BY <1>1 DEF Call, Starts
  <1>2. CASE ReadExisting(c)
    <2>1. client[c] \in ActiveCalls
      BY <1>2, ActiveCall DEF ReadExisting
    <2> QED BY <1>2, <2>1 DEF ReadExisting, Continues, ActiveCalls
  <1>3. CASE Verify(c)
    <2>1. client[c] \in ActiveCalls
      BY <1>3, ActiveCall DEF Verify
    <2>2. CASE Verified(client[c].req, client[c].existing)
      BY <1>3, <2>1, <2>2 DEF Verify, Verified, Goto, Continues, ActiveCalls
    <2>3. CASE ~Verified(client[c].req, client[c].existing)
      BY <1>3, <2>3 DEF Verify, Raise, Ends
    <2> QED BY <2>2, <2>3
  <1>4. CASE CommitNew(c)
    <2>1. client[c] \in ActiveCalls /\ client[c].req \in Requests
      BY <1>4, ActiveCall DEF CommitNew
    <2>2. WellFormed(client[c].req)
      BY <2>1, RequestsWellFormed
    <2>3. /\ Len(events') = Len(events) + 1
          /\ DOMAIN events' = DOMAIN events \cup {Len(events) + 1}
          /\ events'[Len(events) + 1].request = client[c].req
          /\ events'[Len(events) + 1].event_hash = Len(events) + 1
      BY <1>4, <2>2, InsertFacts DEF CommitNew
    <2>4. /\ client'[c].pc = "SPEND" /\ client[c].pc = "COMMIT"
          /\ client'[c].req = client[c].req
          /\ client'[c].answer.event_hash = Len(events')
      BY <1>4, <2>1 DEF CommitNew, ActiveCalls
    <2> QED BY <2>3, <2>4 DEF Continues
  <1>5. CASE CommitDuplicate(c)
    <2>1. client[c] \in ActiveCalls
      BY <1>5, ActiveCall DEF CommitDuplicate
    <2>2. PICK i \in Rows(client[c].req.event_id) :
            IF events[i].request = client[c].req
              THEN client' = [client EXCEPT ![c].pc = "SPEND",
                                  ![c].answer = Recall(client[c].req, i)]
              ELSE Raise(c)
      BY <1>5 DEF CommitDuplicate
    <2>3. i \in DOMAIN events /\ events' = events /\ client[c].pc = "COMMIT"
      BY <1>5 DEF Rows, CommitDuplicate, store
    <2>4. CASE events[i].request = client[c].req
      <3>1. Recall(client[c].req, i).event_hash = events[i].event_hash
        <4>1. EventVerifies(i) /\ i \in Int
          BY <2>3 DEF VerifyWorld
        <4>2. snapshots[events[i].resulting_version + 1].event_hash = events[i].event_hash
          BY <4>1 DEF EventVerifies
        <4> QED BY <4>2 DEF Recall, StateAt
      <3>2. /\ client'[c].pc = "SPEND"
            /\ client'[c].req = client[c].req
            /\ client'[c].answer = Recall(client[c].req, i)
        BY <2>1, <2>2, <2>4 DEF ActiveCalls
      <3> QED BY <2>3, <2>4, <3>1, <3>2 DEF Continues
    <2>5. CASE events[i].request # client[c].req
      BY <2>2, <2>5 DEF Raise, Ends
    <2> QED BY <2>4, <2>5
  <1>6. CASE CommitRefused(c) \/ Crash(c)
    BY <1>6 DEF CommitRefused, Crash, Raise, Ends
  <1>7. CASE Consume(c)
    <2>1. client[c] \in ActiveCalls /\ client[c].pc = "SPEND"
      BY <1>7, ActiveCall DEF Consume
    <2>2. UNCHANGED consumed
      BY <1>7 DEF Consume
    <2>3. CASE Goto(c, "INSERT")
      BY <2>1, <2>3 DEF Goto, Continues, ActiveCalls
    <2>4. CASE consumed[client[c].req.auth] = Purchase(c) /\ Goto(c, "RETURNED")
      BY <2>1, <2>2, <2>4 DEF Goto, Continues, ActiveCalls
    <2>5. CASE Raise(c)
      BY <2>5 DEF Raise, Ends
    <2> QED BY <1>7, <2>3, <2>4, <2>5 DEF Consume
  <1>8. CASE InsertConsumed(c)
    <2>1. /\ client[c] \in ActiveCalls /\ client[c].pc = "INSERT"
          /\ client[c].req.auth \in Tokens
      BY <1>8, ActiveCall DEF InsertConsumed
    <2>2. CASE consumed[client[c].req.auth] = NotConsumed
      BY <1>8, <2>1, <2>2 DEF InsertConsumed, Goto, Continues, ActiveCalls
    <2>3. CASE consumed[client[c].req.auth] # NotConsumed
      BY <1>8, <2>3 DEF InsertConsumed, Raise, Ends
    <2> QED BY <2>2, <2>3
  <1>9. CASE client'[c] = client[c]
    BY <1>9 DEF Continues
  <1>10. ASSUME NEW d \in Clients, d # c,
               (\E r \in Requests : Call(d, r))
                 \/ ReadExisting(d) \/ Verify(d) \/ CommitNew(d) \/ CommitDuplicate(d)
                 \/ CommitRefused(d) \/ Consume(d) \/ InsertConsumed(d) \/ Crash(d)
         PROVE  client'[c] = client[c]
    BY <1>10, OtherCalls
  <1>11. ASSUME \/ \E r \in Requests : DirectAppend(r)
                \/ \E id \in EventIds, e \in 0 .. MaxVersion - 1 :
                     \E target \in 0 .. world.version : RestoreVersion(id, target, e)
                \/ \E t \in Tokens, grant \in Grants, ttl \in 1 .. MaxTTL : IssueToken(t, grant, ttl)
                \/ Tick
                \/ UNCHANGED vars
         PROVE  client' = client
    BY <1>11 DEF DirectAppend, RestoreVersion, IssueToken, Tick, vars
  <1> QED
    BY <1>1, <1>2, <1>3, <1>4, <1>5, <1>6, <1>7, <1>8, <1>9, <1>10, <1>11 DEF Next

\* A call past its verification holds a token granted to its request.
LEMMA CallsGrantedStep ==
    ASSUME IInv, [Next]_vars
    PROVE  CallsGranted'
  <1> SUFFICES ASSUME NEW c \in Clients
               PROVE  /\ client'[c].pc \notin {"IDLE", "RAISED"} =>
                            issued'[client'[c].req.auth] # NotIssued
                      /\ client'[c].pc \in {"COMMIT", "SPEND", "INSERT", "RETURNED"} =>
                            issued'[client'[c].req.auth].grant = Bound(client'[c].req)
    BY DEF CallsGranted, Idle, Bound
  <1>1. CASE Continues(c)
    <2> SUFFICES ASSUME client'[c].pc \notin {"IDLE", "RAISED"}
                 PROVE  /\ issued'[client'[c].req.auth] # NotIssued
                        /\ client'[c].pc \in {"COMMIT", "SPEND", "INSERT", "RETURNED"} =>
                             issued'[client'[c].req.auth].grant = Bound(client'[c].req)
      OBVIOUS
    <2>1. client[c].pc \notin {"IDLE", "RAISED"} /\ client'[c].req = client[c].req
      BY <1>1 DEF Continues
    <2>2. client[c].req.auth \in Tokens
      BY <2>1, ActiveCall DEF IInv
    <2>3. issued[client[c].req.auth] # NotIssued
      BY <2>1 DEF IInv, Ties, CallsGranted, Idle
    <2>4. issued'[client[c].req.auth] = issued[client[c].req.auth]
      BY <2>2, <2>3, LedgersMonotone DEF IInv
    <2>5. client'[c].pc \in {"COMMIT", "SPEND", "INSERT", "RETURNED"} =>
            issued[client[c].req.auth].grant = Bound(client[c].req)
      BY <1>1 DEF Continues, IInv, Ties, CallsGranted
    <2> QED BY <2>1, <2>3, <2>4, <2>5
  <1>2. CASE Starts(c)
    <2>1. PICK r \in Requests :
            /\ r.auth # Direct /\ issued[r.auth] # NotIssued
            /\ client'[c] = [pc |-> "READ", req |-> r, existing |-> 0, answer |-> NoAnswer]
      BY <1>2 DEF Starts
    <2>2. r.auth \in Tokens
      BY <2>1 DEF Requests
    <2>3. issued'[r.auth] = issued[r.auth]
      BY <2>1, <2>2, LedgersMonotone DEF IInv
    <2> QED BY <2>1, <2>3
  <1>3. CASE Ends(c)
    BY <1>3 DEF Ends, NoCall, Raised
  <1> QED
    BY <1>1, <1>2, <1>3, CallSteps

\* A call past the store's transaction has its event in the log.
LEMMA CallsCommittedStep ==
    ASSUME IInv, [Next]_vars
    PROVE  CallsCommitted'
  <1> SUFFICES ASSUME NEW c \in Clients, client'[c].pc \in {"SPEND", "INSERT", "RETURNED"}
               PROVE  \E i \in DOMAIN events' :
                        /\ events'[i].request = client'[c].req
                        /\ client'[c].answer.event_hash = events'[i].event_hash
    BY DEF CallsCommitted
  <1>1. Continues(c)
    <2>1. ~Starts(c)
      <3>1. Starts(c) => client'[c].pc = "READ"
        BY DEF Starts
      <3> QED BY <3>1
    <2>2. ~Ends(c)
      <3>1. NoCall.pc = "IDLE" /\ Raised.pc = "RAISED"
        BY DEF NoCall, Raised
      <3> QED BY <3>1 DEF Ends
    <2> QED BY <2>1, <2>2, CallSteps
  <1>2. CASE client[c].pc \in {"SPEND", "INSERT", "RETURNED"}
    <2>1. client'[c].req = client[c].req /\ client'[c].answer = client[c].answer
      BY <1>1, <1>2 DEF Continues
    <2>2. PICK i \in DOMAIN events :
            /\ events[i].request = client[c].req
            /\ client[c].answer.event_hash = events[i].event_hash
      BY <1>2 DEF IInv, Ties, CallsCommitted
    <2> QED BY <2>1, <2>2, EventsStay
  <1>3. CASE client[c].pc \notin {"SPEND", "INSERT", "RETURNED"}
    BY <1>1, <1>3 DEF Continues
  <1> QED
    BY <1>2, <1>3

\* A call that has returned has paid with its token.
LEMMA CallsPaidStep ==
    ASSUME IInv, [Next]_vars
    PROVE  CallsPaid'
  <1> SUFFICES ASSUME NEW c \in Clients, client'[c].pc = "RETURNED"
               PROVE  consumed'[client'[c].req.auth] =
                        [event_id   |-> client'[c].req.event_id,
                         event_hash |-> client'[c].answer.event_hash]
    BY DEF CallsPaid, Purchase
  <1>1. Continues(c)
    <2>1. ~Starts(c)
      <3>1. Starts(c) => client'[c].pc = "READ"
        BY DEF Starts
      <3> QED BY <3>1
    <2>2. ~Ends(c)
      <3>1. NoCall.pc = "IDLE" /\ Raised.pc = "RAISED"
        BY DEF NoCall, Raised
      <3> QED BY <3>1 DEF Ends
    <2> QED BY <2>1, <2>2, CallSteps
  <1>2. client[c].pc \notin {"IDLE", "RAISED"}
    BY <1>1 DEF Continues
  <1>3. CASE client'[c] = client[c]
    <2>1. client[c].pc = "RETURNED"
      BY <1>3
    <2>2. consumed[client[c].req.auth] = Purchase(c)
      BY <2>1 DEF IInv, Ties, CallsPaid
    <2>3. client[c].answer.event_hash # 0
      <3>1. PICK i \in DOMAIN events : client[c].answer.event_hash = events[i].event_hash
        BY <2>1 DEF IInv, Ties, CallsCommitted
      <3>2. i \in 1 .. Len(events)
        BY DEF IInv, TypeOK
      <3>3. EventVerifies(i)
        BY DEF IInv, VerifyWorld
      <3>4. events[i].event_hash = i
        BY <3>3 DEF EventVerifies
      <3> QED BY <3>1, <3>2, <3>4
    <2>4. consumed[client[c].req.auth] # NotConsumed
      BY <2>2, <2>3 DEF Purchase, NotConsumed
    <2>5. client[c].req.auth \in Tokens
      BY <1>2, ActiveCall DEF IInv
    <2>6. consumed'[client[c].req.auth] = consumed[client[c].req.auth]
      BY <2>4, <2>5, LedgersMonotone DEF IInv
    <2> QED BY <1>3, <2>2, <2>6 DEF Purchase
  <1>4. CASE client'[c] # client[c]
    BY <1>1, <1>4 DEF Continues, Purchase
  <1> QED
    BY <1>3, <1>4

-----------------------------------------------------------------------------
(* Types. *)

\* What a repeated request is answered has the type of an answer.
LEMMA RecallType ==
    ASSUME TypeOK, VerifyWorld, NEW i \in DOMAIN events, NEW r
    PROVE  Recall(r, i) \in [version : Int, state : States, event_hash : Nat]
  <1>1. /\ i \in 1 .. Len(events) /\ events \in Seq(EventRows)
        /\ snapshots \in Seq([state : States, event_hash : Nat])
        /\ Len(snapshots) = Len(events)
        /\ world \in [version : Int, state : States]
    BY DEF TypeOK, VerifyWorld
  <1>2. events[i] \in EventRows /\ snapshots[i] \in [state : States, event_hash : Nat]
    BY <1>1, ElementOfSeq
  <1>3. events[i].resulting_version = i - 1 /\ events[i].event_hash = i
    BY DEF VerifyWorld, EventVerifies
  <1>4. events[i].resulting_version + 1 = i
    BY <1>1, <1>3
  <1>5. events[i].event_hash \in Nat /\ events[i].resulting_version \in Int
    BY <1>1, <1>3
  <1> QED
    BY <1>1, <1>2, <1>4, <1>5 DEF Recall, StateAt

LEMMA CallTypesStep ==
    ASSUME IInv, [Next]_vars
    PROVE  client' \in [Clients -> Calls]
  <1> USE DEF IInv
  <1>0. client \in [Clients -> Calls] /\ NoCall \in Calls /\ Raised \in Calls
    BY DEF TypeOK, Calls
  <1>1. ASSUME NEW c \in Clients, NEW r \in Requests, Call(c, r)
        PROVE  client' \in [Clients -> Calls]
    <2>1. [pc |-> "READ", req |-> r, existing |-> 0, answer |-> NoAnswer] \in ActiveCalls
      BY <1>1 DEF ActiveCalls, NoAnswer, States, Call
    <2> QED BY <1>0, <1>1, <2>1 DEF Call, Calls
  <1>2. ASSUME NEW c \in Clients, ReadExisting(c)
        PROVE  client' \in [Clients -> Calls]
    <2>1. client[c] \in ActiveCalls
      BY <1>2, ActiveCall DEF ReadExisting
    <2>2. PICK found \in 0 .. Len(events) :
            client' = [client EXCEPT ![c].pc = "VERIFY", ![c].existing = found]
      BY <1>2 DEF ReadExisting
    <2>3. found \in Nat
      BY DEF TypeOK
    <2>4. [client[c] EXCEPT !.pc = "VERIFY", !.existing = found] \in ActiveCalls
      BY <2>1, <2>3 DEF ActiveCalls
    <2> QED BY <1>0, <2>2, <2>4 DEF Calls
  <1>3. ASSUME NEW c \in Clients, client[c].pc \notin {"IDLE", "RAISED"},
               NEW pc \in {"COMMIT", "INSERT", "RETURNED"}, Goto(c, pc)
        PROVE  client' \in [Clients -> Calls]
    <2>1. [client[c] EXCEPT !.pc = pc] \in ActiveCalls
      BY <1>3, ActiveCall DEF ActiveCalls
    <2> QED BY <1>0, <1>3, <2>1 DEF Goto, Calls
  <1>4. ASSUME NEW c \in Clients, Raise(c) PROVE client' \in [Clients -> Calls]
    BY <1>0, <1>4 DEF Raise
  <1>5. ASSUME NEW c \in Clients, client[c].pc = "COMMIT",
               NEW answer \in [version : Int, state : States, event_hash : Nat],
               client' = [client EXCEPT ![c].pc = "SPEND", ![c].answer = answer]
        PROVE  client' \in [Clients -> Calls]
    <2>1. [client[c] EXCEPT !.pc = "SPEND", !.answer = answer] \in ActiveCalls
      BY <1>5, ActiveCall DEF ActiveCalls
    <2> QED BY <1>0, <1>5, <2>1 DEF Calls
  <1>6. ASSUME NEW c \in Clients, Verify(c) PROVE client' \in [Clients -> Calls]
    BY <1>3, <1>4, <1>6 DEF Verify
  <1>7. ASSUME NEW c \in Clients, CommitNew(c) PROVE client' \in [Clients -> Calls]
    <2>1. client[c].req \in Requests /\ client[c].pc = "COMMIT"
      BY <1>7, ActiveCall DEF CommitNew
    <2>2. WellFormed(client[c].req)
      BY <2>1, RequestsWellFormed
    <2>3. world' \in [version : Int, state : States] /\ events' \in Seq(EventRows)
      BY <1>7, <2>2, InsertTypes DEF CommitNew
    <2>4. [version |-> world'.version, state |-> world'.state, event_hash |-> Len(events')]
            \in [version : Int, state : States, event_hash : Nat]
      BY <2>3
    <2> QED BY <1>5, <1>7, <2>1, <2>4 DEF CommitNew
  <1>8. ASSUME NEW c \in Clients, CommitDuplicate(c) PROVE client' \in [Clients -> Calls]
    <2>1. PICK i \in Rows(client[c].req.event_id) :
            IF events[i].request = client[c].req
              THEN client' = [client EXCEPT ![c].pc = "SPEND",
                                  ![c].answer = Recall(client[c].req, i)]
              ELSE Raise(c)
      BY <1>8 DEF CommitDuplicate
    <2>2. Recall(client[c].req, i) \in [version : Int, state : States, event_hash : Nat]
      BY RecallType DEF Rows
    <2> QED BY <1>4, <1>5, <1>8, <2>1, <2>2 DEF CommitDuplicate
  <1>9. ASSUME NEW c \in Clients, CommitRefused(c) \/ Crash(c)
        PROVE  client' \in [Clients -> Calls]
    BY <1>0, <1>9 DEF CommitRefused, Crash, Raise
  <1>10. ASSUME NEW c \in Clients, Consume(c) \/ InsertConsumed(c)
         PROVE  client' \in [Clients -> Calls]
    BY <1>3, <1>4, <1>10 DEF Consume, InsertConsumed
  <1>11. ASSUME \/ \E r \in Requests : DirectAppend(r)
                \/ \E id \in EventIds, e \in 0 .. MaxVersion - 1 :
                     \E target \in 0 .. world.version : RestoreVersion(id, target, e)
                \/ \E t \in Tokens, grant \in Grants, ttl \in 1 .. MaxTTL : IssueToken(t, grant, ttl)
                \/ Tick
                \/ UNCHANGED vars
         PROVE  client' \in [Clients -> Calls]
    BY <1>0, <1>11 DEF DirectAppend, RestoreVersion, IssueToken, Tick, vars
  <1> QED
    BY <1>1, <1>2, <1>6, <1>7, <1>8, <1>9, <1>10, <1>11 DEF Next

LEMMA TypeStep ==
    ASSUME IInv, [Next]_vars
    PROVE  TypeOK'
  <1> USE DEF IInv
  <1>1. /\ world' \in [version : Int, state : States]
        /\ events' \in Seq(EventRows)
        /\ snapshots' \in Seq([state : States, event_hash : Nat])
        /\ outbox' \subseteq [event_id : EventIds \cup {Created}, event_hash : Nat]
    <2>1. CASE UNCHANGED store
      BY <2>1 DEF TypeOK, store
    <2>2. ASSUME NEW r, Commits(r)
          PROVE  /\ world' \in [version : Int, state : States]
                 /\ events' \in Seq(EventRows)
                 /\ snapshots' \in Seq([state : States, event_hash : Nat])
                 /\ outbox' \subseteq [event_id : EventIds \cup {Created}, event_hash : Nat]
      BY <2>2, InsertTypes DEF Commits
    <2> QED BY <2>1, <2>2, StepsOfTheStore
  <1>2. consumed' \in [Tokens -> {NotConsumed} \cup
                          [event_id : EventIds \cup {Created}, event_hash : Nat]]
    <2>1. ASSUME NEW c \in Clients, InsertConsumed(c)
          PROVE  consumed' \in [Tokens -> {NotConsumed} \cup
                                  [event_id : EventIds \cup {Created}, event_hash : Nat]]
      <3>1. client[c] \in ActiveCalls /\ client[c].req \in Requests
        BY <2>1, ActiveCall DEF InsertConsumed
      <3>2. Purchase(c) \in [event_id : EventIds \cup {Created}, event_hash : Nat]
        BY <3>1 DEF Purchase, ActiveCalls, Requests
      <3> QED BY <2>1, <3>2 DEF InsertConsumed, TypeOK
    <2> QED BY <2>1, StepsOfTheLedger DEF TypeOK
  <1>3. /\ issued' \in [Tokens -> {NotIssued} \cup [grant : Grants, expires_at : Nat]]
        /\ now' \in Nat
        /\ crashes' \in Nat
    <2> USE DEF TypeOK
    <2>1. ASSUME NEW t \in Tokens, NEW grant \in Grants, NEW ttl \in 1 .. MaxTTL,
                 IssueToken(t, grant, ttl)
          PROVE  /\ issued' \in [Tokens -> {NotIssued} \cup [grant : Grants, expires_at : Nat]]
                 /\ now' \in Nat /\ crashes' \in Nat
      <3>1. [grant |-> grant, expires_at |-> now + ttl] \in [grant : Grants, expires_at : Nat]
        BY BoundsAssumption
      <3> QED BY <2>1, <3>1 DEF IssueToken
    <2>2. ASSUME NEW c \in Clients,
                 (\E r \in Requests : Call(c, r))
                   \/ ReadExisting(c) \/ Verify(c) \/ CommitNew(c) \/ CommitDuplicate(c)
                   \/ CommitRefused(c) \/ Consume(c) \/ InsertConsumed(c) \/ Crash(c)
          PROVE  issued' = issued /\ now' = now /\ crashes' \in Nat
      BY <2>2 DEF Call, ReadExisting, Verify, CommitNew, CommitDuplicate, CommitRefused,
                  Consume, InsertConsumed, Crash
    <2>3. ASSUME NEW r, DirectAppend(r)
          PROVE  issued' = issued /\ now' = now /\ crashes' = crashes
      BY <2>3 DEF DirectAppend
    <2>4. CASE Tick \/ UNCHANGED vars
      BY <2>4 DEF Tick, vars
    <2> QED BY <2>1, <2>2, <2>3, <2>4 DEF Next, RestoreVersion
  <1> QED
    BY <1>1, <1>2, <1>3, CallTypesStep DEF TypeOK

-----------------------------------------------------------------------------
(* The theorems. *)

LEMMA InitInv == Init => IInv
  <1> SUFFICES ASSUME Init PROVE IInv
    OBVIOUS
  <1> USE DEF Init
  <1>1. TypeOK
    <2>1. NoCall \in Calls
      BY DEF Calls
    <2> QED BY <2>1 DEF TypeOK, States
  <1>2. VerifyWorld
    BY DEF VerifyWorld, StateBefore
  <1>3. \A c \in Clients : client[c].pc = "IDLE"
    BY DEF NoCall
  <1>4. Ties
    BY <1>3 DEF Ties, UniqueIdentities, EventsGranted, CallsGranted, CallsCommitted, CallsPaid,
       LedgerMatches, OutboxMatches, Idle
  <1> QED
    BY <1>1, <1>2, <1>4 DEF IInv

LEMMA NextInv == IInv /\ [Next]_vars => IInv'
  <1> SUFFICES ASSUME IInv, [Next]_vars PROVE IInv'
    OBVIOUS
  <1>1. Ties'
    BY UniqueIdentitiesStep, EventsGrantedStep, CallsGrantedStep, CallsCommittedStep,
       CallsPaidStep, LedgerMatchesStep, OutboxMatchesStep DEF Ties
  <1> QED
    BY <1>1, TypeStep, VerifyStep DEF IInv

\* The inductive invariant holds in every reachable state.
THEOREM Invariance == Spec => []IInv
  BY InitInv, NextInv, PTL DEF Spec

\* Every table, ledger and call keeps its type (world/store.py, kernel/tokens.py).
THEOREM TypeCorrect == Spec => []TypeOK
  BY Invariance, PTL DEF IInv

\* verify_world passes at every moment, whatever callers and crashes do.
THEOREM WorldVerifies == Spec => []VerifyWorld
  BY Invariance, PTL DEF IInv

\* A token authorizes exactly one event, its own: two events never carry the
\* same token, and the ledger records it as spent on that event only.
LEMMA TiesGiveTokens == IInv => TokenSpentOnItsEvent
  <1> SUFFICES ASSUME IInv PROVE TokenSpentOnItsEvent
    OBVIOUS
  <1>1. \A i \in DOMAIN events :
          events[i].request.auth # Direct =>
            issued[events[i].request.auth].grant = Bound(events[i].request)
    BY DEF IInv, Ties, EventsGranted
  <1>2. ASSUME NEW i \in DOMAIN events, NEW j \in DOMAIN events,
               events[i].request.auth = events[j].request.auth,
               events[i].request.auth # Direct
        PROVE  i = j
    <2>1. Bound(events[i].request) = Bound(events[j].request)
      BY <1>1, <1>2
    <2>2. events[i].request.event_id = events[j].request.event_id
      BY <2>1 DEF Bound
    <2> QED BY <2>2 DEF IInv, Ties, UniqueIdentities
  <1>3. \A t \in Tokens : consumed[t] # NotConsumed =>
          \E i \in DOMAIN events :
            events[i].request.auth = t /\ consumed[t] = Message(i)
    BY DEF IInv, Ties, LedgerMatches
  <1> QED
    BY <1>1, <1>2, <1>3 DEF TokenSpentOnItsEvent

THEOREM ExactTokens == Spec => []TokenSpentOnItsEvent
  BY Invariance, TiesGiveTokens, PTL

\* An answer is durable: the caller's event is in the log with its one outbox
\* message, and its token is spent on it.
LEMMA TiesGiveAnswers == IInv => AnswerIsDurable
  <1> SUFFICES ASSUME IInv, NEW c \in Clients, client[c].pc = "RETURNED"
               PROVE  \E i \in DOMAIN events :
                        /\ events[i].request = client[c].req
                        /\ client[c].answer.event_hash = events[i].event_hash
                        /\ consumed[client[c].req.auth] = Purchase(c)
                        /\ \A m \in outbox :
                             m.event_id = client[c].req.event_id => m = Message(i)
                        /\ Message(i) \in outbox
    BY DEF AnswerIsDurable
  <1>1. PICK i \in DOMAIN events :
          events[i].request = client[c].req /\ client[c].answer.event_hash = events[i].event_hash
    BY DEF IInv, Ties, CallsCommitted
  <1>2. consumed[client[c].req.auth] = Purchase(c)
    BY DEF IInv, Ties, CallsPaid
  <1>3. ASSUME NEW m \in outbox, m.event_id = client[c].req.event_id
        PROVE  m = Message(i)
    <2>1. PICK j \in DOMAIN events : m = Message(j)
      BY DEF IInv, Ties, OutboxMatches
    <2>2. events[j].request.event_id = events[i].request.event_id
      BY <1>1, <1>3, <2>1 DEF Message
    <2> QED BY <2>1, <2>2 DEF IInv, Ties, UniqueIdentities
  <1>4. Message(i) \in outbox
    BY DEF IInv, Ties, OutboxMatches
  <1> QED
    BY <1>1, <1>2, <1>3, <1>4

THEOREM DurableAnswers == Spec => []AnswerIsDurable
  BY Invariance, TiesGiveAnswers, PTL

\* A spent token commits nothing more, whatever calls were verified before it
\* was spent.
LEMMA SpentStep ==
    ASSUME IInv, IInv', [Next]_vars, NEW t \in Tokens, consumed[t] # NotConsumed
    PROVE  /\ consumed'[t] = consumed[t]
           /\ \A i \in DOMAIN events' \ DOMAIN events : events'[i].request.auth # t
  <1>1. consumed'[t] = consumed[t]
    BY LedgersMonotone DEF IInv
  <1>2. PICK j \in DOMAIN events : events[j].request.auth = t
    BY DEF IInv, Ties, LedgerMatches
  <1>3. j \in DOMAIN events' /\ events'[j].request.auth = t
    BY <1>2, EventsStay
  <1>4. TokenSpentOnItsEvent'
    BY TiesGiveTokens, PTL
  <1>5. ASSUME NEW i \in DOMAIN events' \ DOMAIN events, events'[i].request.auth = t
        PROVE  FALSE
    <2>1. t # Direct
      BY NamesAssumption
    <2>2. i = j
      BY <1>3, <1>4, <1>5, <2>1 DEF TokenSpentOnItsEvent
    <2> QED BY <1>2, <2>2
  <1> QED
    BY <1>1, <1>5

THEOREM SpentTokens == Spec => SpentTokenCommitsNothing
  <1>1. IInv /\ IInv' /\ [Next]_vars =>
          [\A t \in Tokens :
              consumed[t] # NotConsumed =>
                  /\ consumed'[t] = consumed[t]
                  /\ \A i \in DOMAIN events' \ DOMAIN events :
                       events'[i].request.auth # t]_vars
    BY SpentStep
  <1> QED
    BY <1>1, Invariance, PTL DEF Spec, SpentTokenCommitsNothing
-----------------------------------------------------------------------------
(* Refinement. *)

Granted == {[token |-> t, grant |-> issued[t].grant] :
                t \in {u \in Tokens : issued[u] # NotIssued}}

\* The log as it is seen from outside.
LogIsEvents ==
    /\ Len(Log) = Len(events)
    /\ DOMAIN Log = DOMAIN events
    /\ \A i \in DOMAIN events : Log[i].request = events[i].request
    /\ (Log = <<>>) <=> (Len(events) = 0)

LEMMA LogFacts == TypeOK => LogIsEvents
  <1> SUFFICES ASSUME TypeOK PROVE LogIsEvents
    OBVIOUS
  <1>1. events \in Seq(EventRows) /\ Len(events) \in Nat /\ DOMAIN events = 1 .. Len(events)
    BY DEF TypeOK
  <1>2. DOMAIN Log = 1 .. Len(events)
    BY <1>1 DEF Log
  <1>3. Log \in Seq([request : {events[i].request : i \in DOMAIN events},
                     state : {events[i].resulting_state : i \in DOMAIN events}])
    BY <1>1, SeqDef DEF Log
  <1>4. Len(Log) = Len(events)
    BY <1>1, <1>2, <1>3, LenProperties
  <1> QED
    BY <1>1, <1>2, <1>3, <1>4, EmptySeq DEF Log, LogIsEvents

\* A step of the store is a Commit of the abstract log.
LEMMA CommitRefines ==
    ASSUME IInv, IInv', NEW r, Commits(r)
    PROVE  Abstract!Commit
  <1>1. /\ Len(events') = Len(events) + 1
        /\ DOMAIN events' = DOMAIN events \cup {Len(events) + 1}
        /\ \A i \in DOMAIN events : events'[i] = events[i]
        /\ events'[Len(events) + 1].request = r
        /\ r.expected = Len(events) - 1
        /\ (r.event_id = Created) <=> (Len(events) = 0)
    BY InsertFacts DEF Commits, IInv
  <1>2. LogIsEvents
    BY LogFacts DEF IInv
  <1>3. LogIsEvents'
    <2>1. TypeOK'
      BY DEF IInv
    <2> QED BY <2>1, LogFacts, PTL
  <1>4. \A i \in DOMAIN events : Log'[i] = Log[i]
    BY <1>1 DEF Log
  <1>5. Log'[Len(Log')].request = r /\ Len(Log') = Len(Log) + 1
    BY <1>1, <1>2, <1>3 DEF LogIsEvents
  <1>6. r.event_id \notin {Log[i].request.event_id : i \in DOMAIN Log}
    BY <1>2 DEF Commits, Insertable, Rows, LogIsEvents
  <1>7. r.auth # Direct => [token |-> r.auth, grant |-> Bound(r)] \in Granted
    <2>1. r.auth \in Tokens \cup {Direct}
      BY DEF Commits, WellFormed, StoredRequests
    <2> QED
      BY <2>1 DEF Commits, Granted
  <1>8. UNCHANGED Granted
    BY DEF Commits, Granted
  <1> QED
    BY <1>1, <1>2, <1>4, <1>5, <1>6, <1>7, <1>8
       DEF Abstract!Commit, Abstract!Identities, Abstract!BoundFields, Bound, Granted, LogIsEvents

\* Issuing a token is a Grant.
LEMMA GrantRefines ==
    ASSUME TypeOK, NEW t \in Tokens, NEW grant \in Grants, NEW ttl \in 1 .. MaxTTL,
           IssueToken(t, grant, ttl)
    PROVE  Abstract!Grant
  <1> DEFINE g == [token |-> t, grant |-> grant]
  <1>1. \A u \in Tokens : u # t => issued'[u] = issued[u]
    BY DEF IssueToken, TypeOK
  <1>2. issued[t] = NotIssued /\ issued'[t] = [grant |-> grant, expires_at |-> now + ttl]
    BY DEF IssueToken, TypeOK
  <1>3. now + ttl # -1
    BY BoundsAssumption DEF TypeOK
  <1>4. issued'[t] # NotIssued /\ issued'[t].grant = grant
    BY <1>2, <1>3 DEF NotIssued
  <1>5. Granted' = Granted \cup {g}
    BY <1>1, <1>2, <1>4 DEF Granted
  <1>6. \A h \in Granted : h.token # t
    BY <1>2 DEF Granted
  <1>7. UNCHANGED Log
    BY DEF IssueToken, store, Log
  <1> QED
    BY <1>5, <1>6, <1>7 DEF Abstract!Grant, Granted

\* Issued tokens change only by IssueToken.
LEMMA StepsOfIssuing ==
    ASSUME [Next]_vars
    PROVE  \/ UNCHANGED issued
           \/ \E t \in Tokens, grant \in Grants, ttl \in 1 .. MaxTTL : IssueToken(t, grant, ttl)
  <1>1. ASSUME NEW r, DirectAppend(r) PROVE UNCHANGED issued
    BY <1>1 DEF DirectAppend
  <1>2. ASSUME NEW c \in Clients,
               (\E r \in Requests : Call(c, r))
                 \/ ReadExisting(c) \/ Verify(c) \/ CommitNew(c) \/ CommitDuplicate(c)
                 \/ CommitRefused(c) \/ Consume(c) \/ InsertConsumed(c) \/ Crash(c)
        PROVE  UNCHANGED issued
    BY <1>2 DEF Call, ReadExisting, Verify, CommitNew, CommitDuplicate, CommitRefused,
                Consume, InsertConsumed, Crash
  <1>3. CASE Tick \/ UNCHANGED vars
    BY <1>3 DEF Tick, vars
  <1> QED
    BY <1>1, <1>2, <1>3 DEF Next, RestoreVersion

\* The two databases, with callers, clock and crashes in between, implement one
\* log that grows by authorized events only.
THEOREM Refinement == Spec => ImplementsAuthorizedLog
  <1>1. Init => Abstract!Init
    <2> SUFFICES ASSUME Init PROVE Abstract!Init
      OBVIOUS
    <2>1. TypeOK
      BY InitInv DEF IInv
    <2>2. Log = <<>>
      BY <2>1, LogFacts DEF Init, LogIsEvents
    <2>3. Granted = {}
      BY DEF Init, Granted
    <2> QED BY <2>2, <2>3 DEF Abstract!Init, Granted
  <1>2. IInv /\ IInv' /\ [Next]_vars => [Abstract!Next]_<<Log, Granted>>
    <2> SUFFICES ASSUME IInv, IInv', [Next]_vars
                 PROVE  Abstract!Next \/ UNCHANGED <<Log, Granted>>
      OBVIOUS
    <2>1. ASSUME NEW r, Commits(r) PROVE Abstract!Next
      BY <2>1, CommitRefines DEF Abstract!Next
    <2>2. ASSUME NEW t \in Tokens, NEW grant \in Grants, NEW ttl \in 1 .. MaxTTL,
                 IssueToken(t, grant, ttl)
          PROVE  Abstract!Next
      BY <2>2, GrantRefines DEF Abstract!Next, IInv
    <2>3. CASE UNCHANGED store /\ UNCHANGED issued
      BY <2>3 DEF store, Log, Granted
    <2> QED
      BY <2>1, <2>2, <2>3, StepsOfTheStore, StepsOfIssuing
  <1> QED
    BY <1>1, <1>2, Invariance, PTL
       DEF Spec, ImplementsAuthorizedLog, Abstract!Spec, Granted

-----------------------------------------------------------------------------
(* What an answer shows, and what a token left unspent tells. *)

\* The answer to an append, kept by its event rather than by its version.
Answered ==
    \A c \in Clients :
        client[c].pc \in {"SPEND", "INSERT", "RETURNED"} /\ client[c].req.event_id # Created
            => \E i \in DOMAIN events :
                 /\ events[i].request = client[c].req
                 /\ client[c].answer = [version |-> i - 1, state |-> events[i].resulting_state,
                                        event_hash |-> i]

\* The snapshot that an event produced.
LEMMA SnapshotOfEvent ==
    ASSUME IInv, NEW i \in DOMAIN events
    PROVE  /\ i \in Int
           /\ events[i].request.expected + 1 = i - 1
           /\ StateAt(i - 1) = [version |-> i - 1, state |-> events[i].resulting_state,
                                event_hash |-> i]
  <1>1. i \in 1 .. Len(events) /\ EventVerifies(i)
    BY DEF IInv, TypeOK, VerifyWorld
  <1>2. snapshots[i] = [state |-> events[i].resulting_state, event_hash |-> i]
    BY <1>1 DEF EventVerifies
  <1>3. (i - 1) + 1 = i
    BY <1>1
  <1> QED BY <1>1, <1>2, <1>3 DEF StateAt, EventVerifies

\* Only the store's transaction moves a call from COMMIT to SPEND.
LEMMA CommitSteps ==
    ASSUME IInv, [Next]_vars, NEW c \in Clients,
           client[c].pc = "COMMIT", client'[c].pc = "SPEND"
    PROVE  CommitNew(c) \/ CommitDuplicate(c)
  <1>1. ASSUME NEW d \in Clients, d # c,
               (\E r \in Requests : Call(d, r))
                 \/ ReadExisting(d) \/ Verify(d) \/ CommitNew(d) \/ CommitDuplicate(d)
                 \/ CommitRefused(d) \/ Consume(d) \/ InsertConsumed(d) \/ Crash(d)
        PROVE  FALSE
    BY <1>1, OtherCalls
  <1>2. client' # client
    OBVIOUS
  <1>3. ~(\E r \in Requests : Call(c, r))
    BY DEF Call, Idle
  <1>4. ~(ReadExisting(c) \/ Verify(c) \/ Consume(c) \/ InsertConsumed(c))
    BY DEF ReadExisting, Verify, Consume, InsertConsumed
  <1>5. ~(CommitRefused(c) \/ Crash(c))
    BY DEF CommitRefused, Crash, Raise, Raised, NoCall, IInv, TypeOK
  <1>6. ASSUME \/ \E r \in Requests : DirectAppend(r)
               \/ \E id \in EventIds, e \in 0 .. MaxVersion - 1 :
                    \E target \in 0 .. world.version : RestoreVersion(id, target, e)
               \/ \E t \in Tokens, grant \in Grants, ttl \in 1 .. MaxTTL : IssueToken(t, grant, ttl)
               \/ Tick
               \/ UNCHANGED vars
         PROVE  client' = client
    BY <1>6 DEF DirectAppend, RestoreVersion, IssueToken, Tick, vars
  <1> QED BY <1>1, <1>2, <1>3, <1>4, <1>5, <1>6 DEF Next

LEMMA AnsweredStep ==
    ASSUME IInv, Answered, [Next]_vars
    PROVE  Answered'
  <1> SUFFICES ASSUME NEW c \in Clients, client'[c].pc \in {"SPEND", "INSERT", "RETURNED"},
                      client'[c].req.event_id # Created
               PROVE  \E i \in DOMAIN events' :
                        /\ events'[i].request = client'[c].req
                        /\ client'[c].answer =
                             [version |-> i - 1, state |-> events'[i].resulting_state,
                              event_hash |-> i]
    BY DEF Answered
  <1>1. Continues(c)
    <2>1. Starts(c) => client'[c].pc = "READ"
      BY DEF Starts
    <2>2. Ends(c) => client'[c].pc \in {"IDLE", "RAISED"}
      BY DEF Ends, NoCall, Raised
    <2> QED BY <2>1, <2>2, CallSteps
  <1>2. CASE client[c].pc \in {"SPEND", "INSERT", "RETURNED"}
    <2>1. client'[c].req = client[c].req /\ client'[c].answer = client[c].answer
      BY <1>1, <1>2 DEF Continues
    <2>2. PICK i \in DOMAIN events :
            /\ events[i].request = client[c].req
            /\ client[c].answer = [version |-> i - 1, state |-> events[i].resulting_state,
                                   event_hash |-> i]
      BY <1>2, <2>1 DEF Answered
    <2> QED BY <2>1, <2>2, EventsStay
  <1>3. CASE client[c].pc \notin {"SPEND", "INSERT", "RETURNED"}
    <2>1. client[c].pc = "COMMIT" /\ client'[c].pc = "SPEND" /\ client'[c].req = client[c].req
      BY <1>1, <1>3 DEF Continues
    <2>2. client[c] \in ActiveCalls /\ client[c].req \in Requests /\ client \in [Clients -> Calls]
      BY <2>1, ActiveCall DEF IInv, TypeOK
    <2>3. CASE CommitNew(c)
      <3> DEFINE i == Len(events) + 1
      <3>1. /\ i \in DOMAIN events' /\ events'[i].request = client[c].req
            /\ Len(events') = i /\ Len(events) \in Int
        BY <2>2, <2>3, InsertFacts, RequestsWellFormed DEF CommitNew, IInv, TypeOK
      <3>2. world.version + 1 = i - 1 /\ events \in Seq(EventRows)
        BY DEF IInv, VerifyWorld, TypeOK
      <3>3. world'.version = i - 1 /\ world'.state = events'[i].resulting_state
        BY <2>3, <3>2 DEF CommitNew, Insert
      <3>4. client'[c].answer = [version |-> world'.version, state |-> world'.state,
                                 event_hash |-> Len(events')]
        BY <2>2, <2>3 DEF CommitNew, ActiveCalls
      <3> HIDE DEF i
      <3> QED BY <2>1, <3>1, <3>3, <3>4
    <2>4. CASE CommitDuplicate(c)
      <3>1. PICK i \in Rows(client[c].req.event_id) :
              IF events[i].request = client[c].req
                THEN client' = [client EXCEPT ![c].pc = "SPEND",
                                    ![c].answer = Recall(client[c].req, i)]
                ELSE Raise(c)
        BY <2>4 DEF CommitDuplicate
      <3>2. i \in DOMAIN events /\ events' = events
        BY <2>4 DEF Rows, CommitDuplicate, store
      <3>3. events[i].request = client[c].req
        BY <2>1, <2>2, <3>1 DEF Raise, Raised
      <3>4. client'[c].answer = Recall(client[c].req, i)
        BY <2>2, <3>1, <3>3 DEF ActiveCalls
      <3>5. Recall(client[c].req, i) = StateAt(i - 1)
        <4>1. events[i].resulting_version = i - 1
          BY <3>2 DEF IInv, VerifyWorld, EventVerifies
        <4> QED BY <2>1, <4>1 DEF Recall
      <3> QED BY <2>1, <3>2, <3>3, <3>4, <3>5, SnapshotOfEvent
    <2> QED BY <2>1, <2>3, <2>4, CommitSteps
  <1> QED BY <1>2, <1>3

\* The answer to an append, first or repeated, is the snapshot of the event, not
\* that of a later version.  (append_event)
THEOREM Answers == Spec => []AnswerIsTheEvent
  <1>1. Init => Answered
    BY DEF Init, Answered, NoCall
  <1>2. IInv /\ Answered /\ [Next]_vars => Answered'
    BY AnsweredStep
  <1>3. IInv /\ Answered => AnswerIsTheEvent
    <2> SUFFICES ASSUME IInv, Answered, NEW c \in Clients,
                        client[c].pc \in {"SPEND", "INSERT", "RETURNED"},
                        client[c].req.event_id # Created
                 PROVE  client[c].answer = StateAt(client[c].req.expected + 1)
      BY DEF AnswerIsTheEvent
    <2>1. PICK i \in DOMAIN events :
            /\ events[i].request = client[c].req
            /\ client[c].answer = [version |-> i - 1, state |-> events[i].resulting_state,
                                   event_hash |-> i]
      BY DEF Answered
    <2>2. events[i].request.expected + 1 = i - 1
      BY SnapshotOfEvent
    <2>3. client[c].answer = StateAt(i - 1)
      BY <2>1, SnapshotOfEvent
    <2> QED BY <2>1, <2>2, <2>3
  <1> QED BY <1>1, <1>2, <1>3, Invariance, PTL DEF Spec

\* A call on its way to the ledger stays on it while its token is unspent and
\* nothing crashes.
LEMMA PayingStep ==
    ASSUME IInv, [Next]_vars, NEW c \in Clients, client[c].pc \in {"SPEND", "INSERT"},
           consumed'[client[c].req.auth] = NotConsumed, crashes' = 0
    PROVE  client'[c].pc \in {"SPEND", "INSERT"} /\ client'[c].req = client[c].req
  <1>1. /\ client[c] \in ActiveCalls /\ client[c].req.auth \in Tokens
        /\ client \in [Clients -> Calls]
    BY ActiveCall DEF IInv, TypeOK
  <1>2. consumed[client[c].req.auth] = NotConsumed
    BY <1>1, LedgersMonotone DEF IInv
  <1>3. Purchase(c) # NotConsumed
    <2>1. PICK i \in DOMAIN events : client[c].answer.event_hash = events[i].event_hash
      BY DEF IInv, Ties, CallsCommitted
    <2>2. i \in 1 .. Len(events) /\ EventVerifies(i)
      BY DEF IInv, TypeOK, VerifyWorld
    <2>3. events[i].event_hash = i
      BY <2>2 DEF EventVerifies
    <2> QED BY <2>1, <2>2, <2>3 DEF Purchase, NotConsumed
  <1>4. CASE Consume(c)
    <2>1. Goto(c, "INSERT")
      BY <1>2, <1>3, <1>4 DEF Consume
    <2> QED BY <1>1, <2>1 DEF Goto, ActiveCalls
  <1>5. ~InsertConsumed(c)
    <2> SUFFICES ASSUME InsertConsumed(c) PROVE FALSE
      OBVIOUS
    <2>1. consumed' = [consumed EXCEPT ![client[c].req.auth] = Purchase(c)]
      BY <1>2 DEF InsertConsumed
    <2>2. consumed'[client[c].req.auth] = Purchase(c)
      BY <1>1, <2>1 DEF IInv, TypeOK
    <2> QED BY <1>3, <2>2
  <1>6. ~Crash(c) /\ ~(\E r \in Requests : Call(c, r))
    BY DEF Crash, Call, Idle, IInv, TypeOK
  <1>7. ~(ReadExisting(c) \/ Verify(c) \/ CommitNew(c) \/ CommitDuplicate(c) \/ CommitRefused(c))
    BY DEF ReadExisting, Verify, CommitNew, CommitDuplicate, CommitRefused
  <1>8. ASSUME NEW d \in Clients, d # c,
               (\E r \in Requests : Call(d, r))
                 \/ ReadExisting(d) \/ Verify(d) \/ CommitNew(d) \/ CommitDuplicate(d)
                 \/ CommitRefused(d) \/ Consume(d) \/ InsertConsumed(d) \/ Crash(d)
        PROVE  client'[c] = client[c]
    BY <1>8, OtherCalls
  <1>9. ASSUME \/ \E r \in Requests : DirectAppend(r)
               \/ \E id \in EventIds, e \in 0 .. MaxVersion - 1 :
                    \E target \in 0 .. world.version : RestoreVersion(id, target, e)
               \/ \E t \in Tokens, grant \in Grants, ttl \in 1 .. MaxTTL : IssueToken(t, grant, ttl)
               \/ Tick
               \/ UNCHANGED vars
        PROVE  client' = client
    BY <1>9 DEF DirectAppend, RestoreVersion, IssueToken, Tick, vars
  <1> QED BY <1>4, <1>5, <1>6, <1>7, <1>8, <1>9 DEF Next

\* Only CommitNew appends an event that carries a token.
LEMMA AuthorizedRowsAreCommitted ==
    ASSUME IInv, [Next]_vars, NEW i \in DOMAIN events', i \notin DOMAIN events,
           events'[i].request.auth # Direct
    PROVE  \E c \in Clients : CommitNew(c) /\ events'[i].request = client[c].req
  <1>1. ASSUME NEW r, WellFormed(r), Insertable(r), Insert(r)
        PROVE  events'[i].request = r
    <2>1. /\ DOMAIN events' = DOMAIN events \cup {Len(events) + 1}
          /\ events'[Len(events) + 1].request = r
      BY <1>1, InsertFacts DEF IInv
    <2> QED BY <2>1
  <1>2. ASSUME NEW r \in Requests, DirectAppend(r) PROVE FALSE
    BY <1>1, <1>2, RequestsWellFormed DEF DirectAppend
  <1>3. ASSUME NEW id \in EventIds, NEW e \in 0 .. MaxVersion - 1,
               NEW target \in 0 .. world.version, RestoreVersion(id, target, e)
        PROVE  FALSE
    <2> DEFINE r == RestoreRequest(id, target, e)
    <2>1. WellFormed(r) /\ r.auth = Direct /\ Insertable(r) /\ Insert(r)
      BY <1>3, RestoreWellFormed DEF IInv, RestoreVersion, DirectAppend
    <2> QED BY <1>1, <2>1
  <1>4. ASSUME NEW c \in Clients, CommitNew(c)
        PROVE  events'[i].request = client[c].req
    <2>1. client[c].req \in Requests
      BY <1>4, ActiveCall DEF CommitNew, IInv
    <2> QED BY <1>1, <1>4, <2>1, RequestsWellFormed DEF CommitNew
  <1>5. ASSUME NEW c \in Clients,
               (\E r \in Requests : Call(c, r))
                 \/ ReadExisting(c) \/ Verify(c) \/ CommitDuplicate(c)
                 \/ CommitRefused(c) \/ Consume(c) \/ InsertConsumed(c) \/ Crash(c)
        PROVE  events' = events
    BY <1>5 DEF Call, ReadExisting, Verify, CommitDuplicate, CommitRefused, Consume,
                InsertConsumed, Crash, store
  <1>6. ASSUME \/ \E t \in Tokens, grant \in Grants, ttl \in 1 .. MaxTTL : IssueToken(t, grant, ttl)
               \/ Tick
               \/ UNCHANGED vars
        PROVE  events' = events
    BY <1>6 DEF IssueToken, Tick, vars, store
  <1> QED BY <1>2, <1>3, <1>4, <1>5, <1>6 DEF Next

LEMMA UnspentStep ==
    ASSUME IInv, UnspentOnlyInFlight, [Next]_vars
    PROVE  UnspentOnlyInFlight'
  <1> SUFFICES ASSUME crashes' = 0, NEW i \in DOMAIN events',
                      events'[i].request.auth # Direct,
                      consumed'[events'[i].request.auth] = NotConsumed
               PROVE  \E c \in Clients :
                        /\ client'[c].pc \in {"SPEND", "INSERT"}
                        /\ client'[c].req.auth = events'[i].request.auth
    BY DEF UnspentOnlyInFlight
  <1>1. CASE i \in DOMAIN events
    <2> DEFINE t == events[i].request.auth
    <2>1. events'[i] = events[i]
      BY <1>1, EventsStay
    <2>2. t \in Tokens
      <3>1. events[i] \in EventRows
        BY <1>1, ElementOfSeq DEF IInv, TypeOK
      <3> QED BY <2>1, <3>1 DEF EventRows, StoredRequests
    <2>3. consumed[t] = NotConsumed
      BY <2>1, <2>2, LedgersMonotone DEF IInv
    <2>4. crashes = 0
      <3>1. crashes \in Nat
        BY DEF IInv, TypeOK
      <3>2. crashes' = crashes \/ crashes' = crashes + 1
        BY DEF Next, DirectAppend, RestoreVersion, IssueToken, Call, ReadExisting, Verify,
               CommitNew, CommitDuplicate, CommitRefused, Consume, InsertConsumed, Crash, Tick,
               vars
      <3> QED BY <3>1, <3>2
    <2>5. PICK c \in Clients : client[c].pc \in {"SPEND", "INSERT"} /\ client[c].req.auth = t
      BY <1>1, <2>1, <2>3, <2>4 DEF UnspentOnlyInFlight
    <2> QED BY <2>1, <2>5, PayingStep
  <1>2. CASE i \notin DOMAIN events
    <2>1. PICK c \in Clients : CommitNew(c) /\ events'[i].request = client[c].req
      BY <1>2, AuthorizedRowsAreCommitted
    <2>2. client[c] \in ActiveCalls /\ client \in [Clients -> Calls]
      BY <2>1, ActiveCall DEF CommitNew, IInv, TypeOK
    <2>3. client'[c].pc = "SPEND" /\ client'[c].req = client[c].req
      BY <2>1, <2>2 DEF CommitNew, ActiveCalls
    <2> QED BY <2>1, <2>3
  <1> QED BY <1>1, <1>2

\* Only a crash, or a call still under way, leaves an event in the log with its
\* token unspent.  (KernelAuthorizedWorld commits first and spends afterwards)
THEOREM Unspent == Spec => []UnspentOnlyInFlight
  <1>1. Init => UnspentOnlyInFlight
    BY DEF Init, UnspentOnlyInFlight
  <1>2. IInv /\ UnspentOnlyInFlight /\ [Next]_vars => UnspentOnlyInFlight'
    BY UnspentStep
  <1> QED BY <1>1, <1>2, Invariance, PTL DEF Spec
=============================================================================
