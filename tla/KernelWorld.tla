----------------------------- MODULE KernelWorld -----------------------------
(***************************************************************************)
(* The secure commit path of src/src/edon: the event-sourced world store   *)
(* (world/store.py), the Kernel token ledger (kernel/tokens.py) and the    *)
(* wrapper that joins them (kernel/commit.py).                             *)
(*                                                                         *)
(* The two stores are separate SQLite files.  Each transaction is one      *)
(* action; a call of KernelAuthorizedWorld is the sequence of transactions *)
(* it makes, with other callers, the unwrapped API endpoints, the clock    *)
(* and crashes in between.  One (tenant, world) pair is modelled: every    *)
(* statement of the store is keyed by that pair.                           *)
(*                                                                         *)
(* Data.  A state has one numeric leaf, or none (Missing).  Event type,    *)
(* actor and mutations are compared together, as one value "body".  A      *)
(* SHA-256 over a request is the request; the hash of the n-th row of      *)
(* world_events is n, since hashes are unique and rows are never changed.  *)
(***************************************************************************)
EXTENDS Integers, Sequences, FiniteSets

CONSTANTS
    Clients,      \* callers of KernelAuthorizedWorld, each its own process
    Tokens,       \* execution token ids
    EventIds,     \* event identities that callers use
    Created,      \* the identity "WORLD_CREATED"
    Bodies,       \* event type, actor and mutations of a request
    Lineages,     \* source_lineage values, which a token does not bind
    Direct,       \* an authorization_ref that is not a token
    Missing,      \* a state without the numeric leaf
    MaxTTL,       \* longest token lifetime
    MaxTime,      \* bound of the clock
    MaxVersion,   \* bound of the world's version: no request expects more than
                  \* MaxVersion - 1
    MaxCrashes    \* bound of the crashes of a caller

ASSUME NamesAssumption ==
    /\ Created \notin EventIds
    /\ Direct \notin Tokens
    /\ Missing \notin Nat
ASSUME BoundsAssumption ==
    /\ MaxTTL \in Nat \ {0}
    /\ MaxTime \in Nat
    /\ MaxVersion \in Nat
    /\ MaxCrashes \in Nat
ASSUME BodiesAssumption ==
    /\ Bodies \subseteq [op : {"REPLACE_ROOT", "INCREMENT", "DELETE"}, value : Nat \cup {Missing}]
    /\ \A b \in Bodies : b.op = "INCREMENT" => b.value \in Nat

VARIABLES
    world,       \* row of worlds: current_version (-1 before creation) and state
    events,      \* rows of world_events in sequence order
    snapshots,   \* rows of world_snapshots, version v at index v + 1
    outbox,      \* messages written to world_outbox
    issued,      \* issued_kernel_tokens: the claims of each token
    consumed,    \* consumed_kernel_tokens: what each token was spent on
    client,      \* the call each client has in progress, or its outcome
    now,         \* the clock
    crashes      \* crashes so far

vars == <<world, events, snapshots, outbox, issued, consumed, client, now, crashes>>
store == <<world, events, snapshots, outbox>>

-----------------------------------------------------------------------------
(* Requests, claims and rows. *)

States == Nat \cup {Missing}

\* What a caller may ask for: create_world fixes the identity, the expected
\* version -1 and a REPLACE_ROOT; append_event takes them from the caller.
Requests ==
    [event_id : EventIds, expected : 0 .. MaxVersion - 1, body : Bodies,
     auth : Tokens \cup {Direct}, lineage : Lineages]
    \cup
    [event_id : {Created}, expected : {-1},
     body : {b \in Bodies : b.op = "REPLACE_ROOT"},
     auth : Tokens \cup {Direct}, lineage : Lineages]

\* The fields of a request that a token binds (all but the lineage).
Bound(r) == [event_id |-> r.event_id, expected |-> r.expected, body |-> r.body]

Grants == {Bound(r) : r \in Requests}

NotIssued == [grant |-> Missing, expires_at |-> -1]
NotConsumed == [event_id |-> Missing, event_hash |-> 0]

\* normalize_mutations and apply_mutations: DELETE and INCREMENT raise when
\* the leaf is not there, and the transaction is rolled back.
Applicable(state, body) ==
    body.op \in {"DELETE", "INCREMENT"} => state # Missing

ApplyMutations(state, body) ==
    CASE body.op = "REPLACE_ROOT" -> body.value
      [] body.op = "INCREMENT"    -> state + body.value
      [] body.op = "DELETE"       -> Missing

-----------------------------------------------------------------------------
(* The transactions of the world store. *)

\* Positions of the rows that carry an event identity: UNIQUE (tenant_id,
\* world_id, event_id) and the duplicate check keep it at most one.
Rows(id) == {i \in DOMAIN events : events[i].request.event_id = id}

\* Mutant: no optimistic-concurrency check.
InsertableAtAnyVersion(r) ==
    /\ Rows(r.event_id) = {}
    /\ (r.event_id = Created) <=> (world.version = -1)
    /\ Applicable(world.state, r.body)

\* Mutant: no duplicate check and no unique key.
InsertableAgain(r) ==
    /\ IF r.event_id = Created
         THEN world.version = -1
         ELSE world.version >= 0 /\ world.version = r.expected
    /\ Applicable(world.state, r.body)

\* The conditions under which a request is inserted rather than answered
\* from the log or refused.
Insertable(r) ==
    /\ Rows(r.event_id) = {}
    /\ IF r.event_id = Created
         THEN world.version = -1
         ELSE world.version >= 0 /\ world.version = r.expected
    /\ Applicable(world.state, r.body)

\* One BEGIN IMMEDIATE transaction: event, snapshot, materialized state and
\* outbox message.
Insert(r) ==
    LET version  == world.version + 1
        state    == ApplyMutations(world.state, r.body)
        hash     == Len(events) + 1
        previous == IF events = <<>> THEN 0 ELSE events[Len(events)].event_hash
    IN  /\ events' = Append(events,
                [request |-> r, resulting_version |-> version,
                 resulting_state |-> state, previous_hash |-> previous,
                 event_hash |-> hash])
        /\ snapshots' = Append(snapshots, [state |-> state, event_hash |-> hash])
        /\ world' = [version |-> version, state |-> state]
        /\ outbox' = outbox \cup {[event_id |-> r.event_id, event_hash |-> hash]}

StateAt(version) ==
    [version |-> version, state |-> snapshots[version + 1].state,
     event_hash |-> snapshots[version + 1].event_hash]

\* What a repeated request is answered: append_event returns the snapshot the
\* event produced; create_world returns the world's current row together with
\* the hash of the creation event.
Recall(r, i) ==
    IF r.event_id = Created
      THEN [version |-> world.version, state |-> world.state,
            event_hash |-> events[i].event_hash]
      ELSE StateAt(events[i].resulting_version)

\* The API endpoints that take an arbitrary authorization_ref call the store
\* without a token; a duplicate or a refusal changes nothing.
DirectAppend(r) ==
    /\ r.auth = Direct
    /\ Insertable(r)
    /\ Insert(r)
    /\ UNCHANGED <<issued, consumed, client, now, crashes>>

\* restore_version: reads a snapshot (immutable) and appends a REPLACE_ROOT.
RestoreRequest(id, target, expected) ==
    [event_id |-> id, expected |-> expected,
     body |-> [op |-> "REPLACE_ROOT", value |-> snapshots[target + 1].state],
     auth |-> Direct, lineage |-> <<"snapshot", target>>]

RestoreVersion(id, target, expected) ==
    DirectAppend(RestoreRequest(id, target, expected))

-----------------------------------------------------------------------------
(* The Kernel token authority. *)

\* issue_world_event: any claims, a lifetime within the limit.
IssueToken(t, grant, ttl) ==
    /\ issued[t] = NotIssued
    /\ issued' = [issued EXCEPT ![t] = [grant |-> grant, expires_at |-> now + ttl]]
    /\ UNCHANGED <<store, consumed, client, now, crashes>>

\* Mutant: the claims are not compared with the request.
VerifiedAnyRequest(r, existing) ==
    LET t == r.auth
    IN  /\ now <= issued[t].expires_at
        /\ \/ consumed[t] = NotConsumed
           \/ /\ existing # 0
              /\ consumed[t] = [event_id |-> r.event_id, event_hash |-> existing]

\* verify_world_event: exact claims, not expired, and either unspent or spent
\* on the very event that the caller found in the log before (existing # 0).
Verified(r, existing) ==
    LET t == r.auth
    IN  /\ issued[t].grant = Bound(r)
        /\ now <= issued[t].expires_at
        /\ \/ consumed[t] = NotConsumed
           \/ /\ existing # 0
              /\ consumed[t] = [event_id |-> r.event_id, event_hash |-> existing]

-----------------------------------------------------------------------------
(* KernelAuthorizedWorld.create_world and append_event, call by call. *)

NoAnswer == [version |-> -1, state |-> Missing, event_hash |-> 0]
NoCall == [pc |-> "IDLE"]
Raised == [pc |-> "RAISED"]

Idle(c) == client[c].pc \in {"IDLE", "RAISED", "RETURNED"}

Goto(c, pc) == client' = [client EXCEPT ![c].pc = pc]
Raise(c) == client' = [client EXCEPT ![c] = Raised]

\* A request arrives with an issued token, whatever that token grants.
Call(c, r) ==
    /\ Idle(c)
    /\ r.auth # Direct
    /\ issued[r.auth] # NotIssued
    /\ client' = [client EXCEPT ![c] =
            [pc |-> "READ", req |-> r, existing |-> 0, answer |-> NoAnswer]]
    /\ UNCHANGED <<store, issued, consumed, now, crashes>>

\* Looks the event identity up in the log.
ReadExisting(c) ==
    /\ client[c].pc = "READ"
    /\ \E found \in 0 .. Len(events) :
        /\ IF Rows(client[c].req.event_id) = {}
             THEN found = 0
             ELSE \E i \in Rows(client[c].req.event_id) : found = events[i].event_hash
        /\ client' = [client EXCEPT ![c].pc = "VERIFY", ![c].existing = found]
    /\ UNCHANGED <<store, issued, consumed, now, crashes>>

\* Verifies the token against the ledger, in the ledger's own database.
Verify(c) ==
    /\ client[c].pc = "VERIFY"
    /\ IF Verified(client[c].req, client[c].existing)
         THEN Goto(c, "COMMIT")
         ELSE Raise(c)
    /\ UNCHANGED <<store, issued, consumed, now, crashes>>

\* The store's transaction, on a new event.
CommitNew(c) ==
    /\ client[c].pc = "COMMIT"
    /\ Insertable(client[c].req)
    /\ Insert(client[c].req)
    /\ client' = [client EXCEPT ![c].pc = "SPEND",
            ![c].answer = [version |-> world'.version, state |-> world'.state,
                           event_hash |-> Len(events')]]
    /\ UNCHANGED <<issued, consumed, now, crashes>>

\* Mutant: a repeated request is answered without spending its token.
CommitDuplicateUnpaid(c) ==
    /\ client[c].pc = "COMMIT"
    /\ \E i \in Rows(client[c].req.event_id) :
        IF events[i].request = client[c].req
          THEN client' = [client EXCEPT ![c].pc = "RETURNED",
                              ![c].answer = Recall(client[c].req, i)]
          ELSE Raise(c)
    /\ UNCHANGED <<store, issued, consumed, now, crashes>>

\* The store's transaction, on an event identity that is already taken: the
\* same request is answered from the log, a different one is refused.
CommitDuplicate(c) ==
    /\ client[c].pc = "COMMIT"
    /\ \E i \in Rows(client[c].req.event_id) :
        IF events[i].request = client[c].req
          THEN client' = [client EXCEPT ![c].pc = "SPEND",
                              ![c].answer = Recall(client[c].req, i)]
          ELSE Raise(c)
    /\ UNCHANGED <<store, issued, consumed, now, crashes>>

\* The store's transaction raises: no such world, a version conflict, or a
\* mutation that does not apply.
CommitRefused(c) ==
    /\ client[c].pc = "COMMIT"
    /\ Rows(client[c].req.event_id) = {}
    /\ ~Insertable(client[c].req)
    /\ Raise(c)
    /\ UNCHANGED <<store, issued, consumed, now, crashes>>

\* What consume records for the call of a client.
Purchase(c) == [event_id |-> client[c].req.event_id,
                event_hash |-> client[c].answer.event_hash]

\* Mutant: consume checks the expiry again.
ConsumeUnexpired(c) ==
    /\ client[c].pc = "SPEND"
    /\ CASE now > issued[client[c].req.auth].expires_at -> Raise(c)
         [] consumed[client[c].req.auth] = NotConsumed -> Goto(c, "INSERT")
         [] consumed[client[c].req.auth] = Purchase(c) -> Goto(c, "RETURNED")
         [] OTHER -> Raise(c)
    /\ UNCHANGED <<store, issued, consumed, now, crashes>>

\* consume, first statement: the token's row is looked up outside any
\* transaction.  A row for the same event ends the call well.
Consume(c) ==
    /\ client[c].pc = "SPEND"
    /\ CASE consumed[client[c].req.auth] = NotConsumed -> Goto(c, "INSERT")
         [] consumed[client[c].req.auth] = Purchase(c) -> Goto(c, "RETURNED")
         [] OTHER -> Raise(c)
    /\ UNCHANGED <<store, issued, consumed, now, crashes>>

\* consume, second statement: the INSERT, which the primary key refuses when
\* another caller has spent the token since.
InsertConsumed(c) ==
    /\ client[c].pc = "INSERT"
    /\ IF consumed[client[c].req.auth] = NotConsumed
         THEN /\ consumed' = [consumed EXCEPT ![client[c].req.auth] = Purchase(c)]
              /\ Goto(c, "RETURNED")
         ELSE /\ Raise(c)
              /\ UNCHANGED consumed
    /\ UNCHANGED <<store, issued, now, crashes>>

\* The process that serves the call dies; its caller may call again.
Crash(c) ==
    /\ ~Idle(c)
    /\ crashes < MaxCrashes
    /\ crashes' = crashes + 1
    /\ client' = [client EXCEPT ![c] = NoCall]
    /\ UNCHANGED <<store, issued, consumed, now>>

Tick ==
    /\ now < MaxTime
    /\ now' = now + 1
    /\ UNCHANGED <<store, issued, consumed, client, crashes>>

-----------------------------------------------------------------------------
Init ==
    /\ world = [version |-> -1, state |-> Missing]
    /\ events = <<>>
    /\ snapshots = <<>>
    /\ outbox = {}
    /\ issued = [t \in Tokens |-> NotIssued]
    /\ consumed = [t \in Tokens |-> NotConsumed]
    /\ client = [c \in Clients |-> NoCall]
    /\ now = 0
    /\ crashes = 0

Next ==
    \/ \E r \in Requests : DirectAppend(r)
    \/ \E id \in EventIds, expected \in 0 .. MaxVersion - 1 :
         \E target \in 0 .. world.version : RestoreVersion(id, target, expected)
    \/ \E t \in Tokens, grant \in Grants, ttl \in 1 .. MaxTTL : IssueToken(t, grant, ttl)
    \/ \E c \in Clients :
         \/ \E r \in Requests : Call(c, r)
         \/ ReadExisting(c)
         \/ Verify(c)
         \/ CommitNew(c)
         \/ CommitDuplicate(c)
         \/ CommitRefused(c)
         \/ Consume(c)
         \/ InsertConsumed(c)
         \/ Crash(c)
    \/ Tick

Spec == Init /\ [][Next]_vars

-----------------------------------------------------------------------------
(* Properties. *)

\* Types of the stored requests: restores add bodies and lineages of their own.
StoredRequests ==
    [event_id : EventIds \cup {Created}, expected : Int,
     body : {b \in [op : {"REPLACE_ROOT", "INCREMENT", "DELETE"}, value : States] :
                b.op = "INCREMENT" => b.value \in Nat},
     auth : Tokens \cup {Direct},
     lineage : Lineages \cup ({"snapshot"} \X Nat)]

EventRows ==
    [request : StoredRequests, resulting_version : Nat, resulting_state : States,
     previous_hash : Nat, event_hash : Nat]

ActiveCalls ==
    [pc : {"READ", "VERIFY", "COMMIT", "SPEND", "INSERT", "RETURNED"},
     req : {r \in Requests : r.auth # Direct}, existing : Nat,
     answer : [version : Int, state : States, event_hash : Nat]]

Calls == {NoCall, Raised} \cup ActiveCalls

\* Every table, ledger and call holds values of its kind.
TypeOK ==
    /\ world \in [version : Int, state : States]
    /\ events \in Seq(EventRows)
    /\ snapshots \in Seq([state : States, event_hash : Nat])
    /\ outbox \subseteq [event_id : EventIds \cup {Created}, event_hash : Nat]
    /\ issued \in [Tokens -> {NotIssued} \cup [grant : Grants, expires_at : Nat]]
    /\ consumed \in [Tokens -> {NotConsumed} \cup
                        [event_id : EventIds \cup {Created}, event_hash : Nat]]
    /\ client \in [Clients -> Calls]
    /\ now \in Nat
    /\ crashes \in Nat

\* verify_world passes at every moment, whatever calls are under way: creation
\* comes first, versions are contiguous, the hash chain links, every snapshot
\* is the replay of the events up to it and the current row is the last one.
StateBefore(i) == IF i = 1 THEN Missing ELSE events[i - 1].resulting_state

EventVerifies(i) ==
    LET e == events[i]
    IN  /\ (e.request.event_id = Created) <=> (i = 1)
        /\ e.request.expected = i - 2
        /\ e.resulting_version = i - 1
        /\ e.event_hash = i
        /\ e.previous_hash = i - 1
        /\ e.resulting_state = ApplyMutations(StateBefore(i), e.request.body)
        /\ snapshots[i] = [state |-> e.resulting_state, event_hash |-> e.event_hash]

VerifyWorld ==
    /\ Len(snapshots) = Len(events)
    /\ world.version = Len(events) - 1
    /\ world.state = StateBefore(Len(events) + 1)
    /\ \A i \in DOMAIN events : EventVerifies(i)

\* The identity and hash of the i-th event, as the outbox and the ledger of
\* consumed tokens hold them.
Message(i) == [event_id   |-> events[i].request.event_id,
               event_hash |-> events[i].event_hash]

\* "Exact-request tokens": an event that carries a token is the event that
\* token was issued for, and no two events carry the same token; a token is
\* recorded as spent only on the event it authorized, as that event is in the
\* log.
TokenSpentOnItsEvent ==
    /\ \A i \in DOMAIN events :
        LET r == events[i].request
        IN  r.auth # Direct => issued[r.auth].grant = Bound(r)
    /\ \A i, j \in DOMAIN events :
        /\ events[i].request.auth = events[j].request.auth
        /\ events[i].request.auth # Direct
        => i = j
    /\ \A t \in Tokens : consumed[t] # NotConsumed =>
        \E i \in DOMAIN events :
            /\ events[i].request.auth = t
            /\ consumed[t] = Message(i)

\* A caller that got an answer has its event in the log under its own request,
\* with exactly one message for it in the outbox, and its token is spent on it.
AnswerIsDurable ==
    \A c \in Clients : client[c].pc = "RETURNED" =>
        LET r == client[c].req
        IN  \E i \in DOMAIN events :
                /\ events[i].request = r
                /\ client[c].answer.event_hash = events[i].event_hash
                /\ consumed[r.auth] = Purchase(c)
                /\ \A m \in outbox : m.event_id = r.event_id => m = Message(i)
                /\ Message(i) \in outbox

\* Only a crash, or a call still under way, leaves an authorized event in the
\* log with its token unspent: no refusal or race does.
UnspentOnlyInFlight ==
    crashes = 0 =>
        \A i \in DOMAIN events :
            LET t == events[i].request.auth
            IN  t # Direct /\ consumed[t] = NotConsumed =>
                    \E c \in Clients :
                        client[c].pc \in {"SPEND", "INSERT"} /\ client[c].req.auth = t

\* Once spent, a token never brings about another event, whatever calls with
\* it were already verified when it was spent.
SpentTokenCommitsNothing ==
    [][\A t \in Tokens :
        consumed[t] # NotConsumed =>
            /\ consumed'[t] = consumed[t]
            /\ \A i \in DOMAIN events' \ DOMAIN events : events'[i].request.auth # t]_vars

\* The answer to append_event, first or repeated, is the snapshot of the event
\* itself and not of a later version.
AnswerIsTheEvent ==
    \A c \in Clients :
        client[c].pc \in {"SPEND", "INSERT", "RETURNED"}
        /\ client[c].req.event_id # Created
        => client[c].answer = StateAt(client[c].req.expected + 1)

-----------------------------------------------------------------------------
(* What the secure commit promises, free of callers, clock and crashes: a log  *)
(* that grows by one authorized event at a time.                               *)

Log == [i \in DOMAIN events |->
            [request |-> events[i].request, state |-> events[i].resulting_state]]

Abstract == INSTANCE AuthorizedLog WITH
    log <- Log,
    granted <- {[token |-> t, grant |-> issued[t].grant] :
                    t \in {u \in Tokens : issued[u] # NotIssued}}

ImplementsAuthorizedLog == Abstract!Spec
=============================================================================
