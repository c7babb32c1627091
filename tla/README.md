# EDON platform: TLA+ models, checks and proofs

EDON proposes, authorizes, commits and delivers changes to the state of an
institution. Two implementations live in the repository: the Python reference
(`src/edon`, SQLite stores behind one HTTP server) and the TypeScript platform
(`packages/platform-core`, `apps/control-plane-api`, PostgreSQL). This directory
models their core protocols in TLA+, checks them with TLC and proves the central
theorems with TLAPS.

## 1. Inventory

| Component | State it keeps | Operations | Interacts with |
|---|---|---|---|
| World state store, `world/store.py` | `worlds`, `world_events`, `world_snapshots`, `world_outbox` (one SQLite file) | `create_world`, `append_event`, `restore_version`, `verify_world`, reads | every writer below; the outbox shares its file |
| Kernel token authority, `kernel/tokens.py` | `issued_kernel_tokens`, `consumed_kernel_tokens` (a second file) | issue, verify, consume | Kernel-authorized commit, API |
| Kernel-authorized commit, `kernel/commit.py` | none of its own; a call in progress | `create_world`, `append_event`: look up, verify, commit, consume | both stores |
| World outbox, `outbox/store.py` | `world_outbox` rows, `outbox_delivery_audit` | `claim`, `acknowledge`, `fail` | delivery workers |
| Operations control plane, `operations/control.py` | goals, plans, steps, agents, resource pools, alerts, outcomes: an object inside the world's state | register, transition, plan, replan, allocate, assign, dispatch, start, outcome, cancel, monitor | world store (append with an expected version), memory |
| Shadow supervisor, `supervisor/` | immutable shadow cycles | `run_cycle` | operations reads, Cerebrum adapter |
| Learning network, `actionnet/product/store.py`, `actionnet/network.py` | experiences, reviews and governance events; global records, releases and C1 versions (two SQLite files) | record, review, overlap check, quarantine, approve; promote, release, withdraw, register and dispose | training and evaluation scripts, API |
| Mechanism registry, `registry/store.py` | compiler runs, candidates with their status, reviews, artifacts, the active version of each mechanism, an audit chain (one SQLite file) | register a run, review, promote, roll back | compiler, API |
| Hierarchical federation, `federation/store.py` | scopes, projections, routes, escalations and their events (one SQLite file, immutable rows) | register a scope, project a world, aggregate, route a decision, open an escalation, record its events | world store (projections read it), API |
| Agent gateway, `gateway/` | connectors with status and review reference, message envelopes, an audit chain (one SQLite file) | register, set the status, ingest, stage egress | agents and vendors through adapters, API |
| Institutional memory, `memory/store.py` | episodes with a hash-chained audit (one SQLite file) | record, tombstone, recall | operations, API |
| PostgreSQL outbox and worker, `outbox-worker.ts`, `repositories.ts`, `worker.ts` | `transactional_outbox` | enqueue, claim, complete, retry, governed requeue | every handler of the control-plane API; compiler; receipts |
| Receipt custody, `receipt-custody.ts`, `worker.ts` | `receipts`, `receipt_signing_claims`, `receipt_custody` | claim, sign, store, complete | outbox worker, key service |
| Execution assurance, `execution-assurance.ts` | `execution_commands`, `execution_transitions` | create, dispatch, transition (compare and set) | control-plane API |
| Institution release, `institution-transition-service.ts` | `institution_releases`, `idempotency_keys`, journal, outbox | transition in one transaction | control-plane API |
| Control-plane API, `server.ts` | events, state versions, proposals, reviews, decisions | one PostgreSQL transaction per request | all of the TypeScript parts |
| Compilers, ActionNet, evaluations, Cerebrum proposal code, UI | none between calls, or presentation | pure functions | |

What makes these parts hard, and what their correctness is:

* **Two databases, one call.** The secure commit writes the world and then the
  token ledger. A crash, an expiry, a retry or a second caller may come between
  any two of its transactions. Correct: a token authorizes at most the one
  request it was issued for; an answer is durable; a retry never commits twice.
* **Optimistic writers.** Kernel callers, unwrapped endpoints and restores race
  for one version. Correct: the log is contiguous, the hash chain links, each
  snapshot is the replay of the log, whoever writes in whatever order.
* **Leases without fencing tokens.** Both outboxes give leases that lapse while
  their worker is at work. Correct: the audit tells all; late answers of an
  overtaken worker do not change what another worker or the retry logic decided;
  everything is settled in the end; duplicates only follow lapsed leases.
* **Read, decide, replace.** Operations decides on a snapshot and appends whole
  objects. Correct: capacities and agent loads are conserved, goals and plans
  move along their transitions, outcomes and memories agree.
* **Checks in one database, writes in another.** The learning network reads the
  reviews and events of an experience, then writes elsewhere. Correct: what
  trains a model was approved by independent people, and a refusal stops every
  call that had not found the experience good before.
* **SQLite handlers that read before their transaction.** The registry, the
  federation and the gateway decide on rows read in autocommit mode, and their
  transaction begins with the first write. Correct: what is promoted was
  approved; a mechanism has one active version; an escalation is that of its
  decision; one message has custody under its key, and none that no enabled
  connector let in.
* **READ COMMITTED transactions.** Proposals, reviews, executions, release
  transitions and signing claims are select-then-insert under unique keys.
  Correct: decisions rest on states that were, one review decides with all its
  rows, one dispatch wins, nothing decided changes.

`PROJECT.json` lists every component and every hazard at its line.

## 2. Modules

| Module | Role |
|---|---|
| `KernelWorld` | world store + token ledger + the call that joins them, composed |
| `AuthorizedLog` | abstract: a log that grows by one authorized event at a time |
| `KernelWorld_proofs` | theorems about `KernelWorld` |
| `MCKernelWorld` | instances for TLC |
| `WorldOutbox` | claim, acknowledge, fail, with workers, leases, time and crashes |
| `AtLeastOnce` | abstract: handled any number of times, settled once and for good |
| `WorldOutbox_proofs` | theorems about `WorldOutbox` |
| `MCWorldOutbox` | instances for TLC |
| `DurableOutbox` | the PostgreSQL outbox, its workers and the governed requeue |
| `ReceiptSigning` | the RECEIPT_SIGN handler with its own lease, composed with `DurableOutbox` |
| `ReceiptSigning_proofs` | theorems about `DurableOutbox` and, on top of them, about `ReceiptSigning` |
| `MCReceiptSigning` | instances of `ReceiptSigning`, and with it of `DurableOutbox`, for TLC |
| `WorldMemory` | outcomes and observations in the world and in the memory, whoever writes them |
| `Operations` | the operations handlers: goals, plans, steps, agents, pools, on top of `WorldMemory` |
| `ResourceLedger` | abstract: all-or-nothing reservations that never exceed the stock |
| `Operations_proofs`, `MCOperations` | theorems about `Operations` and `WorldMemory`; instances for TLC |
| `LearningNetwork` | from recorded experiences to C1 versions, over two databases |
| `LearningNetwork_proofs`, `MCLearningNetwork` | theorems about `LearningNetwork`; instances for TLC |
| `ControlPlane` | observations, proposals, reviews and execution commands on PostgreSQL |
| `ControlPlane_proofs`, `MCControlPlane` | theorems about `ControlPlane`; instances for TLC |
| `MechanismRegistry` | reviews, promotions and rollbacks of compiled candidates |
| `MechanismRegistry_proofs`, `MCMechanismRegistry` | theorems about `MechanismRegistry`; instances for TLC |
| `Federation`, `MCFederation` | the tree of scopes, its projections, routes and escalations; instances for TLC |
| `AgentGateway`, `MCAgentGateway` | connectors and the custody of messages; instances for TLC |
| `ServerCalls` | the threads of the HTTP server in a handler of `Federation` or `AgentGateway` |
| `ServerStores_proofs` | theorems about `Federation` and `AgentGateway` |

How they compose: `KernelWorld` holds the store, the ledger and the call that
joins them; `ReceiptSigning` extends `DurableOutbox`; `Operations` extends
`WorldMemory` (`ImplementsStores`: every behaviour of it is one of `StoresSpec`) and is a
user of the store whose optimistic append `KernelWorld` models; the rows that
`ControlPlane` inserts are announced by the outbox that `DurableOutbox` models.
`MechanismRegistry`, `Federation` and `AgentGateway` share no table with the others
and stand alone; the last two take what a thread of the server is from `ServerCalls`.

### KernelWorld and the code

| Model | Code |
|---|---|
| `world`, `events`, `snapshots`, `outbox` | rows of one (tenant, world) in `world/store.py`; the n-th row's hash is n |
| `issued`, `consumed` | the token ledger of `kernel/tokens.py` |
| `client[c]` | a call of `KernelAuthorizedWorld`: program counter, request, the event it found, the answer it will give |
| `Call`, `ReadExisting`, `Verify`, `CommitNew` / `CommitDuplicate` / `CommitRefused`, `Consume`, `InsertConsumed` | the steps of `kernel/commit.py` in order, one per transaction or statement of its own; the commit is one `BEGIN IMMEDIATE` transaction and has one action per outcome |
| `DirectAppend`, `RestoreVersion` | the endpoints `/v1/worlds...` of `api/server.py`, which take an authorization reference that is not a token |
| `IssueToken`, `Tick`, `Crash` | token issue; the clock; the process of a call dies |

Data is reduced to what the properties tell apart. A state has one numeric leaf
or none: REPLACE_ROOT, INCREMENT and DELETE then cover mutations that always
apply, that depend on the state, and that may raise. Event type, actor and
mutations are always compared together (in the token's claims and in the request
hash), so they are one value, `body`. The source lineage is kept apart because
the request hash covers it and the token does not. Signatures are the claims
they sign. A consumption that fails because SQLite's lock times out ends the
call as `Crash` does.

Assumed of callers: an authorization reference passed to an unwrapped endpoint
is not a token string; event identity `WORLD_CREATED` is used only by creation.

### WorldOutbox and the code

`row[m]` is the row of `world_outbox`, `audit[m]` the message's part of
`outbox_delivery_audit`, `hand[w]` the claims that worker w has in memory, and
`effects[m]` how often downstream took the message. `Claim` is the whole
transaction: expired leases return to PENDING with their audit entries, then the
oldest available messages up to the limit are leased. `Acknowledge` and `Fail`
include the outcomes where the guard raises and only the worker's memory changes.
Times are kept as the three questions the queries ask: has `available_at` come,
has `lease_expires_at` passed, which `created_at` is older. `Lapse` and
`BecomeAvailable` are those answers changing.

The worker itself is outside the outbox code. It is modelled as the tests and
`evaluation/ops002.py` use it: it delivers, then acknowledges; or it fails a
message that downstream did not take. A worker that reports a failure although
downstream did take the message is not modelled; it would add one duplicate per
such report to `DuplicatesFollowExpiry`. Clocks of workers agree, and every
caller of `fail` passes the same `max_attempts`.

### DurableOutbox and the code

| Model | Code |
|---|---|
| `row[m]` | a row of `transactional_outbox` of one tenant: status, attempts, and whether `available_at` has come and `lease_expires_at` has passed |
| `job[w]` | where worker w is in `processOnce`, with which message |
| `ClaimOutbox`, `VerifyPasses` / `VerifyThrows`, `HandlerReturns` / `HandlerThrows`, `CompleteOutbox` / `CompletionThrows`, `RetryReads`, `RetryWrites` | the awaits of `processOnce` in order, each a transaction of its own; `retryOutbox` is a SELECT and an UPDATE under READ COMMITTED, so other transactions come between its two actions |
| `Enqueue`, `RequeueOutbox` | `enqueueOutbox` in the transaction that reports something; `POST /v1/outbox/{id}/requeue` |
| `StateMoves` | an event projected into the state a message is bound to |
| `Stop` | the process dies and starts again, or `retryOutbox` throws and `tick` goes on to its next round |
| `LeaseExpires`, `BecomesDue` | `now()` passes the row's times |

`completeOutbox` looks at the status only and `retryOutbox` at nothing: neither
compares the worker or the lease, and the model has it so. The order by
`created_at` with `SKIP LOCKED` is abstracted to any claimable row, since which
rows other transactions hold is not kept. `handled`, `lapsed`, `faults` and
`requeues` are history: what happened to a message, so that the properties can
account for it. A handler counts as having its effect when it returns; one that
throws after its effect is a `CompletionThrows`.

### ReceiptSigning and the code

The handler of `worker.ts:81` takes the place of the abstract one: `LoadReceipt`,
`CheckCustody`, `ClaimReceiptSigning`, `Sign`, `PutReceiptCustody` and
`CompleteReceiptSigning` are its calls in order, `Return` and `Throw` its ends,
`ClaimExpires` the lease of `receipt_signing_claims`. A throw after a call stands
for the lost answer of that call. `SigningNext` is the outbox's own step with the
tables of the handler unchanged, or a step of the handler, so every behaviour of
`ReceiptSigning` is one of `DurableOutbox`. Receipt and message are one name: one
transaction inserts both and the dedupe key is the receipt's.

### Operations and the code

| Model | Code |
|---|---|
| `goals`, `plans`, `steps`, `agents`, `pools` | the objects of the operational state (`_operational_state`); a task is a step of a plan |
| `RegisterAgent` ... `CancelStep` | the handler of that name in `operations/control.py` |
| `Build` | `_normalize_steps` and `_build_plan`, for `create_plan` and `replan` |
| `outcomes`, `observations`; `episodes` | what the world and what the memory has of them |
| `RecordStepOutcome` with `RecordOutcome`, then `RememberOutcome` | `record_step_outcome` up to the append, and from the episode on |
| `RefuseOutcome` | `record_episode` has another episode under the outcome's identity and raises |
| `IngestObservation`, then `AppendObservation` | `ingest_observation`, memory first |
| `Interrupt` | the handler ends between the two (a crash, or the second store refuses) |
| `RecordMemory` | `record_memory`, an episode posted directly |
| `RestoreVersion`, `AppendEvent` (of `WorldMemory` alone) | `restore_world`, `append_world_event`: what they do to outcomes and observations |

A handler that succeeds is one action, because its append goes through only
under the version it read: two handlers that decided on one version cannot both
append (`KernelWorld`). `Operations` is about the handlers: **it assumes that nothing
else moves goals, plans, steps, agents and pools**. The server lets the same roles
restore an earlier version of the world (`world/store.py:535`, `api/server.py:291`) and
append any event to it (278). A restore takes all of these objects back to what they
were together at an earlier version, so the invariants that speak of them alone
(`NoPlanIsStuck`, `CompletedExactlyWhenDone`, `AgentLoad`, `PoolsCover`,
`CurrentPlanLives`, `AllocatedIsHeld`) hold after it; the properties of steps
(`GoalMovesAreExplained`, `ImplementsLedger`) are of handlers only, since a restore moves
a goal back and gives a pool what was used of it. An event appended directly may break
any of them. Outcomes and observations are different, because the memory is not restored
with the world: `WorldMemory` has the restores, the appended events and the direct
episodes, and `StoresAgree` says of all of them what may separate the stores. Its
history (`interrupted`, `written`, `restored`, `edited`) is what happened to an identity,
so that the property can account for it. An episode is an identity: when a restore has
taken an outcome out of the world it can be recorded again, and the memory then refuses
the new episode and keeps the old one, which names another version of the world. A
tombstone keeps the row and changes nothing here.

The properties further assume of callers that they pass versions they have
seen; a caller that guesses a newer one could overwrite what it never read.
Assumed as well: plan and step names do not make the allocation key
`plan:step` ambiguous. Plan statuses the code names but never sets (PAUSED,
FAILED, CANCELLED) do not occur. Amounts are naturals where the code has floats.
Not modelled, because no handler reads them: alerts and the monitoring cycle
that writes them, learning candidates, deadlines, priorities.

### LearningNetwork and the code

| Model | Code |
|---|---|
| `recorded`, `reviews`, `overlap`, `eligible`, `quarantined`, `trained` | tables of `ActionNetPlatformStore`; of the governance events what `experience_state` derives |
| `source`, `withdrawn`, `releases`, `models`, `fit` | tables of `GovernedLearningNetwork` |
| `calls[c]` | a thread in a handler: which experiences or records are read, which are left |
| `ApproveTrainingEligibility`, `ApprovalReadsEvents`, `ApprovalWrites` | `approve_training_eligibility`: reviews, events, write |
| `...ReadsNext`, `RevalidateLocalSource`, `...Writes` | the loops of releases and promotion, one record at a time, with the recheck of the local source in the other database |

The handlers read with separate statements and write in a transaction of their
own, so whatever they read may have changed. The properties except exactly that:
a call that had already found an experience good may still use it. A rejection
that comes after eligibility does not withdraw it (`experience_state` does not
look at reviews), and `RefusalIsFinal` says so. A local training release is of
one tenant, which nothing here depends on. The catalogue and the audit chains of
the two stores are not modelled.

### ControlPlane and the code

| Model | Code |
|---|---|
| `received`, `admitted`, `derived`, `projected`, `snapshot` | observations of `journal_events`, those that moved a scope, identities and contents of its STATE_PROJECTED events, the version in `state_snapshots` |
| `proposal`, `initial` | `proposals`, the initial row of `kernel_decisions` |
| `review`, `reviewed`, `authorized`, `record` | `human_reviews`, the review's row of `kernel_decisions`, the HUMAN_REVIEWED event, `idempotency_keys` |
| `command`, `requested`, `transitions` | `execution_commands`, DISPATCH_REQUESTED events, `execution_transitions` with their events |
| `SubmitEvent`, `SetAside` | `POST /v1/events` |
| `OpenProposal`, `PutProposal`; `OpenReview`, `ReadState`, `PutReview`; `Execute`; `OpenTransition`, `CommitTransition` | the other endpoints of `server.ts`, each deciding read a step, the writes one step |
| `GiveUp` | any refusal, error or lost connection: `start.ts` rolls the transaction back |

Under READ COMMITTED each statement sees what is committed when it starts, so
other requests come between the steps of one. `POST /v1/events` is one step,
since an advisory lock on the scope is held to the end. `Execute` is one step,
since an allowing decision never changes once it is there. A membership is changed by
other means, so whether it covers the cost is an input (`covered`). `Odd` is an
observation that the evidence admission accepts and the projector passes over.
Clients choose the identity of an observation, and the server derives that of its
projected event from it (`ProjectedId`, `server.ts:106` and `123`); the journal keeps the
first event of an identity (`ON CONFLICT DO NOTHING`), an observation under the derived
identity included, and the handler does not look at the answer (124). Assumed: clients
do not choose the identities that the server derives for other events, such as
`authorization-DEC-...` of a review (193), which would pre-empt these, and do not name
a piece of evidence so that its event has the identity of a projected event (118).
Timestamps come from clients; `Decision` orders by them, as `getKernelDecision`
does. Of the targets of a transition only DISPATCH_REJECTED and CANCELLED can be
reached in shadow mode, and `TransitionsExplainStatus` says so.

The model keeps what the code does where one may expect more: a review reads the
state of the scope its request names, which need not be the proposal's; it
compares values and not versions, so a state that has changed and come back
passes; and the second of two reviewers is answered, and its key keeps, a
decision that was not stored.

### MechanismRegistry and the code

| Model | Code |
|---|---|
| `runs`, `reviews`, `status`, `artifact`, `active` | tables of `ReviewRegistry`; an artifact is the approvals it names |
| `changes` | of the audit chain the events that change the active version |
| `calls[c]` | a thread in `submit_review` or `promote`, with the approvals it has read |
| `RegisterCompilerRun`, `Rollback` | the handlers of that name; what they read is never changed, so they are one step |
| `SubmitReview`, `ReviewWrites` | `submit_review`: the status is read, then the transaction inserts the review and computes the status from all reviews |
| `Promote`, `PromoteReadsApprovals`, `PromoteWrites` | `promote`: the check, the second read of the approvals, the transaction |
| `Abandon` | a refusal, an integrity error, or the end of the process |

Rows other than the status never change and are constants. A review is what a
reviewer submits, with the conflicts it resolves.

### Federation and the code

| Model | Code |
|---|---|
| `parent`, `projections`, `routes`, `escalations`, `events` | the tables of `InstitutionalFederationStore` of one tenant |
| `Up`, `AncestorIds`, `LeastCommonAncestor` | `_ancestor_ids`, `least_common_ancestor` |
| `RegisterScope`; `RegisterRoot`, `RootWrites` | `register_scope` under a parent; without one it looks for a root and inserts later |
| `ProjectWorld`, `AggregateScope` | `project_world`, `aggregate_scope`; a summary is how often the figures of each world went into it: never, once or more often |
| `RouteDecision`, `OpenEscalation`, `RecordOpened` | `route_decision`, `open_escalation` and its first event: three transactions |
| `RecordEscalationEvent` | the endpoint, which takes any event type at any time |
| `Stop` | a refusal after the first read or transaction, or the end of the process |

A row that was read stays as it is, so a handler that reads rows and inserts one is
a single step; a handler that read that a row is missing is not. A score is whether
it reaches its threshold. The loop of `_ancestor_ids` is four steps up, because ranks
are 0 to 4 and fall on the way. `Below`, which the properties use, does not follow the
code's loop: it is the least relation that goes from a scope to itself and on to
parents.

### AgentGateway and the code

| Model | Code |
|---|---|
| `profile`, `status`, `review` | the row of a connector |
| `messages`, `audit` | the envelopes in custody; the status and message events of the audit |
| `RegisterConnector` | `register_connector` |
| `SetConnectorStatus`, `StatusWrites` | `set_connector_status`: the row is read, later its status and review reference are written |
| `Normalize`, `RecordEnvelope` | `ingest` and `stage_egress`: the connector is read and the message normalized, later `record_envelope` inserts it under its UNIQUE constraints |
| `Abandon` | a refusal, the receipt of a message that is there, or the end of the process |

Protocol and vendor adapters are conversions; a profile is reduced to whether it may
be enabled and which messages it lets through.

## 3. Runs

| Run | Instance | Question |
|---|---|---|
| `kernel_commit` | 2 callers, 2 tokens, 2 event identities and the creation, 1 body, clock 0..2, lifetime 1, versions to 1, 1 crash, symmetric | tokens, answers and the ledger under races, expiry and a crash |
| `kernel_history` | 1 caller, 1 token, 2 identities, 3 bodies, 2 lineages, versions to 2, 1 crash | histories: verification, refinement of `AuthorizedLog`, retries included |
| `outbox_delivery` | 2 workers, 2 messages, 2 attempts, claim limits 1 and 2, 1 early lapse, 1 crash, with fairness | duplicates, late answers, refinement of `AtLeastOnce`, and that everything is settled |
| `receipt_signing` | 2 workers, 1 receipt, 2 attempts; 1 lapse of a lease under a worker, 1 lapse of a signing claim, 1 failure after the effect, 1 stop, 1 requeue, with fairness | the outbox: how often a message is handled, stale messages, settlement; the handler: claims, custody and signatures under two leases |
| `receipt_unsigned` (violation) | 1 worker, 1 receipt, 3 attempts, no lapse, fault, stop or requeue | "restart-safe, at-least-once processing" of a signing message |
| `operations` | 1 goal, 2 plans of up to 2 steps (the second after the first), 1 agent, 1 renewable and 1 used-up pool, 2 outcomes, 1 observation, 1 interruption or direct episode, symmetric | plans that go on, loads, pools, goal moves, two stores, refinement of `ResourceLedger` |
| `learning_network` | 2 experiences, 6 possible reviews by 2 people, 2 global records, 1 release, 1 C1 version, 1 caller beside atomic writers, symmetric | what trains a model was vetted; refusals and withdrawals last |
| `control_plane` | 2 clients, 2 scopes, 2 values, 2 of 3 observations, one with the identity of another's projected event, 1 proposal, 2 commands with 1 external key, 2 timestamps, symmetric | grounded decisions, one review, one transition, permanence |
| `control_plane_wedge` (violation) | 1 client, 1 scope, 2 observations | "valid observation advances exactly once" |
| `registry` | 3 candidates (a critical one with a conflict, a later version of high risk, a rival of low risk), 3 compiler runs, 9 possible reviews by 4 people, 2 callers, 2 audit changes | approved promotions, one active version, verdicts that last |
| `federation` | 4 scopes, 1 bound world, 2 decisions, 6 possible requests, 1 escalation identity, 2 callers, 1 further event, 2 projections, symmetric | where decisions go, whose an escalation is, which figures go up |
| `agent_gateway` | 1 connector, 2 profiles (one may be enabled), 4 messages that share keys or identities or repeat in the other direction, 2 review references, 2 callers, 3 status changes, symmetric | one custody, explained by the audit; enabling and suspension |

*Bounds.* Two callers and two tokens are what a race and a swap of tokens need:
the same request under one token, under two tokens, and different requests under
one token all occur. Clock 0..2 with lifetime 1 has tokens that expire before
verification, between commit and consumption, and never. Version 1 lets two
identities race for one slot, after a creation race; `kernel_history` goes one
version further with one caller (direct writers and restores still race with it)
so that a retry meets a world that has moved on. One crash leaves an
unspent token and a retry that meets it. In the outbox, two workers, one early
lapse and one crash give an overtaken worker and a worker that meets its own
earlier claim; attempts are not bounded by the model but end because lapses and
crashes are. Messages of equal age are claimed in any order, so what
`outbox_delivery` shows holds for every order. `outbox_delivery` does not check deadlock: when all messages are
settled nothing remains to be done. In `DurableOutbox` workers meet only through
a message (no action reads two rows), so one message shows what several would;
two workers and a lapse, with a failure after the effect, let a late completion or
a late retry meet a live claim, and more of each is covered by the proofs; one
requeue brings a dead letter back with its attempts spent. In `receipt_signing` one
lapse of either lease gives two signers at once. Lapses are bounded only under a worker that is at work, so
a lease of nobody always expires. These runs stop when all is settled, too.
In `operations` two plans let a plan be replaced while steps of it hold resources
or are in flight, and two steps make a dependency; the second plan may be made
for the goal beside the first. One goal means that goal dependencies are only
exercised in the proofs; one task at a time per agent makes its limit bind. One interruption or one direct
episode is all the run has of either, since identities do not meet in the stores; the
restores and appended events are in `WorldMemory.cfg` and in the proof. In
`learning_network` reviews, checks, quarantines and withdrawals come between the
steps of one call; two calls at once are covered by the proofs, which hold for any
number of callers and any chain of predecessors, and were left out of the run for
its size. Two people and two dimensions give approvals by one and by both; the
code's further dimensions are more of the same quantifier. There is one model, so the
predecessors of `UsesTraceToReviews` are empty in the run and rest on `Tracing`, and of
`WithdrawalIsFinal` two racing callers rest on `WithdrawalsLast`. In `control_plane` two
clients meet at a proposal, a review and a transition; two observations make a
state go stale and come back, or one takes the identity of the other's projected event;
two timestamps put a review before its proposal or with it (`Opening`: which stamp
proposals have does not matter, only which is later).
In `registry` three candidates are what it takes to have each risk class, a version
that is superseded and a version that two candidates want; reviews are few but
include one person in two roles, an approval for each role, a rejection and a
request for revision. In `federation` the tree is a facility or two under a region
or directly under the root; requests stay within a boundary, cross one, exceed a
threshold, or name an authority above or below (none beside the source, which
`LowestRoutes` covers); two callers want one escalation identity, and that several
identities stay apart rests on `Escalating`. One world is bound there; `FederationProjections.cfg` has two, a second
root and three projections, so that an aggregate joins two children. In
`agent_gateway` two callers meet as two messages of one key, two of one identity, a
status change and a message, and two status changes. Symmetry is over callers, and
over the names that no constant tells apart.
All these runs may come to a state in which nothing remains to be done.

*Fairness* (`WorldOutbox!Fairness`). Some worker keeps polling `claim`, claims in
workers' memory are worked on unless the worker crashes, and time passes: the
lease of a claim nobody works on lapses, a scheduled retry becomes due. Each is
weak fairness of the whole, not of each worker or message. The code's
workers are loops over `claim` that answer each message, and leases and delays
are bounded. Nothing is assumed about early lapses, crashes or enqueues.
`DurableOutbox!Fairness` and `SigningFairness` say the same of `tick` and
`processOnce`: every awaited call returns or throws, each worker polls again
(`setTimeout(tick, pollMs)`), leases and delays pass. A worker need not win a
particular message, nor a verification or a handler succeed.

*What the violations show.*

* `CompletedIsSigned`: the key service throws once while a worker holds the
  signing claim. The retry comes a quarter of a second later, finds no custody,
  is refused the claim, which runs for 30 seconds, and returns without an error
  (`worker.ts:81`); `processOnce` completes the message. No message is left that
  would sign the receipt. `ClaimsTellCustody` and `EventuallySigned` show that
  an interrupted claim is the only way this happens.
* `ObservationsAdvance`: an observation with an acceptable `capacity_units` and no
  acceptable `commitments_at_risk` is admitted (`evidence-admission.ts:7`), its
  projected event is passed over by the projector (`state-projector.ts:7-8`), and
  the row moves all the same. Every later observation of the scope then fails
  `putState`'s comparison and ends in a conflict. `StateIsContiguous` shows that
  the row and the journal differ in one other way only, an identity that is taken
  (`ControlPlaneTaken.cfg` below), and that either difference is at the last version.

*Further configurations.* These are not among the runs. `WorldMemory.cfg`, on the module
`WorldMemory` itself, checks `StoresAgree` with restores, appended events and direct
episodes of an outcome and an observation, each at any moment (4040 states, no error);
`Agreement` proves it for any number of them. `FederationProjections.cfg` passes as well.
Each of the others checks one formula that documents or guards of the code suggest and
that the code does not keep; TLC ends with the counterexample that is described
(`tlc -config X.cfg` on the MC module).

* `AttemptsLimited` (`OutboxAttempts.cfg`): "terminal dead status after a configured
  attempt limit". `claim` recovers an expired lease whatever its attempts
  (`outbox/store.py:121-136`); only `fail` compares them with the limit. A
  message that makes its worker die or hang is therefore claimed for ever.
* `AcceptedAdvance` (`ControlPlaneTaken.cfg`): with an observation of the identity
  `X:state` in the journal, that of identity `X` is admitted and its projected event is
  passed over by the journal (`server.ts:124`), while `putState` (132) moves the row: the
  scope is stuck as above, although the projector accepted every event.
* `InterruptedCanBeRetried` (`OperationsSaga.cfg`): `record_step_outcome` appends to the world
  (`operations/control.py:1112`) and then writes the episode (1117). After an end
  in between, a retry is refused: the outcome is registered (1019-1020). The
  document promises that the same identifiers can be retried, which holds for
  observations only. `StoresAgree` says what else separates the stores: a restore, an
  appended event, an episode posted directly.
* `RejectedIsNotPromoted` (`RegistryRejected.cfg`): `promote` checks the reviews,
  reads them again and then writes (`registry/store.py:377`), all outside the
  transaction; a rejection that is stored in between leaves a candidate that is
  rejected and promoted. `VerdictIsFinal` shows that a rejection stops every promotion
  that had not begun, and `PromotedIsApproved` that the approvals were there.
* `OneRoot` (`FederationRoots.cfg`): "A tenant has one root" (docs/architecture/
  hierarchical-federation.md:18), but two registrations may both find none
  (`federation/store.py:236`), and no constraint of the table stops the second. Scopes
  below different roots then share no ancestor.
* `EscalatedIsOpened` (`FederationOpened.cfg`): a route with disposition ESCALATE is
  committed before its escalation (586); an unknown severity, an escalation identity
  that is taken or a crash leaves it without one, and the decision cannot be routed
  again. `EscalationsFollowRoutes` shows that no escalation is another decision's.
* `EachWorldOnce` (`FederationTwice.cfg`): a scope is among its own ancestors, so it may
  aggregate its own aggregate with those of its children (453), and the figures of a
  world count twice. `FiguresGoUp` shows that they at least never go sideways.
* `SuspensionStopsCustody` (`GatewaySuspension.cfg`): "Suspension stops new gateway
  custody" (product/agent-gateway/SECURITY.md:45), but a message that found its
  connector enabled (`gateway/service.py:68`) is recorded after the suspension.
  `SuspensionHolds` shows that this is all that gets through.

## 4. Proofs

TLAPS proves the following for all constants that satisfy the named assumptions
(`NamesAssumption`, `BoundsAssumption`, `BodiesAssumption`, `OutboxAssumption`,
`DurableOutboxAssumption`, `ReceiptSigningAssumption`, `OperationsAssumption`,
`WorldMemoryAssumption`,
`LearningAssumption`, `ControlPlaneAssumption`, `RegistryAssumption`,
`FederationAssumption`, `GatewayAssumption`), so for any number of callers,
tokens, messages, workers, plans, experiences, clients, scopes, connectors and steps.

`KernelWorld_proofs`: `TypeCorrect`, `WorldVerifies` (`VerifyWorld`),
`ExactTokens` (`TokenSpentOnItsEvent`), `DurableAnswers` (`AnswerIsDurable`),
`SpentTokens` (`SpentTokenCommitsNothing`), `Answers` (`AnswerIsTheEvent`),
`Unspent` (`UnspentOnlyInFlight`) and `Refinement` (`ImplementsAuthorizedLog`).
None of these invariants is inductive alone. The inductive invariant `IInv` joins
the types and `VerifyWorld` with what ties the two databases and the calls under
way together: event identities are unique; every row that carries a token is the
request granted to it; a call past verification holds a token that grants its
request; a call past the commit has its event in the log with the hash it will
record; a call that returned has spent its token; the ledger and the outbox refer
to rows of the log only, and every row has its message. `SpentTokens` rests on
this argument: a verified caller whose token has been spent since cannot insert,
for the token was spent on an event in the log, that event is the one the token
grants, so its identity is the caller's own, and the store answers the caller as a
duplicate or refuses it. `Answers` keeps each answer by the position of its event
(`Answered`), which no later event moves; `Unspent` is inductive beside `IInv`: a
call on its way to the ledger cannot be refused there while its token is unspent.

`WorldOutbox_proofs`: `TypeCorrect`, `AuditTellsAll` (`AuditExplainsRow`),
`LateAnswers` (`OvertakenWorkerChangesNothing`), `Duplicates`
(`DuplicatesFollowExpiry`) and `Refinement` (`ImplementsAtLeastOnce`). `IInv`
joins the types and `AuditExplainsRow` with two facts about workers: the claims
they have in memory are of messages that exist, and a claim that counts as
handled, like a message that counts as delivered, had an effect. The proof looks
at one message at a time: every transaction leaves it alone, enqueues it, claims
it, ends its claim, or ends one claim and makes the next, and a lemma for each
says that the audit still explains the row. `Duplicates` is a budget: effects,
unhandled claims in memory, and one if the row can be claimed without an expiry,
never exceed one plus the expiries in the audit. It holds although a worker may
fail an old claim and so give up a newer lease of its own: the claim it drops pays
for the row that is open again.

`ReceiptSigning_proofs`, the outbox: `TypeCorrect`, `Settlement` (`SettledRightly`),
`LostForGood` (`StaleStaysLost`), `Duplicates` (`DuplicatesAccounted`) and
`Completion` (`CompletionFinal`). For `Settlement` the invariant adds what a
worker knows late in `processOnce`: the message it is about to complete was
handled, and the attempts it read for a retry are still not more than the row's.
`Duplicates` is a budget, `Accounted`: the times a message was handled, plus the
workers that may still handle or retry it, plus one if its row is open to be
claimed (also after a requeue) and one if its lease has expired, never exceed one
plus its lapses and its failures after the effect. Claiming moves a unit from the
row to the worker, handling moves it to the count, a retry gives it back to the
row, and only a lapse or such a failure adds a unit; the number of waiting
workers is a cardinality, which one worker's step changes by at most one.
`Completion` follows from the same budget: the worker that reopens a completed
message is a waiting worker beside an effect that has already happened.

`ReceiptSigning_proofs`, the signing: `ImplementsOutbox` (every step of the signing is one of
the outbox or leaves it alone, so the theorems above carry over),
`ClaimsAndCustody` (`ClaimsTellCustody`), `SignaturesBudget`
(`SignaturesFollowLapses`) and `Custody` (`CustodyIsPermanent`). `SigningInv` says
what a worker may rely on at each place of the handler although the claim may be
taken from it at any time (`WorkerSound`: a receipt loaded with a signature is
never signed, a claim is completed only over a stored signature, and a worker that
returns leaves the receipt signed or its claim open) and keeps a budget
(`ReceiptSound`): the signatures made, plus the workers about to sign, plus one if
the claim is free, never exceed one plus the claims that lapsed. `ClaimsTellCustody`
is not inductive alone: the worker that completes the message does so two
transactions after it last looked at the claim.

`Operations_proofs`: `TypeCorrect`, `PlansGoOn` (`NoPlanIsStuck`), `Completion`
(`CompletedExactlyWhenDone`), `Loads` (`AgentLoad`), `Pooling` (`PoolsCover`),
`CurrentPlans` (`CurrentPlanLives`), `Agreement` and `ImplementsStores` (`StoresAgree`),
`ExplainedMoves` (`GoalMovesAreExplained`), `Ledgers` (`ImplementsLedger`) and
`Counting` (`AllocatedIsHeld`). `IInv` joins the types with what ties
the objects together: a plan's steps are acyclic and have the statuses its own
status allows; tasks in flight are exactly the agents' tasks; a pool lists the
share of each task that is allocated and not finished, and stays within its
capacity. These theorems are about the handlers (section 2). `Agreement` is about
`StoresSpec`, that is whoever writes the two stores; its invariant, `StoresInv`, follows
what the world has or had (`outcomes`, `restored`) to the memory, because a restore may
bring back what an earlier one took away. `ImplementsStores` carries it over to
`Operations`. `PlansGoOn` rests on the acyclic order: of the pending steps of
an active plan one has no pending dependency.

`Ledgers` and `Counting` are about sums, and hold for any finite number of plans and
steps (the hypothesis `IsFiniteSet(Tasks)`; a sum over infinitely many says nothing). The
invariant they need beside `IInv`, `Filled`, says that what a pool counts as allocated
is the sum of what its tasks are listed with, two fields that each handler writes side
by side. A sum here is a fold, which picks the elements of a set in an order that
depends on the set alone. The lemmas say that there is one function that adds up
(`AddedUp`, `AddsUpAlike`), that a sum changes by what one of its terms changes
(`SumChanged`), and that the ledger's fold is this sum (`HeldIsSum`); their induction is
over the subsets of a finite set, by a minimal counterexample (`SubsetInduction`). It
follows that a task never holds more of a pool than is allocated, so the `max(0.0, ...)`
of a release never cuts anything off: a consumption takes from the stock exactly what
the task held, as the ledger does.

`LearningNetwork_proofs`: `TypeCorrect`, `Tracing` (`UsesTraceToReviews`),
`RefusalsLast` (`RefusalIsFinal`) and `WithdrawalsLast` (`WithdrawalIsFinal`).
`IInv` says what a call under way may rely on although the tables move on: rows
are never taken back, so an experience that was found to be reviewed stays
reviewed. It adds that records have different sources, that eligible experiences
are vetted, and that what releases and versions name exists.

`ControlPlane_proofs`: `TypeCorrect`, `Contiguity` (`StateIsContiguous`),
`Grounding` (`DecisionsAreGrounded`), `OneReview` (`ReviewStandsWhole`),
`Authority` (`CommandsAreAuthorized`), `OneTransition`
(`TransitionsExplainStatus`) and `DecidedStands` (`WhatIsDecidedStands`). `IInv`
is the conjunction of the invariants with `CallInv`: what a request has read was
so and, where the proof needs it, still is (the state it saw is a state its scope
had, the proposal it is about is there, the command it read exists). The
invariants hold each other up: a command's authority is the stored review
because a review stands whole and is inserted once, and a journal of
transitions tells the status because the update compares it. For `Contiguity` the row
and the replayed state agree wherever an observation can be stored (`Replay`), so a
version that the journal or the projector passed over is the last.

`MechanismRegistry_proofs`: `StatusIsComputed` (`StatusFollowsReviews`),
`ApprovedByEnough` (`PromotedIsApproved`), `ActiveIsAudited` (`ActiveIsLastReleased`)
and `VerdictsAreFinal` (`VerdictIsFinal`). `IInv` joins the types and the invariants
with what calls and rows rely on: a call past its check holds approvals that were
given and are enough for its candidate (`CallInv`), whatever was added since; reviews
are of candidates that were registered, one of a reviewer for a candidate
(`ReviewInv`); an artifact holds approvals that were enough (`ArtifactInv`). That
reviews are never taken back carries an old check to the write; that it says nothing
of a later rejection is why `RejectedIsNotPromoted` fails.

`ServerStores_proofs`, the federation: `FederationInvariant` (the inductive
`FederationInv`), `LowestRoutes` (`RoutedToTheLowest`), `Escalating`
(`EscalationsFollowRoutes`), `UpwardFigures` (`FiguresGoUp`) and `KeptPlaces`
(`PlacesAreKept`). First comes the tree. `Below` is an order because ranks fall on the
way up, and the scopes above one scope are a chain; `AncestorIds` computes exactly these
scopes, since a path of five ranks ends after four steps (`AncestorsAreAbove`). In a
chain the largest rank is the lowest scope, so `LeastCommonAncestor` is below every
other common ancestor (`LeastIsBelowEvery`), and the least common ancestor of a least
common ancestor and an authority is that of them all (`TargetIsLowest`). Then comes
time: rows never change and a new scope is a leaf, so what stands over what is the same
before and after (`BelowStays`, `BelowWasBefore`), and a route that was the lowest
stays so. Two further facts make the invariant inductive: routes name registered scopes,
and of the calls on their way to write an escalation (`EscalatesOnce`) no two are for one
decision and each is for a route that escalates. This also holds with several roots.

`ServerStores_proofs`, the gateway: `GatewayInvariant` (the inductive `GatewayInv`),
`OneCustody` (`CustodyIsUnique`), `ExplainedCustody` (`AuditExplainsCustody`),
`ReviewedEnablings` (`EnablingIsReviewed`) and `SuspensionCloses` (`SuspensionHolds`).
`GatewayCallInv` says what of a call's reading is still true when it writes: a message
about to be recorded is one that its connector's profile lets through, and the audit
has an enabling of that connector under a review, whatever its status is by then; a
status change to ENABLED has a reference of its own and a secured profile. The audit
only grows, so an event that explained a row goes on explaining it; the newest event of
a connector is the one its row agrees with (`AuditInv`), and a row that is ENABLED has a
reference (`ConnectorInv`), so the event that let a message in was reviewed.

Proved and not checked by a run, since a proof covers every instance: the type
invariants, `AnswerIsTheEvent`, `AuditExplainsRow`, `SettledRightly`,
`CompletionFinal`, `CustodyIsPermanent`, `PoolsCover`, `AllocatedIsHeld`,
`CurrentPlanLives`, `CommandsAreAuthorized`, `StatusFollowsReviews` and
`PlacesAreKept`. They are the parts the
inductive invariants are built from, or follow from the same arguments.

Model-checked only: `EventuallySettled` and `EventuallySigned`, which are liveness
under fairness and out of the prover's reach. Every other property of the passing
runs is proved.

## 5. Not modelled

Written, in order of importance: `KernelWorld`, `WorldOutbox`, `DurableOutbox`,
`ReceiptSigning`, `WorldMemory`, `Operations`, `LearningNetwork`, `ControlPlane`,
`MechanismRegistry`, `Federation`, `AgentGateway`. What would come next:

* `ReleaseTransition` (`institution-transition-service.ts`): idempotency key,
  compare and set, journal event and message of one transaction, and the unlocked
  read of the previous record hash. Its protocol is that of `ControlPlane`'s
  writes with one more table.
* `ExecutionAssurance.dispatchAuthorized`: no part of the server calls it; with
  it commands would leave shadow mode and the rest of the transition table would
  come alive.
* The handler of the institution compiler (`worker.ts:48-80`): it would extend
  `DurableOutbox` as `ReceiptSigning` does.
* The supervisor and the memory's tombstones and recall. The torn reads of `get_world`,
  `verify_world` and the supervisor's context change nothing.
* Break-glass: the server has endpoints that request and use a grant and none that
  approves, activates or revokes one, so no grant becomes active there.

Not planned: HTTP routing and roles, hashing and signatures as
such, JSON validation, proposal generation, compilers, simulators, data
generation, evaluation scripts, the UI and deployment files. They keep no state
between calls or hold no protocol.
Most of the repository's lines are of this kind, generated episodes and copied
experiment worlds above all, so the lines the models stand for are a small share
of it.
