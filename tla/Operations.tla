------------------------------ MODULE Operations ------------------------------
(***************************************************************************)
(* The operations control plane, src/src/edon/operations/control.py        *)
(* (InstitutionalControlPlane), over the world and the episodic memory.    *)
(*                                                                         *)
(* A handler reads the world, decides, and appends one event under the     *)
(* world version its caller last saw.  Callers give versions they have     *)
(* seen, so the append succeeds only if the world has not moved since the  *)
(* handler read it (KernelWorld models that comparison): a handler that    *)
(* succeeds is one action.  Outcomes and observations are also kept in the *)
(* memory, another database, and WorldMemory models that link.             *)
(*                                                                         *)
(* This module is about the handlers: nothing else moves the operational   *)
(* objects.  That is an assumption.  The roles that call the handlers may  *)
(* also restore an earlier version of the world (world/store.py:535) or    *)
(* append an event to it directly (api/server.py:278), and goals, plans,   *)
(* agents and pools then go where the restored version or that event has   *)
(* them.  A restore takes them all back to what they were together, which  *)
(* keeps the invariants about them, not the properties of steps.  What     *)
(* these writes do to the two stores is in WorldMemory; episodes recorded  *)
(* directly are here too.                                                  *)
(*                                                                         *)
(* Data.  A task is a step of a plan.  What a caller puts into a step      *)
(* (dependencies, requests, required capabilities) is the step's own and   *)
(* constant.  Deadlines, priorities, owners and parents decide nothing     *)
(* here; alerts and learning candidates are never read again.  The success *)
(* of an outcome is the verified one.                                      *)
(***************************************************************************)
EXTENDS WorldMemory

CONSTANTS
    Goals, Plans, Steps, Agents, Pools,
    DependsOn,       \* dependencies of each step
    Requests,        \* resource_requests of each step, 0 for no request
    Capable,         \* the agents with each step's required_capabilities
    MaxConcurrent,   \* max_concurrent of each agent
    Capacity,        \* the capacity each pool is registered with
    Renewable,       \* the pools registered as renewable
    Settable,        \* the agent statuses that callers set
    None             \* no goal, no plan, no agent

ASSUME OperationsAssumption ==
    /\ DependsOn \in [Steps -> SUBSET Steps]
    /\ Requests \in [Steps -> [Pools -> Nat]]
    /\ Capable \in [Steps -> SUBSET Agents]
    /\ MaxConcurrent \in [Agents -> Nat \ {0}]
    /\ Capacity \in [Pools -> Nat]
    /\ Settable \subseteq {"AVAILABLE", "BUSY", "DEGRADED", "OFFLINE", "RETIRED"}
    /\ None \notin Goals \cup Plans \cup Agents

VARIABLES
    goals, plans, agents, pools,
    steps           \* the steps of the plans, task by task

work == <<goals, plans, agents, pools, steps>>
vars == <<work, stores>>

Tasks == Plans \X Steps

Transitions == [
    PROPOSED  |-> {"ACTIVE", "CANCELLED"},
    ACTIVE    |-> {"PAUSED", "BLOCKED", "COMPLETED", "FAILED", "CANCELLED"},
    PAUSED    |-> {"ACTIVE", "CANCELLED"},
    BLOCKED   |-> {"ACTIVE", "FAILED", "CANCELLED"},
    COMPLETED |-> {}, FAILED |-> {}, CANCELLED |-> {}]

GoalStatuses ==
    {"PROPOSED", "ACTIVE", "PAUSED", "BLOCKED", "COMPLETED", "FAILED", "CANCELLED"}

AgentStatuses == {"AVAILABLE", "BUSY", "DEGRADED", "OFFLINE", "RETIRED"}

-----------------------------------------------------------------------------
(* What the handlers ask of the world.  The status of what is not          *)
(* registered is NONE.                                                     *)

GoalOf(t) == plans[t[1]].goal

\* The step s of the plan of t.
Sibling(t, s) == <<t[1], s>>

Registered(t) == steps[t].status # "NONE"
InFlight(t) == steps[t].status \in {"ASSIGNED", "RUNNING"}
Terminal(t) == steps[t].status \in {"SUCCEEDED", "FAILED", "CANCELLED"}

\* The dependencies of a step have succeeded.
Ready(t) == \A d \in DependsOn[t[2]] : steps[Sibling(t, d)].status = "SUCCEEDED"

\* What the handlers that give a step anything ask: a pending step of an active plan
\* whose dependencies have succeeded.
Dispatchable(t) ==
    plans[t[1]].status = "ACTIVE" /\ steps[t].status = "PENDING" /\ Ready(t)

Requesting(t) == {r \in Pools : Requests[t[2]][r] > 0}

\* Mutant: what is allocated is not counted.
FitsAnEmptyPool(t) == \A r \in Requesting(t) :
    pools[r].registered /\ pools[r].capacity >= Requests[t[2]][r]

\* "insufficient resource capacity"
Fits(t) == \A r \in Requesting(t) :
    /\ pools[r].registered
    /\ pools[r].capacity - pools[r].allocated >= Requests[t[2]][r]

CanTake(a, t) ==
    /\ agents[a].status \in {"AVAILABLE", "BUSY"}
    /\ Cardinality(agents[a].tasks) < MaxConcurrent[a]
    /\ a \in Capable[t[2]]

Complete(deps) == \A d \in deps : goals[d].status = "COMPLETED"

\* _topological_order finds an order.
Acyclic(S) == \A T \in (SUBSET S) \ {{}} : \E s \in T : DependsOn[s] \cap T = {}

-----------------------------------------------------------------------------
(* What they write. *)

\* An agent's status as it follows from its load.
Loaded(a, tasks) ==
    [status |-> IF Cardinality(tasks) >= MaxConcurrent[a] THEN "BUSY" ELSE "AVAILABLE",
     tasks |-> tasks]

\* Mutant: an agent that is offline keeps the task.
UnloadedOnline(a, t) ==
    IF agents[a].status \in {"OFFLINE", "RETIRED"}
      THEN agents[a] ELSE Loaded(a, agents[a].tasks \ {t})

\* A task leaves its agent, whose status is kept if OFFLINE or RETIRED.
Unloaded(a, t) ==
    IF agents[a].status \in {"OFFLINE", "RETIRED"}
      THEN [agents[a] EXCEPT !.tasks = @ \ {t}]
      ELSE Loaded(a, agents[a].tasks \ {t})

Reserved(t) == [r \in Pools |->
    IF r \in Requesting(t)
      THEN [pools[r] EXCEPT !.allocated = @ + Requests[t[2]][r],
                            !.allocations = [@ EXCEPT ![t] = Requests[t[2]][r]]]
      ELSE pools[r]]

AtLeastZero(n) == IF n < 0 THEN 0 ELSE n

\* The allocation of a task returns to the pools; what is used of a pool that
\* is not renewable is gone.
Released(t, used) == [r \in Pools |->
    IF steps[t].allocated /\ r \in Requesting(t)
      THEN [pools[r] EXCEPT
                !.allocated = AtLeastZero(@ - Requests[t[2]][r]),
                !.capacity = IF used /\ r \notin Renewable
                               THEN AtLeastZero(@ - Requests[t[2]][r]) ELSE @,
                !.allocations = [@ EXCEPT ![t] = 0]]
      ELSE pools[r]]

\* Mutant: the status of the goal is not looked at.
BuildForAnyGoal(p, g, S, retired) ==
    /\ plans[p].status = "NONE" /\ goals[g].status # "NONE" /\ S # {}
    /\ plans' = [plans EXCEPT ![p] = [status |-> "ACTIVE", goal |-> g]]
    /\ steps' = [t \in Tasks |->
            IF t[1] = p /\ t[2] \in S
              THEN [status |-> "PENDING", agent |-> None, allocated |-> FALSE]
              ELSE steps[t]]
    /\ goals' = [goals EXCEPT ![g].plan = p, ![g].status = "ACTIVE"]
    /\ UNCHANGED <<agents, pools, stores>>

\* _build_plan and _normalize_steps: a new plan of the steps S for a goal, which
\* becomes ACTIVE with this plan; retired is the plan it replaces, or None.
Build(p, g, S, retired) ==
    /\ plans[p].status = "NONE"
    /\ goals[g].status \in {"ACTIVE", "BLOCKED"}
    /\ S # {} /\ Acyclic(S) /\ \A s \in S : DependsOn[s] \subseteq S
    /\ plans' = [q \in Plans |->
            IF q = p THEN [status |-> "ACTIVE", goal |-> g]
            ELSE IF q = retired THEN [plans[q] EXCEPT !.status = "SUPERSEDED"]
            ELSE plans[q]]
    /\ steps' = [t \in Tasks |->
            IF t[1] = p /\ t[2] \in S
              THEN [status |-> "PENDING", agent |-> None, allocated |-> FALSE]
              ELSE steps[t]]
    /\ goals' = [goals EXCEPT ![g].plan = p, ![g].status = "ACTIVE"]
    /\ UNCHANGED <<agents, pools, stores>>

-----------------------------------------------------------------------------
(* The registrations. *)

RegisterAgent(a) ==
    /\ agents[a].status = "NONE"
    /\ agents' = [agents EXCEPT ![a].status = "AVAILABLE"]
    /\ UNCHANGED <<goals, plans, pools, steps, stores>>

SetAgentStatus(a, status) ==
    /\ agents[a].status # "NONE"
    /\ status = "RETIRED" => agents[a].tasks = {}
    /\ agents' = [agents EXCEPT ![a].status = status]
    /\ UNCHANGED <<goals, plans, pools, steps, stores>>

RegisterResourcePool(r) ==
    /\ ~pools[r].registered
    /\ pools' = [pools EXCEPT ![r].registered = TRUE, ![r].capacity = Capacity[r]]
    /\ UNCHANGED <<goals, plans, agents, steps, stores>>

-----------------------------------------------------------------------------
(* Goals and plans. *)

CreateGoal(g, deps, activate) ==
    /\ goals[g].status = "NONE"
    /\ \A d \in deps : goals[d].status # "NONE"
    /\ activate => Complete(deps)
    /\ goals' = [goals EXCEPT ![g] =
            [status |-> IF activate THEN "ACTIVE" ELSE "PROPOSED",
             dependencies |-> deps, plan |-> None]]
    /\ UNCHANGED <<plans, agents, pools, steps, stores>>

TransitionGoal(g, status) ==
    /\ goals[g].status # "NONE"
    /\ status \in Transitions[goals[g].status]
    /\ status = "ACTIVE" => Complete(goals[g].dependencies)
    /\ goals' = [goals EXCEPT ![g].status = status]
    /\ UNCHANGED <<plans, agents, pools, steps, stores>>

CreatePlan(p, g, S) == Build(p, g, S, None)

\* Mutant: steps in flight are not waited for.
ReplanAtOnce(old, p, S) ==
    /\ plans[old].status \in {"ACTIVE", "PAUSED", "NEEDS_REPLAN"}
    /\ Build(p, plans[old].goal, S, old)

Replan(old, p, S) ==
    /\ plans[old].status \in {"ACTIVE", "PAUSED", "NEEDS_REPLAN"}
    /\ \A s \in Steps : ~InFlight(<<old, s>>)
    /\ Build(p, plans[old].goal, S, old)

-----------------------------------------------------------------------------
(* Steps. *)

\* A step without requests is written again as it is, which changes nothing.
AllocateStepResources(t) ==
    /\ Dispatchable(t)
    /\ ~steps[t].allocated /\ Requesting(t) # {}
    /\ Fits(t)
    /\ pools' = Reserved(t)
    /\ steps' = [steps EXCEPT ![t].allocated = TRUE]
    /\ UNCHANGED <<goals, plans, agents, stores>>

\* resource_requests = resource_allocation
FullyAllocated(t) == Requesting(t) = {} \/ steps[t].allocated

AssignStep(t, a) ==
    /\ Dispatchable(t)
    /\ FullyAllocated(t)
    /\ CanTake(a, t)
    /\ steps' = [steps EXCEPT ![t] =
            [status |-> "ASSIGNED", agent |-> a, allocated |-> @.allocated]]
    /\ agents' = [agents EXCEPT ![a] = Loaded(a, @.tasks \cup {t})]
    /\ UNCHANGED <<goals, plans, pools, stores>>

\* Both of the above in one event.
DispatchStep(t, a) ==
    /\ Dispatchable(t)
    /\ ~steps[t].allocated
    /\ CanTake(a, t)
    /\ Fits(t)
    /\ pools' = Reserved(t)
    /\ steps' = [steps EXCEPT ![t] =
            [status |-> "ASSIGNED", agent |-> a, allocated |-> Requesting(t) # {}]]
    /\ agents' = [agents EXCEPT ![a] = Loaded(a, @.tasks \cup {t})]
    /\ UNCHANGED <<goals, plans, stores>>

StartStep(t) ==
    /\ steps[t].status = "ASSIGNED"
    /\ steps' = [steps EXCEPT ![t].status = "RUNNING"]
    /\ UNCHANGED <<goals, plans, agents, pools, stores>>

\* A step that failed or was cancelled: the plan has to be replaced and the
\* goal waits for that, whatever the status of either.
NeedsReplan(t) ==
    /\ plans' = [plans EXCEPT ![t[1]].status = "NEEDS_REPLAN"]
    /\ goals' = [goals EXCEPT ![GoalOf(t)].status = "BLOCKED"]

\* Mutant: a step that was cancelled is as good.
IsLastLeft(t) == \A s \in Steps \ {t[2]} :
    steps[Sibling(t, s)].status \in {"NONE", "SUCCEEDED", "CANCELLED"}

\* The other steps of the plan of t have succeeded.
IsLast(t) == \A s \in Steps \ {t[2]} :
    steps[Sibling(t, s)].status \in {"NONE", "SUCCEEDED"}

MayRecord(t, o) == o \notin outcomes /\ InFlight(t)

\* The write to the world; the handler goes on to the memory.
RecordStepOutcome(t, o, success) ==
    /\ MayRecord(t, o)
    /\ steps' = [steps EXCEPT ![t].status = IF success THEN "SUCCEEDED" ELSE "FAILED"]
    /\ pools' = Released(t, TRUE)
    /\ agents' = [agents EXCEPT ![steps[t].agent] = Unloaded(steps[t].agent, t)]
    /\ \/ ~success /\ NeedsReplan(t)
       \/ /\ success /\ IsLast(t)
          /\ plans' = [plans EXCEPT ![t[1]].status = "COMPLETED"]
          /\ goals' = [goals EXCEPT ![GoalOf(t)].status = "COMPLETED"]
       \/ success /\ ~IsLast(t) /\ UNCHANGED <<plans, goals>>
    /\ RecordOutcome(o)

CancelStep(t) ==
    /\ Registered(t) /\ ~Terminal(t)
    /\ steps' = [steps EXCEPT ![t].status = "CANCELLED", ![t].allocated = FALSE]
    /\ pools' = Released(t, FALSE)
    /\ agents' = IF steps[t].agent = None THEN agents
                 ELSE [agents EXCEPT ![steps[t].agent] = Unloaded(steps[t].agent, t)]
    /\ NeedsReplan(t)
    /\ UNCHANGED stores

-----------------------------------------------------------------------------

Init ==
    /\ goals = [g \in Goals |-> [status |-> "NONE", dependencies |-> {}, plan |-> None]]
    /\ plans = [p \in Plans |-> [status |-> "NONE", goal |-> None]]
    /\ agents = [a \in Agents |-> [status |-> "NONE", tasks |-> {}]]
    /\ pools = [r \in Pools |-> [registered |-> FALSE, capacity |-> 0, allocated |-> 0,
                                 allocations |-> [t \in Tasks |-> 0]]]
    /\ steps = [t \in Tasks |-> [status |-> "NONE", agent |-> None, allocated |-> FALSE]]
    /\ StoresInit

RegisterNext ==
    \/ \E a \in Agents : RegisterAgent(a) \/ \E status \in Settable : SetAgentStatus(a, status)
    \/ \E r \in Pools : RegisterResourcePool(r)

PlanNext ==
    \/ \E g \in Goals :
        \/ \E deps \in SUBSET Goals, activate \in BOOLEAN : CreateGoal(g, deps, activate)
        \/ \E status \in GoalStatuses : TransitionGoal(g, status)
    \/ \E p \in Plans, S \in SUBSET Steps :
        \/ \E g \in Goals : CreatePlan(p, g, S)
        \/ \E old \in Plans : Replan(old, p, S)

StepNext == \E t \in Tasks :
    \/ AllocateStepResources(t) \/ StartStep(t) \/ CancelStep(t)
    \/ \E a \in Agents : AssignStep(t, a) \/ DispatchStep(t, a)
    \/ \E o \in Outcomes, success \in BOOLEAN : RecordStepOutcome(t, o, success)

LinkNext == LinkStep /\ UNCHANGED work

Next == RegisterNext \/ PlanNext \/ StepNext \/ LinkNext

Spec == Init /\ [][Next]_vars

-----------------------------------------------------------------------------
(* Properties. *)

PlanStatuses == {"NONE", "ACTIVE", "SUPERSEDED", "NEEDS_REPLAN", "COMPLETED"}
StepStatuses ==
    {"NONE", "PENDING", "ASSIGNED", "RUNNING", "SUCCEEDED", "FAILED", "CANCELLED"}

GoalRecords == [status : GoalStatuses \cup {"NONE"}, dependencies : SUBSET Goals,
                plan : Plans \cup {None}]
PlanRecords == [status : PlanStatuses, goal : Goals \cup {None}]
AgentRecords == [status : AgentStatuses \cup {"NONE"}, tasks : SUBSET Tasks]
PoolRecords == [registered : BOOLEAN, capacity : Nat, allocated : Nat,
                allocations : [Tasks -> Nat]]
StepRecords == [status : StepStatuses, agent : Agents \cup {None}, allocated : BOOLEAN]

\* The types of the operational state.
TypeOK ==
    /\ goals \in [Goals -> GoalRecords]
    /\ plans \in [Plans -> PlanRecords]
    /\ agents \in [Agents -> AgentRecords]
    /\ pools \in [Pools -> PoolRecords]
    /\ steps \in [Tasks -> StepRecords]
    /\ StoresTypeOK

\* An ACTIVE plan always has a step to dispatch or a step in flight, so it can
\* always go on; a superseded plan has none in flight.
NoPlanIsStuck == \A p \in Plans :
    /\ plans[p].status = "ACTIVE" => \E s \in Steps :
            InFlight(<<p, s>>) \/ Dispatchable(<<p, s>>)
    /\ plans[p].status = "SUPERSEDED" => \A s \in Steps : ~InFlight(<<p, s>>)

\* A plan is COMPLETED exactly when all its steps have succeeded, and a step
\* that was given to an agent had its dependencies done, whatever was cancelled,
\* failed or replanned since.
CompletedExactlyWhenDone ==
    /\ \A p \in Plans : plans[p].status = "COMPLETED" <=>
            /\ plans[p].status # "NONE"
            /\ \A s \in Steps : steps[<<p, s>>].status \in {"NONE", "SUCCEEDED"}
    /\ \A t \in Tasks : InFlight(t) \/ steps[t].status \in {"SUCCEEDED", "FAILED"} => Ready(t)

\* The active tasks of an agent are its steps in flight, no more than it can take;
\* a RETIRED agent has none (record_step_outcome and cancel_step take them away
\* wherever the agent's status went meanwhile).
AgentLoad == \A a \in Agents :
    /\ agents[a].tasks = {t \in Tasks : InFlight(t) /\ steps[t].agent = a}
    /\ Cardinality(agents[a].tasks) <= MaxConcurrent[a]
    /\ agents[a].status = "RETIRED" => agents[a].tasks = {}

\* A pool lists what each unfinished step has been allocated, nothing for a
\* finished one, and is never over-allocated (monitor's RESOURCE_OVERALLOCATED).
PoolsCover == \A r \in Pools :
    /\ pools[r].allocated <= pools[r].capacity
    /\ \A t \in Tasks : pools[r].allocations[t] =
            IF steps[t].allocated /\ ~Terminal(t) THEN Requests[t[2]][r] ELSE 0

\* The active plan of a goal is a plan for this goal that was not superseded, also
\* when several plans were made for it and an older one is replaced.
CurrentPlanLives == \A g \in Goals : goals[g].plan # None =>
    /\ plans[goals[g].plan].goal = g
    /\ plans[goals[g].plan].status # "SUPERSEDED"

Finishes(t) == ~Terminal(t) /\ Terminal(t)'

\* A handler changes the status of a goal along GOAL_TRANSITIONS; only a step that ends,
\* of a plan for this goal, takes it elsewhere, to BLOCKED or COMPLETED.  (A restore or
\* an event appended directly takes it anywhere.)
GoalMovesAreExplained == [][\A g \in Goals :
    LET from == goals[g].status
        to == goals'[g].status IN
    \/ from = to
    \/ from = "NONE" /\ to \in {"PROPOSED", "ACTIVE"}
    \/ from # "NONE" /\ to \in Transitions[from]
    \/ to \in {"BLOCKED", "COMPLETED"} /\ \E t \in Tasks : Finishes(t) /\ GoalOf(t) = g]_vars

\* docs/architecture/operations-loop.md: "the same identifiers can be retried
\* after an interrupted world/memory link".  record_step_outcome refuses an
\* outcome the world already has.
InterruptedCanBeRetried ==
    \A o \in (Outcomes \cap interrupted) \ episodes : \E t \in Tasks : MayRecord(t, o)

Ledger == INSTANCE ResourceLedger WITH
    Needs <- [t \in Tasks |-> Requests[t[2]]],
    stock <- [r \in Pools |-> pools[r].capacity],
    holding <- [t \in Tasks |-> [r \in Pools |-> pools[r].allocations[t]]]

\* allocated and allocations, which every transaction writes side by side, agree.
AllocatedIsHeld == \A r \in Pools : pools[r].allocated = Ledger!Held(r)

\* The handlers keep what the operations document promises of the resource pools.  (A
\* restore gives a pool what it had at that version, used up or not.)
ImplementsLedger == Ledger!Spec
=============================================================================
