--------------------------- MODULE Operations_proofs ---------------------------
(***************************************************************************)
(* Proofs about Operations and WorldMemory, for any goals, plans, steps,   *)
(* agents, pools, outcomes and observations.  What the properties need     *)
(* beside each other: the shape of a plan (its steps are closed under      *)
(* dependencies and without a cycle, none of them failed or cancelled      *)
(* while it is ACTIVE), and the agent of a step.                           *)
(* Each part of the invariant is preserved by the actions that write what  *)
(* it speaks of, and stands for itself otherwise.                          *)
(***************************************************************************)
EXTENDS Operations, FiniteSetTheorems, TLAPS

NewStep == [status |-> "PENDING", agent |-> None, allocated |-> FALSE]

-----------------------------------------------------------------------------
(* The two stores, whoever writes them.  Of what no appended event touched, *)
(* what the world has or had is remembered unless its handler is at work or *)
(* was interrupted, and the other way round.                                *)

StoresInv ==
    /\ StoresTypeOK
    /\ \A o \in Outcomes \ edited :
        /\ o \in outcomes \cup restored => o \in episodes \cup linking \cup interrupted
        /\ o \in episodes => o \in outcomes \cup restored \cup written
        /\ o \in linking => o \in outcomes \cup restored
    /\ \A x \in Observations \ edited :
        /\ x \in observations \cup restored \cup linking => x \in episodes
        /\ x \in episodes =>
               x \in observations \cup linking \cup interrupted \cup restored \cup written

LEMMA StoresType ==
    ASSUME StoresTypeOK, StoresNext PROVE StoresTypeOK'
<1> USE DEF StoresTypeOK, Identities, history
<1>1. ASSUME NEW o \in Outcomes, RecordOutcome(o) \/ RememberOutcome(o) \/ RefuseOutcome(o)
      PROVE  StoresTypeOK'
  BY <1>1 DEF RecordOutcome, RememberOutcome, RefuseOutcome
<1>2. ASSUME NEW x \in Observations, IngestObservation(x) \/ AppendObservation(x)
      PROVE  StoresTypeOK'
  BY <1>2 DEF IngestObservation, AppendObservation
<1>3. ASSUME NEW i \in Identities, Interrupt(i) \/ RecordMemory(i) PROVE StoresTypeOK'
  BY <1>3 DEF Interrupt, RecordMemory
<1>4. ASSUME NEW O \in SUBSET Outcomes, NEW X \in SUBSET Observations,
             RestoreVersion(O, X) \/ AppendEvent(O, X)
      PROVE  StoresTypeOK'
  BY <1>4 DEF RestoreVersion, AppendEvent
<1> QED BY <1>1, <1>2, <1>3, <1>4 DEF StoresNext, LinkStep

LEMMA StoresStep ==
    ASSUME StoresInv, [StoresNext]_stores PROVE StoresInv'
<1>0. \A i : i \in Outcomes => i \notin Observations BY WorldMemoryAssumption
<1>1. CASE UNCHANGED stores BY <1>1 DEF stores, StoresInv, StoresTypeOK
<1>2. CASE StoresNext
  <2>0. StoresTypeOK' BY <1>2, StoresType DEF StoresInv
  <2>1. ASSUME NEW o \in Outcomes, RecordOutcome(o) PROVE StoresInv'
    BY <1>0, <2>0, <2>1 DEF RecordOutcome, history, StoresInv
  <2>2. ASSUME NEW o \in Outcomes, RememberOutcome(o) PROVE StoresInv'
    BY <1>0, <2>0, <2>2 DEF RememberOutcome, history, StoresInv
  <2>3. ASSUME NEW o \in Outcomes, RefuseOutcome(o) PROVE StoresInv'
    BY <1>0, <2>0, <2>3 DEF RefuseOutcome, history, StoresInv
  <2>4. ASSUME NEW x \in Observations, IngestObservation(x) PROVE StoresInv'
    BY <1>0, <2>0, <2>4 DEF IngestObservation, history, StoresInv
  <2>5. ASSUME NEW x \in Observations, AppendObservation(x) PROVE StoresInv'
    BY <1>0, <2>0, <2>5 DEF AppendObservation, history, StoresInv
  <2>6. ASSUME NEW i \in Identities, Interrupt(i) PROVE StoresInv'
    BY <1>0, <2>0, <2>6 DEF Interrupt, StoresInv
  <2>7. ASSUME NEW i \in Identities, RecordMemory(i) PROVE StoresInv'
    BY <1>0, <2>0, <2>7 DEF RecordMemory, StoresInv
  <2>8. ASSUME NEW O \in SUBSET Outcomes, NEW X \in SUBSET Observations, RestoreVersion(O, X)
        PROVE  StoresInv'
    BY <1>0, <2>0, <2>8 DEF RestoreVersion, StoresInv, StoresTypeOK
  <2>9. ASSUME NEW O \in SUBSET Outcomes, NEW X \in SUBSET Observations, AppendEvent(O, X)
        PROVE  StoresInv'
    BY <1>0, <2>0, <2>9 DEF AppendEvent, StoresInv, StoresTypeOK
  <2> QED BY <1>2, <2>1, <2>2, <2>3, <2>4, <2>5, <2>6, <2>7, <2>8, <2>9
          DEF StoresNext, LinkStep
<1> QED BY <1>1, <1>2

-----------------------------------------------------------------------------
(* Types. *)

\* Tasks are pairs.
LEMMA TaskParts ==
    /\ \A t \in Tasks : t[1] \in Plans /\ t[2] \in Steps /\ t = <<t[1], t[2]>>
    /\ \A p \in Plans, s \in Steps : <<p, s>> \in Tasks
BY DEF Tasks

\* A record of a goal, a plan or a step stays one when its fields change.
LEMMA GoalRecord ==
    ASSUME NEW x \in GoalRecords, NEW status \in GoalStatuses
    PROVE  /\ [x EXCEPT !.status = status] \in GoalRecords
           /\ \A p \in Plans : [x EXCEPT !.plan = p, !.status = status] \in GoalRecords
BY DEF GoalRecords

LEMMA AgentRecord ==
    ASSUME NEW x \in AgentRecords, NEW status \in AgentStatuses
    PROVE  [x EXCEPT !.status = status] \in AgentRecords
BY DEF AgentRecords

LEMMA PlanRecord ==
    ASSUME NEW x \in PlanRecords, NEW status \in PlanStatuses
    PROVE  [x EXCEPT !.status = status] \in PlanRecords
BY DEF PlanRecords

LEMMA StepRecord ==
    ASSUME NEW x \in StepRecords, NEW status \in StepStatuses, NEW a \in Agents,
           NEW b \in BOOLEAN
    PROVE  /\ [x EXCEPT !.status = status] \in StepRecords
           /\ [x EXCEPT !.allocated = b] \in StepRecords
           /\ [x EXCEPT !.status = status, !.agent = a] \in StepRecords
           /\ [x EXCEPT !.status = status, !.allocated = b] \in StepRecords
           /\ [status |-> status, agent |-> a, allocated |-> b] \in StepRecords
           /\ NewStep \in StepRecords
BY DEF StepRecords, NewStep, StepStatuses

LEMMA Statuses ==
    /\ {"ACTIVE", "SUPERSEDED", "NEEDS_REPLAN", "COMPLETED"} \subseteq PlanStatuses
    /\ {"ACTIVE", "BLOCKED", "COMPLETED"} \subseteq GoalStatuses
    /\ {"PENDING", "ASSIGNED", "RUNNING", "SUCCEEDED", "FAILED", "CANCELLED"} \subseteq StepStatuses
BY DEF PlanStatuses, GoalStatuses, StepStatuses

LEMMA InitType == OperationsAssumption /\ Init => TypeOK
BY DEF OperationsAssumption, Init, StoresInit, TypeOK, StoresTypeOK, Tasks, StepStatuses,
       PlanStatuses, GoalRecords, PlanRecords, AgentRecords, PoolRecords, StepRecords

\* A plan has a goal.
PlanGoals == \A p \in Plans :
    plans[p].goal # None <=> plans[p].status # "NONE"

\* A step in flight has an agent, one that is pending none.
StepAgents == \A t \in Tasks :
    /\ InFlight(t) => steps[t].agent \in Agents
    /\ steps[t].status \in {"NONE", "PENDING"} => steps[t].agent = None

LEMMA BuildType ==
    ASSUME TypeOK, NEW p \in Plans, NEW g \in Goals, NEW S, NEW retired,
           Build(p, g, S, retired)
    PROVE  TypeOK'
<1>1. plans' \in [Plans -> PlanRecords]
  <2>1. [status |-> "ACTIVE", goal |-> g] \in PlanRecords BY Statuses DEF PlanRecords
  <2> QED BY <2>1, PlanRecord, Statuses DEF Build, TypeOK
<1>2. steps' \in [Tasks -> StepRecords]
  <2>1. NewStep \in StepRecords BY DEF NewStep, StepRecords, StepStatuses
  <2> QED BY <2>1 DEF Build, TypeOK, NewStep
<1>3. goals' \in [Goals -> GoalRecords]
  BY GoalRecord, Statuses DEF Build, TypeOK
<1> QED BY <1>1, <1>2, <1>3 DEF Build, TypeOK, StoresTypeOK, stores

LEMMA GoalMoves ==
    ASSUME TypeOK, NEW g, NEW status \in GoalStatuses
    PROVE  [goals EXCEPT ![g].status = status] \in [Goals -> GoalRecords]
<1>1. goals \in [Goals -> GoalRecords] BY DEF TypeOK
<1>2. \A h \in Goals : [goals[h] EXCEPT !.status = status] \in GoalRecords
  BY <1>1, GoalRecord
<1>3. [goals EXCEPT ![g].status = status] = [h \in Goals |->
          IF h = g THEN [goals[h] EXCEPT !.status = status] ELSE goals[h]]
  BY <1>1
<1> QED BY <1>1, <1>2, <1>3

LEMMA RegisterType ==
    ASSUME OperationsAssumption, TypeOK, RegisterNext PROVE TypeOK'
<1>1. ASSUME NEW a \in Agents, RegisterAgent(a) PROVE TypeOK'
  <2>1. agents' \in [Agents -> AgentRecords]
    BY <1>1, AgentRecord DEF RegisterAgent, TypeOK, AgentStatuses
  <2> QED BY <1>1, <2>1 DEF RegisterAgent, TypeOK, StoresTypeOK, stores
<1>2. ASSUME NEW a \in Agents, NEW status \in Settable, SetAgentStatus(a, status)
      PROVE  TypeOK'
  <2>1. status \in AgentStatuses BY DEF OperationsAssumption, AgentStatuses
  <2>2. agents' \in [Agents -> AgentRecords]
    <3>1. agents \in [Agents -> AgentRecords] BY DEF TypeOK
    <3>2. [agents[a] EXCEPT !.status = status] \in AgentRecords BY <2>1, <3>1, AgentRecord
    <3>3. agents' = [agents EXCEPT ![a].status = status] BY <1>2 DEF SetAgentStatus
    <3>4. agents' = [b \in Agents |->
              IF b = a THEN [agents[a] EXCEPT !.status = status] ELSE agents[b]]
      BY <3>1, <3>3
    <3> QED BY <3>1, <3>2, <3>4
  <2> QED BY <1>2, <2>2 DEF SetAgentStatus, TypeOK, StoresTypeOK, stores
<1>3. ASSUME NEW r \in Pools, RegisterResourcePool(r) PROVE TypeOK'
  <2>1. Capacity[r] \in Nat BY DEF OperationsAssumption
  <2>2. [pools[r] EXCEPT !.registered = TRUE, !.capacity = Capacity[r]] \in PoolRecords
    <3>1. pools[r] \in PoolRecords BY DEF TypeOK
    <3> QED BY <2>1, <3>1 DEF PoolRecords
  <2>3. pools' \in [Pools -> PoolRecords]
    BY <1>3, <2>2 DEF RegisterResourcePool, TypeOK
  <2> QED BY <1>3, <2>3 DEF RegisterResourcePool, TypeOK, StoresTypeOK, stores
<1> QED BY <1>1, <1>2, <1>3 DEF RegisterNext

LEMMA PlanType ==
    ASSUME OperationsAssumption, TypeOK, PlanGoals, PlanNext PROVE TypeOK'
<1>1. ASSUME NEW g \in Goals, NEW deps \in SUBSET Goals, NEW activate \in BOOLEAN,
             CreateGoal(g, deps, activate)
      PROVE  TypeOK'
  <2>1. goals' \in [Goals -> GoalRecords]
    BY <1>1 DEF CreateGoal, TypeOK, GoalRecords, GoalStatuses
  <2> QED BY <1>1, <2>1 DEF CreateGoal, TypeOK, StoresTypeOK, stores
<1>2. ASSUME NEW g \in Goals, NEW status \in GoalStatuses, TransitionGoal(g, status)
      PROVE  TypeOK'
  <2>1. goals' \in [Goals -> GoalRecords]
    BY <1>2, GoalMoves DEF TransitionGoal
  <2> QED BY <1>2, <2>1 DEF TransitionGoal, TypeOK, StoresTypeOK, stores
<1>3. ASSUME NEW p \in Plans, NEW S \in SUBSET Steps, NEW g \in Goals, CreatePlan(p, g, S)
      PROVE  TypeOK'
  BY <1>3, BuildType DEF CreatePlan
<1>4. ASSUME NEW p \in Plans, NEW S \in SUBSET Steps, NEW old \in Plans, Replan(old, p, S)
      PROVE  TypeOK'
  <2>1. plans[old].goal \in Goals BY <1>4 DEF Replan, PlanGoals, TypeOK, PlanRecords
  <2> QED BY <1>4, <2>1, BuildType DEF Replan
<1> QED BY <1>1, <1>2, <1>3, <1>4 DEF PlanNext

LEMMA PoolReserved ==
    ASSUME NEW x \in PoolRecords, NEW t \in Tasks, NEW n \in Nat
    PROVE  [x EXCEPT !.allocated = @ + n, !.allocations = [@ EXCEPT ![t] = n]] \in PoolRecords
<1>1. x.allocations \in [Tasks -> Nat] BY DEF PoolRecords
<1>2. [x.allocations EXCEPT ![t] = n] \in [Tasks -> Nat] BY <1>1
<1>3. x.allocated + n \in Nat BY DEF PoolRecords
<1> QED BY <1>2, <1>3 DEF PoolRecords

\* A reservation and a release keep the types of the pools.
LEMMA ReservedType ==
    ASSUME OperationsAssumption, TypeOK, NEW t \in Tasks
    PROVE  Reserved(t) \in [Pools -> PoolRecords]
<1>1. \A r \in Pools : Requests[t[2]][r] \in Nat
  BY TaskParts DEF OperationsAssumption
<1> QED BY <1>1, PoolReserved DEF Reserved, TypeOK

LEMMA ReleasedType ==
    ASSUME OperationsAssumption, TypeOK, NEW t \in Tasks, NEW used \in BOOLEAN
    PROVE  Released(t, used) \in [Pools -> PoolRecords]
<1>1. \A r \in Pools : Requests[t[2]][r] \in Nat
  BY TaskParts DEF OperationsAssumption
<1>2. \A m, n \in Nat : AtLeastZero(m - n) \in Nat
  BY DEF AtLeastZero
<1>3. ASSUME NEW x \in PoolRecords, NEW n \in Nat, NEW b \in BOOLEAN
      PROVE  [x EXCEPT !.allocated = AtLeastZero(@ - n),
                       !.capacity = IF b THEN AtLeastZero(@ - n) ELSE @,
                       !.allocations = [@ EXCEPT ![t] = 0]] \in PoolRecords
  <2>1. x.allocations \in [Tasks -> Nat] BY DEF PoolRecords
  <2>2. [x.allocations EXCEPT ![t] = 0] \in [Tasks -> Nat] BY <2>1
  <2>3. /\ AtLeastZero(x.allocated - n) \in Nat
        /\ (IF b THEN AtLeastZero(x.capacity - n) ELSE x.capacity) \in Nat
    BY <1>2 DEF PoolRecords
  <2> QED BY <2>2, <2>3 DEF PoolRecords
<1> QED BY <1>1, <1>3 DEF Released, TypeOK

LEMMA LoadedType ==
    ASSUME TypeOK, NEW t \in Tasks, NEW a \in Agents
    PROVE  /\ Loaded(a, agents[a].tasks \cup {t}) \in AgentRecords
           /\ Unloaded(a, t) \in AgentRecords
<1>1. agents[a] \in AgentRecords BY DEF TypeOK
<1> QED BY <1>1 DEF Loaded, Unloaded, AgentStatuses, AgentRecords

LEMMA NeedsReplanType ==
    ASSUME TypeOK, NEW t \in Tasks, NeedsReplan(t)
    PROVE  plans' \in [Plans -> PlanRecords] /\ goals' \in [Goals -> GoalRecords]
<1>1. plans' \in [Plans -> PlanRecords] BY PlanRecord, Statuses DEF TypeOK, NeedsReplan
<1>2. goals' \in [Goals -> GoalRecords]
  BY GoalMoves, Statuses DEF NeedsReplan
<1> QED BY <1>1, <1>2

LEMMA StepType ==
    ASSUME OperationsAssumption, TypeOK, StepAgents, StepNext PROVE TypeOK'
<1> PICK t \in Tasks :
        \/ AllocateStepResources(t) \/ StartStep(t) \/ CancelStep(t)
        \/ \E a \in Agents : AssignStep(t, a) \/ DispatchStep(t, a)
        \/ \E o \in Outcomes, success \in BOOLEAN : RecordStepOutcome(t, o, success)
  BY DEF StepNext
<1>0. steps[t] \in StepRecords BY DEF TypeOK
<1>1. CASE AllocateStepResources(t)
  <2>1. steps' \in [Tasks -> StepRecords]
    BY <1>1, <1>0 DEF AllocateStepResources, TypeOK, StepRecords
  <2> QED BY <1>1, <2>1, ReservedType DEF AllocateStepResources, TypeOK, StoresTypeOK, stores
<1>2. CASE StartStep(t)
  <2>1. steps' \in [Tasks -> StepRecords]
    BY <1>2, <1>0, Statuses DEF StartStep, TypeOK, StepRecords
  <2> QED BY <1>2, <2>1 DEF StartStep, TypeOK, StoresTypeOK, stores
<1>3. ASSUME NEW a \in Agents, AssignStep(t, a) PROVE TypeOK'
  <2>1. steps' \in [Tasks -> StepRecords]
    BY <1>3, <1>0, Statuses DEF AssignStep, TypeOK, StepRecords
  <2>2. agents' \in [Agents -> AgentRecords]
    BY <1>3, LoadedType DEF AssignStep, TypeOK
  <2> QED BY <1>3, <2>1, <2>2 DEF AssignStep, TypeOK, StoresTypeOK, stores
<1>4. ASSUME NEW a \in Agents, DispatchStep(t, a) PROVE TypeOK'
  <2>1. steps' \in [Tasks -> StepRecords]
    BY <1>4, <1>0, Statuses DEF DispatchStep, TypeOK, StepRecords
  <2>2. agents' \in [Agents -> AgentRecords]
    BY <1>4, LoadedType DEF DispatchStep, TypeOK
  <2> QED BY <1>4, <2>1, <2>2, ReservedType DEF DispatchStep, TypeOK, StoresTypeOK, stores
<1>5. CASE CancelStep(t)
  <2>1. steps' \in [Tasks -> StepRecords]
    BY <1>5, <1>0, Statuses DEF CancelStep, TypeOK, StepRecords
  <2>2. agents' \in [Agents -> AgentRecords]
    BY <1>5, LoadedType DEF CancelStep, TypeOK
  <2>3. pools' \in [Pools -> PoolRecords]
    BY <1>5, ReleasedType DEF CancelStep
  <2>4. plans' \in [Plans -> PlanRecords] /\ goals' \in [Goals -> GoalRecords]
    BY <1>5, NeedsReplanType DEF CancelStep
  <2> QED BY <1>5, <2>1, <2>2, <2>3, <2>4 DEF CancelStep, TypeOK, StoresTypeOK, stores
<1>6. ASSUME NEW o \in Outcomes, NEW success \in BOOLEAN, RecordStepOutcome(t, o, success)
      PROVE  TypeOK'
  <2>1. steps' \in [Tasks -> StepRecords]
    BY <1>6, <1>0, Statuses DEF RecordStepOutcome, TypeOK, StepRecords
  <2>2. agents' \in [Agents -> AgentRecords]
    BY <1>6, LoadedType DEF RecordStepOutcome, MayRecord, StepAgents, TypeOK
  <2>3. pools' \in [Pools -> PoolRecords]
    BY <1>6, ReleasedType DEF RecordStepOutcome
  <2>4. plans' \in [Plans -> PlanRecords] /\ goals' \in [Goals -> GoalRecords]
    <3>1. CASE ~success /\ NeedsReplan(t) BY <3>1, NeedsReplanType
    <3>2. CASE /\ plans' = [plans EXCEPT ![t[1]].status = "COMPLETED"]
               /\ goals' = [goals EXCEPT ![GoalOf(t)].status = "COMPLETED"]
      <4>1. plans' \in [Plans -> PlanRecords] BY <3>2, PlanRecord, Statuses DEF TypeOK
      <4>2. goals' \in [Goals -> GoalRecords]
        BY <3>2, GoalMoves, Statuses
      <4> QED BY <4>1, <4>2
    <3>3. CASE UNCHANGED <<plans, goals>> BY <3>3 DEF TypeOK
    <3> QED BY <1>6, <3>1, <3>2, <3>3 DEF RecordStepOutcome
  <2>5. StoresTypeOK' BY <1>6, StoresType DEF RecordStepOutcome, StoresNext, TypeOK
  <2> QED BY <2>1, <2>2, <2>3, <2>4, <2>5 DEF TypeOK
<1> QED BY <1>1, <1>2, <1>3, <1>4, <1>5, <1>6

LEMMA LinkType ==
    ASSUME TypeOK, LinkNext PROVE TypeOK'
<1>1. StoresTypeOK' BY StoresType DEF LinkNext, StoresNext, TypeOK
<1> QED BY <1>1 DEF LinkNext, work, TypeOK

-----------------------------------------------------------------------------
(* Plans.  What makes a plan sound depends on its status and on the        *)
(* statuses of its steps alone.                                            *)

Done(st, s) == \A d \in DependsOn[s] : st[d] = "SUCCEEDED"

Sound(status, st) ==
    /\ status = "NONE" => \A s \in Steps : st[s] = "NONE"
    /\ \A s \in Steps : st[s] # "NONE" => \A d \in DependsOn[s] : st[d] # "NONE"
    /\ Acyclic({s \in Steps : st[s] # "NONE"})
    /\ status = "ACTIVE" => \A s \in Steps : st[s] \notin {"FAILED", "CANCELLED"}
    /\ status = "SUPERSEDED" => \A s \in Steps : st[s] \notin {"ASSIGNED", "RUNNING"}
    /\ status = "COMPLETED" <=>
            status # "NONE" /\ \A s \in Steps : st[s] \in {"NONE", "SUCCEEDED"}
    /\ \A s \in Steps :
            st[s] \in {"ASSIGNED", "RUNNING", "SUCCEEDED", "FAILED"} => Done(st, s)

StatusesOf(p) == [s \in Steps |-> steps[<<p, s>>].status]

PlansSound == \A p \in Plans : Sound(plans[p].status, StatusesOf(p))

\* A new plan.
LEMMA SoundNew ==
    ASSUME OperationsAssumption, NEW S \in SUBSET Steps, S # {}, Acyclic(S),
           \A s \in S : DependsOn[s] \subseteq S
    PROVE  Sound("ACTIVE", [s \in Steps |-> IF s \in S THEN "PENDING" ELSE "NONE"])
<1> DEFINE st == [s \in Steps |-> IF s \in S THEN "PENDING" ELSE "NONE"]
<1>1. {s \in Steps : st[s] # "NONE"} = S OBVIOUS
<1>2. \A s \in Steps : st[s] # "NONE" => \A d \in DependsOn[s] : st[d] # "NONE"
  BY DEF OperationsAssumption
<1>3. \E s \in Steps : st[s] = "PENDING" OBVIOUS
<1>4. \A s \in Steps : st[s] \in {"PENDING", "NONE"} OBVIOUS
<1> HIDE DEF st
<1>5. Acyclic({s \in Steps : st[s] # "NONE"}) BY <1>1
<1>6. Sound("ACTIVE", st) BY <1>2, <1>3, <1>4, <1>5 DEF Sound
<1> QED BY <1>6 DEF st

\* A plan that is replaced.
LEMMA SoundSuperseded ==
    ASSUME NEW status, NEW st, Sound(status, st),
           status \in {"ACTIVE", "PAUSED", "NEEDS_REPLAN"},
           \A s \in Steps : st[s] \notin {"ASSIGNED", "RUNNING"}
    PROVE  Sound("SUPERSEDED", st)
BY DEF Sound

\* A step that goes on, succeeds, fails or is cancelled; status is what its plan
\* becomes.
LEMMA SoundStep ==
    ASSUME OperationsAssumption, NEW old, NEW status, NEW st \in [Steps -> StepStatuses],
           NEW s \in Steps, NEW new,
           Sound(old, st),
           st[s] \in {"PENDING", "ASSIGNED", "RUNNING"},
           \/ /\ status = old /\ new \in {"ASSIGNED", "RUNNING"}
              /\ \/ old = "ACTIVE" /\ Done(st, s)
                 \/ st[s] = "ASSIGNED"
           \/ status = "NEEDS_REPLAN" /\ new = "FAILED" /\ st[s] # "PENDING"
           \/ status = "NEEDS_REPLAN" /\ new = "CANCELLED"
           \/ /\ new = "SUCCEEDED" /\ st[s] # "PENDING"
              /\ status = IF \A u \in Steps \ {s} : st[u] \in {"NONE", "SUCCEEDED"}
                            THEN "COMPLETED" ELSE old
    PROVE  Sound(status, [st EXCEPT ![s] = new])
<1> DEFINE st2 == [st EXCEPT ![s] = new]
<1>0. /\ st2[s] = new /\ new # "NONE"
      /\ \A u \in Steps : u # s => st2[u] = st[u]
  OBVIOUS
<1>1. old # "NONE" BY DEF Sound
<1>2. old # "COMPLETED" BY DEF Sound
<1>3. \A u \in Steps : st[u] # "NONE" <=> st2[u] # "NONE" BY <1>0
<1>4. Done(st, s) \/ new = "CANCELLED" BY DEF Sound
<1>5. \A u \in Steps : st[u] = "SUCCEEDED" => st2[u] = "SUCCEEDED" BY <1>0
<1>6. \A u \in Steps : Done(st, u) => Done(st2, u)
  BY <1>5 DEF Done, OperationsAssumption
<1> HIDE DEF st2
<1>7. \A u \in Steps : st2[u] # "NONE" => \A d \in DependsOn[u] : st2[d] # "NONE"
  BY <1>3 DEF Sound, OperationsAssumption
<1>8. {u \in Steps : st2[u] # "NONE"} = {u \in Steps : st[u] # "NONE"} BY <1>3
<1>9. Acyclic({u \in Steps : st2[u] # "NONE"}) BY <1>8 DEF Sound
<1>10. status = "ACTIVE" => \A u \in Steps : st2[u] \notin {"FAILED", "CANCELLED"}
  BY <1>0 DEF Sound
<1>11. status = "SUPERSEDED" => \A u \in Steps : st2[u] \notin {"ASSIGNED", "RUNNING"}
  BY <1>0 DEF Sound
<1>12. status = "COMPLETED" <=>
            status # "NONE" /\ \A u \in Steps : st2[u] \in {"NONE", "SUCCEEDED"}
  BY <1>0, <1>1, <1>2
<1>13. \A u \in Steps :
            st2[u] \in {"ASSIGNED", "RUNNING", "SUCCEEDED", "FAILED"} => Done(st2, u)
  <2> SUFFICES ASSUME NEW u \in Steps,
                      st2[u] \in {"ASSIGNED", "RUNNING", "SUCCEEDED", "FAILED"}
               PROVE  Done(st, u)
    BY <1>6
  <2>1. CASE u = s BY <2>1, <1>0, <1>4
  <2>2. CASE u # s BY <2>2, <1>0 DEF Sound
  <2> QED BY <2>1, <2>2
<1>14. status # "NONE" BY <1>1
<1>15. Sound(status, st2) BY <1>7, <1>9, <1>10, <1>11, <1>12, <1>13, <1>14 DEF Sound
<1> QED BY <1>15 DEF st2

\* A sound ACTIVE plan has a step to go on with: the first, in the order of the
\* dependencies, of those that have not succeeded.
LEMMA SoundGoesOn ==
    ASSUME OperationsAssumption, NEW st \in [Steps -> StepStatuses], Sound("ACTIVE", st)
    PROVE  \E s \in Steps : \/ st[s] \in {"ASSIGNED", "RUNNING"}
                            \/ st[s] = "PENDING" /\ Done(st, s)
<1> DEFINE T == {s \in Steps : st[s] \notin {"NONE", "SUCCEEDED"}}
<1>0. ~\A s \in Steps : st[s] \in {"NONE", "SUCCEEDED"}
  <2> DEFINE all == \A s \in Steps : st[s] \in {"NONE", "SUCCEEDED"}
  <2>1. "ACTIVE" = "COMPLETED" <=> "ACTIVE" # "NONE" /\ all BY DEF Sound
  <2> HIDE DEF all
  <2>2. ~all BY <2>1
  <2> QED BY <2>2 DEF all
<1>1. T # {} BY <1>0
<1>9. T \subseteq {s \in Steps : st[s] # "NONE"} OBVIOUS
<1>2. T \in (SUBSET {s \in Steps : st[s] # "NONE"}) \ {{}}
  <2> HIDE DEF T
  <2> QED BY <1>1, <1>9
<1>7. Acyclic({s \in Steps : st[s] # "NONE"}) BY DEF Sound
<1>8. \E s \in T : DependsOn[s] \cap T = {}
  <2> HIDE DEF T
  <2> QED BY <1>2, <1>7 DEF Acyclic
<1>3. PICK s \in T : DependsOn[s] \cap T = {} BY <1>8
<1>4. \A d \in DependsOn[s] : d \in Steps /\ st[d] # "NONE"
  BY <1>3 DEF Sound, OperationsAssumption
<1>5. Done(st, s) BY <1>3, <1>4 DEF Done
<1>6. st[s] \in {"PENDING", "ASSIGNED", "RUNNING"} BY DEF Sound, StepStatuses
<1> QED BY <1>5, <1>6

\* The invariant of plans and steps.
PlanInv == PlanGoals /\ PlansSound /\ StepAgents

LEMMA NoCycle == Acyclic({})
<1>1. ASSUME NEW T \in SUBSET {} PROVE T = {} OBVIOUS
<1> QED BY <1>1 DEF Acyclic

LEMMA InitPlans == Init => PlanInv
<1> SUFFICES ASSUME Init PROVE PlanInv OBVIOUS
<1>1. PlanGoals BY DEF Init, PlanGoals
<1>2. StepAgents BY DEF Init, StepAgents, InFlight
<1>3. ASSUME NEW p \in Plans PROVE Sound(plans[p].status, StatusesOf(p))
  <2>1. plans[p].status = "NONE" BY DEF Init
  <2>2. \A s \in Steps : StatusesOf(p)[s] = "NONE"
    BY TaskParts DEF Init, StatusesOf
  <2>3. {s \in Steps : StatusesOf(p)[s] # "NONE"} = {} BY <2>2
  <2>4. Acyclic({s \in Steps : StatusesOf(p)[s] # "NONE"}) BY <2>3, NoCycle
  <2> HIDE DEF StatusesOf
  <2> QED BY <2>1, <2>2, <2>4 DEF Sound
<1> QED BY <1>1, <1>2, <1>3 DEF PlanInv, PlansSound

LEMMA StatusesType ==
    ASSUME TypeOK, NEW p \in Plans PROVE StatusesOf(p) \in [Steps -> StepStatuses]
<1>1. \A s \in Steps : steps[<<p, s>>] \in StepRecords BY TaskParts DEF TypeOK
<1> QED BY <1>1 DEF StatusesOf, StepRecords

LEMMA SamePlans == PlanInv /\ UNCHANGED <<plans, steps>> => PlanInv'
BY DEF PlanInv, PlanGoals, PlansSound, StepAgents, StatusesOf, InFlight

\* The tasks of a plan are its own: what is written to one leaves the statuses of
\* the other plans alone.
LEMMA OtherPlan ==
    ASSUME TypeOK, NEW t \in Tasks, NEW x, steps' = [steps EXCEPT ![t] = x],
           NEW p \in Plans
    PROVE  /\ p # t[1] => StatusesOf(p)' = StatusesOf(p)
           /\ p = t[1] => StatusesOf(p)' = [StatusesOf(p) EXCEPT ![t[2]] = x.status]
<1>1. \A s \in Steps : steps'[<<p, s>>] = IF <<p, s>> = t THEN x ELSE steps[<<p, s>>]
  BY TaskParts DEF TypeOK
<1>2. \A s \in Steps : <<p, s>> = t <=> p = t[1] /\ s = t[2] BY TaskParts
<1>3. \A s \in Steps : steps'[<<p, s>>].status =
            IF p = t[1] /\ s = t[2] THEN x.status ELSE steps[<<p, s>>].status
  BY <1>1, <1>2
<1>4. CASE p # t[1] BY <1>3, <1>4 DEF StatusesOf
<1>5. CASE p = t[1]
  <2>1. StatusesOf(p)' = [s \in Steps |->
            IF s = t[2] THEN x.status ELSE steps[<<p, s>>].status]
    BY <1>3, <1>5 DEF StatusesOf
  <2> QED BY <1>5, <2>1 DEF StatusesOf
<1> QED BY <1>4, <1>5

LEMMA BuildPlans ==
    ASSUME OperationsAssumption, TypeOK, PlanInv,
           NEW p \in Plans, NEW g \in Goals, NEW S \in SUBSET Steps, NEW retired,
           retired \in Plans =>
               /\ plans[retired].status \in {"ACTIVE", "PAUSED", "NEEDS_REPLAN"}
               /\ \A s \in Steps : ~InFlight(<<retired, s>>),
           Build(p, g, S, retired)
    PROVE  PlanInv'
<1>1. PlanGoals'
  BY DEF Build, PlanInv, PlanGoals, TypeOK, PlanRecords, OperationsAssumption
<1>2. StepAgents'
  <2> SUFFICES ASSUME NEW t \in Tasks
               PROVE  /\ InFlight(t)' => steps'[t].agent \in Agents
                      /\ steps'[t].status \in {"NONE", "PENDING"} => steps'[t].agent = None
    BY DEF StepAgents
  <2>1. CASE t[1] = p /\ t[2] \in S BY <2>1 DEF Build, InFlight
  <2>2. CASE ~(t[1] = p /\ t[2] \in S)
    <3>1. steps'[t] = steps[t] BY <2>2 DEF Build
    <3> QED BY <3>1 DEF PlanInv, StepAgents, InFlight
  <2> QED BY <2>1, <2>2
<1>3. ASSUME NEW q \in Plans PROVE Sound(plans'[q].status, StatusesOf(q)')
  <2>0. \A s \in Steps : steps'[<<q, s>>] = IF q = p /\ s \in S THEN NewStep ELSE steps[<<q, s>>]
    BY TaskParts DEF Build, NewStep
  <2>1. CASE q = p
    <3>1. \A s \in Steps : StatusesOf(p)[s] = "NONE"
      BY DEF PlanInv, PlansSound, Sound, Build
    <3>2. \A s \in Steps : steps[<<p, s>>].status = "NONE" BY <3>1 DEF StatusesOf
    <3>3. StatusesOf(q)' = [s \in Steps |-> IF s \in S THEN "PENDING" ELSE "NONE"]
      BY <2>0, <2>1, <3>2 DEF StatusesOf, NewStep
    <3>4. plans'[q].status = "ACTIVE" BY <2>1 DEF Build
    <3>5. Sound("ACTIVE", [s \in Steps |-> IF s \in S THEN "PENDING" ELSE "NONE"])
      BY SoundNew DEF Build
    <3> QED BY <3>3, <3>4, <3>5
  <2>2. CASE q # p
    <3>1. StatusesOf(q)' = StatusesOf(q) BY <2>0, <2>2 DEF StatusesOf
    <3>2. CASE q = retired
      <4>1. plans'[q].status = "SUPERSEDED"
        BY <2>2, <3>2 DEF Build, TypeOK, PlanRecords
      <4>2. \A s \in Steps : StatusesOf(q)[s] \notin {"ASSIGNED", "RUNNING"}
        BY <3>2 DEF StatusesOf, InFlight
      <4>3. Sound(plans[q].status, StatusesOf(q)) BY DEF PlanInv, PlansSound
      <4>4. Sound("SUPERSEDED", StatusesOf(q))
        BY <4>2, <4>3, <3>2, SoundSuperseded
      <4> QED BY <3>1, <4>1, <4>4
    <3>3. CASE q # retired
      <4>1. plans'[q] = plans[q] BY <2>2, <3>3 DEF Build
      <4> QED BY <3>1, <4>1 DEF PlanInv, PlansSound
    <3> QED BY <3>2, <3>3
  <2> QED BY <2>1, <2>2
<1> QED BY <1>1, <1>2, <1>3 DEF PlanInv, PlansSound

\* A step that changes: x is what it becomes, status what its plan becomes.
LEMMA StepPlans ==
    ASSUME OperationsAssumption, TypeOK, PlanInv, NEW t \in Tasks, NEW x, NEW status,
           steps' = [steps EXCEPT ![t] = x],
           plans' = [plans EXCEPT ![t[1]].status = status],
           Sound(status, [StatusesOf(t[1]) EXCEPT ![t[2]] = x.status]),
           status # "NONE", plans[t[1]].status # "NONE",
           x.status \in {"ASSIGNED", "RUNNING"} => x.agent \in Agents,
           x.status \in {"NONE", "PENDING"} => x.agent = None
    PROVE  PlanInv'
<1>1. PlanGoals'
  BY TaskParts DEF PlanInv, PlanGoals, TypeOK, PlanRecords
<1>2. StepAgents'
  <2>1. \A u \in Tasks : steps'[u] = IF u = t THEN x ELSE steps[u] BY DEF TypeOK
  <2> QED BY <2>1 DEF PlanInv, StepAgents, InFlight
<1>3. ASSUME NEW q \in Plans PROVE Sound(plans'[q].status, StatusesOf(q)')
  <2>1. CASE q = t[1]
    <3>1. plans'[q].status = status BY <2>1 DEF TypeOK, PlanRecords
    <3> QED BY <2>1, <3>1, OtherPlan
  <2>2. CASE q # t[1]
    <3>1. plans'[q] = plans[q] BY <2>2 DEF TypeOK
    <3> QED BY <2>2, <3>1, OtherPlan DEF PlanInv, PlansSound
  <2> QED BY <2>1, <2>2
<1> QED BY <1>1, <1>2, <1>3 DEF PlanInv, PlansSound

LEMMA PlanPreserved ==
    ASSUME OperationsAssumption, TypeOK, PlanInv, PlanNext PROVE PlanInv'
<1>1. ASSUME NEW g \in Goals, NEW deps \in SUBSET Goals, NEW activate \in BOOLEAN,
             CreateGoal(g, deps, activate)
      PROVE  PlanInv'
  BY <1>1, SamePlans DEF CreateGoal
<1>2. ASSUME NEW g \in Goals, NEW status \in GoalStatuses, TransitionGoal(g, status)
      PROVE  PlanInv'
  BY <1>2, SamePlans DEF TransitionGoal
<1>3. ASSUME NEW p \in Plans, NEW S \in SUBSET Steps, NEW g \in Goals, CreatePlan(p, g, S)
      PROVE  PlanInv'
  <2>1. None \notin Plans BY DEF OperationsAssumption
  <2> QED BY <1>3, <2>1, BuildPlans DEF CreatePlan
<1>4. ASSUME NEW p \in Plans, NEW S \in SUBSET Steps, NEW old \in Plans, Replan(old, p, S)
      PROVE  PlanInv'
  <2>1. plans[old].goal \in Goals
    BY <1>4 DEF Replan, PlanInv, PlanGoals, TypeOK, PlanRecords
  <2> QED BY <1>4, <2>1, BuildPlans DEF Replan
<1> QED BY <1>1, <1>2, <1>3, <1>4 DEF PlanNext

\* What a task's status and its plan's say of each other.
LEMMA TaskStatus ==
    ASSUME OperationsAssumption, TypeOK, PlanInv, NEW t \in Tasks
    PROVE  /\ steps[t].status = StatusesOf(t[1])[t[2]]
           /\ steps[t].status # "NONE" => plans[t[1]].status # "NONE"
           /\ Ready(t) <=> Done(StatusesOf(t[1]), t[2])
           /\ plans = [plans EXCEPT ![t[1]].status = plans[t[1]].status]
<1>1. t[1] \in Plans /\ t[2] \in Steps /\ t = <<t[1], t[2]>> BY TaskParts
<1>2. steps[t].status = StatusesOf(t[1])[t[2]] BY <1>1 DEF StatusesOf
<1>3. Sound(plans[t[1]].status, StatusesOf(t[1])) BY <1>1 DEF PlanInv, PlansSound
<1>4. steps[t].status # "NONE" => plans[t[1]].status # "NONE"
  BY <1>1, <1>2, <1>3 DEF Sound
<1>5. plans = [plans EXCEPT ![t[1]].status = plans[t[1]].status]
  <2>1. plans[t[1]] = [plans[t[1]] EXCEPT !.status = plans[t[1]].status]
    BY <1>1 DEF TypeOK, PlanRecords
  <2> QED BY <1>1, <2>1 DEF TypeOK
<1>6. \A d \in Steps : steps[<<t[1], d>>].status = StatusesOf(t[1])[d] BY DEF StatusesOf
<1>7. DependsOn[t[2]] \subseteq Steps BY <1>1 DEF OperationsAssumption
<1>8. Ready(t) <=> Done(StatusesOf(t[1]), t[2])
  BY <1>6, <1>7 DEF Ready, Done, Sibling
<1> QED BY <1>2, <1>4, <1>5, <1>8

LEMMA StepPreserved ==
    ASSUME OperationsAssumption, TypeOK, PlanInv, StepNext PROVE PlanInv'
<1> PICK t \in Tasks :
        \/ AllocateStepResources(t) \/ StartStep(t) \/ CancelStep(t)
        \/ \E a \in Agents : AssignStep(t, a) \/ DispatchStep(t, a)
        \/ \E o \in Outcomes, success \in BOOLEAN : RecordStepOutcome(t, o, success)
  BY DEF StepNext
<1> DEFINE st == StatusesOf(t[1])
           ps == plans[t[1]].status
<1>0. t[1] \in Plans /\ t[2] \in Steps /\ steps[t] \in StepRecords BY TaskParts DEF TypeOK
<1>a. st \in [Steps -> StepStatuses] BY <1>0, StatusesType
<1>b. Sound(ps, st) BY <1>0 DEF PlanInv, PlansSound
<1>c. /\ steps[t].status = st[t[2]]
      /\ steps[t].status # "NONE" => ps # "NONE"
      /\ Ready(t) <=> Done(st, t[2])
      /\ plans = [plans EXCEPT ![t[1]].status = ps]
  BY TaskStatus
<1>d. InFlight(t) => steps[t].agent \in Agents BY DEF PlanInv, StepAgents
<1>e. steps[t].status = "PENDING" => steps[t].agent = None BY DEF PlanInv, StepAgents
<1> HIDE DEF st, ps
<1>1. CASE AllocateStepResources(t)
  <2> DEFINE x == [steps[t] EXCEPT !.allocated = TRUE]
  <2>1. steps' = [steps EXCEPT ![t] = x] /\ plans' = plans
    BY <1>1 DEF AllocateStepResources, TypeOK
  <2>2. x.status = "PENDING" /\ x.agent = None
    BY <1>0, <1>1, <1>e DEF AllocateStepResources, Dispatchable, StepRecords
  <2>3. [st EXCEPT ![t[2]] = "PENDING"] = st
    BY <1>0, <1>a, <1>c, <1>1 DEF AllocateStepResources, Dispatchable
  <2>4. steps[t].status = "PENDING" BY <1>1 DEF AllocateStepResources, Dispatchable
  <2> HIDE DEF x
  <2>5. Sound(ps, [StatusesOf(t[1]) EXCEPT ![t[2]] = x.status])
    BY <2>2, <2>3, <1>b DEF st
  <2> QED BY <2>1, <2>2, <2>4, <2>5, <1>c, StepPlans DEF ps
<1>2. ASSUME NEW x, NEW status,
             steps' = [steps EXCEPT ![t] = x],
             plans' = [plans EXCEPT ![t[1]].status = status],
             steps[t].status \in {"PENDING", "ASSIGNED", "RUNNING"},
             status # "NONE",
             \/ /\ status = ps /\ x.status \in {"ASSIGNED", "RUNNING"}
                /\ \/ ps = "ACTIVE" /\ Ready(t)
                   \/ steps[t].status = "ASSIGNED"
             \/ status = "NEEDS_REPLAN" /\ x.status = "FAILED" /\ steps[t].status # "PENDING"
             \/ status = "NEEDS_REPLAN" /\ x.status = "CANCELLED"
             \/ /\ x.status = "SUCCEEDED" /\ steps[t].status # "PENDING"
                /\ status = IF IsLast(t) THEN "COMPLETED" ELSE ps,
             x.status \in {"ASSIGNED", "RUNNING"} => x.agent \in Agents
      PROVE  PlanInv'
  <2>1. IsLast(t) <=> \A u \in Steps \ {t[2]} : st[u] \in {"NONE", "SUCCEEDED"}
    BY DEF IsLast, st, StatusesOf, Sibling
  <2>2. Sound(status, [st EXCEPT ![t[2]] = x.status])
    BY <1>2, <2>1, <1>0, <1>a, <1>b, <1>c, SoundStep
  <2>3. x.status \notin {"NONE", "PENDING"} BY <1>2
  <2> QED BY <1>2, <2>2, <2>3, <1>c, StepPlans DEF st, ps
<1>3. CASE StartStep(t)
  <2> DEFINE x == [steps[t] EXCEPT !.status = "RUNNING"]
  <2>1. steps' = [steps EXCEPT ![t] = x] /\ plans' = plans
    BY <1>3 DEF StartStep, TypeOK
  <2>2. x.status = "RUNNING" /\ x.agent = steps[t].agent BY <1>0 DEF StepRecords
  <2>3. steps[t].status = "ASSIGNED" BY <1>3 DEF StartStep
  <2>4. x.agent \in Agents BY <2>2, <2>3, <1>d DEF InFlight
  <2> HIDE DEF x
  <2> QED BY <2>1, <2>2, <2>3, <2>4, <1>2, <1>c
<1>4. ASSUME NEW a \in Agents, NEW b \in BOOLEAN, Dispatchable(t),
             steps' = [steps EXCEPT ![t] =
                          [status |-> "ASSIGNED", agent |-> a, allocated |-> b]],
             plans' = plans
      PROVE  PlanInv'
  <2>1. /\ ps = "ACTIVE" /\ Ready(t) /\ steps[t].status = "PENDING"
    BY <1>4 DEF Dispatchable, ps
  <2> QED BY <1>4, <2>1, <1>2, <1>c
<1>5. ASSUME NEW a \in Agents, AssignStep(t, a) PROVE PlanInv'
  <2>2. steps' = [steps EXCEPT ![t] =
            [status |-> "ASSIGNED", agent |-> a, allocated |-> steps[t].allocated]]
    BY <1>5 DEF AssignStep, TypeOK
  <2>3. steps[t].allocated \in BOOLEAN BY <1>0 DEF StepRecords
  <2> QED BY <1>5, <2>2, <2>3, <1>4 DEF AssignStep
<1>6. ASSUME NEW a \in Agents, DispatchStep(t, a) PROVE PlanInv'
  <2>1. (Requesting(t) # {}) \in BOOLEAN OBVIOUS
  <2> QED BY <1>6, <2>1, <1>4 DEF DispatchStep
<1>7. CASE CancelStep(t)
  <2> DEFINE x == [steps[t] EXCEPT !.status = "CANCELLED", !.allocated = FALSE]
  <2>1. steps' = [steps EXCEPT ![t] = x]
    BY <1>7 DEF CancelStep, TypeOK
  <2>2. x.status = "CANCELLED" BY <1>0 DEF StepRecords
  <2>3. steps[t].status \in {"PENDING", "ASSIGNED", "RUNNING"}
    BY <1>0, <1>7 DEF CancelStep, Registered, Terminal, StepRecords, StepStatuses
  <2>4. plans' = [plans EXCEPT ![t[1]].status = "NEEDS_REPLAN"]
    BY <1>7 DEF CancelStep, NeedsReplan
  <2> HIDE DEF x
  <2> QED BY <2>1, <2>2, <2>3, <2>4, <1>2
<1>8. ASSUME NEW o \in Outcomes, NEW success \in BOOLEAN, RecordStepOutcome(t, o, success)
      PROVE  PlanInv'
  <2> DEFINE x == [steps[t] EXCEPT !.status = IF success THEN "SUCCEEDED" ELSE "FAILED"]
  <2>1. steps' = [steps EXCEPT ![t] = x]
    BY <1>8 DEF RecordStepOutcome, TypeOK
  <2>2. x.status = IF success THEN "SUCCEEDED" ELSE "FAILED" BY <1>0 DEF StepRecords
  <2>3. steps[t].status \in {"ASSIGNED", "RUNNING"}
    BY <1>8 DEF RecordStepOutcome, MayRecord, InFlight
  <2> HIDE DEF x
  <2>4. ps # "NONE" BY <2>3, <1>c
  <2>5. CASE ~success /\ NeedsReplan(t)
    BY <2>1, <2>2, <2>3, <2>5, <1>2 DEF NeedsReplan
  <2>6. CASE success /\ IsLast(t) /\ plans' = [plans EXCEPT ![t[1]].status = "COMPLETED"]
    BY <2>1, <2>2, <2>3, <2>6, <1>2
  <2>7. CASE success /\ ~IsLast(t) /\ UNCHANGED plans
    BY <2>1, <2>2, <2>3, <2>4, <2>7, <1>2, <1>c
  <2> QED BY <1>8, <2>5, <2>6, <2>7 DEF RecordStepOutcome
<1> QED BY <1>1, <1>3, <1>5, <1>6, <1>7, <1>8

-----------------------------------------------------------------------------
(* Agents. *)

AgentInv == AgentLoad /\ \A a \in Agents : IsFiniteSet(agents[a].tasks)

LEMMA InitAgents == Init => AgentInv
<1> SUFFICES ASSUME Init, NEW a \in Agents
             PROVE  /\ agents[a].tasks = {t \in Tasks : InFlight(t) /\ steps[t].agent = a}
                    /\ Cardinality(agents[a].tasks) <= MaxConcurrent[a]
                    /\ agents[a].status = "RETIRED" => agents[a].tasks = {}
                    /\ IsFiniteSet(agents[a].tasks)
  BY DEF AgentInv, AgentLoad
<1>1. agents[a].tasks = {} /\ \A t \in Tasks : ~InFlight(t) BY DEF Init, InFlight
<1>2. Cardinality({}) = 0 /\ IsFiniteSet({}) BY FS_EmptySet
<1>3. OperationsAssumption => 0 <= MaxConcurrent[a] BY DEF OperationsAssumption
<1> QED BY <1>1, <1>2, <1>3, OperationsAssumption

\* The tasks of an agent as they were, where no step in flight changed.
LEMMA SameTasks ==
    ASSUME AgentInv,
           \A t \in Tasks : /\ InFlight(t)' <=> InFlight(t)
                            /\ InFlight(t) => steps'[t].agent = steps[t].agent,
           \A a \in Agents : /\ agents'[a].tasks = agents[a].tasks
                             /\ agents'[a].status = "RETIRED" =>
                                    agents[a].status = "RETIRED" \/ agents[a].tasks = {}
    PROVE  AgentInv'
<1>1. ASSUME NEW a \in Agents
      PROVE  /\ agents'[a].tasks = {t \in Tasks : InFlight(t)' /\ steps'[t].agent = a}
             /\ Cardinality(agents'[a].tasks) <= MaxConcurrent[a]
             /\ agents'[a].status = "RETIRED" => agents'[a].tasks = {}
             /\ IsFiniteSet(agents'[a].tasks)
  <2>1. {t \in Tasks : InFlight(t)' /\ steps'[t].agent = a}
            = {t \in Tasks : InFlight(t) /\ steps[t].agent = a}
    OBVIOUS
  <2> QED BY <2>1 DEF AgentInv, AgentLoad
<1> QED BY <1>1 DEF AgentInv, AgentLoad

\* A task comes to an agent that can take it.
LEMMA TaskTaken ==
    ASSUME OperationsAssumption, TypeOK, AgentInv, NEW t \in Tasks, NEW a \in Agents,
           NEW b, CanTake(a, t), ~InFlight(t),
           steps' = [steps EXCEPT ![t] = [status |-> "ASSIGNED", agent |-> a, allocated |-> b]],
           agents' = [agents EXCEPT ![a] = Loaded(a, agents[a].tasks \cup {t})]
    PROVE  AgentInv'
<1>1. \A u \in Tasks : steps'[u] = IF u = t
            THEN [status |-> "ASSIGNED", agent |-> a, allocated |-> b] ELSE steps[u]
  BY DEF TypeOK
<1>2. \A c \in Agents : agents'[c] = IF c = a
            THEN Loaded(a, agents[a].tasks \cup {t}) ELSE agents[c]
  BY DEF TypeOK
<1>3. ASSUME NEW c \in Agents
      PROVE  /\ agents'[c].tasks = {u \in Tasks : InFlight(u)' /\ steps'[u].agent = c}
             /\ Cardinality(agents'[c].tasks) <= MaxConcurrent[c]
             /\ agents'[c].status = "RETIRED" => agents'[c].tasks = {}
             /\ IsFiniteSet(agents'[c].tasks)
  <2>1. CASE c # a
    <3>1. {u \in Tasks : InFlight(u)' /\ steps'[u].agent = c}
              = {u \in Tasks : InFlight(u) /\ steps[u].agent = c}
      BY <1>1, <2>1 DEF InFlight
    <3> QED BY <1>2, <2>1, <3>1 DEF AgentInv, AgentLoad
  <2>2. CASE c = a
    <3>1. {u \in Tasks : InFlight(u)' /\ steps'[u].agent = a}
              = {u \in Tasks : InFlight(u) /\ steps[u].agent = a} \cup {t}
      BY <1>1 DEF InFlight
    <3>2. agents'[a].tasks = agents[a].tasks \cup {t} /\ agents'[a].status # "RETIRED"
      BY <1>2 DEF Loaded
    <3>3. t \notin agents[a].tasks BY DEF AgentInv, AgentLoad
    <3>4. IsFiniteSet(agents[a].tasks) BY DEF AgentInv
    <3>5. /\ IsFiniteSet(agents[a].tasks \cup {t})
          /\ Cardinality(agents[a].tasks \cup {t}) = Cardinality(agents[a].tasks) + 1
      BY <3>3, <3>4, FS_AddElement
    <3>6. Cardinality(agents[a].tasks) \in Nat BY <3>4, FS_CardinalityType
    <3>7. MaxConcurrent[a] \in Nat BY DEF OperationsAssumption
    <3>8. Cardinality(agents[a].tasks) + 1 <= MaxConcurrent[a] BY <3>6, <3>7 DEF CanTake
    <3>9. agents[a].tasks = {u \in Tasks : InFlight(u) /\ steps[u].agent = a}
      BY DEF AgentInv, AgentLoad
    <3>10. agents'[a].tasks = {u \in Tasks : InFlight(u)' /\ steps'[u].agent = a}
      BY <3>1, <3>2, <3>9
    <3>11. Cardinality(agents'[a].tasks) <= MaxConcurrent[a] /\ IsFiniteSet(agents'[a].tasks)
      BY <3>2, <3>5, <3>8
    <3> QED BY <2>2, <3>2, <3>10, <3>11
  <2> QED BY <2>1, <2>2
<1> QED BY <1>3 DEF AgentInv, AgentLoad

\* A step in flight ends and leaves its agent.
LEMMA TaskLeft ==
    ASSUME OperationsAssumption, TypeOK, AgentInv, NEW t \in Tasks, NEW x,
           InFlight(t), steps[t].agent \in Agents,
           x.status \notin {"ASSIGNED", "RUNNING"},
           steps' = [steps EXCEPT ![t] = x],
           agents' = [agents EXCEPT ![steps[t].agent] = Unloaded(steps[t].agent, t)]
    PROVE  AgentInv'
<1> DEFINE a == steps[t].agent
<1>1. \A u \in Tasks : steps'[u] = IF u = t THEN x ELSE steps[u] BY DEF TypeOK
<1>2. \A c \in Agents : agents'[c] = IF c = a THEN Unloaded(a, t) ELSE agents[c]
  BY DEF TypeOK
<1>4. a \in Agents OBVIOUS
<1>5. agents[a] \in AgentRecords BY <1>4 DEF TypeOK
<1>3. ASSUME NEW c \in Agents
      PROVE  /\ agents'[c].tasks = {u \in Tasks : InFlight(u)' /\ steps'[u].agent = c}
             /\ Cardinality(agents'[c].tasks) <= MaxConcurrent[c]
             /\ agents'[c].status = "RETIRED" => agents'[c].tasks = {}
             /\ IsFiniteSet(agents'[c].tasks)
  <2>1. CASE c # a
    <3>1. {u \in Tasks : InFlight(u)' /\ steps'[u].agent = c}
              = {u \in Tasks : InFlight(u) /\ steps[u].agent = c}
      BY <1>1, <2>1 DEF InFlight
    <3> QED BY <1>2, <2>1, <3>1 DEF AgentInv, AgentLoad
  <2>2. CASE c = a
    <3>1. {u \in Tasks : InFlight(u)' /\ steps'[u].agent = a}
              = {u \in Tasks : InFlight(u) /\ steps[u].agent = a} \ {t}
      BY <1>1 DEF InFlight
    <3>2. /\ agents'[a].tasks = agents[a].tasks \ {t}
          /\ agents'[a].status = "RETIRED" => agents[a].status = "RETIRED"
      BY <1>2, <1>5 DEF Loaded, Unloaded, AgentRecords
    <3>3. agents[a].tasks = {u \in Tasks : InFlight(u) /\ steps[u].agent = a}
      BY DEF AgentInv, AgentLoad
    <3>4. IsFiniteSet(agents[a].tasks) BY DEF AgentInv
    <3>5. /\ IsFiniteSet(agents[a].tasks \ {t})
          /\ Cardinality(agents[a].tasks \ {t}) <= Cardinality(agents[a].tasks)
      BY <3>4, FS_Subset
    <3>6. /\ Cardinality(agents[a].tasks) \in Nat
          /\ Cardinality(agents[a].tasks \ {t}) \in Nat
      BY <3>4, <3>5, FS_CardinalityType
    <3>7. MaxConcurrent[a] \in Nat BY DEF OperationsAssumption
    <3>8. Cardinality(agents[a].tasks) <= MaxConcurrent[a] BY DEF AgentInv, AgentLoad
    <3>9. Cardinality(agents[a].tasks \ {t}) <= MaxConcurrent[a]
      BY <3>5, <3>6, <3>7, <3>8
    <3>10. agents[a].status = "RETIRED" => agents[a].tasks = {} BY DEF AgentInv, AgentLoad
    <3> QED BY <2>2, <3>1, <3>2, <3>3, <3>5, <3>9, <3>10
  <2> QED BY <2>1, <2>2
<1> QED BY <1>3 DEF AgentInv, AgentLoad

LEMMA SameAgents == AgentInv /\ UNCHANGED <<agents, steps>> => AgentInv'
BY DEF AgentInv, AgentLoad, InFlight

LEMMA RegisterAgents ==
    ASSUME TypeOK, AgentInv, RegisterNext PROVE AgentInv'
<1>1. ASSUME NEW a \in Agents, RegisterAgent(a) PROVE AgentInv'
  <2>1. \A c \in Agents : /\ agents'[c].tasks = agents[c].tasks
                          /\ agents'[c].status = "RETIRED" => agents[c].status = "RETIRED"
    BY <1>1 DEF RegisterAgent, TypeOK, AgentRecords
  <2>2. steps' = steps BY <1>1 DEF RegisterAgent
  <2> QED BY <2>1, <2>2, SameTasks DEF InFlight
<1>2. ASSUME NEW a \in Agents, NEW status \in Settable, SetAgentStatus(a, status)
      PROVE  AgentInv'
  <2>1. \A c \in Agents :
            /\ agents'[c].tasks = agents[c].tasks
            /\ agents'[c].status = "RETIRED" =>
                    agents[c].status = "RETIRED" \/ agents[c].tasks = {}
    BY <1>2 DEF SetAgentStatus, TypeOK, AgentRecords
  <2>2. steps' = steps BY <1>2 DEF SetAgentStatus
  <2> QED BY <2>1, <2>2, SameTasks DEF InFlight
<1>3. ASSUME NEW r \in Pools, RegisterResourcePool(r) PROVE AgentInv'
  BY <1>3, SameAgents DEF RegisterResourcePool
<1> QED BY <1>1, <1>2, <1>3 DEF RegisterNext

LEMMA BuildAgents ==
    ASSUME TypeOK, PlanInv, AgentInv, NEW p \in Plans, NEW g, NEW S, NEW retired,
           Build(p, g, S, retired)
    PROVE  AgentInv'
<1>1. ASSUME NEW t \in Tasks
      PROVE  /\ InFlight(t)' <=> InFlight(t)
             /\ InFlight(t) => steps'[t].agent = steps[t].agent
  <2>1. CASE t[1] = p /\ t[2] \in S
    <3>1. StatusesOf(p)[t[2]] = "NONE"
      BY TaskParts DEF PlanInv, PlansSound, Sound, Build
    <3>2. steps[t].status = "NONE" BY <2>1, <3>1, TaskParts DEF StatusesOf
    <3>3. steps'[t].status = "PENDING" BY <2>1 DEF Build
    <3> QED BY <3>2, <3>3 DEF InFlight
  <2>2. CASE ~(t[1] = p /\ t[2] \in S)
    <3>1. steps'[t] = steps[t] BY <2>2 DEF Build
    <3> QED BY <3>1 DEF InFlight
  <2> QED BY <2>1, <2>2
<1>2. agents' = agents BY DEF Build
<1> QED BY <1>1, <1>2, SameTasks

LEMMA PlanAgents ==
    ASSUME TypeOK, PlanInv, AgentInv, PlanNext PROVE AgentInv'
<1>1. ASSUME NEW g \in Goals, NEW deps \in SUBSET Goals, NEW activate \in BOOLEAN,
             CreateGoal(g, deps, activate)
      PROVE  AgentInv'
  BY <1>1, SameAgents DEF CreateGoal
<1>2. ASSUME NEW g \in Goals, NEW status \in GoalStatuses, TransitionGoal(g, status)
      PROVE  AgentInv'
  BY <1>2, SameAgents DEF TransitionGoal
<1>3. ASSUME NEW p \in Plans, NEW S \in SUBSET Steps, NEW g \in Goals, CreatePlan(p, g, S)
      PROVE  AgentInv'
  BY <1>3, BuildAgents DEF CreatePlan
<1>4. ASSUME NEW p \in Plans, NEW S \in SUBSET Steps, NEW old \in Plans, Replan(old, p, S)
      PROVE  AgentInv'
  BY <1>4, BuildAgents DEF Replan
<1> QED BY <1>1, <1>2, <1>3, <1>4 DEF PlanNext

\* A step that changes while no agent does, and stays in flight or out of it.
LEMMA StepStays ==
    ASSUME TypeOK, AgentInv, NEW t \in Tasks, NEW x, steps' = [steps EXCEPT ![t] = x],
           agents' = agents,
           x.status \in {"ASSIGNED", "RUNNING"} <=> InFlight(t),
           x.agent = steps[t].agent
    PROVE  AgentInv'
<1>1. \A u \in Tasks : steps'[u] = IF u = t THEN x ELSE steps[u] BY DEF TypeOK
<1>2. \A u \in Tasks : /\ InFlight(u)' <=> InFlight(u)
                       /\ steps'[u].agent = steps[u].agent
  BY <1>1 DEF InFlight
<1> QED BY <1>2, SameTasks

LEMMA StepAgentsPreserved ==
    ASSUME OperationsAssumption, TypeOK, PlanInv, AgentInv, StepNext PROVE AgentInv'
<1> PICK t \in Tasks :
        \/ AllocateStepResources(t) \/ StartStep(t) \/ CancelStep(t)
        \/ \E a \in Agents : AssignStep(t, a) \/ DispatchStep(t, a)
        \/ \E o \in Outcomes, success \in BOOLEAN : RecordStepOutcome(t, o, success)
  BY DEF StepNext
<1>0. steps[t] \in StepRecords BY DEF TypeOK
<1>a. InFlight(t) => steps[t].agent \in Agents BY DEF PlanInv, StepAgents
<1>1. CASE AllocateStepResources(t)
  <2> DEFINE x == [steps[t] EXCEPT !.allocated = TRUE]
  <2>1. steps' = [steps EXCEPT ![t] = x] /\ agents' = agents
    BY <1>1 DEF AllocateStepResources, TypeOK
  <2>2. x.status = steps[t].status /\ x.agent = steps[t].agent BY <1>0 DEF StepRecords
  <2> HIDE DEF x
  <2> QED BY <2>1, <2>2, StepStays DEF InFlight
<1>2. CASE StartStep(t)
  <2> DEFINE x == [steps[t] EXCEPT !.status = "RUNNING"]
  <2>1. steps' = [steps EXCEPT ![t] = x] /\ agents' = agents
    BY <1>2 DEF StartStep, TypeOK
  <2>2. x.status = "RUNNING" /\ x.agent = steps[t].agent BY <1>0 DEF StepRecords
  <2>3. InFlight(t) BY <1>2 DEF StartStep, InFlight
  <2> HIDE DEF x
  <2> QED BY <2>1, <2>2, <2>3, StepStays
<1>3. ASSUME NEW a \in Agents, AssignStep(t, a) PROVE AgentInv'
  <2>1. ~InFlight(t) BY <1>3 DEF AssignStep, Dispatchable, InFlight
  <2>2. steps' = [steps EXCEPT ![t] =
            [status |-> "ASSIGNED", agent |-> a, allocated |-> steps[t].allocated]]
    BY <1>3 DEF AssignStep, TypeOK
  <2>3. agents' = [agents EXCEPT ![a] = Loaded(a, agents[a].tasks \cup {t})]
    BY <1>3 DEF AssignStep, TypeOK
  <2> QED BY <1>3, <2>1, <2>2, <2>3, TaskTaken DEF AssignStep
<1>4. ASSUME NEW a \in Agents, DispatchStep(t, a) PROVE AgentInv'
  <2>1. ~InFlight(t) BY <1>4 DEF DispatchStep, Dispatchable, InFlight
  <2>2. agents' = [agents EXCEPT ![a] = Loaded(a, agents[a].tasks \cup {t})]
    BY <1>4 DEF DispatchStep, TypeOK
  <2> QED BY <1>4, <2>1, <2>2, TaskTaken DEF DispatchStep
<1>5. CASE CancelStep(t)
  <2> DEFINE x == [steps[t] EXCEPT !.status = "CANCELLED", !.allocated = FALSE]
  <2>1. steps' = [steps EXCEPT ![t] = x] BY <1>5 DEF CancelStep, TypeOK
  <2>2. x.status = "CANCELLED" /\ x.agent = steps[t].agent BY <1>0 DEF StepRecords
  <2> HIDE DEF x
  <2>3. CASE InFlight(t)
    <3>1. steps[t].agent # None BY <2>3, <1>a DEF OperationsAssumption
    <3>2. agents' = [agents EXCEPT ![steps[t].agent] = Unloaded(steps[t].agent, t)]
      BY <1>5, <3>1 DEF CancelStep
    <3> QED BY <1>a, <2>1, <2>2, <2>3, <3>2, TaskLeft
  <2>4. CASE ~InFlight(t)
    <3>1. steps[t].status = "PENDING"
      BY <2>4, <1>0, <1>5
         DEF CancelStep, Registered, Terminal, InFlight, StepRecords, StepStatuses
    <3>2. agents' = agents BY <1>5, <3>1 DEF CancelStep, PlanInv, StepAgents
    <3> QED BY <2>1, <2>2, <2>4, <3>2, StepStays
  <2> QED BY <2>3, <2>4
<1>6. ASSUME NEW o \in Outcomes, NEW success \in BOOLEAN, RecordStepOutcome(t, o, success)
      PROVE  AgentInv'
  <2> DEFINE x == [steps[t] EXCEPT !.status = IF success THEN "SUCCEEDED" ELSE "FAILED"]
  <2>1. steps' = [steps EXCEPT ![t] = x] BY <1>6 DEF RecordStepOutcome, TypeOK
  <2>2. x.status \notin {"ASSIGNED", "RUNNING"} BY <1>0 DEF StepRecords
  <2>3. InFlight(t) BY <1>6 DEF RecordStepOutcome, MayRecord
  <2>4. agents' = [agents EXCEPT ![steps[t].agent] = Unloaded(steps[t].agent, t)]
    BY <1>6 DEF RecordStepOutcome
  <2> HIDE DEF x
  <2> QED BY <1>a, <2>1, <2>2, <2>3, <2>4, TaskLeft
<1> QED BY <1>1, <1>2, <1>3, <1>4, <1>5, <1>6

-----------------------------------------------------------------------------
(* Pools. *)

\* What a step has of a pool.
Share(t, r) == IF steps[t].allocated /\ ~Terminal(t) THEN Requests[t[2]][r] ELSE 0

PoolInv ==
    /\ \A r \in Pools : /\ pools[r].allocated <= pools[r].capacity
                        /\ ~pools[r].registered => pools[r].allocated = 0
                        /\ \A t \in Tasks : pools[r].allocations[t] = Share(t, r)
    /\ \A t \in Tasks : steps[t].status = "NONE" => ~steps[t].allocated

LEMMA PoolsCovered == PoolInv => PoolsCover
BY DEF PoolInv, PoolsCover, Share

LEMMA InitPools == Init => PoolInv
BY DEF Init, PoolInv, Share

LEMMA SamePools == PoolInv /\ UNCHANGED <<pools, steps>> => PoolInv'
BY DEF PoolInv, Share, Terminal

LEMMA RequestType ==
    ASSUME OperationsAssumption, NEW t \in Tasks, NEW r \in Pools
    PROVE  /\ Requests[t[2]][r] \in Nat
           /\ r \notin Requesting(t) => Requests[t[2]][r] = 0
BY TaskParts DEF OperationsAssumption, Requesting

\* Steps that change while no pool does, and keep their shares.
LEMMA SameShares ==
    ASSUME PoolInv, pools' = pools,
           \A t \in Tasks : /\ \A r \in Pools : Share(t, r)' = Share(t, r)
                            /\ steps'[t].status = "NONE" => ~steps'[t].allocated
    PROVE  PoolInv'
BY DEF PoolInv

LEMMA RegisterPools ==
    ASSUME OperationsAssumption, TypeOK, PoolInv, RegisterNext PROVE PoolInv'
<1>1. ASSUME NEW a \in Agents, RegisterAgent(a) PROVE PoolInv'
  BY <1>1, SamePools DEF RegisterAgent
<1>2. ASSUME NEW a \in Agents, NEW status \in Settable, SetAgentStatus(a, status)
      PROVE  PoolInv'
  BY <1>2, SamePools DEF SetAgentStatus
<1>3. ASSUME NEW r \in Pools, RegisterResourcePool(r) PROVE PoolInv'
  <2>1. \A u \in Pools : u # r => pools'[u] = pools[u]
    BY <1>3 DEF RegisterResourcePool, TypeOK
  <2>2. /\ pools'[r].registered = TRUE
        /\ pools'[r].capacity = Capacity[r]
        /\ pools'[r].allocated = pools[r].allocated
        /\ pools'[r].allocations = pools[r].allocations
    <3>1. pools[r] \in PoolRecords BY DEF TypeOK
    <3>2. pools'[r] = [pools[r] EXCEPT !.registered = TRUE, !.capacity = Capacity[r]]
      BY <1>3 DEF RegisterResourcePool, TypeOK
    <3> QED BY <3>1, <3>2 DEF PoolRecords
  <2>3. pools[r].allocated = 0 /\ Capacity[r] \in Nat
    BY <1>3 DEF RegisterResourcePool, PoolInv, OperationsAssumption
  <2>4. steps' = steps BY <1>3 DEF RegisterResourcePool
  <2>5. \A t \in Tasks, u \in Pools : Share(t, u)' = Share(t, u) BY <2>4 DEF Share, Terminal
  <2>6. \A u \in Pools : /\ pools'[u].allocated <= pools'[u].capacity
                         /\ ~pools'[u].registered => pools'[u].allocated = 0
                         /\ \A t \in Tasks : pools'[u].allocations[t] = Share(t, u)
    BY <2>1, <2>2, <2>3 DEF PoolInv
  <2> QED BY <2>4, <2>5, <2>6 DEF PoolInv
<1> QED BY <1>1, <1>2, <1>3 DEF RegisterNext

LEMMA BuildPools ==
    ASSUME TypeOK, PlanInv, PoolInv, NEW p \in Plans, NEW g, NEW S, NEW retired,
           Build(p, g, S, retired)
    PROVE  PoolInv'
<1>1. ASSUME NEW t \in Tasks
      PROVE  /\ \A r \in Pools : Share(t, r)' = Share(t, r)
             /\ steps'[t].status = "NONE" => ~steps'[t].allocated
  <2>1. CASE t[1] = p /\ t[2] \in S
    <3>1. StatusesOf(p)[t[2]] = "NONE"
      BY TaskParts DEF PlanInv, PlansSound, Sound, Build
    <3>2. steps[t].status = "NONE" BY <2>1, <3>1, TaskParts DEF StatusesOf
    <3>3. ~steps[t].allocated BY <3>2 DEF PoolInv
    <3>4. steps'[t].status = "PENDING" /\ ~steps'[t].allocated BY <2>1 DEF Build
    <3> QED BY <3>3, <3>4 DEF Share
  <2>2. CASE ~(t[1] = p /\ t[2] \in S)
    <3>1. steps'[t] = steps[t] BY <2>2 DEF Build
    <3> QED BY <3>1 DEF Share, Terminal, PoolInv
  <2> QED BY <2>1, <2>2
<1>2. pools' = pools BY DEF Build
<1> QED BY <1>1, <1>2, SameShares

LEMMA PlanPools ==
    ASSUME TypeOK, PlanInv, PoolInv, PlanNext PROVE PoolInv'
<1>1. ASSUME NEW g \in Goals, NEW deps \in SUBSET Goals, NEW activate \in BOOLEAN,
             CreateGoal(g, deps, activate)
      PROVE  PoolInv'
  BY <1>1, SamePools DEF CreateGoal
<1>2. ASSUME NEW g \in Goals, NEW status \in GoalStatuses, TransitionGoal(g, status)
      PROVE  PoolInv'
  BY <1>2, SamePools DEF TransitionGoal
<1>3. ASSUME NEW p \in Plans, NEW S \in SUBSET Steps, NEW g \in Goals, CreatePlan(p, g, S)
      PROVE  PoolInv'
  BY <1>3, BuildPools DEF CreatePlan
<1>4. ASSUME NEW p \in Plans, NEW S \in SUBSET Steps, NEW old \in Plans, Replan(old, p, S)
      PROVE  PoolInv'
  BY <1>4, BuildPools DEF Replan
<1> QED BY <1>1, <1>2, <1>3, <1>4 DEF PlanNext

\* A reservation for a step that has none.
LEMMA StepReserved ==
    ASSUME OperationsAssumption, TypeOK, PoolInv, NEW t \in Tasks, NEW x,
           ~steps[t].allocated, Fits(t), pools' = Reserved(t),
           steps' = [steps EXCEPT ![t] = x],
           x.status \in {"PENDING", "ASSIGNED"},
           x.allocated <=> Requesting(t) # {}
    PROVE  PoolInv'
<1>1. \A u \in Tasks : steps'[u] = IF u = t THEN x ELSE steps[u] BY DEF TypeOK
<1>2. ASSUME NEW r \in Pools
      PROVE  /\ pools'[r].allocated <= pools'[r].capacity
             /\ ~pools'[r].registered => pools'[r].allocated = 0
             /\ \A u \in Tasks : pools'[r].allocations[u] = Share(u, r)'
  <2>0. pools[r] \in PoolRecords /\ pools[r].allocations \in [Tasks -> Nat]
    BY DEF TypeOK, PoolRecords
  <2>1. \A u \in Tasks : u # t => Share(u, r)' = pools[r].allocations[u]
    BY <1>1 DEF Share, Terminal, PoolInv
  <2>2. Share(t, r)' = Requests[t[2]][r]
    <3>1. Share(t, r)' = IF x.allocated THEN Requests[t[2]][r] ELSE 0
      BY <1>1 DEF Share, Terminal
    <3> QED BY <3>1, RequestType
  <2>3. CASE r \in Requesting(t)
    <3>1. pools'[r] = [pools[r] EXCEPT !.allocated = pools[r].allocated + Requests[t[2]][r],
              !.allocations = [pools[r].allocations EXCEPT ![t] = Requests[t[2]][r]]]
      BY <2>3 DEF Reserved
    <3>2. /\ pools'[r].allocated = pools[r].allocated + Requests[t[2]][r]
          /\ pools'[r].capacity = pools[r].capacity
          /\ pools'[r].registered = pools[r].registered
          /\ pools'[r].allocations = [pools[r].allocations EXCEPT ![t] = Requests[t[2]][r]]
      BY <2>0, <3>1 DEF PoolRecords
    <3>3. /\ pools[r].registered
          /\ pools[r].capacity - pools[r].allocated >= Requests[t[2]][r]
      BY <2>3 DEF Fits
    <3>4. /\ pools[r].capacity \in Nat /\ pools[r].allocated \in Nat
          /\ Requests[t[2]][r] \in Nat
      BY <2>0, RequestType DEF PoolRecords
    <3>5. pools[r].allocated + Requests[t[2]][r] <= pools[r].capacity BY <3>3, <3>4
    <3>6. \A u \in Tasks : pools'[r].allocations[u] = Share(u, r)'
      BY <2>0, <2>1, <2>2, <3>2
    <3> QED BY <3>2, <3>3, <3>5, <3>6
  <2>4. CASE r \notin Requesting(t)
    <3>1. pools'[r] = pools[r] BY <2>4 DEF Reserved
    <3>2. pools[r].allocations[t] = 0 BY DEF PoolInv, Share
    <3>3. Share(t, r)' = 0 BY <2>2, <2>4, RequestType
    <3> QED BY <2>1, <3>1, <3>2, <3>3 DEF PoolInv
  <2> QED BY <2>3, <2>4
<1>3. \A u \in Tasks : steps'[u].status = "NONE" => ~steps'[u].allocated
  BY <1>1 DEF PoolInv
<1> QED BY <1>2, <1>3 DEF PoolInv

\* The release of a step that ends.
LEMMA StepReleased ==
    ASSUME OperationsAssumption, TypeOK, PoolInv, NEW t \in Tasks, NEW x,
           NEW used \in BOOLEAN, pools' = Released(t, used),
           ~Terminal(t), steps' = [steps EXCEPT ![t] = x],
           x.status \in {"SUCCEEDED", "FAILED", "CANCELLED"}
    PROVE  PoolInv'
<1>1. \A u \in Tasks : steps'[u] = IF u = t THEN x ELSE steps[u] BY DEF TypeOK
<1>2. ASSUME NEW r \in Pools
      PROVE  /\ pools'[r].allocated <= pools'[r].capacity
             /\ ~pools'[r].registered => pools'[r].allocated = 0
             /\ \A u \in Tasks : pools'[r].allocations[u] = Share(u, r)'
  <2>0. pools[r] \in PoolRecords /\ pools[r].allocations \in [Tasks -> Nat]
    BY DEF TypeOK, PoolRecords
  <2>1. \A u \in Tasks : u # t => Share(u, r)' = pools[r].allocations[u]
    BY <1>1 DEF Share, Terminal, PoolInv
  <2>2. Share(t, r)' = 0 BY <1>1 DEF Share, Terminal
  <2>3. CASE steps[t].allocated /\ r \in Requesting(t)
    <3> DEFINE n == Requests[t[2]][r]
               left == IF used /\ r \notin Renewable
                         THEN AtLeastZero(pools[r].capacity - n) ELSE pools[r].capacity
    <3>1. pools'[r] = [pools[r] EXCEPT !.allocated = AtLeastZero(pools[r].allocated - n),
              !.capacity = left,
              !.allocations = [pools[r].allocations EXCEPT ![t] = 0]]
      BY <2>3 DEF Released
    <3>4. /\ pools[r].capacity \in Nat /\ pools[r].allocated \in Nat /\ n \in Nat
      BY <2>0, RequestType DEF PoolRecords
    <3> HIDE DEF left, n
    <3>2. /\ pools'[r].allocated = AtLeastZero(pools[r].allocated - n)
          /\ pools'[r].capacity = left
          /\ pools'[r].registered = pools[r].registered
          /\ pools'[r].allocations = [pools[r].allocations EXCEPT ![t] = 0]
      BY <2>0, <3>1 DEF PoolRecords
    <3>3. pools[r].allocated <= pools[r].capacity BY DEF PoolInv
    <3>5. AtLeastZero(pools[r].allocated - n) <= AtLeastZero(pools[r].capacity - n)
      BY <3>3, <3>4 DEF AtLeastZero
    <3>6. AtLeastZero(pools[r].allocated - n) <= pools[r].capacity
      BY <3>3, <3>4 DEF AtLeastZero
    <3>7. AtLeastZero(pools[r].allocated - n) <= left BY <3>5, <3>6 DEF left
    <3>8. pools[r].allocated = 0 => AtLeastZero(pools[r].allocated - n) = 0
      BY <3>4 DEF AtLeastZero
    <3>9. \A u \in Tasks : pools'[r].allocations[u] = Share(u, r)'
      BY <2>0, <2>1, <2>2, <3>2
    <3> QED BY <3>2, <3>7, <3>8, <3>9 DEF PoolInv
  <2>4. CASE ~(steps[t].allocated /\ r \in Requesting(t))
    <3>1. pools'[r] = pools[r] BY <2>4 DEF Released
    <3>2. pools[r].allocations[t] = 0
      BY <2>4, RequestType DEF PoolInv, Share
    <3> QED BY <2>1, <2>2, <3>1, <3>2 DEF PoolInv
  <2> QED BY <2>3, <2>4
<1>3. \A u \in Tasks : steps'[u].status = "NONE" => ~steps'[u].allocated
  BY <1>1 DEF PoolInv
<1> QED BY <1>2, <1>3 DEF PoolInv

\* A step that changes while no pool does.
LEMMA StepKeepsShare ==
    ASSUME TypeOK, PoolInv, NEW t \in Tasks, NEW x, steps' = [steps EXCEPT ![t] = x],
           pools' = pools, ~Terminal(t),
           x.status \in {"ASSIGNED", "RUNNING"}, x.allocated = steps[t].allocated
    PROVE  PoolInv'
<1>1. \A u \in Tasks : steps'[u] = IF u = t THEN x ELSE steps[u] BY DEF TypeOK
<1>2. \A u \in Tasks : /\ \A r \in Pools : Share(u, r)' = Share(u, r)
                       /\ steps'[u].status = "NONE" => ~steps'[u].allocated
  BY <1>1 DEF Share, Terminal, PoolInv
<1> QED BY <1>2, SameShares

LEMMA StepPools ==
    ASSUME OperationsAssumption, TypeOK, PoolInv, StepNext PROVE PoolInv'
<1> PICK t \in Tasks :
        \/ AllocateStepResources(t) \/ StartStep(t) \/ CancelStep(t)
        \/ \E a \in Agents : AssignStep(t, a) \/ DispatchStep(t, a)
        \/ \E o \in Outcomes, success \in BOOLEAN : RecordStepOutcome(t, o, success)
  BY DEF StepNext
<1>0. steps[t] \in StepRecords BY DEF TypeOK
<1>1. CASE AllocateStepResources(t)
  <2> DEFINE x == [steps[t] EXCEPT !.allocated = TRUE]
  <2>1. steps' = [steps EXCEPT ![t] = x] BY <1>1 DEF AllocateStepResources, TypeOK
  <2>2. x.status = "PENDING" /\ x.allocated
    BY <1>0, <1>1 DEF AllocateStepResources, Dispatchable, StepRecords
  <2> HIDE DEF x
  <2> QED BY <1>1, <2>1, <2>2, StepReserved DEF AllocateStepResources
<1>2. CASE StartStep(t)
  <2> DEFINE x == [steps[t] EXCEPT !.status = "RUNNING"]
  <2>1. steps' = [steps EXCEPT ![t] = x] /\ pools' = pools
    BY <1>2 DEF StartStep, TypeOK
  <2>2. x.status = "RUNNING" /\ x.allocated = steps[t].allocated BY <1>0 DEF StepRecords
  <2>3. ~Terminal(t) BY <1>2 DEF StartStep, Terminal
  <2> HIDE DEF x
  <2> QED BY <2>1, <2>2, <2>3, StepKeepsShare
<1>3. ASSUME NEW a \in Agents, AssignStep(t, a) PROVE PoolInv'
  <2> DEFINE x == [status |-> "ASSIGNED", agent |-> a, allocated |-> steps[t].allocated]
  <2>1. steps' = [steps EXCEPT ![t] = x] /\ pools' = pools
    BY <1>3 DEF AssignStep, TypeOK
  <2>2. x.status = "ASSIGNED" /\ x.allocated = steps[t].allocated OBVIOUS
  <2>3. ~Terminal(t) BY <1>3 DEF AssignStep, Dispatchable, Terminal
  <2> HIDE DEF x
  <2> QED BY <2>1, <2>2, <2>3, StepKeepsShare
<1>4. ASSUME NEW a \in Agents, DispatchStep(t, a) PROVE PoolInv'
  <2> DEFINE x == [status |-> "ASSIGNED", agent |-> a, allocated |-> Requesting(t) # {}]
  <2>1. steps' = [steps EXCEPT ![t] = x] BY <1>4 DEF DispatchStep
  <2>2. x.status = "ASSIGNED" /\ (x.allocated <=> Requesting(t) # {}) OBVIOUS
  <2> HIDE DEF x
  <2> QED BY <1>4, <2>1, <2>2, StepReserved DEF DispatchStep
<1>5. CASE CancelStep(t)
  <2> DEFINE x == [steps[t] EXCEPT !.status = "CANCELLED", !.allocated = FALSE]
  <2>1. steps' = [steps EXCEPT ![t] = x] BY <1>5 DEF CancelStep, TypeOK
  <2>2. x.status = "CANCELLED" BY <1>0 DEF StepRecords
  <2> HIDE DEF x
  <2> QED BY <1>5, <2>1, <2>2, StepReleased DEF CancelStep
<1>6. ASSUME NEW o \in Outcomes, NEW success \in BOOLEAN, RecordStepOutcome(t, o, success)
      PROVE  PoolInv'
  <2> DEFINE x == [steps[t] EXCEPT !.status = IF success THEN "SUCCEEDED" ELSE "FAILED"]
  <2>1. steps' = [steps EXCEPT ![t] = x] BY <1>6 DEF RecordStepOutcome, TypeOK
  <2>2. x.status \in {"SUCCEEDED", "FAILED", "CANCELLED"} BY <1>0 DEF StepRecords
  <2>3. ~Terminal(t) BY <1>6 DEF RecordStepOutcome, MayRecord, InFlight, Terminal
  <2> HIDE DEF x
  <2> QED BY <1>6, <2>1, <2>2, <2>3, StepReleased DEF RecordStepOutcome
<1> QED BY <1>1, <1>2, <1>3, <1>4, <1>5, <1>6

-----------------------------------------------------------------------------
(* The current plan of a goal. *)

LEMMA InitCurrent == Init => CurrentPlanLives
BY DEF Init, CurrentPlanLives

\* Plans that keep their goals, and goals that keep their plans.
LEMMA CurrentKept ==
    ASSUME TypeOK, CurrentPlanLives,
           \A g \in Goals : goals'[g].plan = goals[g].plan \/ goals'[g].plan = None,
           \A p \in Plans : /\ plans'[p].goal = plans[p].goal
                            /\ plans'[p].status = "SUPERSEDED" => plans[p].status = "SUPERSEDED"
    PROVE  CurrentPlanLives'
<1>1. \A g \in Goals : goals[g].plan \in Plans \cup {None} BY DEF TypeOK, GoalRecords
<1> QED BY <1>1 DEF CurrentPlanLives

LEMMA BuildCurrent ==
    ASSUME OperationsAssumption, TypeOK, PlanInv, CurrentPlanLives,
           NEW p \in Plans, NEW g \in Goals, NEW S, NEW retired,
           retired \in Plans => plans[retired].goal = g,
           Build(p, g, S, retired)
    PROVE  CurrentPlanLives'
<1> SUFFICES ASSUME NEW h \in Goals, goals'[h].plan # None
             PROVE  /\ plans'[goals'[h].plan].goal = h
                    /\ plans'[goals'[h].plan].status # "SUPERSEDED"
  BY DEF CurrentPlanLives
<1>1. \A k \in Goals : goals[k] \in GoalRecords BY DEF TypeOK
<1>2. goals'[h].plan = IF h = g THEN p ELSE goals[h].plan
  BY <1>1 DEF Build, TypeOK, GoalRecords
<1>3. CASE h = g BY <1>2, <1>3 DEF Build
<1>4. CASE h # g
  <2> DEFINE q == goals[h].plan
  <2>1. q \in Plans BY <1>1, <1>2, <1>4 DEF GoalRecords
  <2>2. plans[q].goal = h /\ plans[q].status # "SUPERSEDED"
    BY <1>2, <1>4 DEF CurrentPlanLives
  <2>3. q # p /\ q # retired
    BY <1>4, <2>1, <2>2 DEF Build, PlanInv, PlanGoals, OperationsAssumption
  <2>4. plans'[q] = plans[q] BY <2>1, <2>3 DEF Build
  <2> QED BY <1>2, <1>4, <2>2, <2>4
<1> QED BY <1>3, <1>4

\* What a step does to its plan and its goal: nothing, or a status that is not
\* SUPERSEDED.
LEMMA StepMoves ==
    ASSUME TypeOK, NEW t \in Tasks,
           \/ UNCHANGED <<plans, goals>>
           \/ \E moved \in {"NEEDS_REPLAN", "COMPLETED"}, to \in {"BLOCKED", "COMPLETED"} :
                /\ plans' = [plans EXCEPT ![t[1]].status = moved]
                /\ goals' = [goals EXCEPT ![GoalOf(t)].status = to]
    PROVE  /\ \A g \in Goals : goals'[g].plan = goals[g].plan
           /\ \A g \in Goals : goals'[g].status # goals[g].status =>
                    goals'[g].status \in {"BLOCKED", "COMPLETED"} /\ GoalOf(t) = g
           /\ \A p \in Plans : /\ plans'[p].goal = plans[p].goal
                               /\ plans'[p].status = "SUPERSEDED" => plans[p].status = "SUPERSEDED"
<1>0. /\ \A g \in Goals : goals[g] \in GoalRecords
      /\ \A p \in Plans : plans[p] \in PlanRecords
  BY DEF TypeOK
<1>1. CASE UNCHANGED <<plans, goals>> BY <1>1
<1>2. ASSUME NEW moved \in {"NEEDS_REPLAN", "COMPLETED"}, NEW to \in {"BLOCKED", "COMPLETED"},
             plans' = [plans EXCEPT ![t[1]].status = moved],
             goals' = [goals EXCEPT ![GoalOf(t)].status = to]
      PROVE  /\ \A g \in Goals : goals'[g].plan = goals[g].plan
             /\ \A g \in Goals : goals'[g].status # goals[g].status =>
                      goals'[g].status \in {"BLOCKED", "COMPLETED"} /\ GoalOf(t) = g
             /\ \A p \in Plans : /\ plans'[p].goal = plans[p].goal
                                 /\ plans'[p].status = "SUPERSEDED" => plans[p].status = "SUPERSEDED"
  <2>1. \A g \in Goals : goals'[g] =
            IF g = GoalOf(t) THEN [goals[g] EXCEPT !.status = to] ELSE goals[g]
    BY <1>2 DEF TypeOK
  <2>2. \A p \in Plans : plans'[p] =
            IF p = t[1] THEN [plans[p] EXCEPT !.status = moved] ELSE plans[p]
    BY <1>2 DEF TypeOK
  <2>3. ASSUME NEW x \in GoalRecords
        PROVE  /\ [x EXCEPT !.status = to].plan = x.plan
               /\ [x EXCEPT !.status = to].status = to
    BY DEF GoalRecords
  <2>4. ASSUME NEW x \in PlanRecords
        PROVE  /\ [x EXCEPT !.status = moved].goal = x.goal
               /\ [x EXCEPT !.status = moved].status = moved
    BY DEF PlanRecords
  <2>5. \A g \in Goals : /\ goals'[g].plan = goals[g].plan
                         /\ goals'[g].status # goals[g].status =>
                                goals'[g].status = to /\ GoalOf(t) = g
    BY <1>0, <2>1, <2>3
  <2>6. \A p \in Plans : /\ plans'[p].goal = plans[p].goal
                         /\ plans'[p].status = plans[p].status \/ plans'[p].status = moved
    <3> TAKE p \in Plans
    <3>1. CASE p = t[1]
      <4>1. plans'[p] = [plans[p] EXCEPT !.status = moved] BY <2>2, <3>1
      <4> QED BY <1>0, <2>4, <4>1
    <3>2. CASE p # t[1] BY <2>2, <3>2
    <3> QED BY <3>1, <3>2
  <2> QED BY <2>5, <2>6
<1> QED BY <1>1, <1>2

\* The steps of a task, as far as plans and goals are concerned: one that moves its
\* goal ends its task.
LEMMA StepGoals ==
    ASSUME TypeOK, StepNext
    PROVE  \E t \in Tasks :
        /\ \/ UNCHANGED <<plans, goals>>
           \/ \E moved \in {"NEEDS_REPLAN", "COMPLETED"}, to \in {"BLOCKED", "COMPLETED"} :
                /\ plans' = [plans EXCEPT ![t[1]].status = moved]
                /\ goals' = [goals EXCEPT ![GoalOf(t)].status = to]
        /\ UNCHANGED goals \/ Finishes(t)
<1> PICK t \in Tasks :
        \/ AllocateStepResources(t) \/ StartStep(t) \/ CancelStep(t)
        \/ \E a \in Agents : AssignStep(t, a) \/ DispatchStep(t, a)
        \/ \E o \in Outcomes, success \in BOOLEAN : RecordStepOutcome(t, o, success)
  BY DEF StepNext
<1>0. steps[t] \in StepRecords BY DEF TypeOK
<1>1. CASE \/ AllocateStepResources(t) \/ StartStep(t)
           \/ \E a \in Agents : AssignStep(t, a) \/ DispatchStep(t, a)
  <2>1. UNCHANGED <<plans, goals>>
    BY <1>1 DEF AllocateStepResources, StartStep, AssignStep, DispatchStep
  <2> QED BY <2>1
<1>2. CASE CancelStep(t)
  <2>1. steps'[t] = [steps[t] EXCEPT !.status = "CANCELLED", !.allocated = FALSE]
    BY <1>2 DEF CancelStep, TypeOK
  <2>2. steps'[t].status = "CANCELLED" BY <1>0, <2>1 DEF StepRecords
  <2>3. Finishes(t) BY <1>2, <2>2 DEF CancelStep, Finishes, Terminal
  <2> QED BY <1>2, <2>3 DEF CancelStep, NeedsReplan
<1>3. ASSUME NEW o \in Outcomes, NEW success \in BOOLEAN, RecordStepOutcome(t, o, success)
      PROVE  /\ Finishes(t)
             /\ \/ UNCHANGED <<plans, goals>>
                \/ \E moved \in {"NEEDS_REPLAN", "COMPLETED"}, to \in {"BLOCKED", "COMPLETED"} :
                    /\ plans' = [plans EXCEPT ![t[1]].status = moved]
                    /\ goals' = [goals EXCEPT ![GoalOf(t)].status = to]
  <2>1. steps'[t] = [steps[t] EXCEPT !.status = IF success THEN "SUCCEEDED" ELSE "FAILED"]
    BY <1>3 DEF RecordStepOutcome, TypeOK
  <2>2. steps'[t].status \in {"SUCCEEDED", "FAILED"} BY <1>0, <2>1 DEF StepRecords
  <2>3. Finishes(t)
    BY <1>3, <2>2 DEF RecordStepOutcome, MayRecord, InFlight, Finishes, Terminal
  <2> QED BY <1>3, <2>3 DEF RecordStepOutcome, NeedsReplan
<1> QED BY <1>1, <1>2, <1>3

LEMMA LeavesGoals ==
    (RegisterNext \/ LinkNext) => UNCHANGED <<goals, plans, steps>>
BY DEF RegisterNext, LinkNext, RegisterAgent, SetAgentStatus, RegisterResourcePool, work

LEMMA CurrentStep ==
    ASSUME OperationsAssumption, TypeOK, PlanInv, CurrentPlanLives, [Next]_vars
    PROVE  CurrentPlanLives'
<1>1. CASE RegisterNext \/ LinkNext \/ UNCHANGED vars
  BY <1>1, LeavesGoals DEF vars, work, CurrentPlanLives
<1>2. CASE StepNext
  <2>1. PICK t \in Tasks :
            \/ UNCHANGED <<plans, goals>>
            \/ \E moved \in {"NEEDS_REPLAN", "COMPLETED"}, to \in {"BLOCKED", "COMPLETED"} :
                /\ plans' = [plans EXCEPT ![t[1]].status = moved]
                /\ goals' = [goals EXCEPT ![GoalOf(t)].status = to]
    BY <1>2, StepGoals
  <2>2. /\ \A g \in Goals : goals'[g].plan = goals[g].plan
        /\ \A p \in Plans : /\ plans'[p].goal = plans[p].goal
                            /\ plans'[p].status = "SUPERSEDED" => plans[p].status = "SUPERSEDED"
    BY <2>1, StepMoves
  <2> QED BY <2>2, CurrentKept
<1>3. CASE PlanNext
  <2>1. ASSUME NEW g \in Goals, NEW deps \in SUBSET Goals, NEW activate \in BOOLEAN,
               CreateGoal(g, deps, activate)
        PROVE  CurrentPlanLives'
    BY <2>1, CurrentKept DEF CreateGoal, TypeOK
  <2>2. ASSUME NEW g \in Goals, NEW status \in GoalStatuses, TransitionGoal(g, status)
        PROVE  CurrentPlanLives'
    <3>1. \A h \in Goals : goals[h] \in GoalRecords BY DEF TypeOK
    <3>2. \A h \in Goals : goals'[h].plan = goals[h].plan
      BY <2>2, <3>1 DEF TransitionGoal, TypeOK, GoalRecords
    <3> QED BY <2>2, <3>2, CurrentKept DEF TransitionGoal
  <2>3. ASSUME NEW p \in Plans, NEW S \in SUBSET Steps, NEW g \in Goals, CreatePlan(p, g, S)
        PROVE  CurrentPlanLives'
    BY <2>3, BuildCurrent DEF CreatePlan, OperationsAssumption
  <2>4. ASSUME NEW p \in Plans, NEW S \in SUBSET Steps, NEW old \in Plans, Replan(old, p, S)
        PROVE  CurrentPlanLives'
    <3>1. plans[old].goal \in Goals
      BY <2>4 DEF Replan, PlanInv, PlanGoals, TypeOK, PlanRecords
    <3> QED BY <2>4, <3>1, BuildCurrent DEF Replan
  <2> QED BY <1>3, <2>1, <2>2, <2>3, <2>4 DEF PlanNext
<1> QED BY <1>1, <1>2, <1>3 DEF Next

-----------------------------------------------------------------------------
(* The moves of a goal. *)

\* A plan that is replaced is one for a goal, which PlanGoals says.
LEMMA MovesStep ==
    ASSUME OperationsAssumption, TypeOK, PlanInv, [Next]_vars, NEW g \in Goals
    PROVE  LET from == goals[g].status
               to == goals'[g].status IN
           \/ from = to
           \/ from = "NONE" /\ to \in {"PROPOSED", "ACTIVE"}
           \/ from # "NONE" /\ to \in Transitions[from]
           \/ to \in {"BLOCKED", "COMPLETED"} /\ \E t \in Tasks : Finishes(t) /\ GoalOf(t) = g
<1> DEFINE Explained ==
        \/ goals[g].status = goals'[g].status
        \/ goals[g].status = "NONE" /\ goals'[g].status \in {"PROPOSED", "ACTIVE"}
        \/ goals[g].status # "NONE" /\ goals'[g].status \in Transitions[goals[g].status]
        \/ /\ goals'[g].status \in {"BLOCKED", "COMPLETED"}
           /\ \E t \in Tasks : Finishes(t) /\ GoalOf(t) = g
<1> SUFFICES Explained OBVIOUS
<1>0. \A h \in Goals : goals[h] \in GoalRecords BY DEF TypeOK
<1>1. CASE RegisterNext \/ LinkNext \/ UNCHANGED vars BY <1>1, LeavesGoals DEF vars, work
<1>2. CASE StepNext
  <2>1. PICK t \in Tasks :
            /\ \/ UNCHANGED <<plans, goals>>
               \/ \E moved \in {"NEEDS_REPLAN", "COMPLETED"}, to \in {"BLOCKED", "COMPLETED"} :
                    /\ plans' = [plans EXCEPT ![t[1]].status = moved]
                    /\ goals' = [goals EXCEPT ![GoalOf(t)].status = to]
            /\ UNCHANGED goals \/ Finishes(t)
    BY <1>2, StepGoals
  <2>2. goals'[g].status # goals[g].status =>
            goals'[g].status \in {"BLOCKED", "COMPLETED"} /\ GoalOf(t) = g
    BY <2>1, StepMoves
  <2> QED BY <2>1, <2>2
<1>3. CASE PlanNext
  <2>1. ASSUME NEW h \in Goals, NEW deps \in SUBSET Goals, NEW activate \in BOOLEAN,
               CreateGoal(h, deps, activate)
        PROVE  Explained
    BY <2>1 DEF CreateGoal, TypeOK
  <2>2. ASSUME NEW h \in Goals, NEW status \in GoalStatuses, TransitionGoal(h, status)
        PROVE  Explained
    <3>1. CASE h # g BY <2>2, <3>1 DEF TransitionGoal, TypeOK
    <3>2. CASE h = g
      <4>1. goals'[g] = [goals[g] EXCEPT !.status = status]
        BY <2>2, <3>2 DEF TransitionGoal, TypeOK
      <4>2. goals'[g].status = status BY <1>0, <4>1 DEF GoalRecords
      <4> QED BY <2>2, <3>2, <4>2 DEF TransitionGoal
    <3> QED BY <3>1, <3>2
  <2>3. ASSUME NEW p \in Plans, NEW h \in Goals, NEW S \in SUBSET Steps, NEW retired,
               Build(p, h, S, retired)
        PROVE  Explained
    <3>1. CASE h # g BY <2>3, <3>1 DEF Build, TypeOK
    <3>2. CASE h = g
      <4>1. goals'[g] = [goals[g] EXCEPT !.plan = p, !.status = "ACTIVE"]
        BY <2>3, <3>2 DEF Build, TypeOK
      <4>2. goals'[g].status = "ACTIVE" BY <1>0, <4>1 DEF GoalRecords
      <4>3. goals[g].status \in {"ACTIVE", "BLOCKED"} BY <2>3, <3>2 DEF Build
      <4>4. "ACTIVE" \in Transitions["BLOCKED"] BY DEF Transitions
      <4> QED BY <4>2, <4>3, <4>4
    <3> QED BY <3>1, <3>2
  <2>4. ASSUME NEW p \in Plans, NEW S \in SUBSET Steps, NEW old \in Plans, Replan(old, p, S)
        PROVE  Explained
    <3>1. plans[old].goal \in Goals
      BY <2>4 DEF Replan, PlanInv, PlanGoals, TypeOK, PlanRecords
    <3> HIDE DEF Explained
    <3> QED BY <2>3, <2>4, <3>1 DEF Replan
  <2> HIDE DEF Explained
  <2> QED BY <1>3, <2>1, <2>2, <2>3, <2>4 DEF PlanNext, CreatePlan
<1> QED BY <1>1, <1>2, <1>3 DEF Next

-----------------------------------------------------------------------------
(* The inductive invariant. *)

IInv == TypeOK /\ PlanInv /\ AgentInv /\ PoolInv /\ CurrentPlanLives

LEMMA LeavesAgents ==
    /\ RegisterNext => UNCHANGED <<plans, steps>>
    /\ LinkNext => UNCHANGED <<plans, steps, agents, pools>>
BY DEF RegisterNext, LinkNext, RegisterAgent, SetAgentStatus, RegisterResourcePool, work

LEMMA Inductive ==
    ASSUME OperationsAssumption, IInv, [Next]_vars PROVE IInv'
<1> USE DEF IInv
<1>1. PlanInv => PlanGoals /\ StepAgents BY DEF PlanInv
<1>2. TypeOK' /\ PlanInv' /\ AgentInv' /\ PoolInv'
  <2>1. CASE RegisterNext
    BY <2>1, LeavesAgents, RegisterType, SamePlans, RegisterAgents, RegisterPools
  <2>2. CASE PlanNext BY <1>1, <2>2, PlanType, PlanPreserved, PlanAgents, PlanPools
  <2>3. CASE StepNext BY <1>1, <2>3, StepType, StepPreserved, StepAgentsPreserved, StepPools
  <2>4. CASE LinkNext
    BY <2>4, LeavesAgents, LinkType, SamePlans, SameAgents, SamePools
  <2>5. CASE UNCHANGED vars
    <3>1. TypeOK' BY <2>5 DEF TypeOK, StoresTypeOK, vars, work, stores
    <3>2. UNCHANGED <<plans, steps, agents, pools>> BY <2>5 DEF vars, work
    <3> QED BY <3>1, <3>2, SamePlans, SameAgents, SamePools
  <2> QED BY <2>1, <2>2, <2>3, <2>4, <2>5 DEF Next
<1>3. CurrentPlanLives' BY CurrentStep
<1> QED BY <1>2, <1>3

LEMMA Invariance == OperationsAssumption => (Spec => []IInv)
<1> SUFFICES ASSUME OperationsAssumption PROVE Spec => []IInv OBVIOUS
<1>1. Init => IInv
  BY InitType, InitPlans, InitAgents, InitPools, InitCurrent DEF IInv
<1>2. IInv /\ [Next]_vars => IInv' BY Inductive
<1> QED BY <1>1, <1>2, PTL DEF Spec

\* The constants are as OperationsAssumption says.
LEMMA Invariant == Spec => []IInv
BY OperationsAssumption, Invariance

-----------------------------------------------------------------------------
(* Sums.  A sum over a set is a fold, which picks the elements one by one.  *)
(* Two sums of the same set pick them in the same order.                    *)

\* A function on the subsets of S that adds f up, element by element.
AddsUp(g, f, S) ==
    g = [U \in SUBSET S |->
            IF U = {} THEN 0
            ELSE f[CHOOSE t \in U : TRUE] + g[U \ {CHOOSE t \in U : TRUE}]]

Sum(f, S) == (CHOOSE g : AddsUp(g, f, S))[S]

\* What holds of a set whenever it holds of its proper subsets holds of every finite
\* set: a set that is minimal among the others has no others below it.
LEMMA SubsetInduction ==
    ASSUME NEW S, IsFiniteSet(S), NEW G \in SUBSET SUBSET S,
           \A U \in SUBSET S : (\A V \in SUBSET U : V # U => V \in G) => U \in G
    PROVE  G = SUBSET S
<1> DEFINE Bad == (SUBSET S) \ G
<1> SUFFICES ASSUME Bad # {} PROVE FALSE OBVIOUS
<1>1. IsWellFoundedOn(StrictSubsetOrdering(S), SUBSET S)
  <2>1. IsWellFoundedOn(StrictSubsetOrdering(S), FiniteSubsetsOf(S))
    BY FS_StrictSubsetOrderingWellFounded
  <2>2. FiniteSubsetsOf(S) = SUBSET S BY FS_FiniteSubsetsOfFinite
  <2> QED BY <2>1, <2>2
<1>2. Bad \subseteq SUBSET S OBVIOUS
<1> HIDE DEF Bad
<1>3. PICK U \in Bad : \A V \in Bad : ~(<<V, U>> \in StrictSubsetOrdering(S))
  BY <1>1, <1>2, WFMin
<1>4. \A V \in SUBSET U : V # U => V \in G
  <2> TAKE V \in SUBSET U
  <2> SUFFICES ASSUME V # U, V \notin G PROVE FALSE OBVIOUS
  <2>1. V \in Bad /\ V \in SUBSET S BY <1>2, <1>3 DEF Bad
  <2> QED BY <1>2, <1>3, <2>1 DEF StrictSubsetOrdering
<1> QED BY <1>2, <1>3, <1>4 DEF Bad

LEMMA Picked == \A U : U # {} => (CHOOSE t \in U : TRUE) \in U
OBVIOUS

LEMMA AddsUpAlike ==
    ASSUME NEW S, IsFiniteSet(S), NEW f, NEW g, NEW h, NEW A, NEW B,
           AddsUp(g, f, A), AddsUp(h, f, B), S \subseteq A, S \subseteq B
    PROVE  g[S] = h[S]
<1> DEFINE G == {U \in SUBSET S : g[U] = h[U]}
<1>1. ASSUME NEW U \in SUBSET S, \A V \in SUBSET U : V # U => V \in G
      PROVE  U \in G
  <2> DEFINE t == CHOOSE t \in U : TRUE
  <2>1. /\ g[U] = IF U = {} THEN 0 ELSE f[t] + g[U \ {t}]
        /\ h[U] = IF U = {} THEN 0 ELSE f[t] + h[U \ {t}]
    BY DEF AddsUp
  <2>2. U # {} => t \in U BY Picked
  <2> HIDE DEF t
  <2>3. U # {} => U \ {t} \in G BY <1>1, <2>2
  <2> QED BY <2>1, <2>3
<1>2. G \in SUBSET SUBSET S OBVIOUS
<1> HIDE DEF G
<1>3. G = SUBSET S BY <1>1, <1>2, SubsetInduction
<1> QED BY <1>3 DEF G

LEMMA AddedUp ==
    ASSUME NEW S, IsFiniteSet(S), NEW f
    PROVE  \E g : AddsUp(g, f, S)
<1> DEFINE G == {U \in SUBSET S : \E g : AddsUp(g, f, U)}
<1>1. ASSUME NEW U \in SUBSET S, \A V \in SUBSET U : V # U => V \in G
      PROVE  U \in G
  <2> DEFINE t == CHOOSE t \in U : TRUE
             h(V) == CHOOSE g : AddsUp(g, f, V)
             g == [V \in SUBSET U |->
                     IF V = U THEN IF U = {} THEN 0 ELSE f[t] + h(U \ {t})[U \ {t}]
                     ELSE h(V)[V]]
  <2>1. \A V \in SUBSET U : V # U => AddsUp(h(V), f, V) BY <1>1
  <2>2. ASSUME NEW V \in SUBSET U
        PROVE  g[V] = IF V = {} THEN 0
                      ELSE f[CHOOSE x \in V : TRUE] + g[V \ {CHOOSE x \in V : TRUE}]
    <3> DEFINE x == CHOOSE x \in V : TRUE
               W == V \ {x}
    <3>1. V # {} => x \in V BY Picked
    <3>2. V # {} => W \in SUBSET U /\ W # U /\ W # V BY <3>1
    <3>3. V # {} => g[W] = h(W)[W] BY <3>2
    <3>4. CASE V = U
      <4>1. U # {} => g[V] = f[t] + h(U \ {t})[U \ {t}] BY <3>4
      <4>2. U = {} => g[V] = 0 BY <3>4
      <4>3. t = x /\ W = U \ {t} BY <3>4
      <4> HIDE DEF g, h, t
      <4> QED BY <3>3, <3>4, <4>1, <4>2, <4>3
    <3>5. CASE V # U
      <4>1. g[V] = h(V)[V] BY <3>5
      <4>2. AddsUp(h(V), f, V) BY <2>1, <3>5
      <4>3. h(V)[V] = IF V = {} THEN 0 ELSE f[x] + h(V)[W]
        <5> HIDE DEF h
        <5> QED BY <4>2 DEF AddsUp
      <4>4. V # {} => AddsUp(h(W), f, W) BY <2>1, <3>2
      <4>5. V # {} => h(V)[W] = h(W)[W]
        <5> HIDE DEF h
        <5>1. IsFiniteSet(W) BY FS_Subset
        <5> HIDE DEF W
        <5> QED BY <4>2, <4>4, <5>1, AddsUpAlike DEF W
      <4> HIDE DEF g, h
      <4> QED BY <3>3, <4>1, <4>3, <4>5
    <3> QED BY <3>4, <3>5
  <2>3. g = [V \in SUBSET U |-> g[V]]
    <3> HIDE DEF h, t
    <3> QED OBVIOUS
  <2>4. AddsUp(g, f, U)
    <3> HIDE DEF g
    <3> QED BY <2>2, <2>3 DEF AddsUp
  <2> QED BY <2>4
<1>2. G \in SUBSET SUBSET S OBVIOUS
<1> HIDE DEF G
<1>3. G = SUBSET S BY <1>1, <1>2, SubsetInduction
<1> QED BY <1>3 DEF G

\* There is one such function, and so the sum is its value.
LEMMA SumIs ==
    ASSUME NEW S, IsFiniteSet(S), NEW f, NEW g, AddsUp(g, f, S)
    PROVE  g[S] = Sum(f, S)
<1> DEFINE h == CHOOSE h : AddsUp(h, f, S)
<1>1. AddsUp(h, f, S) BY AddedUp
<1> HIDE DEF h
<1>2. g[S] = h[S] BY <1>1, AddsUpAlike
<1> QED BY <1>2 DEF h, Sum

\* A sum of numbers is one, and changes by what one of them changes.
LEMMA SumChanged ==
    ASSUME NEW S, IsFiniteSet(S), NEW f \in [S -> Nat], NEW h \in [S -> Nat], NEW t \in S,
           \A u \in S : u # t => h[u] = f[u]
    PROVE  /\ Sum(f, S) \in Nat /\ Sum(h, S) \in Nat
           /\ Sum(h, S) = Sum(f, S) - f[t] + h[t]
<1> DEFINE a == CHOOSE a : AddsUp(a, f, S)
           b == CHOOSE b : AddsUp(b, h, S)
           G == {U \in SUBSET S :
                    /\ a[U] \in Nat /\ b[U] \in Nat
                    /\ b[U] = IF t \in U THEN a[U] - f[t] + h[t] ELSE a[U]}
<1>1. AddsUp(a, f, S) /\ AddsUp(b, h, S) BY AddedUp
<1> HIDE DEF a, b
<1>2. ASSUME NEW U \in SUBSET S, \A V \in SUBSET U : V # U => V \in G
      PROVE  U \in G
  <2> DEFINE x == CHOOSE x \in U : TRUE
  <2>1. /\ a[U] = IF U = {} THEN 0 ELSE f[x] + a[U \ {x}]
        /\ b[U] = IF U = {} THEN 0 ELSE h[x] + b[U \ {x}]
    BY <1>1 DEF AddsUp
  <2>2. U # {} => x \in U BY Picked
  <2> HIDE DEF x
  <2>3. CASE U = {} BY <2>1, <2>3
  <2>4. CASE U # {}
    <3>1. U \ {x} \in G BY <1>2, <2>2, <2>4
    <3>2. f[x] \in Nat /\ h[x] \in Nat /\ f[t] \in Nat /\ h[t] \in Nat BY <2>2, <2>4
    <3>3. CASE x = t BY <2>1, <2>2, <2>4, <3>1, <3>2, <3>3
    <3>4. CASE x # t BY <2>1, <2>2, <2>4, <3>1, <3>2, <3>4
    <3> QED BY <3>3, <3>4
  <2> QED BY <2>3, <2>4
<1>3. G \in SUBSET SUBSET S OBVIOUS
<1> HIDE DEF G
<1>4. G = SUBSET S BY <1>2, <1>3, SubsetInduction
<1>5. a[S] = Sum(f, S) /\ b[S] = Sum(h, S) BY DEF a, b, Sum
<1> QED BY <1>4, <1>5 DEF G

LEMMA SumOfNothing ==
    ASSUME NEW S, IsFiniteSet(S), NEW f, \A t \in S : f[t] = 0
    PROVE  Sum(f, S) = 0
<1> DEFINE a == CHOOSE a : AddsUp(a, f, S)
           G == {U \in SUBSET S : a[U] = 0}
<1>1. AddsUp(a, f, S) BY AddedUp
<1> HIDE DEF a
<1>2. ASSUME NEW U \in SUBSET S, \A V \in SUBSET U : V # U => V \in G
      PROVE  U \in G
  <2> DEFINE x == CHOOSE x \in U : TRUE
  <2>1. a[U] = IF U = {} THEN 0 ELSE f[x] + a[U \ {x}] BY <1>1 DEF AddsUp
  <2>2. U # {} => x \in U BY Picked
  <2> HIDE DEF x
  <2>3. U # {} => U \ {x} \in G BY <1>2, <2>2
  <2> QED BY <2>1, <2>2, <2>3
<1>3. G \in SUBSET SUBSET S OBVIOUS
<1> HIDE DEF G
<1>4. G = SUBSET S BY <1>2, <1>3, SubsetInduction
<1> QED BY <1>4 DEF G, a, Sum

\* What the ledger adds up.
LEMMA HeldIsSum ==
    ASSUME IsFiniteSet(Tasks), NEW r \in Pools
    PROVE  Ledger!Held(r) = Sum(pools[r].allocations, Tasks)
<1> DEFINE held == [t \in Tasks |-> [q \in Pools |-> pools[q].allocations[t]]]
           next(g) == [U \in SUBSET Tasks |->
                         IF U = {} THEN 0
                         ELSE held[CHOOSE t \in U : TRUE][r]
                                + g[U \ {CHOOSE t \in U : TRUE}]]
           iter == CHOOSE g : g = next(g)
<1>1. Ledger!Held(r) = iter[Tasks]
  BY DEF Ledger!Held, Ledger!MapThenSumSet, Ledger!MapThenFoldSet
<1>2. \A t \in Tasks : held[t][r] = pools[r].allocations[t] OBVIOUS
<1>3. ASSUME NEW g PROVE g = next(g) <=> AddsUp(g, pools[r].allocations, Tasks)
  <2> HIDE DEF held
  <2> QED BY <1>2, Picked DEF AddsUp
<1>4. iter = next(iter)
  <2>1. \E g : g = next(g) BY <1>3, AddedUp
  <2> HIDE DEF next
  <2> QED BY <2>1
<1> HIDE DEF iter, next
<1>5. AddsUp(iter, pools[r].allocations, Tasks) BY <1>3, <1>4
<1> QED BY <1>1, <1>5, SumIs
-----------------------------------------------------------------------------
(* The ledger: what is allocated of a pool is what its tasks hold of it. *)

Filled == \A r \in Pools :
    /\ ~pools[r].registered => pools[r].capacity = 0
    /\ pools[r].allocated = Sum(pools[r].allocations, Tasks)

\* How a reservation changes each pool, whether or not the step requests it.
LEMMA ReservedPool ==
    ASSUME OperationsAssumption, TypeOK, PoolInv, NEW t \in Tasks, NEW r \in Pools,
           ~steps[t].allocated, Fits(t), pools' = Reserved(t)
    PROVE  /\ pools'[r].registered = pools[r].registered
           /\ pools'[r].capacity = pools[r].capacity
           /\ pools'[r].allocated = pools[r].allocated + Requests[t[2]][r]
           /\ pools'[r].allocations = [pools[r].allocations EXCEPT ![t] = Requests[t[2]][r]]
           /\ pools[r].allocations[t] = 0
           /\ pools[r].allocated + Requests[t[2]][r] <= pools[r].capacity
<1>1. /\ pools[r] \in PoolRecords /\ pools[r].allocations \in [Tasks -> Nat]
      /\ pools[r].capacity \in Nat /\ pools[r].allocated \in Nat
  BY DEF TypeOK, PoolRecords
<1>2. /\ pools[r].allocations[t] = 0
      /\ pools[r].allocated <= pools[r].capacity
  BY DEF PoolInv, Share
<1>3. /\ Requests[t[2]][r] \in Nat
      /\ r \notin Requesting(t) => Requests[t[2]][r] = 0
  BY RequestType
<1>4. CASE r \in Requesting(t)
  <2>1. pools'[r] = [pools[r] EXCEPT !.allocated = pools[r].allocated + Requests[t[2]][r],
            !.allocations = [pools[r].allocations EXCEPT ![t] = Requests[t[2]][r]]]
    BY <1>4 DEF Reserved
  <2>2. pools[r].capacity - pools[r].allocated >= Requests[t[2]][r] BY <1>4 DEF Fits
  <2>3. pools[r].allocated + Requests[t[2]][r] <= pools[r].capacity BY <1>1, <1>3, <2>2
  <2> QED BY <1>1, <1>2, <2>1, <2>3 DEF PoolRecords
<1>5. CASE r \notin Requesting(t)
  <2>1. pools'[r] = pools[r] BY <1>5 DEF Reserved
  <2>2. [pools[r].allocations EXCEPT ![t] = 0] = pools[r].allocations BY <1>1, <1>2
  <2> QED BY <1>1, <1>2, <1>3, <1>5, <2>1, <2>2
<1> QED BY <1>4, <1>5

\* How a release changes each pool, whether or not the step has some of it.
LEMMA ReleasedPool ==
    ASSUME OperationsAssumption, TypeOK, PoolInv, NEW t \in Tasks, NEW r \in Pools,
           NEW used \in BOOLEAN, ~Terminal(t), pools' = Released(t, used)
    PROVE  LET n == pools[r].allocations[t] IN
           /\ pools'[r].registered = pools[r].registered
           /\ pools'[r].capacity = IF used /\ r \notin Renewable
                                     THEN AtLeastZero(pools[r].capacity - n)
                                     ELSE pools[r].capacity
           /\ pools'[r].allocated = AtLeastZero(pools[r].allocated - n)
           /\ pools'[r].allocations = [pools[r].allocations EXCEPT ![t] = 0]
<1> DEFINE n == pools[r].allocations[t]
<1>1. /\ pools[r] \in PoolRecords /\ pools[r].allocations \in [Tasks -> Nat]
      /\ pools[r].capacity \in Nat /\ pools[r].allocated \in Nat
  BY DEF TypeOK, PoolRecords
<1>2. n = IF steps[t].allocated THEN Requests[t[2]][r] ELSE 0 BY DEF PoolInv, Share
<1>3. CASE steps[t].allocated /\ r \in Requesting(t)
  <2> DEFINE left == IF used /\ r \notin Renewable
                       THEN AtLeastZero(pools[r].capacity - n) ELSE pools[r].capacity
  <2>1. pools'[r] = [pools[r] EXCEPT !.allocated = AtLeastZero(pools[r].allocated - n),
            !.capacity = left,
            !.allocations = [pools[r].allocations EXCEPT ![t] = 0]]
    BY <1>2, <1>3 DEF Released
  <2> HIDE DEF left, n
  <2>2. /\ pools'[r].registered = pools[r].registered
        /\ pools'[r].capacity = left
        /\ pools'[r].allocated = AtLeastZero(pools[r].allocated - n)
        /\ pools'[r].allocations = [pools[r].allocations EXCEPT ![t] = 0]
    BY <1>1, <2>1 DEF PoolRecords
  <2> QED BY <2>2 DEF left, n
<1>4. CASE ~(steps[t].allocated /\ r \in Requesting(t))
  <2>1. pools'[r] = pools[r] BY <1>4 DEF Released
  <2>2. n = 0 BY <1>2, <1>4, RequestType
  <2>3. [pools[r].allocations EXCEPT ![t] = 0] = pools[r].allocations BY <1>1, <2>2
  <2>4. /\ AtLeastZero(pools[r].capacity - n) = pools[r].capacity
        /\ AtLeastZero(pools[r].allocated - n) = pools[r].allocated
    BY <1>1, <2>2 DEF AtLeastZero
  <2> QED BY <2>1, <2>3, <2>4
<1> QED BY <1>3, <1>4

\* A task holds no more of a pool than is allocated, so that no release is cut off.
LEMMA PartOfSum ==
    ASSUME IsFiniteSet(Tasks), TypeOK, Filled, NEW t \in Tasks, NEW r \in Pools
    PROVE  /\ pools[r].allocations[t] <= pools[r].allocated
           /\ \A n \in Nat : Sum([pools[r].allocations EXCEPT ![t] = n], Tasks)
                               = pools[r].allocated - pools[r].allocations[t] + n
<1>1. pools[r].allocations \in [Tasks -> Nat] /\ pools[r].allocated \in Nat
  BY DEF TypeOK, PoolRecords
<1>2. ASSUME NEW n \in Nat
      PROVE  /\ Sum([pools[r].allocations EXCEPT ![t] = n], Tasks) \in Nat
             /\ Sum([pools[r].allocations EXCEPT ![t] = n], Tasks)
                  = pools[r].allocated - pools[r].allocations[t] + n
  <2> DEFINE f == pools[r].allocations
             h == [f EXCEPT ![t] = n]
  <2>1. h \in [Tasks -> Nat] /\ h[t] = n /\ \A u \in Tasks : u # t => h[u] = f[u] BY <1>1
  <2>2. Sum(f, Tasks) = pools[r].allocated BY DEF Filled
  <2>3. f \in [Tasks -> Nat] BY <1>1
  <2> HIDE DEF h, f
  <2>4. Sum(h, Tasks) \in Nat /\ Sum(h, Tasks) = Sum(f, Tasks) - f[t] + h[t]
    BY <2>1, <2>3, SumChanged
  <2> QED BY <2>1, <2>2, <2>4 DEF h, f
<1>3. pools[r].allocated - pools[r].allocations[t] + 0 \in Nat BY <1>2
<1> QED BY <1>1, <1>2, <1>3

LEMMA InitFilled == IsFiniteSet(Tasks) /\ Init => Filled
<1> SUFFICES ASSUME IsFiniteSet(Tasks), Init, NEW r \in Pools
             PROVE  /\ ~pools[r].registered => pools[r].capacity = 0
                    /\ pools[r].allocated = Sum(pools[r].allocations, Tasks)
  BY DEF Filled
<1>1. /\ pools[r].capacity = 0 /\ pools[r].allocated = 0
      /\ pools[r].allocations = [t \in Tasks |-> 0]
  BY DEF Init
<1>2. \A t \in Tasks : pools[r].allocations[t] = 0 BY <1>1
<1>3. Sum(pools[r].allocations, Tasks) = 0 BY <1>2, SumOfNothing
<1> QED BY <1>1, <1>3

-----------------------------------------------------------------------------
(* Each step is one of the ledger's or leaves pools alone. *)

Stock == [r \in Pools |-> pools[r].capacity]
Holding == [t \in Tasks |-> [r \in Pools |-> pools[r].allocations[t]]]

LEMMA Supplies ==
    ASSUME OperationsAssumption, TypeOK, PoolInv, Filled, NEW r \in Pools,
           RegisterResourcePool(r)
    PROVE  Ledger!Supply(r) /\ Filled'
<1>1. /\ pools[r] \in PoolRecords /\ ~pools[r].registered
      /\ pools' = [pools EXCEPT ![r].registered = TRUE, ![r].capacity = Capacity[r]]
  BY DEF TypeOK, RegisterResourcePool
<1>2. \A u \in Pools : u # r => pools'[u] = pools[u] BY <1>1 DEF TypeOK
<1>3. pools'[r] = [pools[r] EXCEPT !.registered = TRUE, !.capacity = Capacity[r]]
  BY <1>1 DEF TypeOK
<1>4. /\ pools'[r].registered = TRUE
      /\ pools'[r].capacity = Capacity[r]
      /\ pools'[r].allocated = pools[r].allocated
      /\ pools'[r].allocations = pools[r].allocations
  BY <1>1, <1>3 DEF PoolRecords
<1>5. Capacity[r] \in Nat /\ pools[r].capacity = 0
  BY <1>1 DEF OperationsAssumption, Filled
<1>6. Filled' BY <1>2, <1>4 DEF Filled
<1>7. Stock[r] = 0 /\ Stock'[r] \in Nat BY <1>4, <1>5 DEF Stock
<1>8. Stock' = [Stock EXCEPT ![r] = Stock'[r]] BY <1>2 DEF Stock
<1>9. \A u \in Pools : pools'[u].allocations = pools[u].allocations BY <1>2, <1>4
<1>10. Holding' = Holding BY <1>9 DEF Holding
<1> QED BY <1>6, <1>7, <1>8, <1>10 DEF Ledger!Supply, Stock, Holding

LEMMA Reserves ==
    ASSUME OperationsAssumption, IsFiniteSet(Tasks), TypeOK, PoolInv, Filled, NEW t \in Tasks,
           ~steps[t].allocated, Fits(t), pools' = Reserved(t)
    PROVE  Ledger!Reserve(t) /\ Filled'
<1> DEFINE after(r) == [pools[r].allocations EXCEPT ![t] = Requests[t[2]][r]]
<1>1. \A r \in Pools :
        /\ pools'[r].registered = pools[r].registered
        /\ pools'[r].capacity = pools[r].capacity
        /\ pools'[r].allocated = pools[r].allocated + Requests[t[2]][r]
        /\ pools'[r].allocations = after(r)
        /\ pools[r].allocations[t] = 0
        /\ pools[r].allocated + Requests[t[2]][r] <= pools[r].capacity
  BY ReservedPool
<1>2. \A r \in Pools :
        /\ pools[r].allocations \in [Tasks -> Nat] /\ pools[r].allocated \in Nat
        /\ Requests[t[2]][r] \in Nat
  BY RequestType DEF TypeOK, PoolRecords
<1>3. Filled'
  <2>1. ASSUME NEW r \in Pools PROVE pools'[r].allocated = Sum(pools'[r].allocations, Tasks)
    <3>1. Sum(after(r), Tasks) = pools[r].allocated - pools[r].allocations[t] + Requests[t[2]][r]
      BY <1>2, PartOfSum
    <3> HIDE DEF after
    <3> QED BY <1>1, <1>2, <3>1
  <2> QED BY <1>1, <2>1 DEF Filled
<1>4. Stock' = Stock BY <1>1 DEF Stock
<1>5. Holding[t] = [r \in Pools |-> 0] BY <1>1 DEF Holding
<1>6. Requests[t[2]] = [r \in Pools |-> Requests[t[2]][r]]
  BY TaskParts DEF OperationsAssumption
<1>7. Holding' = [Holding EXCEPT ![t] = Requests[t[2]]]
  <2>1. \A r \in Pools, u \in Tasks : pools'[r].allocations[u]
            = IF u = t THEN Requests[t[2]][r] ELSE pools[r].allocations[u]
    BY <1>1, <1>2
  <2>2. \A u \in Tasks : [r \in Pools |-> pools'[r].allocations[u]]
            = IF u = t THEN Requests[t[2]] ELSE [r \in Pools |-> pools[r].allocations[u]]
    <3> TAKE u \in Tasks
    <3>1. CASE u = t
      <4>1. \A r \in Pools : pools'[r].allocations[u] = Requests[t[2]][r] BY <2>1, <3>1
      <4>2. [r \in Pools |-> pools'[r].allocations[u]] = [r \in Pools |-> Requests[t[2]][r]]
        BY <4>1
      <4> QED BY <1>6, <3>1, <4>2
    <3>2. CASE u # t
      <4>1. \A r \in Pools : pools'[r].allocations[u] = pools[r].allocations[u]
        BY <2>1, <3>2
      <4> QED BY <3>2, <4>1
    <3> QED BY <3>1, <3>2
  <2> QED BY <2>2 DEF Holding
<1>8. \A r \in Pools : Ledger!Held(r) + Requests[t[2]][r] <= Stock[r]
  <2> TAKE r \in Pools
  <2>1. Ledger!Held(r) = pools[r].allocated BY HeldIsSum DEF Filled
  <2>2. Stock[r] = pools[r].capacity BY DEF Stock
  <2> QED BY <1>1, <2>1, <2>2
<1>9. [u \in Tasks |-> Requests[u[2]]][t] = Requests[t[2]] OBVIOUS
<1> QED BY <1>3, <1>4, <1>5, <1>7, <1>8, <1>9
        DEF Ledger!Reserve, Ledger!Nothing, Stock, Holding

LEMMA Releases ==
    ASSUME OperationsAssumption, IsFiniteSet(Tasks), TypeOK, PoolInv, Filled, NEW t \in Tasks,
           NEW used \in BOOLEAN, ~Terminal(t), pools' = Released(t, used)
    PROVE  /\ IF used THEN Ledger!Consume(t) ELSE Ledger!Return(t)
           /\ Filled'
<1> DEFINE n(r) == pools[r].allocations[t]
           after(r) == [pools[r].allocations EXCEPT ![t] = 0]
<1>1. \A r \in Pools :
        /\ pools'[r].registered = pools[r].registered
        /\ pools'[r].capacity = IF used /\ r \notin Renewable
                                  THEN AtLeastZero(pools[r].capacity - n(r))
                                  ELSE pools[r].capacity
        /\ pools'[r].allocated = AtLeastZero(pools[r].allocated - n(r))
        /\ pools'[r].allocations = after(r)
  BY ReleasedPool
<1>2. \A r \in Pools :
        /\ pools[r].allocations \in [Tasks -> Nat] /\ n(r) \in Nat
        /\ pools[r].allocated \in Nat /\ pools[r].capacity \in Nat
        /\ n(r) <= pools[r].allocated /\ pools[r].allocated <= pools[r].capacity
  BY PartOfSum DEF TypeOK, PoolRecords, PoolInv
<1>3. \A r \in Pools :
        /\ AtLeastZero(pools[r].capacity - n(r)) = pools[r].capacity - n(r)
        /\ AtLeastZero(pools[r].allocated - n(r)) = pools[r].allocated - n(r)
  <2> HIDE DEF n
  <2> QED BY <1>2 DEF AtLeastZero
<1>4. Filled'
  <2>1. ASSUME NEW r \in Pools
        PROVE  /\ pools'[r].allocated = Sum(pools'[r].allocations, Tasks)
               /\ ~pools'[r].registered => pools'[r].capacity = 0
    <3>1. Sum(after(r), Tasks) = pools[r].allocated - n(r) + 0 BY PartOfSum
    <3>2. ~pools[r].registered => pools[r].capacity = 0 BY DEF Filled
    <3> HIDE DEF after, n
    <3>3. pools'[r].allocated = pools[r].allocated - n(r) BY <1>1, <1>3
    <3>4. pools[r].allocated - n(r) + 0 = pools[r].allocated - n(r) BY <1>2
    <3>5. pools'[r].allocations = after(r) BY <1>1
    <3>6. pools[r].capacity = 0 => pools'[r].capacity = 0
      <4>1. pools'[r].capacity = IF used /\ r \notin Renewable
              THEN pools[r].capacity - n(r) ELSE pools[r].capacity
        BY <1>1, <1>3
      <4>2. /\ n(r) \in Nat /\ pools[r].allocated \in Nat /\ pools[r].capacity \in Nat
            /\ n(r) <= pools[r].allocated /\ pools[r].allocated <= pools[r].capacity
        BY <1>2
      <4> QED BY <4>1, <4>2
    <3>7. pools'[r].registered = pools[r].registered BY <1>1
    <3> QED BY <3>1, <3>2, <3>3, <3>4, <3>5, <3>6, <3>7
  <2> QED BY <2>1 DEF Filled
<1>5. Holding' = [Holding EXCEPT ![t] = [r \in Pools |-> 0]]
  <2>1. \A r \in Pools, u \in Tasks : pools'[r].allocations[u]
            = IF u = t THEN 0 ELSE pools[r].allocations[u]
    BY <1>1, <1>2
  <2>2. \A u \in Tasks : [r \in Pools |-> pools'[r].allocations[u]]
            = IF u = t THEN [r \in Pools |-> 0] ELSE [r \in Pools |-> pools[r].allocations[u]]
    BY <2>1
  <2> QED BY <2>2 DEF Holding
<1>6. CASE used
  <2>1. \A r \in Pools : Holding[t][r] = n(r) BY DEF Holding
  <2>2. Stock' = [r \in Pools |-> IF r \in Renewable THEN Stock[r] ELSE Stock[r] - Holding[t][r]]
    <3>1. \A r \in Pools : pools'[r].capacity
              = IF r \in Renewable THEN Stock[r] ELSE Stock[r] - Holding[t][r]
      BY <1>1, <1>3, <1>6, <2>1 DEF Stock
    <3> QED BY <3>1 DEF Stock
  <2> QED BY <1>4, <1>5, <1>6, <2>2 DEF Ledger!Consume, Ledger!Nothing, Stock, Holding
<1>7. CASE ~used
  <2>1. Stock' = Stock BY <1>1, <1>7 DEF Stock
  <2> QED BY <1>4, <1>5, <1>7, <2>1 DEF Ledger!Return, Ledger!Nothing, Stock, Holding
<1> QED BY <1>6, <1>7

LEMMA LedgerStep ==
    ASSUME OperationsAssumption, IsFiniteSet(Tasks), IInv, Filled, [Next]_vars
    PROVE  Filled' /\ [Ledger!Next]_<<Stock, Holding>>
<1> DEFINE Ends == Filled' /\ [Ledger!Next]_<<Stock, Holding>>
<1> SUFFICES Ends OBVIOUS
<1>0. TypeOK /\ PoolInv BY DEF IInv
<1>1. ASSUME UNCHANGED pools PROVE Ends
  BY <1>1 DEF Filled, Stock, Holding
<1>2. ASSUME NEW r \in Pools, RegisterResourcePool(r) PROVE Ends
  BY <1>0, <1>2, Supplies DEF Ledger!Next
<1>3. ASSUME NEW t \in Tasks, ~steps[t].allocated, Fits(t), pools' = Reserved(t) PROVE Ends
  BY <1>0, <1>3, Reserves DEF Ledger!Next
<1>4. ASSUME NEW t \in Tasks, NEW used \in BOOLEAN, ~Terminal(t), pools' = Released(t, used)
      PROVE  Ends
  BY <1>0, <1>4, Releases DEF Ledger!Next
<1> HIDE DEF Ends
<1>5. CASE RegisterNext
  BY <1>1, <1>2, <1>5 DEF RegisterNext, RegisterAgent, SetAgentStatus
<1>6. CASE PlanNext
  BY <1>1, <1>6 DEF PlanNext, CreateGoal, TransitionGoal, CreatePlan, Replan, Build
<1>7. CASE StepNext
  <2> PICK t \in Tasks :
          \/ AllocateStepResources(t) \/ StartStep(t) \/ CancelStep(t)
          \/ \E a \in Agents : AssignStep(t, a) \/ DispatchStep(t, a)
          \/ \E o \in Outcomes, success \in BOOLEAN : RecordStepOutcome(t, o, success)
    BY <1>7 DEF StepNext
  <2>1. CASE AllocateStepResources(t) BY <1>3, <2>1 DEF AllocateStepResources
  <2>2. CASE StartStep(t) BY <1>1, <2>2 DEF StartStep
  <2>3. CASE CancelStep(t) BY <1>4, <2>3 DEF CancelStep
  <2>4. ASSUME NEW a \in Agents, AssignStep(t, a) PROVE Ends BY <1>1, <2>4 DEF AssignStep
  <2>5. ASSUME NEW a \in Agents, DispatchStep(t, a) PROVE Ends BY <1>3, <2>5 DEF DispatchStep
  <2>6. ASSUME NEW o \in Outcomes, NEW success \in BOOLEAN, RecordStepOutcome(t, o, success)
        PROVE  Ends
    <3>1. ~Terminal(t) /\ pools' = Released(t, TRUE)
      BY <2>6 DEF RecordStepOutcome, MayRecord, InFlight, Terminal
    <3> QED BY <1>4, <3>1
  <2> QED BY <2>1, <2>2, <2>3, <2>4, <2>5, <2>6
<1>8. CASE LinkNext BY <1>1, <1>8, LeavesAgents
<1>9. CASE UNCHANGED vars BY <1>1, <1>9 DEF vars, work
<1> QED BY <1>5, <1>6, <1>7, <1>8, <1>9 DEF Next

-----------------------------------------------------------------------------
(* The theorems. *)

\* Every object of the operational state keeps its type (control.py).
THEOREM TypeCorrect == Spec => []TypeOK
BY Invariant, PTL DEF IInv

\* The plan that create_plan or replan made, and that nobody cancelled a step of,
\* can go on at every moment; one that was superseded holds no agent.
THEOREM PlansGoOn == Spec => []NoPlanIsStuck
<1>1. IInv => NoPlanIsStuck
  <2> SUFFICES ASSUME IInv, NEW p \in Plans
               PROVE  /\ plans[p].status = "ACTIVE" => \E s \in Steps :
                              InFlight(<<p, s>>) \/ Dispatchable(<<p, s>>)
                      /\ plans[p].status = "SUPERSEDED" => \A s \in Steps : ~InFlight(<<p, s>>)
    BY DEF NoPlanIsStuck
  <2>1. Sound(plans[p].status, StatusesOf(p)) BY DEF IInv, PlanInv, PlansSound
  <2>2. StatusesOf(p) \in [Steps -> StepStatuses] BY StatusesType DEF IInv
  <2>3. \A s \in Steps : /\ <<p, s>> \in Tasks
                         /\ StatusesOf(p)[s] = steps[<<p, s>>].status
                         /\ Done(StatusesOf(p), s) => Ready(<<p, s>>)
    <3> TAKE s \in Steps
    <3>1. <<p, s>> \in Tasks /\ <<p, s>>[1] = p /\ <<p, s>>[2] = s BY TaskParts
    <3> QED BY <3>1, TaskStatus, OperationsAssumption DEF IInv
  <2>4. CASE plans[p].status = "ACTIVE"
    <3>1. PICK s \in Steps : \/ StatusesOf(p)[s] \in {"ASSIGNED", "RUNNING"}
                             \/ StatusesOf(p)[s] = "PENDING" /\ Done(StatusesOf(p), s)
      BY <2>1, <2>2, <2>4, SoundGoesOn, OperationsAssumption
    <3>2. Dispatchable(<<p, s>>) <=>
            steps[<<p, s>>].status = "PENDING" /\ Ready(<<p, s>>)
      BY <2>4 DEF Dispatchable
    <3> QED BY <2>3, <2>4, <3>1, <3>2 DEF InFlight
  <2>5. CASE plans[p].status = "SUPERSEDED"
    BY <2>1, <2>3, <2>5 DEF Sound, InFlight
  <2> QED BY <2>4, <2>5
<1> QED BY <1>1, Invariant, PTL

\* record_step_outcome completes a plan with its last step and only then, and no
\* step ran before what it depends on.
THEOREM Completion == Spec => []CompletedExactlyWhenDone
<1>1. IInv => CompletedExactlyWhenDone
  <2> SUFFICES ASSUME IInv PROVE CompletedExactlyWhenDone OBVIOUS
  <2>1. ASSUME NEW p \in Plans
        PROVE  plans[p].status = "COMPLETED" <=>
                    /\ plans[p].status # "NONE"
                    /\ \A s \in Steps : steps[<<p, s>>].status \in {"NONE", "SUCCEEDED"}
    <3>1. Sound(plans[p].status, StatusesOf(p)) BY DEF IInv, PlanInv, PlansSound
    <3>2. \A s \in Steps : StatusesOf(p)[s] = steps[<<p, s>>].status BY DEF StatusesOf
    <3> QED BY <3>1, <3>2 DEF Sound
  <2>2. ASSUME NEW t \in Tasks, InFlight(t) \/ steps[t].status \in {"SUCCEEDED", "FAILED"}
        PROVE  Ready(t)
    <3>1. /\ steps[t].status = StatusesOf(t[1])[t[2]]
          /\ Ready(t) <=> Done(StatusesOf(t[1]), t[2])
      BY TaskStatus, OperationsAssumption DEF IInv
    <3>2. Sound(plans[t[1]].status, StatusesOf(t[1])) /\ t[2] \in Steps
      BY TaskParts DEF IInv, PlanInv, PlansSound
    <3> QED BY <2>2, <3>1, <3>2 DEF Sound, InFlight
  <2> QED BY <2>1, <2>2 DEF CompletedExactlyWhenDone
<1> QED BY <1>1, Invariant, PTL

\* An agent's active tasks are its steps in flight, whatever its status was set to.
THEOREM Loads == Spec => []AgentLoad
<1>1. IInv => AgentLoad BY DEF IInv, AgentInv
<1> QED BY <1>1, Invariant, PTL

\* No pool is over-allocated, and each lists what unfinished steps have of it.
THEOREM Pooling == Spec => []PoolsCover
<1>1. IInv => PoolsCover BY PoolsCovered DEF IInv
<1> QED BY <1>1, Invariant, PTL

\* replan and create_plan leave a goal with a plan of its own that is not superseded.
THEOREM CurrentPlans == Spec => []CurrentPlanLives
BY Invariant, PTL DEF IInv

\* The world and the memory differ only where a handler is at work or was interrupted,
\* or where a restore (world/store.py:535), an appended event or an episode recorded
\* directly (api/server.py) separated them, at any moment of any of these.
THEOREM Agreement == StoresSpec => []StoresAgree
<1>1. StoresInit => StoresInv BY DEF StoresInit, StoresInv, StoresTypeOK
<1>2. StoresInv /\ [StoresNext]_stores => StoresInv' BY StoresStep
<1>3. StoresInv => StoresAgree BY DEF StoresInv, StoresAgree
<1> QED BY <1>1, <1>2, <1>3, PTL DEF StoresSpec

\* What the handlers do to the two stores is what WorldMemory lets them do, so that
\* the stores agree whatever plans, agents and pools make of it.
THEOREM ImplementsStores == Spec => StoresSpec /\ []StoresAgree
<1>1. Init => StoresInit BY DEF Init
<1>2. [Next]_vars => [StoresNext]_stores
  <2>1. CASE RegisterNext \/ PlanNext \/ UNCHANGED vars
    BY <2>1 DEF RegisterNext, PlanNext, RegisterAgent, SetAgentStatus, RegisterResourcePool,
         CreateGoal, TransitionGoal, CreatePlan, Replan, Build, vars
  <2>2. CASE StepNext
    BY <2>2 DEF StepNext, AllocateStepResources, StartStep, CancelStep, AssignStep,
         DispatchStep, RecordStepOutcome, StoresNext
  <2>3. CASE LinkNext BY <2>3 DEF LinkNext, StoresNext
  <2> QED BY <2>1, <2>2, <2>3 DEF Next
<1> QED BY <1>1, <1>2, Agreement, PTL DEF Spec, StoresSpec

\* The handlers move a goal along GOAL_TRANSITIONS, or because one of its steps ended.
THEOREM ExplainedMoves == Spec => GoalMovesAreExplained
<1> DEFINE A == \A g \in Goals :
        LET from == goals[g].status
            to == goals'[g].status IN
        \/ from = to
        \/ from = "NONE" /\ to \in {"PROPOSED", "ACTIVE"}
        \/ from # "NONE" /\ to \in Transitions[from]
        \/ to \in {"BLOCKED", "COMPLETED"} /\ \E t \in Tasks : Finishes(t) /\ GoalOf(t) = g
<1>1. IInv /\ [Next]_vars => [A]_vars
  <2> SUFFICES ASSUME IInv, [Next]_vars PROVE A OBVIOUS
  <2> QED BY MovesStep, OperationsAssumption DEF IInv
<1> QED BY <1>1, Invariant, PTL DEF Spec, GoalMovesAreExplained

\* Whatever handlers ran, what a pool counts as allocated is what its tasks hold of it, so
\* record_step_outcome and cancel_step (max(0.0, ...)) never have to cut a difference off at zero.
THEOREM Counting == IsFiniteSet(Tasks) => (Spec => []AllocatedIsHeld)
<1> SUFFICES ASSUME IsFiniteSet(Tasks) PROVE Spec => []AllocatedIsHeld OBVIOUS
<1>1. Init => Filled BY InitFilled
<1>2. IInv /\ Filled /\ [Next]_vars => Filled' BY LedgerStep, OperationsAssumption
<1>3. Filled => AllocatedIsHeld BY HeldIsSum DEF Filled, AllocatedIsHeld
<1> QED BY <1>1, <1>2, <1>3, Invariant, PTL DEF Spec

\* The pools keep the promise of operations-loop.md, all or nothing and never more
\* than there is, for any finite number of plans and steps: each transaction of a
\* handler of control.py is a step of the ledger or leaves it alone.
THEOREM Ledgers == IsFiniteSet(Tasks) => (Spec => ImplementsLedger)
<1> SUFFICES ASSUME IsFiniteSet(Tasks) PROVE Spec => ImplementsLedger OBVIOUS
<1>1. Init => Filled /\ Ledger!Init
  <2>1. ASSUME Init PROVE Ledger!Init
    <3>1. Stock = [r \in Pools |-> 0] BY <2>1 DEF Init, Stock
    <3>2. \A r \in Pools, t \in Tasks : pools[r].allocations[t] = 0 BY <2>1 DEF Init
    <3>3. Holding = [t \in Tasks |-> [r \in Pools |-> 0]] BY <3>2 DEF Holding
    <3> QED BY <3>1, <3>3 DEF Ledger!Init, Ledger!Nothing, Stock, Holding
  <2> QED BY <2>1, InitFilled
<1>2. IInv /\ Filled /\ [Next]_vars => Filled' /\ [Ledger!Next]_<<Stock, Holding>>
  BY LedgerStep, OperationsAssumption
<1> QED BY <1>1, <1>2, Invariant, PTL
        DEF Spec, ImplementsLedger, Ledger!Spec, Stock, Holding

=============================================================================
