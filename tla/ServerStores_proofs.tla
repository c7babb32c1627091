--------------------------- MODULE ServerStores_proofs ---------------------------
(***************************************************************************)
(* Proofs about the stores of the HTTP server that have no proof module of *)
(* their own, Federation and AgentGateway, for any scopes, connectors,     *)
(* callers and bounds.                                                     *)
(*                                                                         *)
(* Federation.  Below is the least relation that holds of a scope and      *)
(* itself and goes on to parents; in a tree whose ranks fall on the way up *)
(* it is an order, the scopes above one are a chain, and AncestorIds       *)
(* computes them.  So the least common ancestor that CHOOSE picks by its   *)
(* rank is the one that every other common ancestor stands over, which is  *)
(* what a route is about.  A tree only grows at its leaves, and nothing    *)
(* that was registered changes its place, so what a row says stays true.   *)
(*                                                                         *)
(* AgentGateway.  A call carries what it read to the transaction that      *)
(* writes; GatewayCallInv says which of it is still true there.            *)
(***************************************************************************)
EXTENDS Federation, AgentGateway, FiniteSetTheorems, TLAPS

FederationCalls ==
    {Idle} \cup [op : {"ROOT"}, about : Scopes, id : {None}]
           \cup [op : {"ESCALATE", "OPENED"}, about : Decisions, id : EscalationIds]

RouteRows == [request : Requests, target : Scopes, disposition : Dispositions]
EscalationRows == [decision : Decisions, source : Scopes, target : Scopes]

FederationType ==
    /\ parent \in [Scopes -> Scopes \cup {Root, None}]
    /\ projections \subseteq
            [source : Scopes, target : Scopes, counts : [Worlds -> 0 .. 2]]
    /\ routes \in [Decisions -> RouteRows \cup {None}]
    /\ escalations \in [EscalationIds -> EscalationRows \cup {None}]
    /\ events \in [EscalationIds -> Seq(EventTypes)]
    /\ calls \in [Callers -> FederationCalls]

\* The parent of a scope is registered and of a smaller rank.
Rooted == \A s \in Registered : parent[s] # Root =>
    parent[s] \in Registered /\ Rank[parent[s]] < Rank[s]

Tree == parent \in [Scopes -> Scopes \cup {Root, None}] /\ Rooted

RoutedAmongRegistered == \A d \in RoutedDecisions :
    Named(routes[d].request) \subseteq Registered /\ routes[d].target \in Registered

\* A call on its way to write an escalation is the only one for its decision.
EscalatesOnce == \A c \in Callers : At(c, "ESCALATE") =>
    /\ routes[calls[c].about] # None
    /\ routes[calls[c].about].disposition = "ESCALATE"
    /\ \A b \in Callers :
            At(b, "ESCALATE") /\ calls[b].about = calls[c].about => b = c

FederationInv ==
    /\ FederationType /\ Rooted /\ RoutedAmongRegistered /\ EscalatesOnce
    /\ RoutedToTheLowest /\ EscalationsFollowRoutes /\ FiguresGoUp

-----------------------------------------------------------------------------
(* Below is an order, and what is above a scope is a chain. *)

LEMMA BelowItself ==
    ASSUME NEW s PROVE Below(s, s)
  BY DEF Below

LEMMA BelowTransitive ==
    ASSUME NEW a, NEW b, NEW c, Below(a, b), Below(b, c)
    PROVE  Below(a, c)
  BY DEF Below

LEMMA BelowParent ==
    ASSUME NEW x \in Scopes, parent[x] \in Scopes
    PROVE  Below(parent[x], x)
  BY DEF Below, ClosedUpward

LEMMA BelowIsInClosed ==
    ASSUME NEW a, NEW x, NEW A \in SUBSET Scopes, Below(a, x), x \in A, ClosedUpward(A)
    PROVE  a \in A
  BY DEF Below

LEMMA BelowIsScope ==
    ASSUME NEW a, NEW x \in Scopes, Below(a, x)
    PROVE  a \in Scopes
  <1>1. ClosedUpward(Scopes)
    BY DEF ClosedUpward
  <1> QED BY <1>1, BelowIsInClosed

\* What is below x is x, or below its parent.
LEMMA BelowByStep ==
    ASSUME NEW a, NEW x \in Scopes, Below(a, x), a # x
    PROVE  parent[x] \in Scopes /\ Below(a, parent[x])
  <1> DEFINE A == {x} \cup {y \in Scopes : parent[x] \in Scopes /\ Below(y, parent[x])}
  <1>1. ASSUME NEW u \in A, parent[u] \in Scopes PROVE parent[u] \in A
    <2>1. CASE u = x
      BY <1>1, <2>1, BelowItself
    <2>2. CASE u # x
      <3>1. Below(parent[u], u)
        BY <1>1, BelowParent
      <3> QED BY <1>1, <2>2, <3>1, BelowTransitive
    <2> QED BY <2>1, <2>2
  <1>2. ClosedUpward(A) /\ A \in SUBSET Scopes /\ x \in A
    BY <1>1 DEF ClosedUpward
  <1>3. a \in A
    BY <1>2, BelowIsInClosed
  <1> QED BY <1>3

LEMMA BelowIsRegistered ==
    ASSUME Rooted, NEW a, NEW x \in Registered, Below(a, x)
    PROVE  a \in Registered
  <1>1. ClosedUpward(Registered)
    BY FederationAssumption DEF ClosedUpward, Rooted, Registered
  <1>2. Registered \in SUBSET Scopes
    BY DEF Registered
  <1> QED BY <1>1, <1>2, BelowIsInClosed

LEMMA BelowHasSmallerRank ==
    ASSUME Rooted, NEW a, NEW x \in Registered, Below(a, x), a # x
    PROVE  Rank[a] < Rank[x]
  <1> DEFINE A == {x} \cup {y \in Registered : Rank[y] < Rank[x]}
  <1>1. ASSUME NEW u \in A, parent[u] \in Scopes PROVE parent[u] \in A
    <2>1. parent[u] \in Registered /\ Rank[parent[u]] < Rank[u]
      BY <1>1, FederationAssumption DEF Rooted, Registered
    <2>2. Rank[parent[u]] \in Nat /\ Rank[u] \in Nat /\ Rank[x] \in Nat
      BY <2>1, <1>1, FederationAssumption DEF Registered
    <2> QED BY <1>1, <2>1, <2>2
  <1>2. ClosedUpward(A) /\ A \in SUBSET Scopes /\ x \in A
    BY <1>1 DEF ClosedUpward, Registered
  <1>3. a \in A
    BY <1>2, BelowIsInClosed
  <1> QED BY <1>3

LEMMA BelowIsAntisymmetric ==
    ASSUME Rooted, NEW a \in Registered, NEW b \in Registered, Below(a, b), Below(b, a)
    PROVE  a = b
  <1>1. Rank[a] \in Nat /\ Rank[b] \in Nat
    BY FederationAssumption DEF Registered
  <1> QED BY <1>1, BelowHasSmallerRank

LEMMA AboveIsChain ==
    ASSUME NEW s \in Scopes, NEW a, NEW b, Below(a, s), Below(b, s)
    PROVE  Below(a, b) \/ Below(b, a)
  <1> DEFINE A == {x \in Scopes : Below(x, a) \/ Below(a, x)}
  <1>1. ASSUME NEW x \in A, parent[x] \in Scopes PROVE parent[x] \in A
    <2>1. Below(parent[x], x)
      BY <1>1, BelowParent
    <2>2. CASE Below(x, a)
      BY <1>1, <2>1, <2>2, BelowTransitive
    <2>3. CASE Below(a, x)
      <3>1. CASE a = x
        BY <1>1, <2>1, <3>1
      <3>2. CASE a # x
        BY <1>1, <2>3, <3>2, BelowByStep
      <3> QED BY <3>1, <3>2
    <2> QED BY <2>2, <2>3
  <1>2. ClosedUpward(A) /\ A \in SUBSET Scopes /\ s \in A
    BY <1>1 DEF ClosedUpward
  <1>3. b \in A
    BY <1>2, BelowIsInClosed
  <1> QED BY <1>3

-----------------------------------------------------------------------------
(* AncestorIds computes what is above a scope. *)

LEMMA UpFollowsBelow ==
    ASSUME Tree, NEW s \in Registered, NEW A,
           \A a \in A : a \in Scopes /\ Below(a, s)
    PROVE  \A a \in Up(A) : a \in Scopes /\ Below(a, s)
  <1> SUFFICES ASSUME NEW a \in Up(A), a \notin A PROVE a \in Scopes /\ Below(a, s)
    OBVIOUS
  <1>1. PICK t \in A : a = parent[t] /\ a # Root
    BY DEF Up
  <1>2. t \in Registered
    BY <1>1, BelowIsRegistered DEF Tree
  <1>3. a \in Scopes
    BY <1>1, <1>2 DEF Tree, Rooted, Registered
  <1>4. Below(a, t)
    BY <1>1, <1>3, BelowParent
  <1> QED BY <1>1, <1>3, <1>4, BelowTransitive

\* On the path to the root the parent is there already, or the rank is small enough.
ClosedFrom(A, n) == \A x \in A :
    \/ parent[x] \in Scopes => parent[x] \in A
    \/ Rank[x] <= n

LEMMA UpLowersTheRank ==
    ASSUME Tree, NEW A \in SUBSET Registered, NEW n \in Nat, ClosedFrom(A, n + 1)
    PROVE  ClosedFrom(Up(A), n)
  <1> SUFFICES ASSUME NEW x \in Up(A), parent[x] \in Scopes, parent[x] \notin Up(A)
               PROVE  Rank[x] <= n
    BY DEF ClosedFrom
  <1>1. x \notin A
    BY FederationAssumption DEF Up
  <1>2. PICK t \in A : x = parent[t] /\ x # Root
    BY <1>1 DEF Up
  <1>3. t \in Registered /\ x \in Registered /\ Rank[x] < Rank[t]
    BY <1>2 DEF Tree, Rooted
  <1>4. Rank[t] <= n + 1
    BY <1>1, <1>2, <1>3 DEF ClosedFrom, Registered
  <1>5. Rank[x] \in Nat /\ Rank[t] \in Nat
    BY <1>3, FederationAssumption DEF Registered
  <1> QED BY <1>3, <1>4, <1>5

LEMMA UpStaysRegistered ==
    ASSUME Tree, NEW A \in SUBSET Registered
    PROVE  Up(A) \in SUBSET Registered
  BY DEF Up, Tree, Rooted

LEMMA AncestorsAreAbove ==
    ASSUME Tree, NEW s \in Registered
    PROVE  AncestorIds(s) = {a \in Scopes : Below(a, s)}
  <1> DEFINE A1 == Up({s})
             A2 == Up(A1)
             A3 == Up(A2)
             A4 == Up(A3)
  <1>1. AncestorIds(s) = A4
    BY DEF AncestorIds
  <1>2. \A a \in A4 : a \in Scopes /\ Below(a, s)
    <2>1. \A a \in {s} : a \in Scopes /\ Below(a, s)
      BY BelowItself DEF Registered
    <2>2. \A a \in A1 : a \in Scopes /\ Below(a, s)
      BY <2>1, UpFollowsBelow
    <2>3. \A a \in A2 : a \in Scopes /\ Below(a, s)
      BY <2>2, UpFollowsBelow
    <2>4. \A a \in A3 : a \in Scopes /\ Below(a, s)
      BY <2>3, UpFollowsBelow
    <2> QED BY <2>4, UpFollowsBelow
  <1>3. A1 \in SUBSET Registered /\ A2 \in SUBSET Registered
        /\ A3 \in SUBSET Registered /\ A4 \in SUBSET Registered
    BY UpStaysRegistered
  <1>4. ClosedFrom(A4, 0)
    <2>1. ClosedFrom({s}, 4)
      BY FederationAssumption DEF ClosedFrom, Registered
    <2>2. ClosedFrom(A1, 3)
      BY <2>1, UpLowersTheRank
    <2>3. ClosedFrom(A2, 2)
      BY <1>3, <2>2, UpLowersTheRank
    <2>4. ClosedFrom(A3, 1)
      BY <1>3, <2>3, UpLowersTheRank
    <2> QED BY <1>3, <2>4, UpLowersTheRank
  <1>5. ASSUME NEW x \in A4, parent[x] \in Scopes PROVE parent[x] \in A4
    <2>1. x \in Registered /\ parent[x] # Root
      BY <1>3, <1>5, FederationAssumption
    <2>2. parent[x] \in Registered /\ Rank[parent[x]] < Rank[x]
      BY <2>1 DEF Tree, Rooted
    <2>3. Rank[x] \in Nat /\ Rank[parent[x]] \in Nat
      BY <2>1, <2>2, FederationAssumption DEF Registered
    <2> QED BY <1>4, <1>5, <2>2, <2>3 DEF ClosedFrom
  <1>6. ClosedUpward(A4) /\ A4 \in SUBSET Scopes
    BY <1>3, <1>5 DEF ClosedUpward, Registered
  <1>7. s \in A4
    BY DEF Up
  <1>8. \A a : Below(a, s) => a \in A4
    BY <1>6, <1>7, BelowIsInClosed
  <1> QED BY <1>1, <1>2, <1>8

-----------------------------------------------------------------------------
(* The least common ancestor. *)

\* u stands over every scope of S.
Covers(u, S) == \A s \in S : Below(u, s)

LEMMA CommonAncestorsCover ==
    ASSUME Tree, NEW S \in SUBSET Registered, NEW u
    PROVE  u \in CommonAncestors(S) <=> u \in Registered /\ Covers(u, S)
  <1>1. \A s \in S : u \in Registered => (u \in AncestorIds(s) <=> Below(u, s))
    BY AncestorsAreAbove DEF Registered
  <1> QED BY <1>1 DEF CommonAncestors, Covers

\* Of finitely many ranks one is the largest.
LEMMA LargestRank ==
    ASSUME NEW S \in SUBSET Scopes, S # {}
    PROVE  \E t \in S : \A u \in S : Rank[u] <= Rank[t]
  <1> DEFINE Some(n) == \E t \in S : Rank[t] = n
  <1>1. \A t \in S : Rank[t] \in {0, 1, 2, 3, 4}
    BY FederationAssumption
  <1>2. CASE Some(4)
    BY <1>1, <1>2
  <1>3. CASE ~Some(4) /\ Some(3)
    BY <1>1, <1>3
  <1>4. CASE ~Some(4) /\ ~Some(3) /\ Some(2)
    BY <1>1, <1>4
  <1>5. CASE ~Some(4) /\ ~Some(3) /\ ~Some(2)
    BY <1>1, <1>5
  <1> QED BY <1>2, <1>3, <1>4, <1>5

\* Every common ancestor is the least one or above it.
LEMMA LeastIsBelowEvery ==
    ASSUME Tree, NEW S \in SUBSET Registered, S # {}, CommonAncestors(S) # {}
    PROVE  /\ LeastCommonAncestor(S) \in Registered
           /\ Covers(LeastCommonAncestor(S), S)
           /\ \A u \in Scopes : Covers(u, S) => Below(u, LeastCommonAncestor(S))
  <1> DEFINE l == LeastCommonAncestor(S)
             common == CommonAncestors(S)
  <1>1. common \in SUBSET Scopes
    BY DEF CommonAncestors, Registered
  <1>2. l \in common /\ \A u \in common : Rank[u] <= Rank[l]
    BY <1>1, LargestRank DEF LeastCommonAncestor
  <1>3. l \in Registered /\ Covers(l, S)
    BY <1>2, CommonAncestorsCover
  <1>4. ASSUME NEW u \in Scopes, Covers(u, S) PROVE Below(u, l)
    <2>1. PICK s \in S : TRUE
      OBVIOUS
    <2>2. s \in Registered /\ Below(u, s) /\ Below(l, s)
      BY <2>1, <1>3, <1>4 DEF Covers
    <2>3. u \in Registered
      BY <2>2, BelowIsRegistered DEF Tree
    <2>4. Rank[u] <= Rank[l] /\ Rank[u] \in Nat /\ Rank[l] \in Nat
      BY <2>3, <1>2, <1>3, <1>4, CommonAncestorsCover, FederationAssumption DEF Registered
    <2>5. CASE Below(u, l)
      BY <2>5
    <2>6. CASE Below(l, u)
      <3>1. l = u
        BY <2>3, <2>4, <2>6, BelowHasSmallerRank DEF Tree
      <3> QED BY <3>1, BelowItself
    <2> QED BY <2>2, <2>5, <2>6, AboveIsChain DEF Registered
  <1> QED BY <1>3, <1>4

\* Two least common ancestors in a row give the one of all that is named.
LEMMA TargetIsLowest ==
    ASSUME Tree, NEW q \in Requests, Named(q) \subseteq Registered,
           CommonAncestors(Named(q)) # {}
    PROVE  /\ LeastCommonAncestor(Affected(q)) \in Registered
           /\ TargetOf(q) \in Registered
           /\ Covers(TargetOf(q), Named(q))
           /\ \A u \in Scopes : Covers(u, Named(q)) => Below(u, TargetOf(q))
           /\ q.authority = None => TargetOf(q) = LeastCommonAncestor(Affected(q))
  <1> DEFINE l == LeastCommonAncestor(Affected(q))
             a == q.authority
  <1>1. Affected(q) \in SUBSET Registered /\ Affected(q) # {}
    BY DEF Named, Affected
  <1>2. PICK v \in Registered : Covers(v, Named(q))
    BY CommonAncestorsCover
  <1>3. Covers(v, Affected(q))
    BY <1>2 DEF Covers, Named
  <1>4. CommonAncestors(Affected(q)) # {}
    BY <1>1, <1>3, CommonAncestorsCover
  <1>5. /\ l \in Registered /\ Covers(l, Affected(q))
        /\ \A u \in Scopes : Covers(u, Affected(q)) => Below(u, l)
    BY <1>1, <1>4, LeastIsBelowEvery
  <1>6. CASE a = None
    BY <1>5, <1>6 DEF TargetOf, Named
  <1>7. CASE a # None
    <2> DEFINE S == {l, a}
    <2>1. S \in SUBSET Registered /\ S # {} /\ TargetOf(q) = LeastCommonAncestor(S)
      BY <1>5, <1>7 DEF TargetOf, Named
    <2>2. ASSUME NEW u \in Scopes PROVE Covers(u, Named(q)) <=> Covers(u, S)
      <3>1. Named(q) = Affected(q) \cup {a}
        BY <1>7 DEF Named
      <3>2. Covers(u, Named(q)) => Covers(u, S)
        BY <3>1, <1>5 DEF Covers
      <3>3. Covers(u, S) => Covers(u, Named(q))
        BY <3>1, <1>5, BelowTransitive DEF Covers
      <3> QED BY <3>2, <3>3
    <2>3. v \in Scopes
      BY DEF Registered
    <2>4. CommonAncestors(S) # {}
      BY <1>2, <2>1, <2>2, <2>3, CommonAncestorsCover
    <2>5. /\ TargetOf(q) \in Registered /\ Covers(TargetOf(q), S)
          /\ \A u \in Scopes : Covers(u, S) => Below(u, TargetOf(q))
      BY <2>1, <2>4, LeastIsBelowEvery
    <2>6. TargetOf(q) \in Scopes
      BY <2>5 DEF Registered
    <2> QED BY <1>5, <1>7, <2>2, <2>5, <2>6
  <1> QED BY <1>6, <1>7

\* RoutedToTheLowest, of a route with request q and target t.
LowestTarget(q, t) ==
    /\ Covers(t, Named(q))
    /\ t = q.source => parent[t] = Root \/ (~q.over /\ q.authority \in {None, q.source})
    /\ \A u \in Scopes \ {t} : Below(t, u) /\ Covers(u, Named(q)) =>
            /\ u = q.source /\ parent[u] = t
            /\ q.over \/ q.authority # None

LEMMA RouteGoesToTheLowest ==
    ASSUME Tree, NEW q \in Requests, Named(q) \subseteq Registered,
           CommonAncestors(Named(q)) # {}
    PROVE  /\ MovedUp(q) \in Registered
           /\ LowestTarget(q, MovedUp(q))
  <1> DEFINE t == MovedUp(q)
             b == TargetOf(q)
             s == q.source
  <1>1. s \in Named(q) /\ s \in Registered /\ s \in Scopes
    BY DEF Named, Affected, Registered
  <1>2. /\ b \in Registered /\ Covers(b, Named(q))
        /\ \A u \in Scopes : Covers(u, Named(q)) => Below(u, b)
        /\ q.authority = None => b = LeastCommonAncestor(Affected(q))
    BY TargetIsLowest
  <1>3. q.over \in BOOLEAN
    BY FederationAssumption
  <1>4. CASE HasReason(q) /\ b = s /\ parent[s] # Root
    <2>1. t = parent[s]
      BY <1>4 DEF MovedUp
    <2>2. t \in Registered /\ Rank[t] < Rank[s]
      BY <1>1, <1>4, <2>1 DEF Tree, Rooted
    <2>3. t # s
      BY <1>1, <2>2, FederationAssumption
    <2>4. t \in Scopes /\ Below(t, s)
      BY <1>1, <2>1, <2>2, BelowParent DEF Registered
    <2>5. Covers(t, Named(q))
      BY <1>2, <1>4, <2>4, BelowTransitive DEF Covers
    <2>6. q.over \/ q.authority # None
      BY <1>2, <1>4 DEF HasReason
    <2>7. ASSUME NEW u \in Scopes \ {t}, Below(t, u), Covers(u, Named(q))
          PROVE  u = s
      <3>1. SUFFICES ASSUME u # s PROVE FALSE
        OBVIOUS
      <3>2. Below(u, s)
        BY <1>2, <1>4, <2>7
      <3>3. Below(u, t)
        BY <1>1, <2>1, <3>1, <3>2, BelowByStep
      <3>4. u \in Registered
        BY <1>1, <3>2, BelowIsRegistered DEF Tree
      <3> QED BY <2>2, <2>7, <3>3, <3>4, BelowIsAntisymmetric DEF Tree
    <2> QED BY <2>1, <2>2, <2>3, <2>5, <2>6, <2>7 DEF LowestTarget
  <1>5. CASE ~(HasReason(q) /\ b = s /\ parent[s] # Root)
    <2>1. t = b
      BY <1>5 DEF MovedUp
    <2>2. t = s => parent[t] = Root \/ (~q.over /\ q.authority \in {None, s})
      BY <1>5, <2>1 DEF HasReason
    <2>3. ASSUME NEW u \in Scopes \ {t}, Below(t, u), Covers(u, Named(q))
          PROVE  FALSE
      <3>1. Below(u, t)
        BY <1>2, <2>1, <2>3
      <3>2. u \in Registered
        BY <1>2, <2>1, <3>1, BelowIsRegistered DEF Tree
      <3> QED BY <1>2, <2>1, <2>3, <3>1, <3>2, BelowIsAntisymmetric DEF Tree
    <2> QED BY <1>2, <2>1, <2>2, <2>3 DEF LowestTarget
  <1> QED BY <1>4, <1>5

-----------------------------------------------------------------------------
(* What a step does to each table. *)

LEMMA FederationSteps ==
    ASSUME [Next]_vars
    PROVE  /\ \/ UNCHANGED parent
              \/ \E s, p \in Scopes : RegisterScope(s, p)
              \/ \E c \in Callers : RootWrites(c)
           /\ UNCHANGED projections \/ ProjectionNext
           /\ \/ UNCHANGED routes
              \/ \E c \in Callers, d \in NewDecisions, q \in Requests, e \in EscalationIds :
                      RouteDecision(c, d, q, e)
           /\ \/ UNCHANGED <<escalations, events>>
              \/ \E c \in Callers : OpenEscalation(c) \/ RecordOpened(c)
              \/ \E e \in EscalationIds, type \in EventTypes : RecordEscalationEvent(e, type)
           /\ \/ UNCHANGED calls
              \/ \E c \in Callers : \/ \E s \in Scopes : RegisterRoot(c, s)
                                    \/ RootWrites(c) \/ RouteNext(c) \/ Stop(c)
  <1>1. CASE UNCHANGED vars
    BY <1>1 DEF vars, tables
  <1>2. CASE ProjectionNext
    BY <1>2 DEF ProjectionNext, ProjectWorld, AggregateScope, InsertProjection
  <1>3. ASSUME NEW c \in Callers, TreeNext(c)
        PROVE  /\ UNCHANGED <<projections, routes, escalations, events>>
               /\ \/ UNCHANGED parent /\ \E s \in Scopes : RegisterRoot(c, s)
                  \/ UNCHANGED calls /\ \E s, p \in Scopes : RegisterScope(s, p)
                  \/ RootWrites(c)
    BY <1>3 DEF TreeNext, RegisterRoot, RegisterScope, RootWrites, tables
  <1>4. ASSUME NEW c \in Callers, RouteNext(c)
        PROVE  /\ UNCHANGED <<parent, projections>>
               /\ \/ /\ UNCHANGED <<escalations, events>>
                     /\ \E d \in NewDecisions, q \in Requests, e \in EscalationIds :
                            RouteDecision(c, d, q, e)
                  \/ /\ UNCHANGED routes
                     /\ \/ OpenEscalation(c) \/ RecordOpened(c)
                        \/ \E e \in EscalationIds, type \in EventTypes :
                                RecordEscalationEvent(e, type)
    BY <1>4 DEF RouteNext, RouteDecision, OpenEscalation, RecordOpened, RecordEscalationEvent
  <1>5. ASSUME NEW c \in Callers, Stop(c) PROVE UNCHANGED tables
    BY <1>5 DEF Stop
  <1>6. CASE \E c \in Callers : TreeNext(c)
    BY <1>3, <1>6
  <1>7. CASE \E c \in Callers : RouteNext(c)
    BY <1>4, <1>7
  <1>8. CASE \E c \in Callers : Stop(c)
    BY <1>5, <1>8 DEF tables
  <1> QED BY <1>1, <1>2, <1>6, <1>7, <1>8 DEF Next

LEMMA MovedUpTypes ==
    ASSUME FederationInv, NEW q \in Requests, Named(q) \subseteq Registered,
           CommonAncestors(Named(q)) # {}
    PROVE  /\ MovedUp(q) \in Scopes
           /\ [request |-> q, target |-> MovedUp(q), disposition |-> Disposition(q)]
                  \in RouteRows
  <1>1. MovedUp(q) \in Scopes
    BY RouteGoesToTheLowest DEF FederationInv, FederationType, Tree, Registered
  <1>2. Disposition(q) \in Dispositions
    BY DEF Disposition, Dispositions
  <1> QED BY <1>1, <1>2 DEF RouteRows

LEMMA NoneIsNoRow == None \notin RouteRows /\ None \notin EscalationRows /\ None \notin Scopes
  BY FederationAssumption DEF RouteRows, EscalationRows

LEMMA CallTypes ==
    ASSUME FederationType, NEW c \in Callers
    PROVE  /\ At(c, "ROOT") => calls[c].about \in Scopes
           /\ At(c, "ESCALATE") \/ At(c, "OPENED") =>
                calls[c].about \in Decisions /\ calls[c].id \in EscalationIds
  BY DEF FederationType, FederationCalls, At, Idle

LEMMA FederationTypeKept ==
    ASSUME FederationInv, [Next]_vars
    PROVE  FederationType'
  <1> USE DEF FederationInv
  <1>1. (parent \in [Scopes -> Scopes \cup {Root, None}])'
    <2>1. ASSUME NEW s \in Scopes, NEW p \in Scopes, RegisterScope(s, p)
          PROVE  (parent \in [Scopes -> Scopes \cup {Root, None}])'
      BY <2>1 DEF RegisterScope, FederationType
    <2>2. ASSUME NEW c \in Callers, RootWrites(c)
          PROVE  (parent \in [Scopes -> Scopes \cup {Root, None}])'
      BY <2>2 DEF RootWrites, FederationType
    <2> QED BY <2>1, <2>2, FederationSteps DEF FederationType
  <1>2. (projections \subseteq
            [source : Scopes, target : Scopes, counts : [Worlds -> 0 .. 2]])'
    <2>1. ASSUME NEW s \in Scopes, NEW t \in Scopes, NEW f \in [Worlds -> 0 .. 2],
                 InsertProjection(Projection(s, t, f))
          PROVE  (projections \subseteq
                    [source : Scopes, target : Scopes, counts : [Worlds -> 0 .. 2]])'
      BY <2>1 DEF InsertProjection, Projection, FederationType
    <2>2. ASSUME NEW s \in Scopes, NEW t \in Scopes, ProjectWorld(s, t)
          PROVE  \E f \in [Worlds -> 0 .. 2] : InsertProjection(Projection(s, t, f))
      BY <2>2 DEF ProjectWorld
    <2>3. ASSUME NEW s \in Scopes, NEW t \in Scopes, NEW sources \in SUBSET Registered,
                 AggregateScope(s, sources, t)
          PROVE  \E f \in [Worlds -> 0 .. 2] : InsertProjection(Projection(s, t, f))
      BY <2>3 DEF AggregateScope, Total
    <2> QED BY <2>1, <2>2, <2>3, FederationSteps DEF ProjectionNext, FederationType
  <1>3. (routes \in [Decisions -> RouteRows \cup {None}])'
    <2>1. ASSUME NEW c \in Callers, NEW d \in NewDecisions, NEW q \in Requests,
                 NEW e \in EscalationIds, RouteDecision(c, d, q, e)
          PROVE  (routes \in [Decisions -> RouteRows \cup {None}])'
      <3>1. [request |-> q, target |-> MovedUp(q), disposition |-> Disposition(q)]
                \in RouteRows
        BY <2>1, MovedUpTypes DEF RouteDecision
      <3> QED BY <2>1, <3>1 DEF RouteDecision, FederationType
    <2> QED BY <2>1, FederationSteps DEF FederationType
  <1>4. /\ (escalations \in [EscalationIds -> EscalationRows \cup {None}])'
        /\ (events \in [EscalationIds -> Seq(EventTypes)])'
    <2>1. ASSUME NEW c \in Callers, OpenEscalation(c)
          PROVE  (escalations \in [EscalationIds -> EscalationRows \cup {None}])'
      <3> DEFINE d == calls[c].about
      <3>1. d \in Decisions /\ routes[d] \in RouteRows
        BY <2>1, CallTypes DEF OpenEscalation, EscalatesOnce, FederationType
      <3>2. routes[d].request.source \in Scopes /\ routes[d].target \in Scopes
        BY <3>1, FederationAssumption DEF RouteRows
      <3>3. [decision |-> d, source |-> routes[d].request.source,
             target |-> routes[d].target] \in EscalationRows
        BY <3>1, <3>2 DEF EscalationRows
      <3> QED BY <2>1, <3>3 DEF OpenEscalation, FederationType
    <2>2. ASSUME NEW e \in EscalationIds, NEW type \in EventTypes, AppendsEvent(e, type)
          PROVE  (events \in [EscalationIds -> Seq(EventTypes)])'
      BY <2>2 DEF AppendsEvent, FederationType
    <2>3. ASSUME NEW c \in Callers, RecordOpened(c)
          PROVE  UNCHANGED escalations /\ AppendsEvent(calls[c].id, "OPENED")
                 /\ calls[c].id \in EscalationIds /\ "OPENED" \in EventTypes
      BY <2>3, CallTypes DEF RecordOpened, EventTypes
    <2>4. ASSUME NEW e \in EscalationIds, NEW type \in EventTypes,
                 RecordEscalationEvent(e, type)
          PROVE  UNCHANGED escalations /\ AppendsEvent(e, type)
      BY <2>4 DEF RecordEscalationEvent
    <2>5. ASSUME NEW c \in Callers, OpenEscalation(c) PROVE UNCHANGED events
      BY <2>5 DEF OpenEscalation
    <2> QED BY <2>1, <2>2, <2>3, <2>4, <2>5, FederationSteps DEF FederationType
  <1>5. (calls \in [Callers -> FederationCalls])'
    <2>1. ASSUME NEW c \in Callers, NEW call \in FederationCalls, Continues(c, call)
          PROVE  (calls \in [Callers -> FederationCalls])'
      BY <2>1 DEF Continues, FederationType
    <2>2. Idle \in FederationCalls
      BY DEF FederationCalls
    <2>3. ASSUME NEW c \in Callers, NEW s \in Scopes, RegisterRoot(c, s)
          PROVE  (calls \in [Callers -> FederationCalls])'
      <3>1. Call("ROOT", s, None) \in FederationCalls
        BY DEF Call, FederationCalls
      <3> QED BY <2>1, <2>3, <3>1 DEF RegisterRoot, Starts
    <2>4. ASSUME NEW c \in Callers, RootWrites(c) \/ Stop(c) \/ RecordOpened(c)
          PROVE  (calls \in [Callers -> FederationCalls])'
      BY <2>1, <2>2, <2>4 DEF RootWrites, Stop, RecordOpened, Ends
    <2>5. ASSUME NEW d \in Decisions, NEW e \in EscalationIds, NEW op \in {"ESCALATE", "OPENED"}
          PROVE  Call(op, d, e) \in FederationCalls
      BY DEF Call, FederationCalls
    <2>6. ASSUME NEW c \in Callers, NEW d \in NewDecisions, NEW q \in Requests,
                 NEW e \in EscalationIds, RouteDecision(c, d, q, e)
          PROVE  (calls \in [Callers -> FederationCalls])'
      <3>1. d \in Decisions
        BY DEF NewDecisions
      <3> QED BY <2>1, <2>5, <2>6, <3>1 DEF RouteDecision, Starts, FederationType
    <2>7. ASSUME NEW c \in Callers, OpenEscalation(c)
          PROVE  (calls \in [Callers -> FederationCalls])'
      BY <2>1, <2>5, <2>7, CallTypes DEF OpenEscalation
    <2>8. ASSUME NEW e \in EscalationIds, NEW type \in EventTypes,
                 RecordEscalationEvent(e, type)
          PROVE  UNCHANGED calls
      BY <2>8 DEF RecordEscalationEvent
    <2> QED BY <2>3, <2>4, <2>6, <2>7, <2>8, FederationSteps DEF RouteNext, FederationType
  <1> QED BY <1>1, <1>2, <1>3, <1>4, <1>5 DEF FederationType

-----------------------------------------------------------------------------
(* A tree grows at its leaves. *)

\* What is registered keeps its parent.
TreeGrows == \A s \in Registered : parent'[s] = parent[s]

LEMMA TreeKept ==
    ASSUME FederationInv, [Next]_vars
    PROVE  Rooted' /\ TreeGrows
  <1> USE DEF FederationInv, FederationType
  <1>1. CASE UNCHANGED parent
    BY <1>1 DEF Rooted, TreeGrows, Registered
  <1>2. ASSUME NEW s \in Scopes, NEW p \in Scopes, RegisterScope(s, p)
        PROVE  Rooted' /\ TreeGrows
    <2>1. /\ parent[s] = None /\ p \in Registered /\ Rank[p] < Rank[s]
          /\ parent' = [parent EXCEPT ![s] = p] /\ p # None
      BY <1>2, FederationAssumption DEF RegisterScope, Registered
    <2>2. Registered' = Registered \cup {s} /\ TreeGrows
      BY <2>1 DEF Registered, TreeGrows
    <2> QED BY <2>1, <2>2 DEF Rooted, TreeGrows
  <1>3. ASSUME NEW c \in Callers, RootWrites(c)
        PROVE  Rooted' /\ TreeGrows
    <2> DEFINE s == calls[c].about
    <2>1. /\ s \in Scopes /\ parent[s] = None /\ parent' = [parent EXCEPT ![s] = Root]
          /\ Root # None
      BY <1>3, CallTypes, FederationAssumption DEF RootWrites
    <2>2. Registered' = Registered \cup {s} /\ TreeGrows
      BY <2>1 DEF Registered, TreeGrows
    <2> QED BY <2>1, <2>2 DEF Rooted, TreeGrows
  <1> QED BY <1>1, <1>2, <1>3, FederationSteps

LEMMA RegisteredStays ==
    ASSUME TreeGrows
    PROVE  Registered \subseteq Registered'
  BY DEF TreeGrows, Registered

\* What is above a scope stays above it, and nothing comes between.
LEMMA BelowStays ==
    ASSUME TreeGrows, NEW a, NEW b, Below(a, b)
    PROVE  Below(a, b)'
  <1>1. ASSUME NEW A \in SUBSET Scopes, ClosedUpward(A)'
        PROVE  ClosedUpward(A)
    BY <1>1, FederationAssumption DEF ClosedUpward, TreeGrows, Registered
  <1> QED BY <1>1 DEF Below

LEMMA BelowWasBefore ==
    ASSUME Tree, TreeGrows, NEW a, NEW b \in Registered, Below(a, b)'
    PROVE  Below(a, b)
  <1> SUFFICES ASSUME NEW A \in SUBSET Scopes, b \in A, ClosedUpward(A) PROVE a \in A
    BY DEF Below
  <1>1. PICK B \in SUBSET Scopes : B = A \cap Registered
    BY DEF Registered
  <1>2. ASSUME NEW u \in B, parent'[u] \in Scopes PROVE parent'[u] \in B
    <2>1. u \in A /\ u \in Registered /\ parent'[u] = parent[u]
      BY <1>1 DEF TreeGrows
    <2>2. parent[u] # Root
      BY <1>2, <2>1, FederationAssumption
    <2>3. parent[u] \in A /\ parent[u] \in Registered
      BY <1>2, <2>1, <2>2 DEF ClosedUpward, Tree, Rooted
    <2> QED BY <1>1, <2>1, <2>3
  <1>3. ClosedUpward(B)'
    BY <1>2 DEF ClosedUpward
  <1>4. \A C \in SUBSET Scopes : b \in C /\ ClosedUpward(C)' => a \in C
    BY DEF Below
  <1>5. b \in B
    BY <1>1
  <1>6. a \in B
    BY <1>3, <1>4, <1>5
  <1> QED BY <1>1, <1>6

-----------------------------------------------------------------------------
(* Routes. *)

LEMMA LowestInWords ==
    RoutedToTheLowest <=> \A d \in RoutedDecisions :
        /\ LowestTarget(routes[d].request, routes[d].target)
        /\ routes[d].disposition = "ESCALATE" <=> routes[d].target # routes[d].request.source
  BY DEF RoutedToTheLowest, LowestTarget, Covers

LEMMA LowestInWordsNext ==
    RoutedToTheLowest' <=> \A d \in RoutedDecisions' :
        /\ LowestTarget(routes[d].request, routes[d].target)'
        /\ (routes[d].disposition = "ESCALATE"
                <=> routes[d].target # routes[d].request.source)'
  BY DEF RoutedToTheLowest, LowestTarget, Covers

LEMMA LowestStays ==
    ASSUME Tree, TreeGrows, NEW q \in Requests, NEW t \in Registered,
           Named(q) \subseteq Registered, LowestTarget(q, t)
    PROVE  LowestTarget(q, t)'
  <1>1. Covers(t, Named(q))'
    <2>1. \A s \in Named(q) : Below(t, s)'
      BY BelowStays DEF LowestTarget, Covers
    <2> QED BY <2>1 DEF Covers
  <1>2. parent'[t] = parent[t]
    BY DEF TreeGrows
  <1>3. q.source \in Named(q) /\ q.source \in Registered
    BY DEF Named, Affected
  <1>4. ASSUME NEW u \in Scopes \ {t}, Below(t, u)', Covers(u, Named(q))'
        PROVE  u = q.source /\ parent'[u] = t /\ (q.over \/ q.authority # None)
    <2>1. \A s \in Named(q) : Below(u, s)
      BY <1>4, BelowWasBefore DEF Covers
    <2>2. u \in Registered
      BY <2>1, <1>3, BelowIsRegistered DEF Tree
    <2>3. Below(t, u)
      BY <1>4, <2>2, BelowWasBefore
    <2>4. u = q.source /\ parent[u] = t /\ (q.over \/ q.authority # None)
      BY <1>4, <2>1, <2>3 DEF LowestTarget, Covers
    <2> QED BY <2>2, <2>4 DEF TreeGrows
  <1> QED BY <1>1, <1>2, <1>4 DEF LowestTarget

LEMMA RoutesKept ==
    ASSUME FederationInv, [Next]_vars
    PROVE  RoutedToTheLowest' /\ RoutedAmongRegistered'
  <1>1. Tree /\ Rooted' /\ TreeGrows
    BY TreeKept DEF Tree, FederationInv, FederationType
  <1> DEFINE Stored(d) ==
        /\ LowestTarget(routes[d].request, routes[d].target)
        /\ routes[d].disposition = "ESCALATE" <=> routes[d].target # routes[d].request.source
        /\ Named(routes[d].request) \subseteq Registered /\ routes[d].target \in Registered
  <1>2. \A d \in RoutedDecisions : Stored(d) /\ routes[d].request \in Requests
    BY LowestInWords
       DEF FederationInv, FederationType, RouteRows, RoutedAmongRegistered, RoutedDecisions
  <1>3. ASSUME NEW d \in RoutedDecisions, routes'[d] = routes[d] PROVE Stored(d)'
    <2>1. LowestTarget(routes[d].request, routes[d].target)'
      <3>1. \A q \in Requests, t \in Registered :
                Named(q) \subseteq Registered /\ LowestTarget(q, t)
                    => LowestTarget(q, t)'
        BY <1>1, LowestStays
      <3> HIDE DEF Stored
      <3>2. LowestTarget(routes[d].request, routes[d].target)
            /\ Named(routes[d].request) \subseteq Registered /\ routes[d].target \in Registered
        BY <1>2 DEF Stored
      <3> DEFINE q == routes[d].request
                 t == routes[d].target
      <3>3. q' = q /\ t' = t
        BY <1>3
      <3>4. q \in Requests /\ t \in Registered
        BY <1>2, <3>2
      <3>5. Covers(t, Named(q))' /\ (t = q.source => parent'[t] = Root
                  \/ (~q.over /\ q.authority \in {None, q.source}))
        BY <1>1, <3>1, <3>2, <3>3, <3>4 DEF LowestTarget, Covers, TreeGrows
      <3> QED BY <1>1, <3>1, <3>2, <3>3, <3>4 DEF LowestTarget, Covers
    <2> QED BY <1>2, <1>3, <2>1, <1>1, RegisteredStays DEF Named, Affected
  <1>4. ASSUME NEW d \in RoutedDecisions' PROVE Stored(d)'
    <2>1. CASE UNCHANGED routes
      BY <1>3, <2>1 DEF RoutedDecisions
    <2>2. ASSUME NEW c \in Callers, NEW f \in NewDecisions, NEW q \in Requests,
                 NEW e \in EscalationIds, RouteDecision(c, f, q, e)
          PROVE  Stored(d)'
      <3>1. CASE d # f
        <4>1. routes'[d] = routes[d] /\ d \in RoutedDecisions
          BY <2>2, <3>1 DEF RouteDecision, RoutedDecisions, FederationInv, FederationType
        <4> QED BY <1>3, <4>1
      <3>2. CASE d = f
        <4>1. /\ routes'[d].request = q /\ routes'[d].target = MovedUp(q)
              /\ routes'[d].disposition = Disposition(q)
              /\ parent' = parent
          BY <2>2, <3>2
             DEF RouteDecision, NewDecisions, FederationInv, FederationType
        <4>2. MovedUp(q) \in Registered /\ LowestTarget(q, MovedUp(q))
              /\ Named(q) \subseteq Registered
          BY <1>1, <2>2, RouteGoesToTheLowest DEF RouteDecision
        <4>3. Disposition(q) = "ESCALATE" <=> MovedUp(q) # q.source
          BY DEF Disposition
        <4>4. LowestTarget(routes[d].request, routes[d].target)'
          <5>1. LowestTarget(q, MovedUp(q))
            BY <4>2
          <5>2. Registered' = Registered
            BY <4>1 DEF Registered
          <5> QED BY <4>1, <5>1 DEF LowestTarget, Covers, Below, ClosedUpward, Named, Affected
        <4> QED BY <4>1, <4>2, <4>3, <4>4 DEF Registered, Named, Affected
      <3> QED BY <3>1, <3>2
    <2> QED BY <2>1, <2>2, FederationSteps
  <1> QED BY <1>4, LowestInWordsNext DEF RoutedAmongRegistered

-----------------------------------------------------------------------------
(* Escalations. *)

Opens(c) == At(c, "ESCALATE") \/ At(c, "OPENED")

\* No call gets into the two transactions of an escalation, and no row is new.
QuietStep ==
    /\ UNCHANGED <<routes, escalations>>
    /\ \A e \in EscalationIds : events'[e] # <<>> => events[e] # <<>> \/ e \in Escalations
    /\ \A c \in Callers : Opens(c)' => calls'[c] = calls[c]

LEMMA QuietStepsKeepEscalations ==
    ASSUME FederationInv, QuietStep
    PROVE  EscalationsFollowRoutes' /\ EscalatesOnce'
  <1> USE DEF QuietStep, Opens, At, Escalations
  <1>1. EscalatesOnce'
    BY DEF FederationInv, EscalatesOnce
  <1>2. EscalationsFollowRoutes'
    BY DEF FederationInv, EscalationsFollowRoutes
  <1> QED BY <1>1, <1>2

LEMMA EndingIsQuiet ==
    ASSUME FederationType, NEW c \in Callers, Ends(c)
    PROVE  \A b \in Callers : Opens(b)' => calls'[b] = calls[b]
  BY DEF Ends, Continues, Idle, Opens, At, FederationType

LEMMA RouteDecisionKeepsEscalations ==
    ASSUME FederationInv, NEW c \in Callers, NEW d \in NewDecisions, NEW q \in Requests,
           NEW e \in EscalationIds, RouteDecision(c, d, q, e)
    PROVE  EscalationsFollowRoutes' /\ EscalatesOnce'
  <1>1. d \in Decisions /\ routes[d] = None
    BY DEF NewDecisions
  <1>2. /\ routes'[d].disposition = Disposition(q) /\ routes'[d] # None
        /\ \A f \in Decisions \ {d} : routes'[f] = routes[f]
        /\ UNCHANGED <<escalations, events>>
    <2>1. [request |-> q, target |-> MovedUp(q), disposition |-> Disposition(q)]
              \in RouteRows
      BY MovedUpTypes DEF RouteDecision
    <2> QED BY <1>1, <2>1, NoneIsNoRow DEF RouteDecision, FederationInv, FederationType
  <1>3. \A b \in Callers :
            \/ calls'[b] = calls[b]
            \/ b = c /\ calls'[b] = Call("ESCALATE", d, e) /\ Disposition(q) = "ESCALATE"
    BY DEF RouteDecision, Starts, Continues, FederationInv, FederationType
  <1>4. \A b \in Callers : Opens(b) => calls[b].about \in Decisions
    BY CallTypes DEF Opens, FederationInv
  <1>5. \A b \in Callers : At(b, "ESCALATE") => calls[b].about # d
    BY <1>1 DEF FederationInv, EscalatesOnce
  <1>6. \A f \in Escalations : escalations[f].decision \in Decisions \ {d}
    <2>1. \A f \in Escalations : escalations[f] \in EscalationRows
      BY DEF Escalations, FederationInv, FederationType
    <2>2. \A f \in Escalations : routes[escalations[f].decision] # None
      BY DEF FederationInv, EscalationsFollowRoutes
    <2> QED BY <1>1, <2>1, <2>2 DEF EscalationRows
  <1>7. \A b \in Callers : At(b, "ESCALATE")' =>
            \/ At(b, "ESCALATE") /\ calls'[b] = calls[b]
            \/ b = c /\ calls'[b].about = d /\ Disposition(q) = "ESCALATE"
    BY <1>3 DEF At, Call
  <1>8. \A b \in Callers : At(b, "OPENED")' => At(b, "OPENED") /\ calls'[b] = calls[b]
    BY <1>3 DEF At, Call
  <1>9. EscalatesOnce'
    <2>1. ASSUME NEW b \in Callers, At(b, "ESCALATE")'
          PROVE  routes'[calls'[b].about] # None
                 /\ routes'[calls'[b].about].disposition = "ESCALATE"
      <3>1. CASE At(b, "ESCALATE") /\ calls'[b] = calls[b]
        BY <3>1, <1>2, <1>4, <1>5 DEF FederationInv, EscalatesOnce, Opens
      <3>2. CASE calls'[b].about = d /\ Disposition(q) = "ESCALATE"
        BY <3>2, <1>2
      <3> QED BY <2>1, <1>7, <3>1, <3>2
    <2>2. ASSUME NEW a \in Callers, NEW b \in Callers, At(a, "ESCALATE")', At(b, "ESCALATE")',
                 calls'[b].about = calls'[a].about
          PROVE  b = a
      BY <2>2, <1>5, <1>7 DEF FederationInv, EscalatesOnce
    <2> QED BY <2>1, <2>2 DEF EscalatesOnce
  <1>10. EscalationsFollowRoutes'
    <2>1. Escalations' = Escalations
      BY <1>2 DEF Escalations
    <2>2. ASSUME NEW f \in Escalations, NEW b \in Callers, At(b, "ESCALATE")'
          PROVE  calls'[b].about # escalations[f].decision
      BY <2>2, <1>6, <1>7 DEF FederationInv, EscalationsFollowRoutes
    <2>3. \A b \in Callers : At(b, "OPENED")' =>
            calls'[b].id \in Escalations
            /\ escalations[calls'[b].id].decision = calls'[b].about
      BY <1>8 DEF FederationInv, EscalationsFollowRoutes
    <2>4. \A f \in Escalations : LET r == escalations[f] IN
            /\ routes'[r.decision] # None /\ routes'[r.decision].disposition = "ESCALATE"
            /\ r.source = routes'[r.decision].request.source
            /\ r.target = routes'[r.decision].target
            /\ \A g \in Escalations : escalations[g].decision = r.decision => g = f
      BY <1>2, <1>6 DEF FederationInv, EscalationsFollowRoutes
    <2>5. \A f \in EscalationIds : events[f] # <<>> => f \in Escalations
      BY DEF FederationInv, EscalationsFollowRoutes
    <2> QED BY <1>2, <2>1, <2>2, <2>3, <2>4, <2>5 DEF EscalationsFollowRoutes
  <1> QED BY <1>9, <1>10

LEMMA OpenEscalationKeepsEscalations ==
    ASSUME FederationInv, NEW c \in Callers, OpenEscalation(c)
    PROVE  EscalationsFollowRoutes' /\ EscalatesOnce'
  <1> DEFINE d == calls[c].about
             e == calls[c].id
             row == [decision |-> d, source |-> routes[d].request.source,
                     target |-> routes[d].target]
  <1>1. /\ At(c, "ESCALATE") /\ d \in Decisions /\ e \in EscalationIds
        /\ e \notin Escalations
        /\ routes[d] # None /\ routes[d].disposition = "ESCALATE"
    BY CallTypes DEF OpenEscalation, FreeId, Escalations, FederationInv, EscalatesOnce
  <1>2. row # None
    <2>1. routes[d] \in RouteRows
      BY <1>1 DEF FederationInv, FederationType
    <2>2. row \in EscalationRows
      BY <1>1, <2>1, FederationAssumption DEF RouteRows, EscalationRows
    <2> QED BY <2>2, NoneIsNoRow
  <1>3. /\ escalations'[e] = row
        /\ \A f \in EscalationIds \ {e} : escalations'[f] = escalations[f]
        /\ UNCHANGED <<routes, events>>
    BY <1>1 DEF OpenEscalation, FederationInv, FederationType
  <1>4. Escalations' = Escalations \cup {e}
    BY <1>1, <1>2, <1>3 DEF Escalations
  <1>5. /\ calls'[c] = Call("OPENED", d, e)
        /\ \A b \in Callers \ {c} : calls'[b] = calls[b]
    BY DEF OpenEscalation, Continues, FederationInv, FederationType
  <1>6. /\ \A f \in Escalations : escalations[f].decision # d
        /\ \A b \in Callers \ {c} : At(b, "ESCALATE") => calls[b].about # d
    BY <1>1 DEF FederationInv, EscalationsFollowRoutes, EscalatesOnce
  <1>7. \A b \in Callers : At(b, "ESCALATE")' => b # c /\ At(b, "ESCALATE")
                                                /\ calls'[b] = calls[b]
    BY <1>5 DEF At, Call
  <1>8. EscalatesOnce'
    BY <1>3, <1>7 DEF FederationInv, EscalatesOnce
  <1>9. EscalationsFollowRoutes'
    <2>1. \A f \in Escalations : f \in EscalationIds \ {e}
      BY <1>1 DEF Escalations
    <2>2. ASSUME NEW f \in Escalations'
          PROVE  LET r == escalations'[f] IN
            /\ routes[r.decision] # None /\ routes[r.decision].disposition = "ESCALATE"
            /\ r.source = routes[r.decision].request.source
            /\ r.target = routes[r.decision].target
            /\ \A g \in Escalations' : escalations'[g].decision = r.decision => g = f
            /\ \A b \in Callers : At(b, "ESCALATE")' => calls'[b].about # r.decision
      <3>1. CASE f = e
        BY <3>1, <1>1, <1>3, <1>4, <1>6, <1>7, <2>1
      <3>2. CASE f # e
        <4>1. f \in Escalations /\ escalations'[f] = escalations[f]
          BY <2>2, <3>2, <1>3, <1>4, <2>1
        <4>2. LET r == escalations[f] IN
            /\ routes[r.decision] # None /\ routes[r.decision].disposition = "ESCALATE"
            /\ r.source = routes[r.decision].request.source
            /\ r.target = routes[r.decision].target
            /\ \A g \in Escalations : escalations[g].decision = r.decision => g = f
            /\ \A b \in Callers : At(b, "ESCALATE") => calls[b].about # r.decision
          BY <4>1 DEF FederationInv, EscalationsFollowRoutes
        <4> QED BY <4>1, <4>2, <1>3, <1>4, <1>6, <1>7, <2>1
      <3> QED BY <3>1, <3>2
    <2>3. ASSUME NEW b \in Callers, At(b, "OPENED")'
          PROVE  calls'[b].id \in Escalations'
                 /\ escalations'[calls'[b].id].decision = calls'[b].about
      <3>1. CASE b = c
        BY <3>1, <1>3, <1>4, <1>5 DEF Call
      <3>2. CASE b # c
        <4>1. At(b, "OPENED") /\ calls'[b] = calls[b]
          BY <2>3, <3>2, <1>5 DEF At
        <4>2. calls[b].id \in Escalations /\ escalations[calls[b].id].decision = calls[b].about
          BY <4>1 DEF FederationInv, EscalationsFollowRoutes
        <4> QED BY <4>1, <4>2, <1>3, <1>4, <2>1
      <3> QED BY <3>1, <3>2
    <2>4. \A f \in EscalationIds : events[f] # <<>> => f \in Escalations'
      BY <1>4 DEF FederationInv, EscalationsFollowRoutes
    <2> QED BY <1>3, <2>2, <2>3, <2>4 DEF EscalationsFollowRoutes
  <1> QED BY <1>8, <1>9

LEMMA EscalationsKept ==
    ASSUME FederationInv, [Next]_vars
    PROVE  EscalationsFollowRoutes' /\ EscalatesOnce'
  <1>1. ASSUME UNCHANGED <<routes, escalations, events, calls>>
        PROVE  QuietStep
    BY <1>1 DEF QuietStep
  <1>2. CASE UNCHANGED vars \/ ProjectionNext
    BY <1>1, <1>2, QuietStepsKeepEscalations
       DEF vars, tables, ProjectionNext, ProjectWorld, AggregateScope, InsertProjection
  <1>3. ASSUME NEW c \in Callers, TreeNext(c) PROVE QuietStep
    <2>1. CASE \E s \in Scopes : RegisterRoot(c, s)
      <3>1. \A b \in Callers : Opens(b)' => calls'[b] = calls[b]
        BY <2>1 DEF RegisterRoot, Starts, Continues, Call, Opens, At,
                    FederationInv, FederationType
      <3> QED BY <2>1, <3>1 DEF RegisterRoot, QuietStep, tables
    <2>2. CASE \E s, p \in Scopes : RegisterScope(s, p)
      BY <2>2, <1>1 DEF RegisterScope
    <2>3. CASE RootWrites(c)
      BY <2>3, EndingIsQuiet DEF RootWrites, QuietStep, FederationInv
    <2> QED BY <1>3, <2>1, <2>2, <2>3 DEF TreeNext
  <1>4. ASSUME NEW c \in Callers, Stop(c) PROVE QuietStep
    BY <1>4, EndingIsQuiet DEF Stop, QuietStep, tables, FederationInv
  <1>5. ASSUME NEW c \in Callers, RecordOpened(c) PROVE QuietStep
    <2>1. calls[c].id \in Escalations /\ UNCHANGED <<routes, escalations>>
      BY <1>5 DEF RecordOpened, FederationInv, EscalationsFollowRoutes
    <2>2. \A e \in EscalationIds : events'[e] = events[e] \/ e = calls[c].id
      BY <1>5 DEF RecordOpened, AppendsEvent, FederationInv, FederationType
    <2>3. Ends(c)
      BY <1>5 DEF RecordOpened
    <2> QED BY <2>1, <2>2, <2>3, EndingIsQuiet DEF QuietStep, FederationInv
  <1>6. ASSUME NEW e \in EscalationIds, NEW type \in EventTypes, RecordEscalationEvent(e, type)
        PROVE  QuietStep
    <2>1. e \in Escalations /\ UNCHANGED <<routes, escalations, calls>>
      BY <1>6 DEF RecordEscalationEvent, Escalations
    <2>2. \A f \in EscalationIds : events'[f] = events[f] \/ f = e
      BY <1>6 DEF RecordEscalationEvent, AppendsEvent, FederationInv, FederationType
    <2> QED BY <2>1, <2>2 DEF QuietStep
  <1>7. ASSUME NEW c \in Callers, RouteNext(c)
        PROVE  EscalationsFollowRoutes' /\ EscalatesOnce'
    BY <1>7, <1>5, <1>6, QuietStepsKeepEscalations, RouteDecisionKeepsEscalations,
       OpenEscalationKeepsEscalations DEF RouteNext
  <1> QED BY <1>2, <1>3, <1>4, <1>7, QuietStepsKeepEscalations DEF Next

-----------------------------------------------------------------------------
(* Projections. *)

LEMMA FiguresKept ==
    ASSUME FederationInv, [Next]_vars
    PROVE  FiguresGoUp'
  <1> DEFINE GoesUp(p) ==
        /\ Below(p.target, p.source)
        /\ \A w \in Worlds : p.counts[w] > 0 =>
                \E s \in Registered : WorldOf[s] = w /\ Below(p.source, s)
  <1>1. Tree /\ TreeGrows /\ \A p \in projections : GoesUp(p)
    BY TreeKept DEF Tree, FederationInv, FederationType, FiguresGoUp
  <1>2. ASSUME NEW p, GoesUp(p) PROVE GoesUp(p)'
    <2>1. Below(p.target, p.source)'
      BY <1>1, <1>2, BelowStays
    <2>2. ASSUME NEW w \in Worlds, p.counts[w] > 0
          PROVE  \E s \in Registered' : WorldOf[s] = w /\ Below(p.source, s)'
      <3>1. PICK s \in Registered : WorldOf[s] = w /\ Below(p.source, s)
        BY <1>2, <2>2
      <3>2. s \in Registered' /\ Below(p.source, s)'
        BY <1>1, <3>1, RegisteredStays, BelowStays
      <3> QED BY <3>1, <3>2
    <2> QED BY <2>1, <2>2
  <1>3. ASSUME NEW s \in Scopes, NEW target \in Scopes, ProjectWorld(s, target)
        PROVE  \E p : GoesUp(p) /\ projections' = projections \cup {p}
    <2> DEFINE p == Projection(s, target,
                        [w \in Worlds |-> IF w = WorldOf[s] THEN 1 ELSE 0])
    <2>1. s \in Registered /\ projections' = projections \cup {p}
      BY <1>3 DEF ProjectWorld, InsertProjection
    <2>2. Below(target, s)
      BY <1>1, <1>3, AncestorsAreAbove DEF ProjectWorld, MaySend
    <2>3. GoesUp(p)
      BY <2>1, <2>2, BelowItself DEF Projection
    <2> QED BY <2>1, <2>3
  <1>4. ASSUME NEW s \in Scopes, NEW target \in Scopes, NEW sources \in SUBSET Registered,
               AggregateScope(s, sources, target)
        PROVE  \E p : GoesUp(p) /\ projections' = projections \cup {p}
    <2>1. PICK rows \in PickRows(s, sources) :
            InsertProjection(Projection(s, target, [w \in Worlds |-> Total(rows, w)]))
      BY <1>4 DEF AggregateScope
    <2> DEFINE p == Projection(s, target, [w \in Worlds |-> Total(rows, w)])
    <2>2. s \in Registered /\ projections' = projections \cup {p}
      BY <1>4, <2>1 DEF AggregateScope, InsertProjection
    <2>3. Below(target, s) /\ \A t \in sources : Below(s, t)
      BY <1>1, <1>4, AncestorsAreAbove DEF AggregateScope, MaySend, Registered
    <2>4. ASSUME NEW w \in Worlds, Total(rows, w) > 0
          PROVE  \E z \in Registered : WorldOf[z] = w /\ Below(s, z)
      <3>1. PICK r \in rows : r.counts[w] > 0
        BY <2>4 DEF Total
      <3>2. r \in projections /\ r.source \in sources
        BY <2>1, <3>1 DEF PickRows
      <3>3. PICK z \in Registered : WorldOf[z] = w /\ Below(r.source, z)
        BY <1>1, <3>1, <3>2
      <3> QED BY <2>3, <3>2, <3>3, BelowTransitive
    <2>5. GoesUp(p)
      BY <2>3, <2>4 DEF Projection
    <2> QED BY <2>2, <2>5
  <1>5. \A p \in projections' : GoesUp(p)
    BY <1>1, <1>3, <1>4, FederationSteps DEF ProjectionNext
  <1>6. \A p \in projections' : GoesUp(p)'
    BY <1>2, <1>5
  <1> QED BY <1>6 DEF FiguresGoUp

-----------------------------------------------------------------------------
(* Federation: the theorems. *)

LEMMA FederationInit == Init => FederationInv
  <1> SUFFICES ASSUME Init PROVE FederationInv
    OBVIOUS
  <1>1. Registered = {} /\ RoutedDecisions = {} /\ Escalations = {}
    BY DEF Init, Registered, RoutedDecisions, Escalations
  <1>2. \A c \in Callers : ~At(c, "ESCALATE") /\ ~At(c, "OPENED")
    BY DEF Init, At, Idle
  <1>3. FederationType
    BY DEF Init, FederationType, FederationCalls
  <1>4. EscalationsFollowRoutes /\ EscalatesOnce
    BY <1>1, <1>2 DEF EscalationsFollowRoutes, EscalatesOnce, Init
  <1>5. FiguresGoUp
    BY DEF Init, FiguresGoUp
  <1> QED BY <1>1, <1>3, <1>4, <1>5
         DEF FederationInv, Rooted, RoutedAmongRegistered, RoutedToTheLowest

LEMMA FederationStep == FederationInv /\ [Next]_vars => FederationInv'
  BY FederationTypeKept, TreeKept, RoutesKept, EscalationsKept, FiguresKept DEF FederationInv

\* The invariant holds: the tables and calls have their types, and parents are
\* registered and of a smaller rank.  (register_scope)
THEOREM FederationInvariant == Spec => []FederationInv
  BY FederationInit, FederationStep, PTL DEF Spec

\* Every decision goes to the lowest scope over all it affects and the authority it
\* needs, or one up for a reason, and it stays that one while the tree grows.
\* (route_decision, least_common_ancestor)
THEOREM LowestRoutes == Spec => []RoutedToTheLowest
  <1>1. FederationInv => RoutedToTheLowest
    BY DEF FederationInv
  <1> QED BY FederationInvariant, <1>1, PTL

\* Escalations are those of their decisions, one of each, whatever other calls do
\* between the three transactions.  (route_decision, open_escalation)
THEOREM Escalating == Spec => []EscalationsFollowRoutes
  <1>1. FederationInv => EscalationsFollowRoutes
    BY DEF FederationInv
  <1> QED BY FederationInvariant, <1>1, PTL

\* Figures only go up, however often they were aggregated.  (project_world,
\* aggregate_scope)
THEOREM UpwardFigures == Spec => []FiguresGoUp
  <1>1. FederationInv => FiguresGoUp
    BY DEF FederationInv
  <1> QED BY FederationInvariant, <1>1, PTL

\* A scope that is registered keeps the scopes above it, and no others come there,
\* which is why a route that was computed once stays right.  (register_scope)
THEOREM KeptPlaces == Spec => PlacesAreKept
  <1> DEFINE A == \A s \in Registered, t \in Scopes : Below(t, s)' <=> Below(t, s)
  <1>1. FederationInv /\ [Next]_vars => [A]_vars
    <2> SUFFICES ASSUME FederationInv, [Next]_vars PROVE A
      OBVIOUS
    <2>1. Tree /\ TreeGrows
      BY TreeKept DEF Tree, FederationInv, FederationType
    <2> QED BY <2>1, BelowStays, BelowWasBefore
  <1> QED BY <1>1, FederationInvariant, PTL DEF Spec, PlacesAreKept

-----------------------------------------------------------------------------
(* AgentGateway: the invariant. *)

GatewayCalls ==
    {Idle} \cup [op : {"STATUS"}, about : Connectors, to : ConnectorStatuses,
                 given : Reviews \cup {None}, read : Reviews \cup {None}]
           \cup [op : {"RECORD"}, about : Messages]

AuditRows ==
    [event : {"STATUS"}, about : Connectors, status : ConnectorStatuses,
     review : Reviews \cup {None}]
    \cup [event : {"MESSAGE"}, about : Messages, status : {None}, review : {None}]

GatewayType ==
    /\ profile \in [Connectors -> Profiles \cup {None}]
    /\ status \in [Connectors -> ConnectorStatuses \cup {None}]
    /\ review \in [Connectors -> Reviews \cup {None}]
    /\ messages \in SUBSET Messages
    /\ audit \in Seq(AuditRows)
    /\ calls \in [Callers -> GatewayCalls]

\* A connector that is not registered has no review, one that is enabled has.
ConnectorInv == \A k \in Connectors :
    /\ profile[k] = None => review[k] = None
    /\ status[k] = "ENABLED" => review[k] # None

ReviewedEnabling(i) == audit[i].status = "ENABLED" /\ audit[i].review # None

WasEnabled(k) == \E i \in StatusEvents(k) : ReviewedEnabling(i)

\* What a call was let in for is still so, but not that its connector is enabled.
SoundCall(call) ==
    /\ call.op = "STATUS" =>
        /\ profile[call.about] # None
        /\ call.to = "ENABLED" => call.given # None /\ profile[call.about] \in Secured
    /\ call.op = "RECORD" =>
        /\ profile[call.about.connector] # None
        /\ call.about \in Accepts[profile[call.about.connector]]
        /\ WasEnabled(call.about.connector)

GatewayCallInv == \A c \in Callers : SoundCall(calls[c])

CustodyInv ==
    /\ \A m, n \in messages : m # n /\ SameChannel(m, n) => m.key # n.key /\ m.id # n.id
    /\ \A m \in messages : profile[m.connector] # None /\ m \in Accepts[profile[m.connector]]
    /\ \A m \in Messages \ messages : MessageEvents(m) = {}
    /\ \A m \in messages : \E i \in DOMAIN audit : MessageEvents(m) = {i}

LastIsTheRow(k) == \E i \in StatusEvents(k) :
    /\ \A j \in StatusEvents(k) : j <= i
    /\ audit[i].status = status[k] /\ audit[i].review = review[k]

EnabledBefore(m) == \A i \in MessageEvents(m) :
    \E j \in StatusEvents(m.connector) : j < i /\ ReviewedEnabling(j)

AuditInv ==
    /\ \A k \in Connectors : profile[k] # None => LastIsTheRow(k)
    /\ \A m \in messages : EnabledBefore(m)

GatewayInv == GatewayType /\ ConnectorInv /\ GatewayCallInv /\ CustodyInv /\ AuditInv

LEMMA GatewayInvImplies == GatewayInv => CustodyIsUnique /\ AuditExplainsCustody
  <1> SUFFICES ASSUME GatewayInv PROVE CustodyIsUnique /\ AuditExplainsCustody
    OBVIOUS
  <1>1. \A m \in Messages : Cardinality(MessageEvents(m)) = IF m \in messages THEN 1 ELSE 0
    <2> SUFFICES ASSUME NEW m \in Messages
                 PROVE  Cardinality(MessageEvents(m)) = IF m \in messages THEN 1 ELSE 0
      OBVIOUS
    <2>1. CASE m \in messages
      <3>1. PICK i \in DOMAIN audit : MessageEvents(m) = {i}
        BY <2>1 DEF GatewayInv, CustodyInv
      <3> QED BY <2>1, <3>1, FS_Singleton
    <2>2. CASE m \notin messages
      BY <2>2, FS_EmptySet DEF GatewayInv, CustodyInv
    <2> QED BY <2>1, <2>2
  <1>2. CustodyIsUnique
    BY <1>1 DEF GatewayInv, CustodyInv, CustodyIsUnique
  <1>3. AuditExplainsCustody
    BY DEF GatewayInv, AuditInv, LastIsTheRow, EnabledBefore, ReviewedEnabling,
           AuditExplainsCustody
  <1> QED BY <1>2, <1>3

-----------------------------------------------------------------------------
(* The audit grows at its end. *)

LEMMA AuditGrows ==
    ASSUME GatewayType, NEW row, audit' = Append(audit, row)
    PROVE  /\ Len(audit) \in Nat /\ DOMAIN audit = 1 .. Len(audit)
           /\ DOMAIN audit' = 1 .. Len(audit) + 1
           /\ \A i \in DOMAIN audit : audit'[i] = audit[i]
           /\ audit'[Len(audit) + 1] = row
  BY DEF GatewayType

LEMMA AuditEventsGrow ==
    ASSUME GatewayType, NEW row, audit' = Append(audit, row)
    PROVE  /\ \A k : StatusEvents(k)' = StatusEvents(k) \cup
                (IF row.event = "STATUS" /\ row.about = k THEN {Len(audit) + 1} ELSE {})
           /\ \A m : MessageEvents(m)' = MessageEvents(m) \cup
                (IF row.event = "MESSAGE" /\ row.about = m THEN {Len(audit) + 1} ELSE {})
  <1>1. /\ Len(audit) \in Nat /\ DOMAIN audit = 1 .. Len(audit)
        /\ DOMAIN audit' = 1 .. Len(audit) + 1
        /\ \A i \in DOMAIN audit : audit'[i] = audit[i]
        /\ audit'[Len(audit) + 1] = row
    BY AuditGrows
  <1> DEFINE last == Len(audit) + 1
  <1>2. \A i : i \in DOMAIN audit' <=> i \in DOMAIN audit \/ i = last
    BY <1>1
  <1>3. last \notin DOMAIN audit
    BY <1>1
  <1>4. \A k, i : i \in StatusEvents(k)' <=>
            i \in StatusEvents(k) \/ (i = last /\ row.event = "STATUS" /\ row.about = k)
    BY <1>1, <1>2, <1>3 DEF StatusEvents
  <1>5. \A m, i : i \in MessageEvents(m)' <=>
            i \in MessageEvents(m) \/ (i = last /\ row.event = "MESSAGE" /\ row.about = m)
    BY <1>1, <1>2, <1>3 DEF MessageEvents
  <1>6. ASSUME NEW k
        PROVE  StatusEvents(k)' = StatusEvents(k) \cup
                (IF row.event = "STATUS" /\ row.about = k THEN {last} ELSE {})
    BY <1>4
  <1>7. ASSUME NEW m
        PROVE  MessageEvents(m)' = MessageEvents(m) \cup
                (IF row.event = "MESSAGE" /\ row.about = m THEN {last} ELSE {})
    BY <1>5
  <1> QED BY <1>6, <1>7

LEMMA WasEnabledStays ==
    ASSUME GatewayType, NEW row, audit' = Append(audit, row), NEW k, WasEnabled(k)
    PROVE  WasEnabled(k)'
  <1>1. PICK i \in StatusEvents(k) : ReviewedEnabling(i)
    BY DEF WasEnabled
  <1>2. i \in DOMAIN audit /\ i \in StatusEvents(k)'
    BY <1>1, AuditEventsGrow DEF StatusEvents
  <1>3. audit'[i] = audit[i]
    BY <1>2, AuditGrows
  <1> QED BY <1>1, <1>2, <1>3 DEF WasEnabled, ReviewedEnabling

\* Rows are registered once, and the audit keeps what it holds.
LEMMA SoundCallStays ==
    ASSUME GatewayType, NEW call \in GatewayCalls, SoundCall(call),
           \A k \in Connectors : profile[k] # None => profile'[k] = profile[k],
           UNCHANGED audit \/ \E row : audit' = Append(audit, row)
    PROVE  SoundCall(call)'
  <1>1. ASSUME NEW k, WasEnabled(k) PROVE WasEnabled(k)'
    <2>1. CASE UNCHANGED audit
      BY <1>1, <2>1 DEF WasEnabled, StatusEvents, ReviewedEnabling
    <2> QED BY <1>1, <2>1, WasEnabledStays
  <1>2. CASE call = Idle
    BY <1>2 DEF SoundCall, Idle
  <1>3. CASE call \in [op : {"STATUS"}, about : Connectors, to : ConnectorStatuses,
                       given : Reviews \cup {None}, read : Reviews \cup {None}]
    BY <1>3 DEF SoundCall
  <1>4. CASE call \in [op : {"RECORD"}, about : Messages]
    <2>1. call.about.connector \in Connectors
      BY <1>4, GatewayAssumption
    <2> QED BY <1>1, <1>4, <2>1 DEF SoundCall
  <1> QED BY <1>2, <1>3, <1>4 DEF GatewayCalls

-----------------------------------------------------------------------------
(* AgentGateway: the steps of a call that write no table. *)

LEMMA TablesKept ==
    ASSUME GatewayInv, UNCHANGED custodyTables
    PROVE  ConnectorInv' /\ CustodyInv' /\ AuditInv'
  <1> USE DEF custodyTables
  <1>1. ConnectorInv'
    BY DEF GatewayInv, ConnectorInv
  <1>2. \A k : StatusEvents(k)' = StatusEvents(k) /\ MessageEvents(k)' = MessageEvents(k)
    BY DEF StatusEvents, MessageEvents
  <1>3. CustodyInv'
    BY <1>2 DEF GatewayInv, CustodyInv
  <1>4. AuditInv'
    BY <1>2 DEF GatewayInv, AuditInv, LastIsTheRow, EnabledBefore, ReviewedEnabling
  <1> QED BY <1>1, <1>3, <1>4

LEMMA CallBegins ==
    ASSUME GatewayInv, UNCHANGED custodyTables, NEW c \in Callers, NEW call \in GatewayCalls,
           SoundCall(call), Continues(c, call)
    PROVE  GatewayInv'
  <1>1. GatewayType'
    BY DEF GatewayInv, GatewayType, Continues, custodyTables
  <1>2. \A b \in Callers : calls'[b] \in GatewayCalls /\ SoundCall(calls'[b])
    BY DEF GatewayInv, GatewayType, GatewayCallInv, Continues
  <1>3. ASSUME NEW b \in Callers PROVE SoundCall(calls[b])'
    <2>1. PICK other \in GatewayCalls : other = calls'[b] /\ SoundCall(other)
      BY <1>2
    <2>2. SoundCall(other)'
      BY <2>1, SoundCallStays DEF GatewayInv, custodyTables
    <2> QED BY <2>1, <2>2 DEF SoundCall
  <1> QED BY <1>1, <1>3, TablesKept DEF GatewayInv, GatewayCallInv

LEMMA IdleIsSound == Idle \in GatewayCalls /\ SoundCall(Idle)
  BY DEF GatewayCalls, SoundCall, Idle

LEMMA SetConnectorStatusKeeps ==
    ASSUME GatewayInv, NEW c \in Callers, NEW k \in Connectors, NEW to \in ConnectorStatuses,
           NEW r \in Reviews \cup {None}, SetConnectorStatus(c, k, to, r)
    PROVE  GatewayInv'
  <1> DEFINE call == StatusCall(k, to, r, review[k])
  <1>1. call \in GatewayCalls
    BY DEF StatusCall, GatewayCalls, GatewayInv, GatewayType
  <1>2. SoundCall(call)
    BY DEF SetConnectorStatus, MayEnable, StatusCall, SoundCall
  <1>3. Continues(c, call) /\ UNCHANGED custodyTables
    BY DEF SetConnectorStatus, Starts
  <1> HIDE DEF call
  <1>4. PICK other \in GatewayCalls : other = call
    BY <1>1
  <1> QED BY <1>2, <1>3, <1>4, CallBegins DEF Continues

LEMMA NormalizeKeeps ==
    ASSUME GatewayInv, NEW c \in Callers, NEW m \in Messages, Normalize(c, m)
    PROVE  GatewayInv'
  <1> DEFINE k == m.connector
  <1>1. /\ k \in Connectors /\ profile[k] # None /\ status[k] = "ENABLED"
        /\ m \in Accepts[profile[k]]
    BY GatewayAssumption DEF Normalize, IsEnabled
  <1>2. WasEnabled(k)
    <2>1. PICK i \in StatusEvents(k) :
            audit[i].status = status[k] /\ audit[i].review = review[k]
      BY <1>1 DEF GatewayInv, AuditInv, LastIsTheRow
    <2>2. review[k] # None
      BY <1>1 DEF GatewayInv, ConnectorInv
    <2> QED BY <1>1, <2>1, <2>2 DEF WasEnabled, ReviewedEnabling
  <1>3. RecordCall(m) \in GatewayCalls /\ SoundCall(RecordCall(m))
    BY <1>1, <1>2 DEF RecordCall, GatewayCalls, SoundCall
  <1> QED BY <1>3, CallBegins DEF Normalize, Starts

LEMMA AbandonKeeps ==
    ASSUME GatewayInv, NEW c \in Callers, Abandon(c)
    PROVE  GatewayInv'
  BY IdleIsSound, CallBegins DEF Abandon, Ends

-----------------------------------------------------------------------------
(* AgentGateway: the transactions. *)

\* A status event of a connector is its last one, and leaves the messages alone.
LEMMA StatusEventKeepsAudit ==
    ASSUME GatewayType, AuditInv, NEW k \in Connectors, NEW to, NEW r,
           NEW row, row = [event |-> "STATUS", about |-> k, status |-> to, review |-> r],
           audit' = Append(audit, row), UNCHANGED messages,
           status'[k] = to, review'[k] = r,
           \A x \in Connectors \ {k} :
                profile'[x] = profile[x] /\ status'[x] = status[x] /\ review'[x] = review[x]
    PROVE  AuditInv' /\ \A m : MessageEvents(m)' = MessageEvents(m)
  <1> DEFINE last == Len(audit) + 1
  <1>1. /\ Len(audit) \in Nat /\ DOMAIN audit = 1 .. Len(audit)
        /\ DOMAIN audit' = 1 .. last
        /\ \A i \in DOMAIN audit : audit'[i] = audit[i] /\ i < last
        /\ audit'[last] = row
    BY AuditGrows
  <1>2. /\ StatusEvents(k)' = StatusEvents(k) \cup {last}
        /\ \A x \in Connectors \ {k} : StatusEvents(x)' = StatusEvents(x)
        /\ \A x : StatusEvents(x) \subseteq StatusEvents(x)'
        /\ \A m : MessageEvents(m)' = MessageEvents(m)
    <2>1. row.event = "STATUS" /\ row.about = k
      OBVIOUS
    <2>2. ASSUME NEW x
          PROVE  StatusEvents(x)' = StatusEvents(x) \cup (IF k = x THEN {last} ELSE {})
      BY <2>1, AuditEventsGrow
    <2>3. ASSUME NEW m PROVE MessageEvents(m)' = MessageEvents(m)
      <3>1. MessageEvents(m)' = MessageEvents(m) \cup {}
        BY <2>1, AuditEventsGrow
      <3> QED BY <3>1
    <2>4. \A x \in Connectors \ {k} : StatusEvents(x)' = StatusEvents(x)
      BY <2>2
    <2> HIDE DEF last
    <2> QED BY <2>2, <2>3, <2>4
  <1>3. \A x : StatusEvents(x) \subseteq DOMAIN audit /\ MessageEvents(x) \subseteq DOMAIN audit
    BY DEF StatusEvents, MessageEvents
  <1>4. ASSUME NEW x \in Connectors, profile'[x] # None
        PROVE  LastIsTheRow(x)'
    <2>1. CASE x = k
      <3>1. \A j \in StatusEvents(k)' : j <= last
        BY <1>1, <1>2, <1>3
      <3> QED BY <2>1, <3>1, <1>1, <1>2 DEF LastIsTheRow
    <2>2. CASE x # k
      <3>1. LastIsTheRow(x)
        BY <1>4, <2>2 DEF AuditInv
      <3> QED BY <2>2, <3>1, <1>1, <1>2, <1>3 DEF LastIsTheRow
    <2> QED BY <2>1, <2>2
  <1>5. ASSUME NEW m \in messages PROVE EnabledBefore(m)'
    <2>1. EnabledBefore(m)
      BY DEF AuditInv
    <2> QED BY <2>1, <1>1, <1>2, <1>3 DEF EnabledBefore, ReviewedEnabling
  <1> QED BY <1>2, <1>4, <1>5 DEF AuditInv

LEMMA RegisterConnectorKeeps ==
    ASSUME GatewayInv, NEW k \in Connectors, NEW p \in Profiles, RegisterConnector(k, p)
    PROVE  GatewayInv'
  <1> DEFINE row == [event |-> "STATUS", about |-> k, status |-> "DISABLED", review |-> None]
  <1>1. /\ profile[k] = None /\ review[k] = None /\ p # None
        /\ profile' = [profile EXCEPT ![k] = p]
        /\ status' = [status EXCEPT ![k] = "DISABLED"]
        /\ audit' = Append(audit, row)
        /\ UNCHANGED <<review, messages, calls>>
    BY GatewayAssumption DEF RegisterConnector, Appends, GatewayInv, ConnectorInv
  <1>2. GatewayType'
    <2>1. row \in AuditRows
      BY DEF AuditRows, ConnectorStatuses
    <2> QED BY <1>1, <2>1 DEF GatewayInv, GatewayType, ConnectorStatuses
  <1>3. /\ profile'[k] = p /\ status'[k] = "DISABLED" /\ review'[k] = None
        /\ \A x \in Connectors \ {k} : profile'[x] = profile[x] /\ status'[x] = status[x]
                                       /\ review'[x] = review[x]
    BY <1>1 DEF GatewayInv, GatewayType
  <1>4. ConnectorInv'
    BY <1>1, <1>3 DEF GatewayInv, ConnectorInv
  <1>5. AuditInv' /\ \A m : MessageEvents(m)' = MessageEvents(m)
    BY <1>1, <1>3, StatusEventKeepsAudit DEF GatewayInv
  <1>6. GatewayCallInv'
    <2>1. \A x \in Connectors : profile[x] # None => profile'[x] = profile[x]
      BY <1>1, <1>3
    <2>2. \E a : audit' = Append(audit, a)
      BY <1>1
    <2>3. \A b \in Callers : calls[b] \in GatewayCalls /\ SoundCall(calls[b])
      BY DEF GatewayInv, GatewayType, GatewayCallInv
    <2>4. \A call \in GatewayCalls : SoundCall(call) => SoundCall(call)'
      BY <2>1, <2>2, SoundCallStays DEF GatewayInv
    <2>5. ASSUME NEW b \in Callers PROVE SoundCall(calls[b])'
      <3>1. PICK call \in GatewayCalls : call = calls[b] /\ SoundCall(call)
        BY <2>3
      <3>2. SoundCall(call)' /\ calls'[b] = call
        BY <1>1, <2>4, <3>1
      <3> QED BY <3>2 DEF SoundCall
    <2> QED BY <2>5 DEF GatewayCallInv
  <1>7. CustodyInv'
    <2>1. \A m \in messages : m.connector \in Connectors \ {k}
      BY <1>1, GatewayAssumption DEF GatewayInv, GatewayType, CustodyInv
    <2>2. DOMAIN audit \subseteq DOMAIN audit'
      BY <1>1, AuditGrows DEF GatewayInv
    <2> QED BY <1>1, <1>3, <1>5, <2>1, <2>2 DEF GatewayInv, CustodyInv
  <1> QED BY <1>2, <1>4, <1>5, <1>6, <1>7 DEF GatewayInv

\* What a call is let in for stays so when it, or another call, has written.
LEMMA CallsStaySound ==
    ASSUME GatewayInv, NEW c \in Callers, Ends(c),
           UNCHANGED profile, UNCHANGED audit \/ \E row : audit' = Append(audit, row)
    PROVE  GatewayCallInv' /\ (calls \in [Callers -> GatewayCalls])'
  <1>1. /\ (calls \in [Callers -> GatewayCalls])'
        /\ \A b \in Callers : SoundCall(calls'[b])
    BY IdleIsSound DEF GatewayInv, GatewayType, GatewayCallInv, Ends, Continues
  <1>2. \A call \in GatewayCalls : SoundCall(call) => SoundCall(call)'
    BY SoundCallStays DEF GatewayInv
  <1>3. ASSUME NEW b \in Callers PROVE SoundCall(calls[b])'
    <2>1. PICK call \in GatewayCalls : call = calls'[b] /\ SoundCall(call)
      BY <1>1
    <2>2. SoundCall(call)'
      BY <1>2, <2>1
    <2> QED BY <2>1, <2>2 DEF SoundCall
  <1> QED BY <1>1, <1>3 DEF GatewayCallInv

LEMMA StatusWritesKeeps ==
    ASSUME GatewayInv, NEW c \in Callers, StatusWrites(c)
    PROVE  GatewayInv'
  <1> DEFINE k == calls[c].about
             to == calls[c].to
             r == ReviewKept(calls[c])
             row == [event |-> "STATUS", about |-> k, status |-> to, review |-> r]
  <1>1. /\ k \in Connectors /\ to \in ConnectorStatuses
        /\ calls[c].given \in Reviews \cup {None} /\ calls[c].read \in Reviews \cup {None}
        /\ profile[k] # None /\ (to = "ENABLED" => calls[c].given # None)
    BY DEF StatusWrites, At, GatewayInv, GatewayType, GatewayCalls, GatewayCallInv,
           SoundCall, Idle
  <1>2. r \in Reviews \cup {None} /\ (to = "ENABLED" => r # None)
    BY <1>1 DEF ReviewKept
  <1>3. /\ status' = [status EXCEPT ![k] = to]
        /\ review' = [review EXCEPT ![k] = r]
        /\ audit' = Append(audit, row)
        /\ Ends(c) /\ UNCHANGED <<profile, messages>>
    BY DEF StatusWrites, Appends
  <1> HIDE DEF r
  <1>4. /\ status'[k] = to /\ review'[k] = r
        /\ \A x \in Connectors \ {k} : status'[x] = status[x] /\ review'[x] = review[x]
    BY <1>1, <1>3 DEF GatewayInv, GatewayType
  <1>5. GatewayCallInv' /\ (calls \in [Callers -> GatewayCalls])'
    BY <1>3, CallsStaySound
  <1>6. GatewayType'
    <2>1. row \in AuditRows
      BY <1>1, <1>2 DEF AuditRows
    <2>2. (audit \in Seq(AuditRows))'
      BY <1>3, <2>1 DEF GatewayInv, GatewayType
    <2>3. (status \in [Connectors -> ConnectorStatuses \cup {None}])'
      BY <1>1, <1>3 DEF GatewayInv, GatewayType
    <2>4. (review \in [Connectors -> Reviews \cup {None}])'
      BY <1>2, <1>3 DEF GatewayInv, GatewayType
    <2> QED BY <1>3, <1>5, <2>2, <2>3, <2>4 DEF GatewayInv, GatewayType
  <1>7. ConnectorInv'
    BY <1>1, <1>2, <1>3, <1>4 DEF GatewayInv, ConnectorInv
  <1>8. AuditInv' /\ \A m : MessageEvents(m)' = MessageEvents(m)
    BY <1>1, <1>3, <1>4, StatusEventKeepsAudit DEF GatewayInv
  <1>9. CustodyInv'
    <2>1. DOMAIN audit \subseteq DOMAIN audit'
      BY <1>3, AuditGrows DEF GatewayInv
    <2> QED BY <1>3, <1>8, <2>1 DEF GatewayInv, CustodyInv
  <1> QED BY <1>5, <1>6, <1>7, <1>8, <1>9 DEF GatewayInv

LEMMA RecordEnvelopeKeeps ==
    ASSUME GatewayInv, NEW c \in Callers, RecordEnvelope(c)
    PROVE  GatewayInv'
  <1> PICK m : m = calls[c].about
    OBVIOUS
  <1> DEFINE row == [event |-> "MESSAGE", about |-> m, status |-> None, review |-> None]
             last == Len(audit) + 1
  <1>1. /\ m \in Messages /\ profile[m.connector] # None
        /\ m \in Accepts[profile[m.connector]] /\ WasEnabled(m.connector)
    BY DEF RecordEnvelope, At, GatewayInv, GatewayType, GatewayCalls, GatewayCallInv,
           SoundCall, Idle
  <1>2. /\ messages' = messages \cup {m} /\ audit' = Append(audit, row)
        /\ Ends(c) /\ UNCHANGED <<profile, status, review>>
        /\ \A n \in messages : SameChannel(m, n) => n.key # m.key /\ n.id # m.id
    BY DEF RecordEnvelope, Appends, KeysFree
  <1>3. m \notin messages
    BY <1>2 DEF SameChannel
  <1>4. /\ Len(audit) \in Nat /\ DOMAIN audit = 1 .. Len(audit)
        /\ DOMAIN audit' = 1 .. last
        /\ \A i \in DOMAIN audit : audit'[i] = audit[i] /\ i < last
    BY <1>2, AuditGrows DEF GatewayInv
  <1>5. /\ MessageEvents(m)' = {last}
        /\ \A n \in Messages \ {m} : MessageEvents(n)' = MessageEvents(n)
        /\ \A k : StatusEvents(k)' = StatusEvents(k)
    <2>1. ASSUME NEW n
          PROVE  MessageEvents(n)' = MessageEvents(n) \cup (IF m = n THEN {last} ELSE {})
      BY <1>2, AuditEventsGrow DEF GatewayInv
    <2>2. ASSUME NEW k PROVE StatusEvents(k)' = StatusEvents(k)
      <3>1. row.event # "STATUS"
        OBVIOUS
      <3> HIDE DEF row
      <3>2. StatusEvents(k)' = StatusEvents(k) \cup
                (IF row.event = "STATUS" /\ row.about = k THEN {last} ELSE {})
        BY <1>2, AuditEventsGrow DEF GatewayInv
      <3> QED BY <3>1, <3>2
    <2>3. MessageEvents(m) = {}
      BY <1>1, <1>3 DEF GatewayInv, CustodyInv
    <2> HIDE DEF last
    <2>4. MessageEvents(m)' = {last}
      BY <2>1, <2>3
    <2>5. ASSUME NEW n \in Messages \ {m} PROVE MessageEvents(n)' = MessageEvents(n)
      BY <2>1
    <2> QED BY <2>2, <2>4, <2>5
  <1>6. GatewayCallInv' /\ (calls \in [Callers -> GatewayCalls])'
    BY <1>2, CallsStaySound
  <1>7. GatewayType'
    <2>1. row \in AuditRows
      BY <1>1 DEF AuditRows
    <2> QED BY <1>1, <1>2, <1>6, <2>1 DEF GatewayInv, GatewayType
  <1>8. ConnectorInv'
    BY <1>2 DEF GatewayInv, ConnectorInv
  <1>9. CustodyInv'
    <2>1. \A a, b \in messages' : a # b /\ SameChannel(a, b) => a.key # b.key /\ a.id # b.id
      BY <1>2 DEF GatewayInv, CustodyInv, SameChannel
    <2>2. \A n \in messages' : profile'[n.connector] # None
                               /\ n \in Accepts[profile'[n.connector]]
      BY <1>1, <1>2 DEF GatewayInv, CustodyInv
    <2>3. \A n \in Messages \ messages' : MessageEvents(n)' = {}
      BY <1>2, <1>5 DEF GatewayInv, CustodyInv
    <2>4. ASSUME NEW n \in messages' PROVE \E i \in DOMAIN audit' : MessageEvents(n)' = {i}
      <3>1. CASE n = m
        BY <3>1, <1>4, <1>5
      <3>2. CASE n # m
        <4>1. n \in messages /\ n \in Messages
          BY <1>2, <2>4, <3>2 DEF GatewayInv, GatewayType
        <4>2. PICK i \in DOMAIN audit : MessageEvents(n) = {i}
          BY <4>1 DEF GatewayInv, CustodyInv
        <4> QED BY <3>2, <4>1, <4>2, <1>4, <1>5
      <3> QED BY <3>1, <3>2
    <2> QED BY <2>1, <2>2, <2>3, <2>4 DEF CustodyInv
  <1>10. AuditInv'
    <2>1. \A k, i : i \in StatusEvents(k) => i \in DOMAIN audit
      BY DEF StatusEvents
    <2>2. ASSUME NEW k \in Connectors, profile'[k] # None PROVE LastIsTheRow(k)'
      <3>1. LastIsTheRow(k)
        BY <1>2, <2>2 DEF GatewayInv, AuditInv
      <3> QED BY <3>1, <1>2, <1>4, <1>5, <2>1 DEF LastIsTheRow
    <2>3. ASSUME NEW n \in messages' PROVE EnabledBefore(n)'
      <3>1. CASE n = m
        <4>1. PICK j \in StatusEvents(m.connector) : ReviewedEnabling(j)
          BY <1>1 DEF WasEnabled
        <4>2. j \in DOMAIN audit /\ j \in StatusEvents(m.connector)'
          BY <4>1, <1>5, <2>1
        <4>3. j < last /\ audit'[j] = audit[j]
          BY <4>2, <1>4
        <4> QED BY <3>1, <4>1, <4>2, <4>3, <1>5 DEF EnabledBefore, ReviewedEnabling
      <3>2. CASE n # m
        <4>1. n \in messages /\ n \in Messages
          BY <1>2, <2>3, <3>2 DEF GatewayInv, GatewayType
        <4>2. EnabledBefore(n)
          BY <4>1 DEF GatewayInv, AuditInv
        <4> QED BY <3>2, <4>1, <4>2, <1>4, <1>5, <2>1 DEF EnabledBefore, ReviewedEnabling
      <3> QED BY <3>1, <3>2
    <2> QED BY <2>2, <2>3 DEF AuditInv
  <1> QED BY <1>6, <1>7, <1>8, <1>9, <1>10 DEF GatewayInv

-----------------------------------------------------------------------------
(* AgentGateway: the theorems. *)

LEMMA GatewayInitiallySound == GatewayInit => GatewayInv
  <1> SUFFICES ASSUME GatewayInit PROVE GatewayInv
    OBVIOUS
  <1>1. GatewayType
    BY IdleIsSound DEF GatewayInit, GatewayType
  <1>2. ConnectorInv
    BY GatewayAssumption DEF GatewayInit, ConnectorInv, ConnectorStatuses
  <1>3. GatewayCallInv
    BY DEF GatewayInit, GatewayCallInv, SoundCall, Idle
  <1>4. CustodyInv
    <2>1. messages = {} /\ DOMAIN audit = {}
      BY DEF GatewayInit
    <2> QED BY <2>1 DEF CustodyInv, MessageEvents
  <1>5. AuditInv
    BY DEF GatewayInit, AuditInv
  <1> QED BY <1>1, <1>2, <1>3, <1>4, <1>5 DEF GatewayInv

LEMMA GatewayStep == GatewayInv /\ [GatewayNext]_gatewayVars => GatewayInv'
  <1> SUFFICES ASSUME GatewayInv, [GatewayNext]_gatewayVars PROVE GatewayInv'
    OBVIOUS
  <1>1. CASE UNCHANGED gatewayVars
    <2>1. UNCHANGED custodyTables /\ UNCHANGED calls
      BY <1>1 DEF gatewayVars
    <2>2. GatewayType'
      BY <2>1 DEF GatewayInv, GatewayType, custodyTables
    <2>3. GatewayCallInv'
      <3>1. \A k : StatusEvents(k)' = StatusEvents(k)
        BY <2>1 DEF StatusEvents, custodyTables
      <3> QED BY <2>1, <3>1 DEF GatewayInv, GatewayCallInv, SoundCall, WasEnabled,
                                ReviewedEnabling, custodyTables
    <2> QED BY <2>1, <2>2, <2>3, TablesKept DEF GatewayInv
  <1>2. CASE \E k \in Connectors, p \in Profiles : RegisterConnector(k, p)
    BY <1>2, RegisterConnectorKeeps
  <1>3. ASSUME NEW c \in Callers, CallNext(c) PROVE GatewayInv'
    BY <1>3, SetConnectorStatusKeeps, NormalizeKeeps, StatusWritesKeeps,
       RecordEnvelopeKeeps, AbandonKeeps DEF CallNext
  <1> QED BY <1>1, <1>2, <1>3 DEF GatewayNext

\* The invariant holds: the tables and calls have their types, a connector that is
\* enabled has a review, and a call past its check was rightly let in.  (_normalize,
\* set_connector_status)
THEOREM GatewayInvariant == GatewaySpec => []GatewayInv
  BY GatewayInitiallySound, GatewayStep, PTL DEF GatewaySpec

\* One custody for each key and each identity, recorded by one event of the audit,
\* although two callers may have found the key free.  (record_envelope)
THEOREM OneCustody == GatewaySpec => []CustodyIsUnique
  BY GatewayInvariant, GatewayInvImplies, PTL

\* The audit explains the rows and every custody.  (set_connector_status,
\* record_envelope)
THEOREM ExplainedCustody == GatewaySpec => []AuditExplainsCustody
  BY GatewayInvariant, GatewayInvImplies, PTL

\* Every enabling has a reference of its own, given with it.  (set_connector_status)
THEOREM ReviewedEnablings == GatewaySpec => EnablingIsReviewed
  <1> DEFINE A == \A k \in Connectors :
        status'[k] = "ENABLED" /\ status'[k] # status[k] =>
            /\ profile[k] \in Secured
            /\ \E c \in Callers : /\ At(c, "STATUS") /\ calls[c].about = k
                                  /\ calls[c].given \in Reviews /\ review'[k] = calls[c].given
  <1>1. GatewayInv /\ [GatewayNext]_gatewayVars => [A]_gatewayVars
    <2> SUFFICES ASSUME GatewayInv, [GatewayNext]_gatewayVars, NEW k \in Connectors,
                        status'[k] = "ENABLED", status'[k] # status[k]
                 PROVE  /\ profile[k] \in Secured
                        /\ \E c \in Callers :
                            /\ At(c, "STATUS") /\ calls[c].about = k
                            /\ calls[c].given \in Reviews /\ review'[k] = calls[c].given
      OBVIOUS
    <2>1. PICK c \in Callers : StatusWrites(c)
      <3>1. CASE \E x \in Connectors, p \in Profiles : RegisterConnector(x, p)
        BY <3>1 DEF RegisterConnector, GatewayInv, GatewayType
      <3>2. ASSUME NEW c \in Callers, CallNext(c), ~StatusWrites(c) PROVE UNCHANGED status
        BY <3>2 DEF CallNext, SetConnectorStatus, Normalize, RecordEnvelope, Abandon,
                    custodyTables
      <3>3. CASE UNCHANGED gatewayVars
        BY <3>3 DEF gatewayVars, custodyTables
      <3> QED BY <3>1, <3>2, <3>3 DEF GatewayNext
    <2>2. /\ At(c, "STATUS") /\ calls[c].about \in Connectors
          /\ calls[c].given \in Reviews \cup {None}
          /\ calls[c].to = "ENABLED" =>
                calls[c].given # None /\ profile[calls[c].about] \in Secured
      BY <2>1 DEF StatusWrites, At, GatewayInv, GatewayType, GatewayCalls, GatewayCallInv,
                  SoundCall, Idle
    <2>3. k = calls[c].about /\ calls[c].to = "ENABLED"
      BY <2>1, <2>2 DEF StatusWrites, GatewayInv, GatewayType
    <2>4. review'[k] = calls[c].given
      BY <2>1, <2>2, <2>3 DEF StatusWrites, ReviewKept, GatewayInv, GatewayType
    <2> QED BY <2>2, <2>3, <2>4
  <1> QED BY <1>1, GatewayInvariant, PTL DEF GatewaySpec, EnablingIsReviewed

\* While a connector is not enabled nobody new gets to record its messages, and without
\* such a caller its custody does not grow.  (_normalize, record_envelope)
THEOREM SuspensionCloses == GatewaySpec => SuspensionHolds
  <1> DEFINE A == \A k \in Connectors : status[k] # "ENABLED" =>
        /\ \A c \in Callers : Recording(c, k)' => Recording(c, k)
        /\ (\A c \in Callers : ~Recording(c, k)) =>
                {m \in messages' : m.connector = k} = {m \in messages : m.connector = k}
  <1>1. GatewayInv /\ [GatewayNext]_gatewayVars => [A]_gatewayVars
    <2> SUFFICES ASSUME GatewayInv, [GatewayNext]_gatewayVars, NEW k \in Connectors,
                        status[k] # "ENABLED"
                 PROVE  /\ \A c \in Callers : Recording(c, k)' => Recording(c, k)
                        /\ (\A c \in Callers : ~Recording(c, k)) =>
                            {m \in messages' : m.connector = k}
                                = {m \in messages : m.connector = k}
      OBVIOUS
    <2>1. ASSUME NEW c \in Callers, Recording(c, k)', ~Recording(c, k) PROVE FALSE
      <3>1. calls'[c] # calls[c] /\ calls'[c].op = "RECORD"
        BY <2>1 DEF Recording, At
      <3>2. PICK b \in Callers : CallNext(b)
        BY <3>1 DEF GatewayNext, RegisterConnector, gatewayVars
      <3>3. ASSUME NEW to \in ConnectorStatuses, NEW r, NEW x, SetConnectorStatus(b, x, to, r)
            PROVE  FALSE
        BY <3>1, <3>3 DEF SetConnectorStatus, Starts, Continues, StatusCall,
                          GatewayInv, GatewayType
      <3>4. ASSUME Ends(b) PROVE FALSE
        BY <3>1, <3>4 DEF Ends, Continues, Idle, GatewayInv, GatewayType
      <3>5. ASSUME NEW m \in Messages, Normalize(b, m) PROVE FALSE
        <4>1. c = b /\ calls'[c] = RecordCall(m)
          BY <3>1, <3>5 DEF Normalize, Starts, Continues, GatewayInv, GatewayType
        <4>2. m.connector = k
          BY <2>1, <4>1 DEF Recording, RecordCall
        <4> QED BY <3>5, <4>2 DEF Normalize, IsEnabled
      <3> QED BY <3>2, <3>3, <3>4, <3>5
             DEF CallNext, StatusWrites, RecordEnvelope, Abandon
    <2>2. ASSUME \A c \in Callers : ~Recording(c, k)
          PROVE  {m \in messages' : m.connector = k} = {m \in messages : m.connector = k}
      <3>1. CASE UNCHANGED messages
        BY <3>1
      <3>2. ASSUME NEW c \in Callers, RecordEnvelope(c)
            PROVE  {m \in messages' : m.connector = k} = {m \in messages : m.connector = k}
        BY <2>2, <3>2 DEF RecordEnvelope, Recording
      <3> QED BY <3>1, <3>2
             DEF GatewayNext, RegisterConnector, CallNext, SetConnectorStatus, StatusWrites,
                 Normalize, Abandon, gatewayVars, custodyTables
    <2> QED BY <2>1, <2>2
  <1> QED BY <1>1, GatewayInvariant, PTL DEF GatewaySpec, SuspensionHolds
=============================================================================
