------------------------------- MODULE Federation -------------------------------
(***************************************************************************)
(* The tree of scopes of one tenant, the projections that go up in it and  *)
(* the decisions that are routed in it: InstitutionalFederationStore of    *)
(* src/src/edon/federation/store.py.  Rows are immutable, so a handler     *)
(* that read rows and then inserts one is a single step, unless it read    *)
(* that there is no row (the root of a tenant) or uses several             *)
(* transactions (a route, its escalation, the first event of that).        *)
(*                                                                         *)
(* Data.  A scope id comes with its type and world, and is registered      *)
(* under any parent.  Scores are reduced to whether one of them reaches    *)
(* its threshold, a summary to how often the figures of each world went    *)
(* into it.  A severity that does not exist and an escalation id that is   *)
(* taken end a call after its route was stored, as a crash does: Stop.     *)
(***************************************************************************)
EXTENDS Naturals, Sequences, FiniteSets, ServerCalls

CONSTANTS
    Scopes, Rank,        \* SCOPE_RANK of the type of a scope; 0 is GLOBAL
    Worlds, WorldOf,     \* the world that a scope is bound to, or None
    Decisions,
    EscalationIds,       \* given by callers
    Requests,            \* what may be asked to be routed
    MaxEvents,           \* bounds the events of an escalation
    MaxProjections,      \* bounds the projections
    Root                 \* in the place of a parent

EventTypes == {"OPENED", "ACKNOWLEDGED", "RESOLVED", "REJECTED"}
Dispositions == {"HANDLE_LOCAL", "HANDLE_AT_ROOT", "ESCALATE"}

\* None is no scope, no world and no row.
ASSUME FederationAssumption ==
    /\ Rank \in [Scopes -> 0 .. 4]
    /\ WorldOf \in [Scopes -> Worlds \cup {None}] /\ None \notin Worlds
    /\ {Root, None} \cap Scopes = {} /\ Root # None
    /\ Requests \subseteq [source : Scopes, consequences : SUBSET Scopes,
                           authority : Scopes \cup {None}, over : BOOLEAN]
    /\ None \notin [request : Requests, target : Scopes, disposition : Dispositions]
    /\ None \notin [decision : Decisions, source : Scopes, target : Scopes]

VARIABLES
    parent,       \* of each scope; Root: it has none, None: it is not registered
    projections,  \* from a source to a target, and what they count
    routes,       \* the route of a decision, or None
    escalations,  \* by id, or None
    events        \* of each escalation, in order

tables == <<parent, projections, routes, escalations, events>>
vars == <<tables, calls>>

Registered == {s \in Scopes : parent[s] # None}

Call(op, about, id) == [op |-> op, about |-> about, id |-> id]

-----------------------------------------------------------------------------
(* The tree. *)

\* One more step on the paths: the parents of what is on them.
Up(A) == A \cup ({parent[t] : t \in A} \ {Root})

\* Ranks fall on the way up, so that four steps lead to a root.
AncestorIds(s) == Up(Up(Up(Up({s}))))

CommonAncestors(S) ==
    LET paths == {AncestorIds(s) : s \in S} IN {t \in Registered : \A P \in paths : t \in P}

LeastCommonAncestor(S) ==
    LET common == CommonAncestors(S) IN
    CHOOSE t \in common : \A u \in common : Rank[u] <= Rank[t]

\* UNIQUE (tenant_id, world_id)
Unbound(s) ==
    WorldOf[s] = None \/ \A t \in Registered : WorldOf[t] # WorldOf[s]

RegisterScope(s, p) ==
    /\ parent[s] = None /\ Unbound(s)
    /\ p \in Registered /\ Rank[s] > Rank[p]
    /\ parent' = [parent EXCEPT ![s] = p]
    /\ UNCHANGED <<projections, routes, escalations, events, calls>>

\* register_scope without a parent: no root is found, then the scope is inserted.
RegisterRoot(c, s) ==
    /\ Rank[s] = 0
    /\ \A t \in Scopes : parent[t] # Root
    /\ Starts(c, Call("ROOT", s, None))
    /\ UNCHANGED tables

RootWrites(c) == LET s == calls[c].about IN
    /\ At(c, "ROOT")
    /\ parent[s] = None /\ Unbound(s)
    /\ parent' = [parent EXCEPT ![s] = Root]
    /\ Ends(c)
    /\ UNCHANGED <<projections, routes, escalations, events>>

-----------------------------------------------------------------------------
(* Projections. *)

Projection(source, target, counts) ==
    [source |-> source, target |-> target, counts |-> counts]

InsertProjection(row) ==
    /\ Cardinality(projections) < MaxProjections
    /\ projections' = projections \cup {row}
    /\ UNCHANGED <<parent, routes, escalations, events, calls>>

\* Mutant: a projection may be sent to any scope.
MaySendAnywhere(s, target) == target \in Registered

MaySend(s, target) == target \in AncestorIds(s)

ProjectWorld(s, target) ==
    /\ s \in Registered /\ WorldOf[s] # None /\ MaySend(s, target)
    /\ InsertProjection(Projection(s, target,
            [w \in Worlds |-> IF w = WorldOf[s] THEN 1 ELSE 0]))

\* Of each source a row that is there: the latest, but another may have come since.
PickRows(target, sources) ==
    {rows \in SUBSET {p \in projections : p.target = target /\ p.source \in sources} :
        /\ {p.source : p \in rows} = sources
        /\ Cardinality(rows) = Cardinality(sources)}

\* How often the figures of a world are in a sum: never, once or more often.
Total(rows, w) == LET counted == {p \in rows : p.counts[w] > 0} IN
    IF counted = {} THEN 0
    ELSE IF \E p \in counted : counted = {p} /\ p.counts[w] = 1 THEN 1 ELSE 2

AggregateScope(s, sources, target) ==
    /\ s \in Registered /\ MaySend(s, target)
    /\ sources # {} /\ \A t \in sources : s \in AncestorIds(t)
    /\ \E rows \in PickRows(s, sources) :
            InsertProjection(Projection(s, target, [w \in Worlds |-> Total(rows, w)]))

-----------------------------------------------------------------------------
(* Routes and escalations. *)

\* A request to route: the scopes, and whether a score reaches its threshold.
Affected(q) == {q.source} \cup q.consequences

\* Mutant: the authority that is required does not count.
TargetOfAffected(q) == LeastCommonAncestor(Affected(q))

Named(q) == Affected(q) \cup ({q.authority} \ {None})

\* The least common ancestor of what is affected, and of that and the authority.
TargetOf(q) ==
    LET local == LeastCommonAncestor(Affected(q)) IN
    IF q.authority = None THEN local ELSE LeastCommonAncestor({local, q.authority})

HasReason(q) ==
    \/ LeastCommonAncestor(Affected(q)) # q.source
    \/ q.over
    \/ q.authority \notin {None, q.source}

\* One up if there is a reason and the decision would stay where it is.
MovedUp(q) ==
    IF HasReason(q) /\ TargetOf(q) = q.source /\ parent[q.source] # Root
        THEN parent[q.source] ELSE TargetOf(q)

Disposition(q) ==
    IF MovedUp(q) # q.source THEN "ESCALATE"
    ELSE IF HasReason(q) THEN "HANDLE_AT_ROOT" ELSE "HANDLE_LOCAL"

\* PRIMARY KEY (tenant_id, decision_id)
NewDecisions == {d \in Decisions : routes[d] = None}

\* An escalation goes on with two transactions, under an id the caller may give.
RouteDecision(c, d, q, e) ==
    /\ calls[c] = Idle
    /\ Named(q) \subseteq Registered /\ CommonAncestors(Named(q)) # {}
    /\ routes' = [routes EXCEPT ![d] =
            [request |-> q, target |-> MovedUp(q), disposition |-> Disposition(q)]]
    /\ IF Disposition(q) = "ESCALATE"
           THEN Starts(c, Call("ESCALATE", d, e)) ELSE UNCHANGED calls
    /\ UNCHANGED <<parent, projections, escalations, events>>

\* Mutant: an id that is taken is written over.
AnyId(e) == e \in EscalationIds

\* PRIMARY KEY (tenant_id, escalation_id)
FreeId(e) == escalations[e] = None

OpenEscalation(c) == LET d == calls[c].about e == calls[c].id IN
    /\ At(c, "ESCALATE")
    /\ FreeId(e)
    /\ escalations' = [escalations EXCEPT ![e] =
            [decision |-> d, source |-> routes[d].request.source,
             target |-> routes[d].target]]
    /\ Continues(c, Call("OPENED", d, e))
    /\ UNCHANGED <<parent, projections, routes, events>>

AppendsEvent(e, type) == events' = [events EXCEPT ![e] = Append(@, type)]

RecordOpened(c) ==
    /\ At(c, "OPENED")
    /\ AppendsEvent(calls[c].id, "OPENED")
    /\ Ends(c)
    /\ UNCHANGED <<parent, projections, routes, escalations>>

\* The endpoint takes any type at any time.
RecordEscalationEvent(e, type) ==
    /\ escalations[e] # None /\ Len(events[e]) < MaxEvents
    /\ AppendsEvent(e, type)
    /\ UNCHANGED <<parent, projections, routes, escalations, calls>>

\* A refusal after the first read or transaction, or the end of the process.
Stop(c) == calls[c] # Idle /\ Ends(c) /\ UNCHANGED tables

-----------------------------------------------------------------------------

Init ==
    /\ parent = [s \in Scopes |-> None] /\ projections = {}
    /\ routes = [d \in Decisions |-> None]
    /\ escalations = [e \in EscalationIds |-> None]
    /\ events = [e \in EscalationIds |-> <<>>]
    /\ calls = [c \in Callers |-> Idle]

TreeNext(c) ==
    \/ \E s \in Scopes : RegisterRoot(c, s) \/ \E p \in Scopes : RegisterScope(s, p)
    \/ RootWrites(c)

ProjectionNext == \E s, target \in Scopes :
    \/ ProjectWorld(s, target)
    \/ \E sources \in SUBSET Registered : AggregateScope(s, sources, target)

RouteNext(c) ==
    \/ \E d \in NewDecisions, q \in Requests, e \in EscalationIds :
            RouteDecision(c, d, q, e)
    \/ OpenEscalation(c) \/ RecordOpened(c)
    \/ \E e \in EscalationIds, type \in EventTypes : RecordEscalationEvent(e, type)

Next ==
    \/ \E c \in Callers : TreeNext(c) \/ RouteNext(c) \/ Stop(c)
    \/ ProjectionNext

Spec == Init /\ [][Next]_vars

-----------------------------------------------------------------------------
(* Properties. *)

RoutedDecisions == {d \in Decisions : routes[d] # None}

\* With a scope its parent.
ClosedUpward(A) == \A u \in A : parent[u] \in Scopes => parent[u] \in A

\* s is t or above it, by the rows alone.
Below(s, t) == \A A \in SUBSET Scopes : t \in A /\ ClosedUpward(A) => s \in A

\* Every decision goes to the lowest scope that stands over all it affects and over
\* the authority it needs, and only a decision that has a reason and would stay where
\* it came from goes one up from there; one that stays was within its boundary, or is
\* at a root.  The router finds this scope with two least common ancestors and a move.
\* (route_decision)
RoutedToTheLowest == \A d \in RoutedDecisions :
    LET q == routes[d].request
        t == routes[d].target
        covers(u) == \A s \in Named(q) : Below(u, s)
    IN  /\ covers(t)
        /\ t = q.source =>
                parent[t] = Root \/ (~q.over /\ q.authority \in {None, q.source})
        /\ \A u \in Scopes \ {t} : Below(t, u) /\ covers(u) =>
                /\ u = q.source /\ parent[u] = t
                /\ q.over \/ q.authority # None
        /\ routes[d].disposition = "ESCALATE" <=> t # q.source

Escalations == {e \in EscalationIds : escalations[e] # None}

\* An escalation is the one of its decision and goes where the decision was routed.  A
\* call on its way to write one is the only one for its decision, and the first event
\* that it then writes is for its own escalation.  (route_decision, open_escalation:
\* three transactions)
EscalationsFollowRoutes ==
    /\ \A e \in Escalations : LET r == escalations[e] IN
        /\ routes[r.decision] # None /\ routes[r.decision].disposition = "ESCALATE"
        /\ r.source = routes[r.decision].request.source
        /\ r.target = routes[r.decision].target
        /\ \A f \in Escalations : escalations[f].decision = r.decision => f = e
        /\ \A c \in Callers : At(c, "ESCALATE") => calls[c].about # r.decision
    /\ \A c \in Callers : At(c, "OPENED") =>
            calls[c].id \in Escalations /\ escalations[calls[c].id].decision = calls[c].about
    /\ \A e \in EscalationIds : events[e] # <<>> => e \in Escalations

\* What is projected to a scope counts worlds at or below its source only, and went
\* up: figures do not travel sideways, however often they were aggregated.
\* (project_world, aggregate_scope)
FiguresGoUp == \A p \in projections :
    /\ Below(p.target, p.source)
    /\ \A w \in Worlds : p.counts[w] > 0 =>
            \E s \in Registered : WorldOf[s] = w /\ Below(p.source, s)

\* What a row says of the tree stays true: a scope that is registered keeps the scopes
\* above it, and no others come there.  (register_scope, _ancestor_ids)
PlacesAreKept ==
    [][\A s \in Registered, t \in Scopes : Below(t, s)' <=> Below(t, s)]_vars

\* "A tenant has one root." (docs/architecture/hierarchical-federation.md:18)
OneRoot == \A s, t \in Scopes : parent[s] = Root /\ parent[t] = Root => s = t

\* A decision that moves upward has the record of its escalation, or will have it.
EscalatedIsOpened == \A d \in RoutedDecisions :
    routes[d].disposition = "ESCALATE" =>
        \/ \E e \in Escalations : escalations[e].decision = d
        \/ \E c \in Callers : At(c, "ESCALATE") /\ calls[c].about = d

\* Parents aggregate the projections of their children, so that the figures of a world
\* are in a summary once.
EachWorldOnce == \A p \in projections, w \in Worlds : p.counts[w] <= 1
=============================================================================
