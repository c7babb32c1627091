------------------------------ MODULE MCFederation ------------------------------
(* A global scope and a rival for it, a region, and two facilities that may have a
   world each; requests within a boundary, across one, over a threshold, and for
   an authority above or below the source. *)
EXTENDS Federation, TLC

CONSTANTS global, rival, region, north, south, plant, depot

Ranks == [s \in Scopes |->
    IF s \in {global, rival} THEN 0 ELSE IF s = region THEN 2 ELSE 3]
Bindings == [s \in Scopes |->
    IF s = north THEN plant ELSE IF s = south /\ depot \in Worlds THEN depot ELSE None]

Asks(source, consequences, authority, over) ==
    [source |-> source, consequences |-> consequences, authority |-> authority,
     over |-> over]

FewRequests == {q \in
    {Asks(north, {}, None, FALSE), Asks(north, {}, None, TRUE),
     Asks(north, {south}, None, FALSE), Asks(north, {}, global, FALSE),
     Asks(region, {}, south, FALSE), Asks(region, {}, None, TRUE)} :
    Named(q) \subseteq Scopes}

Symmetry == Permutations(Decisions) \cup Permutations(EscalationIds)
                \cup Permutations(Callers)
=============================================================================
