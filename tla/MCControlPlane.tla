----------------------------- MODULE MCControlPlane -----------------------------
(* Two clients propose, review and execute while observations arrive, one of which *)
(* has the identity of another's projected event.                                  *)
EXTENDS ControlPlane, TLC

CONSTANTS e1, e2

\* e2 is e1's.
Taken == [e \in Events |-> IF e = e1 THEN e2 ELSE None]
Distinct == [e \in Events |-> None]

Symmetry ==
    Permutations(Clients) \cup Permutations(Scopes) \cup Permutations(Commands)
=============================================================================
