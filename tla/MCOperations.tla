----------------------------- MODULE MCOperations -----------------------------
(* Two steps in sequence, the first of which needs the only unit of each pool. *)
EXTENDS Operations, TLC

CONSTANTS first, second

ThenSecond == first :> {} @@ second :> {first}
FirstNeedsOne == first :> [r \in Pools |-> 1] @@ second :> [r \in Pools |-> 0]
AnyAgent == [s \in Steps |-> Agents]
OneAtATime == [a \in Agents |-> 1]
One == [r \in Pools |-> 1]

Symmetry == Permutations(Outcomes) \cup Permutations(Plans) \cup Permutations(Goals)
=============================================================================
