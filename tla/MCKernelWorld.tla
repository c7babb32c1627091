---------------------------- MODULE MCKernelWorld ----------------------------
(* Small instances of KernelWorld for TLC. *)
EXTENDS KernelWorld, TLC

\* For many callers and tokens: one body.
OneBody == {[op |-> "REPLACE_ROOT", value |-> 1]}

\* For longer histories: states that differ, and mutations that may not apply.
ManyBodies == OneBody \cup {[op |-> "INCREMENT", value |-> 1], [op |-> "DELETE", value |-> 0]}

Symmetry == Permutations(Clients) \cup Permutations(Tokens)
=============================================================================
