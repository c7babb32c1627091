---------------------------- MODULE MCWorldOutbox ----------------------------
(* Small instances of WorldOutbox for TLC. *)
EXTENDS WorldOutbox

\* Two messages of which the second may be older than the first.
TwoMessages == 1 .. 2
=============================================================================
