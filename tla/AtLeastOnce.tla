------------------------------ MODULE AtLeastOnce ------------------------------
(***************************************************************************)
(* What the outbox promises for each message, free of leases, workers and  *)
(* crashes: a message that was submitted is handled any number of times,   *)
(* even late, and settled once and for good; it is settled as delivered    *)
(* only after it was handled.  WorldOutbox implements it.                  *)
(***************************************************************************)
EXTENDS Naturals

CONSTANT Messages

VARIABLES fate, effects

Init ==
    /\ fate = [m \in Messages |-> "NONE"]
    /\ effects = [m \in Messages |-> 0]

Submit(m) ==
    /\ fate[m] = "NONE"
    /\ fate' = [fate EXCEPT ![m] = "WAITING"]
    /\ UNCHANGED effects

Handle(m) ==
    /\ fate[m] # "NONE"
    /\ effects' = [effects EXCEPT ![m] = @ + 1]
    /\ UNCHANGED fate

Settle(m) ==
    /\ fate[m] = "WAITING"
    /\ \/ effects[m] > 0 /\ fate' = [fate EXCEPT ![m] = "DELIVERED"]
       \/ fate' = [fate EXCEPT ![m] = "DEAD"]
    /\ UNCHANGED effects

Next == \E m \in Messages : Submit(m) \/ Handle(m) \/ Settle(m)

Spec == Init /\ [][Next]_<<fate, effects>>
=============================================================================
