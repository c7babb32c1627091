---------------------------- MODULE ResourceLedger ----------------------------
(***************************************************************************)
(* What docs/architecture/operations-loop.md promises of the resource      *)
(* pools: "renewable and non-renewable resource pools with all-or-nothing  *)
(* capacity checks".  A task holds all it needs or nothing, what the tasks *)
(* hold of a pool never exceeds its stock, and what a task held goes back  *)
(* to the pool or, where the pool is not renewable, may be used up.        *)
(***************************************************************************)
EXTENDS Integers, FiniteSetsExt

CONSTANTS
    Tasks,
    Pools,
    Renewable,   \* the pools that get back what was used
    Needs        \* what each task needs of each pool

VARIABLES
    stock,       \* what each pool has, 0 before it is supplied
    holding      \* what each task holds of each pool

Nothing == [r \in Pools |-> 0]

Held(r) == MapThenSumSet(LAMBDA t : holding[t][r], Tasks)

Init ==
    /\ stock = Nothing
    /\ holding = [t \in Tasks |-> Nothing]

Supply(r) ==
    /\ stock[r] = 0
    /\ stock'[r] \in Nat
    /\ stock' = [stock EXCEPT ![r] = stock'[r]]
    /\ UNCHANGED holding

Reserve(t) ==
    /\ holding[t] = Nothing
    /\ \A r \in Pools : Held(r) + Needs[t][r] <= stock[r]
    /\ holding' = [holding EXCEPT ![t] = Needs[t]]
    /\ UNCHANGED stock

Return(t) ==
    /\ holding' = [holding EXCEPT ![t] = Nothing]
    /\ UNCHANGED stock

Consume(t) ==
    /\ holding' = [holding EXCEPT ![t] = Nothing]
    /\ stock' = [r \in Pools |->
            IF r \in Renewable THEN stock[r] ELSE stock[r] - holding[t][r]]

Next ==
    \/ \E r \in Pools : Supply(r)
    \/ \E t \in Tasks : Reserve(t) \/ Return(t) \/ Consume(t)

Spec == Init /\ [][Next]_<<stock, holding>>
=============================================================================
