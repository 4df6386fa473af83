---------------------------- MODULE BudgetMailbox ----------------------------
(***************************************************************************)
(* What lock_budget ("semaphore for budgets", config.h:199) promises: every*)
(* ToR has a box with room for one allocation of a slot.  The sync thread  *)
(* posts an allocation into an empty box, tx2 takes it out as a whole, and *)
(* spends from what it holds and from nothing else.  So no allocation is   *)
(* lost, none is taken twice, and none is taken in part.                   *)
(***************************************************************************)
EXTENDS Integers

CONSTANTS Tors, Rotors, Racks

VARIABLES box,    \* the allocation posted for a ToR and not taken yet, if any
          held    \* what the tx2 of a ToR may still send

Budgets     == [Rotors -> [Racks -> Nat]]
Allocations == [local : Budgets, nonlocal : Budgets]

Init == box = [t \in Tors |-> {}] /\ held \in [Tors -> Allocations]

Post(t) ==
    /\ box[t] = {}
    /\ \E a \in box'[t] : a \in Allocations /\ box' = [box EXCEPT ![t] = {a}]
    /\ UNCHANGED held

Take(t) ==
    \E a \in box[t] :
        /\ held' = [held EXCEPT ![t] = a]
        /\ box' = [box EXCEPT ![t] = {}]

SpendLocal(t) ==
    /\ \E r \in Rotors, d \in Racks : \E n \in 0 .. held[t].local[r][d] :
          held' = [held EXCEPT ![t].local[r][d] = @ - n]
    /\ UNCHANGED box

SpendNonlocal(t) ==
    /\ \E r \in Rotors, d \in Racks : \E n \in 0 .. held[t].nonlocal[r][d] :
          held' = [held EXCEPT ![t].nonlocal[r][d] = @ - n]
    /\ UNCHANGED box

Next == \E t \in Tors : Post(t) \/ Take(t) \/ SpendLocal(t) \/ SpendNonlocal(t)

Spec == Init /\ [][Next]_<<box, held>>

=============================================================================
