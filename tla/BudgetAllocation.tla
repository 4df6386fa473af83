-------------------------- MODULE BudgetAllocation --------------------------
(***************************************************************************)
(* The three budget allocations a ToR emulation knows (indirect_routing in *)
(* config.h, BUDGET_ALLOCATION_* in main.h): how many packets of each      *)
(* queue one rotor port may send in a slot whose matching connects the     *)
(* rotor to the rack qid.  Pure operators, used by BudgetHandover, which   *)
(* gives them the queue lengths the sync thread reads.                     *)
(*                                                                         *)
(* The code computes the shares in double and truncates: x * 0.8, x * 0.1  *)
(* and x * 0.2 are at least the exact product, because those constants are *)
(* rounded up in binary, so truncating them is the integer division below. *)
(***************************************************************************)
EXTENDS Integers, Functions

CONSTANTS
    NbDstRacks,      \* nb_dst_racks: number of racks, one VOQ for each
    BudgetPerSlot    \* budget_per_slot: packets one rotor may send per slot

ASSUME RacksAssumption  == NbDstRacks \in Nat \ {0}
ASSUME BudgetAssumption == BudgetPerSlot \in Nat

Racks == 0 .. NbDstRacks - 1

NoBudget == [d \in Racks |-> 0]

(* Fault: each of the other queues is given the whole tenth. *)
FixedLocalUndivided(qid) ==
    [d \in Racks |-> IF d = qid THEN (8 * BudgetPerSlot) \div 10 ELSE BudgetPerSlot \div 10]

(* Fault: every second-hop queue is given the tenth. *)
FixedNonlocalForAll(qid) == [d \in Racks |-> BudgetPerSlot \div 10]

(***************************************************************************)
(* assign_fixed_budget: 80% direct, 10% second hop, 10% over the others.   *)
(***************************************************************************)
FixedLocal(qid) ==
    [d \in Racks |-> IF d = qid
                     THEN (8 * BudgetPerSlot) \div 10
                     ELSE BudgetPerSlot \div (10 * (NbDstRacks - 1))]

FixedNonlocal(qid) ==
    [d \in Racks |-> IF d = qid THEN BudgetPerSlot \div 10 ELSE 0]

(***************************************************************************)
(* assign_remaining_budget_longest_queue: a queue gets its length, cut to  *)
(* what is left of the slot.                                               *)
(***************************************************************************)
Share(count, remaining) == IF count < remaining THEN count ELSE remaining

(***************************************************************************)
(* A fifth of what is left goes to the longest local queue.  The search    *)
(* starts from queue 0 whatever qid is, skips qid from index 1 on, and     *)
(* moves only to a strictly longer queue, so the lowest index wins a tie.  *)
(***************************************************************************)
IndirectShare(remaining) == remaining \div 5

IsLongestQueue(longest, count, qid) ==
    LET candidates == {0} \cup (Racks \ {qid})
    IN  /\ longest \in candidates
        /\ \A d \in candidates : \/ count[d] < count[longest]
                                 \/ count[d] = count[longest] /\ longest <= d

(* What a budget lets one rotor send over all queues. *)
Total(budget) == FoldFunction(+, 0, budget)

=============================================================================
