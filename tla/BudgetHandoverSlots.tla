------------------------ MODULE BudgetHandoverSlots ------------------------
(***************************************************************************)
(* No rotor sends more than a slot on the budgets of one copy, for every   *)
(* allocation, every length of the queues and every size, if slots are     *)
(* long: what the sync thread has written of a rotor never adds up to more *)
(* than a slot, and what tx2 sends it takes off its copy.                  *)
(***************************************************************************)
EXTENDS BudgetHandoverProofs, SumTheorems

(* What the shared budgets let a rotor send, complete or not.              *)
SlotShared(t, r) == Total(localBudgets[t][r]) + Total(nonlocalBudgets[t][r])

SharedWithin == \A t \in Tors, r \in Rotors : SlotShared(t, r) <= BudgetPerSlot

(* The rotors that the sync thread has yet to reach hold nothing, ...      *)
Cleared ==
    /\ syncPc = "resetNonlocal" => \A r \in Rotors : localBudgets[syncTor][r] = NoBudget
    /\ syncPc \in {"rotor", "local", "indirect"} =>
          \A r \in Rotors : r > syncRotor \/ (syncPc = "rotor" /\ r = syncRotor) =>
              localBudgets[syncTor][r] = NoBudget /\ nonlocalBudgets[syncTor][r] = NoBudget

(* ... and the one it is at has room for what is left to give away.        *)
RoomLeft ==
    /\ syncPc = "local" => localBudgets[syncTor][syncRotor] = NoBudget
    /\ syncPc \in {"local", "indirect"} =>
          SlotShared(syncTor, syncRotor) + remaining <= BudgetPerSlot

HalfCopied == \A t \in Tors : pc[t] = "copyLocal" => myNonlocal[t] = nonlocalBudgets[t]

SlotInv == SharedWithin /\ Cleared /\ RoomLeft /\ HalfCopied /\ SlotBudget

-----------------------------------------------------------------------------
(***************************************************************************)
(* What the allocations give away.                                         *)
(***************************************************************************)
LEMMA RacksFinite == IsFiniteSet(Racks) /\ Cardinality(Racks) = NbDstRacks
<1>1. 0 \in Int /\ NbDstRacks - 1 \in Int /\ ~(0 > NbDstRacks - 1)
  BY RacksAssumption
<1>2. QED BY <1>1, FS_Interval, RacksAssumption DEF Racks

LEMMA TotalIsSum ==
    ASSUME NEW b \in [Racks -> Nat]
    PROVE  Total(b) = Sum(b, Racks) /\ Total(b) \in Nat
<1>1. Total(b) = Sum(b, DOMAIN b)
  BY SumOfFunction DEF Total
<1>2. QED BY <1>1, RacksFinite, SumIsNat

LEMMA TotalNone == Total(NoBudget) = 0
<1>1. NoBudget \in [Racks -> Nat] /\ \A d \in Racks : NoBudget[d] = 0
  BY DEF NoBudget
<1>2. QED BY <1>1, TotalIsSum, RacksFinite, SumZero

LEMMA TotalChange ==
    ASSUME NEW b \in [Racks -> Nat], NEW d \in Racks, NEW n \in Nat
    PROVE  Total([b EXCEPT ![d] = n]) = Total(b) + (n - b[d])
<1> DEFINE c == [b EXCEPT ![d] = n]
<1>1. c \in [Racks -> Nat] /\ c[d] = n /\ \A e \in Racks : e # d => c[e] = b[e]
  OBVIOUS
<1> HIDE DEF c
<1>2. Total(c) = Sum(c, Racks) /\ Total(b) = Sum(b, Racks)
  BY <1>1, TotalIsSum
<1>3. b \in [Racks -> Int] /\ c \in [Racks -> Int]
  BY <1>1
<1>4. Sum(c, Racks) = Sum(b, Racks) + (c[d] - b[d])
  BY <1>1, <1>3, RacksFinite, SumChange
<1>5. QED BY <1>1, <1>2, <1>4 DEF c

(* Eight tenths, one tenth, and one tenth shared by the others.            *)
LEMMA FixedWithin ==
    ASSUME NEW qid \in Racks
    PROVE  Total(FixedLocal(qid)) + Total(FixedNonlocal(qid)) <= BudgetPerSlot
<1> USE RacksAssumption, BudgetAssumption
<1> DEFINE tenth == BudgetPerSlot \div 10
           most  == (8 * BudgetPerSlot) \div 10
<1>1. tenth \in Nat /\ most \in Nat /\ tenth + most + tenth <= BudgetPerSlot
  OBVIOUS
<1>2. /\ FixedLocal(qid) \in [Racks -> Nat] /\ FixedNonlocal(qid) \in [Racks -> Nat]
      /\ NoBudget \in [Racks -> Nat]
  BY AllocationTypes
<1>3. Total(FixedNonlocal(qid)) = tenth
  <2>1. FixedNonlocal(qid) = [NoBudget EXCEPT ![qid] = tenth]
    BY DEF FixedNonlocal, NoBudget
  <2>2. Total(FixedNonlocal(qid)) = Total(NoBudget) + (tenth - NoBudget[qid])
    BY <1>1, <1>2, <2>1, TotalChange
  <2>3. QED BY <1>1, <2>2, TotalNone DEF NoBudget
<1>4. Total(FixedLocal(qid)) <= most + tenth
  <2>1. CASE NbDstRacks = 1
    <3>1. FixedLocal(qid) = [NoBudget EXCEPT ![qid] = most]
      BY <2>1 DEF FixedLocal, NoBudget, Racks
    <3>2. Total(FixedLocal(qid)) = Total(NoBudget) + (most - NoBudget[qid])
      BY <1>1, <1>2, <3>1, TotalChange
    <3>3. QED BY <1>1, <3>2, TotalNone DEF NoBudget
  <2>2. CASE NbDstRacks # 1
    <3> DEFINE others == 10 * (NbDstRacks - 1)
               rest   == BudgetPerSlot \div others
               even   == [d \in Racks |-> rest]
    <3>1. others \in Nat \ {0}
      BY <2>2
    <3>2. rest \in Nat /\ others * rest <= BudgetPerSlot
      <4> HIDE DEF others
      <4> QED BY <3>1
    <3> HIDE DEF rest
    <3>3. even \in [Racks -> Nat] /\ Total(even) = rest * NbDstRacks
      <4>1. even \in [Racks -> Nat] /\ rest \in Int /\ \A d \in Racks : even[d] = rest
        BY <3>2
      <4>2. Sum(even, Racks) = rest * Cardinality(Racks)
        <5> HIDE DEF even
        <5> QED BY <4>1, RacksFinite, SumConstant
      <4>3. QED BY <4>1, <4>2, TotalIsSum, RacksFinite
    <3>4. FixedLocal(qid) = [even EXCEPT ![qid] = most]
      BY DEF FixedLocal, rest
    <3>5. Total(FixedLocal(qid)) = Total(even) + (most - rest)
      <4>1. even[qid] = rest
        OBVIOUS
      <4> HIDE DEF even, most
      <4> QED BY <1>1, <3>3, <3>4, <4>1, TotalChange
    <3>6. rest * NbDstRacks - rest <= tenth
      <4>1. rest * NbDstRacks - rest = (NbDstRacks - 1) * rest
        BY <3>2
      <4>2. others * rest = 10 * ((NbDstRacks - 1) * rest)
        BY <3>2
      <4> DEFINE x == (NbDstRacks - 1) * rest
      <4>3. x \in Int
        BY <3>2
      <4>4. 10 * x <= BudgetPerSlot
        BY <3>2, <4>2
      <4> HIDE DEF x
      <4>5. x <= tenth
        BY <4>3, <4>4
      <4>6. QED BY <4>1, <4>5 DEF x
    <3>7. rest * NbDstRacks \in Int
      BY <3>2
    <3> HIDE DEF most, tenth
    <3>8. QED BY <1>1, <3>2, <3>3, <3>5, <3>6, <3>7
  <2>3. QED BY <2>1, <2>2
<1>5. Total(FixedLocal(qid)) \in Nat
  BY <1>2, TotalIsSum
<1> HIDE DEF most, tenth
<1>6. QED BY <1>1, <1>3, <1>4, <1>5

-----------------------------------------------------------------------------
(***************************************************************************)
(* SlotInv is inductive.                                                   *)
(***************************************************************************)
LEMMA InitSlotInv == Init => SlotInv
<1> USE BudgetAssumption
<1>1. SUFFICES ASSUME Init PROVE SlotInv
  OBVIOUS
<1>2. SharedWithin
  BY <1>1, TotalNone DEF Init, SharedWithin, SlotShared
<1>3. Cleared /\ RoomLeft /\ HalfCopied /\ SlotBudget
  BY <1>1 DEF Init, Cleared, RoomLeft, HalfCopied, SlotBudget
<1>4. QED BY <1>2, <1>3 DEF SlotInv

(* Frames and packets that arrive, and steps that change nothing.          *)
LEMMA ArrivalSlotInv ==
    ASSUME SlotInv,
           UNCHANGED <<localBudgets, nonlocalBudgets, pc, myLocal, myNonlocal, copied, sent>>,
           UNCHANGED sync \/ syncPc' \in {"poll", "resetLocal"}
    PROVE  SlotInv'
<1>1. (SharedWithin /\ HalfCopied /\ SlotBudget)'
  BY DEF SlotInv, SharedWithin, SlotShared, HalfCopied, SlotBudget
<1>2. CASE UNCHANGED sync
  BY <1>1, <1>2 DEF SlotInv, Cleared, RoomLeft, SlotShared, sync
<1>3. CASE syncPc' \in {"poll", "resetLocal"}
  BY <1>1, <1>3 DEF SlotInv, Cleared, RoomLeft
<1>4. QED BY <1>2, <1>3

(* A step of the sync thread, in terms of the budgets it leaves to the     *)
(* rotor it is at.                                                         *)
LEMMA SyncSlotInv ==
    ASSUME SlotIsLong, TypeInv, HandoverInv, SlotInv, SyncStep
    PROVE  SlotInv'
<1> USE HandoverAssumption, BudgetAssumption DEF Budgets
<1> DEFINE s == syncTor
           r == syncRotor
<1>1. /\ localBudgets \in [Tors -> Budgets] /\ nonlocalBudgets \in [Tors -> Budgets]
      /\ s \in Tors /\ r \in Rotors /\ remaining \in 0 .. BudgetPerSlot
      /\ queues \in [Tors -> [Racks -> 0 .. RingSize]]
      /\ nonlocalQueues \in [Tors -> [Racks -> 0 .. RingSize]]
  BY DEF TypeInv, TypeOK, SharedOK, SyncOK, TrafficOK
<1>2. /\ syncPc # "poll"
      /\ UNCHANGED <<pc, myLocal, myNonlocal, copied, sent>>
  BY SyncEffects DEF tx2
<1>3. SlotBudget'
  BY <1>2 DEF SlotInv, SlotBudget
<1>4. HalfCopied'
  <2>1. pc[s] \notin Copying
    BY <1>1, <1>2, HandoverExclusive DEF BudgetsExclusive, Writing
  <2>2. \A t \in Tors : t # s => nonlocalBudgets'[t] = nonlocalBudgets[t]
    BY <1>1 DEF SyncStep, ResetLocal, ResetNonlocal, AssignDirect, AssignFixed,
                AssignSecondHop, AssignLocal, AssignIndirect, Toggle
  <2>3. QED BY <1>2, <2>1, <2>2 DEF SlotInv, HalfCopied, Copying
<1>5. \A t \in Tors, q \in Rotors :
         /\ Total(localBudgets[t][q]) \in Nat /\ Total(nonlocalBudgets[t][q]) \in Nat
         /\ SlotShared(t, q) <= BudgetPerSlot
  BY <1>1, TotalIsSum DEF SlotInv, SharedWithin
<1>6. Rotors \subseteq Nat
  BY DEF Rotors
(* The budgets of other rotors stay; the rotor at hand is still within a   *)
(* slot, and the next one is still clear.                                  *)
<1>7. ASSUME NEW l \in [Racks -> Nat], NEW n \in [Racks -> Nat],
             localBudgets' = [localBudgets EXCEPT ![s][r] = l],
             nonlocalBudgets' = [nonlocalBudgets EXCEPT ![s][r] = n],
             syncTor' = s,
             syncPc \in {"rotor", "local", "indirect"},
             Total(l) + Total(n) <= BudgetPerSlot,
             \/ NextRotor
             \/ /\ syncPc' = "local" /\ syncRotor' = r
                /\ l = NoBudget /\ Total(n) + remaining' <= BudgetPerSlot
             \/ /\ syncPc' = "indirect" /\ syncRotor' = r
                /\ Total(l) + Total(n) + remaining' <= BudgetPerSlot
      PROVE  SlotInv'
  <2>1. /\ localBudgets'[s][r] = l /\ nonlocalBudgets'[s][r] = n
        /\ \A t \in Tors, q \in Rotors : t # s \/ q # r =>
              localBudgets'[t][q] = localBudgets[t][q] /\ nonlocalBudgets'[t][q] = nonlocalBudgets[t][q]
    BY <1>1, <1>7
  <2>2. SharedWithin'
    <3>1. SUFFICES ASSUME NEW t \in Tors, NEW q \in Rotors
                   PROVE  Total(localBudgets'[t][q]) + Total(nonlocalBudgets'[t][q]) <= BudgetPerSlot
      BY DEF SharedWithin, SlotShared
    <3>2. CASE t = s /\ q = r
      BY <1>7, <2>1, <3>2
    <3>3. CASE t # s \/ q # r
      BY <1>5, <2>1, <3>3 DEF SlotShared
    <3>4. QED BY <3>2, <3>3
  <2>3. \A q \in Rotors : q > r =>
            localBudgets'[s][q] = NoBudget /\ nonlocalBudgets'[s][q] = NoBudget
    BY <1>1, <1>6, <1>7, <2>1 DEF SlotInv, Cleared
  <2>4. CASE NextRotor
    <3>1. CASE syncRotor' = r + 1 /\ syncPc' = "rotor"
      <4>1. \A q \in Rotors : q > syncRotor' \/ q = syncRotor' => q > r
        BY <1>1, <1>6, <3>1
      <4>2. QED BY <1>3, <1>4, <1>7, <2>2, <2>3, <3>1, <4>1 DEF SlotInv, Cleared, RoomLeft
    <3>2. CASE syncPc' = "toggle"
      BY <1>3, <1>4, <2>2, <3>2 DEF SlotInv, Cleared, RoomLeft
    <3>3. QED BY <2>4, <3>1, <3>2 DEF NextRotor
  <2>5. CASE syncPc' \in {"local", "indirect"} /\ syncRotor' = r
    <3>1. Cleared'
      BY <1>7, <2>3, <2>5 DEF Cleared
    <3>2. RoomLeft'
      <4>1. NextRotor => syncPc' \notin {"local", "indirect"}
        BY DEF NextRotor
      <4>2. Total(NoBudget) = 0 /\ Total(n) \in Nat
        BY TotalNone, TotalIsSum
      <4>3. remaining' \in Int
        BY SyncTypeInv DEF TypeInv, TypeOK, SyncOK
      <4>4. QED
        BY <1>7, <2>1, <2>5, <4>1, <4>2, <4>3 DEF RoomLeft, SlotShared
    <3>3. QED BY <1>3, <1>4, <2>2, <3>1, <3>2 DEF SlotInv
  <2>6. QED BY <1>7, <2>4, <2>5
<1>8. CASE ResetLocal
  <2>1. /\ syncPc = "resetLocal" /\ syncPc' = "resetNonlocal"
        /\ localBudgets' = [localBudgets EXCEPT ![s] = [q \in Rotors |-> NoBudget]]
        /\ UNCHANGED <<nonlocalBudgets, syncTor>>
    BY <1>8 DEF ResetLocal
  <2>2. /\ \A q \in Rotors : localBudgets'[s][q] = NoBudget
        /\ \A t \in Tors : t # s => localBudgets'[t] = localBudgets[t]
    BY <1>1, <2>1
  <2>3. SharedWithin'
    <3>1. SUFFICES ASSUME NEW t \in Tors, NEW q \in Rotors
                   PROVE  Total(localBudgets'[t][q]) + Total(nonlocalBudgets[t][q]) <= BudgetPerSlot
      BY <2>1 DEF SharedWithin, SlotShared
    <3>2. QED BY <1>5, <2>2, TotalNone DEF SlotShared
  <2>4. QED BY <1>3, <1>4, <2>1, <2>2, <2>3 DEF SlotInv, Cleared, RoomLeft
<1>9. CASE ResetNonlocal
  <2>1. /\ syncPc = "resetNonlocal"
        /\ syncRotor' = 0 /\ (syncPc' = "rotor" => syncTor' = s)
        /\ syncPc' \in {"rotor", "poll", "resetLocal"}
        /\ nonlocalBudgets' = [nonlocalBudgets EXCEPT ![s] = [q \in Rotors |-> NoBudget]]
        /\ UNCHANGED localBudgets
    BY <1>9 DEF ResetNonlocal, NextTor
  <2>2. /\ \A q \in Rotors : nonlocalBudgets'[s][q] = NoBudget
        /\ \A t \in Tors : t # s => nonlocalBudgets'[t] = nonlocalBudgets[t]
    BY <1>1, <2>1
  <2>3. SharedWithin'
    <3>1. SUFFICES ASSUME NEW t \in Tors, NEW q \in Rotors
                   PROVE  Total(localBudgets[t][q]) + Total(nonlocalBudgets'[t][q]) <= BudgetPerSlot
      BY <2>1 DEF SharedWithin, SlotShared
    <3>2. CASE t = s
      <4>1. nonlocalBudgets'[t][q] = NoBudget
        BY <2>2, <3>2
      <4>2. QED BY <1>5, <4>1, TotalNone DEF SlotShared
    <3>3. CASE t # s
      BY <1>5, <2>2, <3>3 DEF SlotShared
    <3>4. QED BY <3>2, <3>3
  <2>4. \A q \in Rotors : localBudgets'[s][q] = NoBudget
    BY <2>1 DEF SlotInv, Cleared
  <2>5. Cleared' /\ RoomLeft'
    BY <2>1, <2>2, <2>4 DEF Cleared, RoomLeft
  <2>6. QED BY <1>3, <1>4, <2>3, <2>5 DEF SlotInv
<1>10. CASE Toggle
  <2>1. /\ syncPc' \in {"poll", "resetLocal"}
        /\ UNCHANGED <<localBudgets, nonlocalBudgets>>
    BY <1>10 DEF Toggle, NextTor
  <2>2. QED BY <1>2, <2>1, ArrivalSlotInv
<1> DEFINE qid == Qid(s, r, vid)
           ql == localBudgets[s][r]
           qn == nonlocalBudgets[s][r]
<1>11. ql \in [Racks -> Nat] /\ qn \in [Racks -> Nat]
  BY <1>1
<1>12. syncPc \in {"rotor", "local", "indirect"} => qid \in Racks
  <2>1. syncPc \in {"rotor", "local", "indirect"} => vid \in Vids
    BY DEF TypeInv, Allocating
  <2>2. VidToQid[s][r] \in [Vids -> Racks]
    BY <1>1
  <2>3. QED BY <2>1, <2>2 DEF Qid
<1>13. syncPc = "rotor" => ql = NoBudget /\ qn = NoBudget
  BY <1>1, <1>6 DEF SlotInv, Cleared
<1>14. \A d \in Racks : NoBudget[d] = 0
  BY DEF NoBudget
<1>15. ASSUME syncPc \in {"rotor", "local", "indirect"}, NEW n \in Nat, NEW d \in Racks
       PROVE  /\ [ql EXCEPT ![d] = n] \in [Racks -> Nat] /\ [qn EXCEPT ![d] = n] \in [Racks -> Nat]
              /\ Total([ql EXCEPT ![d] = n]) = Total(ql) + (n - ql[d])
              /\ Total([qn EXCEPT ![d] = n]) = Total(qn) + (n - qn[d])
              /\ ql[d] \in Nat /\ qn[d] \in Nat /\ Total(ql) \in Nat /\ Total(qn) \in Nat
  <2> HIDE DEF ql, qn
  <2> QED BY <1>11, <1>15, TotalChange, TotalIsSum
<1>16. /\ [localBudgets EXCEPT ![s][r] = ql] = localBudgets
       /\ [nonlocalBudgets EXCEPT ![s][r] = qn] = nonlocalBudgets
  BY <1>1
<1>17. CASE AssignDirect
  <2> DEFINE l == [ql EXCEPT ![qid] = BudgetPerSlot]
  <2>1. /\ syncPc = "rotor" /\ NextRotor /\ syncTor' = s
        /\ localBudgets' = [localBudgets EXCEPT ![s][r] = l]
        /\ nonlocalBudgets' = nonlocalBudgets
    BY <1>1, <1>17 DEF AssignDirect
  <2>2. l \in [Racks -> Nat] /\ Total(l) + Total(qn) <= BudgetPerSlot
    <3>1. ql[qid] = 0 /\ Total(ql) = 0 /\ Total(qn) = 0 /\ qid \in Racks
      BY <1>12, <1>13, <1>14, <2>1, TotalNone
    <3>2. l \in [Racks -> Nat] /\ Total(l) = Total(ql) + (BudgetPerSlot - ql[qid])
      <4> HIDE DEF ql, qid
      <4> QED BY <1>15, <2>1, <3>1
    <3> HIDE DEF l, ql, qn, qid
    <3>3. QED BY <3>1, <3>2
  <2> HIDE DEF l, ql, qn
  <2>3. QED BY <1>7, <1>11, <1>16, <2>1, <2>2
<1>18. CASE AssignFixed
  <2>1. /\ syncPc = "rotor" /\ NextRotor /\ syncTor' = s
        /\ localBudgets' = [localBudgets EXCEPT ![s][r] = FixedLocal(qid)]
        /\ nonlocalBudgets' = [nonlocalBudgets EXCEPT ![s][r] = FixedNonlocal(qid)]
    BY <1>18 DEF AssignFixed
  <2>2. FixedLocal(qid) \in [Racks -> Nat] /\ FixedNonlocal(qid) \in [Racks -> Nat]
    BY <1>12, <2>1, AllocationTypes
  <2>3. QED BY <1>7, <1>12, <2>1, <2>2, FixedWithin
<1>19. CASE AssignSecondHop
  <2> DEFINE share == Share(nonlocalQueues[s][qid], BudgetPerSlot)
             n == [qn EXCEPT ![qid] = share]
  <2>1. syncPc = "rotor" /\ syncTor' = s /\ qid \in Racks
    BY <1>12, <1>19 DEF AssignSecondHop
  <2>2. share \in Nat /\ share <= BudgetPerSlot
    BY <1>1, <2>1 DEF Share
  <2>3. /\ nonlocalBudgets' = [nonlocalBudgets EXCEPT ![s][r] = n]
        /\ localBudgets' = localBudgets /\ remaining' = BudgetPerSlot - share
        /\ NextRotor \/ (syncPc' = "local" /\ syncRotor' = r)
    BY <1>1, <1>19 DEF AssignSecondHop
  <2> HIDE DEF share
  <2>4. /\ n \in [Racks -> Nat] /\ Total(n) = share /\ Total(ql) = 0 /\ ql = NoBudget
    <3>1. qn[qid] = 0 /\ Total(ql) = 0 /\ Total(qn) = 0 /\ ql = NoBudget
      BY <1>13, <1>14, <2>1, TotalNone
    <3>2. n \in [Racks -> Nat] /\ Total(n) = Total(qn) + (share - qn[qid])
      <4>1. syncPc \in {"rotor", "local", "indirect"}
        BY <2>1
      <4> HIDE DEF qn, qid
      <4> QED BY <1>15, <2>1, <2>2, <4>1
    <3> HIDE DEF n, ql, qn, qid
    <3>3. QED BY <2>2, <3>1, <3>2
  <2> HIDE DEF n, ql
  <2>5. Total(n) + remaining' <= BudgetPerSlot /\ Total(ql) + Total(n) <= BudgetPerSlot
    BY <2>2, <2>3, <2>4
  <2>6. QED BY <1>7, <1>11, <1>16, <2>1, <2>3, <2>4, <2>5
<1>20. syncPc \in {"local", "indirect"} => Total(ql) + Total(qn) + remaining <= BudgetPerSlot
  BY DEF SlotInv, RoomLeft, SlotShared
<1>21. CASE AssignLocal
  <2> DEFINE share == Share(queues[s][qid], remaining)
             l == [ql EXCEPT ![qid] = share]
  <2>1. syncPc = "local" /\ syncTor' = s /\ qid \in Racks
    BY <1>12, <1>21 DEF AssignLocal
  <2>2. share \in Nat /\ share <= remaining
    BY <1>1, <2>1 DEF Share
  <2>3. /\ localBudgets' = [localBudgets EXCEPT ![s][r] = l]
        /\ nonlocalBudgets' = nonlocalBudgets /\ remaining' = remaining - share
        /\ NextRotor \/ (syncPc' = "indirect" /\ syncRotor' = r)
    BY <1>1, <1>21 DEF AssignLocal
  <2> HIDE DEF share
  <2>4. ql = NoBudget
    BY <2>1 DEF SlotInv, RoomLeft
  <2>5. l \in [Racks -> Nat] /\ Total(l) = share /\ Total(ql) = 0 /\ Total(qn) \in Nat
    <3>1. ql[qid] = 0 /\ Total(ql) = 0
      BY <1>14, <2>1, <2>4, TotalNone
    <3>2. /\ l \in [Racks -> Nat] /\ Total(l) = Total(ql) + (share - ql[qid])
          /\ Total(qn) \in Nat
      <4>1. syncPc \in {"rotor", "local", "indirect"}
        BY <2>1
      <4> HIDE DEF ql, qn, qid
      <4> QED BY <1>15, <2>1, <2>2, <4>1
    <3> HIDE DEF l, ql, qn, qid
    <3>3. QED BY <2>2, <3>1, <3>2
  <2> HIDE DEF l, ql, qn
  <2>6. Total(l) + Total(qn) + remaining' <= BudgetPerSlot /\ Total(l) + Total(qn) <= BudgetPerSlot
    BY <1>1, <1>20, <2>1, <2>2, <2>3, <2>5
  <2>7. QED BY <1>7, <1>11, <1>16, <2>1, <2>3, <2>5, <2>6
<1>22. CASE AssignIndirect
  <2>1. PICK longest \in Racks :
           localBudgets' = [localBudgets EXCEPT ![s][r][longest] = IndirectShare(remaining)]
    BY <1>22 DEF AssignIndirect
  <2> DEFINE share == IndirectShare(remaining)
             l == [ql EXCEPT ![longest] = share]
  <2>2. syncPc = "indirect" /\ syncTor' = s /\ NextRotor /\ nonlocalBudgets' = nonlocalBudgets
    BY <1>22 DEF AssignIndirect
  <2>3. share \in Nat /\ share <= remaining
    BY <1>1 DEF IndirectShare
  <2> HIDE DEF share
  <2>4. localBudgets' = [localBudgets EXCEPT ![s][r] = l]
    BY <1>1, <2>1 DEF share
  <2>5. /\ l \in [Racks -> Nat] /\ Total(l) = Total(ql) + (share - ql[longest])
        /\ ql[longest] \in Nat /\ Total(ql) \in Nat /\ Total(qn) \in Nat
    BY <1>15, <2>2, <2>3
  <2> HIDE DEF l, ql, qn
  <2>6. Total(l) + Total(qn) <= BudgetPerSlot
    BY <1>1, <1>20, <2>2, <2>3, <2>5
  <2>7. QED BY <1>7, <1>11, <1>16, <2>2, <2>4, <2>5, <2>6
<1>23. QED
  BY <1>8, <1>9, <1>10, <1>17, <1>18, <1>19, <1>21, <1>22 DEF SyncStep

(* What tx2 sends it takes off its copy; a new copy comes from budgets the *)
(* sync thread does not touch in between.                                  *)
LEMMA Tx2SlotInv ==
    ASSUME TypeInv, HandoverInv, SlotInv, NEW t \in Tors, Tx2Step(t)
    PROVE  SlotInv'
<1> USE HandoverAssumption, BudgetAssumption DEF Budgets
<1>1. /\ pc \in [Tors -> TxSteps]
      /\ myLocal \in [Tors -> Budgets] /\ myNonlocal \in [Tors -> Budgets]
      /\ localBudgets \in [Tors -> Budgets] /\ nonlocalBudgets \in [Tors -> Budgets]
      /\ rotor[t] \in Rotors /\ dst[t] \in Racks
      /\ sent \in [Tors -> [Rotors -> Nat]]
      /\ copied \in [Tors -> Vids \cup {NoVid}]
      /\ queues[t][dst[t]] \in Nat /\ nonlocalQueues[t][dst[t]] \in Nat
      /\ BudgetPerSlot \in Nat
  BY DEF TypeInv, TypeOK, Tx2OK, SharedOK, HistoryOK, TrafficOK
<1>2. /\ UNCHANGED <<shared, sync>>
      /\ \A s \in Tors \ {t} : UNCHANGED <<pc[s], copied[s], myLocal[s], myNonlocal[s]>>
  BY Tx2Effects
<1>3. \A s \in Tors \ {t} : sent'[s] = sent[s]
  BY <1>1 DEF Tx2Step, Start, ReadMatching, ReadLock, CopyNonlocal, CopyLocal, PassOver, EnterRotor,
              DrainNonlocal, DrainLocal, history
<1>4. (SharedWithin /\ Cleared /\ RoomLeft)'
  BY <1>2 DEF SlotInv, SharedWithin, Cleared, RoomLeft, SlotShared, shared, sync
<1> DEFINE Within(r) == sent[t][r] + Total(myLocal[t][r]) + Total(myNonlocal[t][r]) <= BudgetPerSlot
<1>5. ASSUME copied'[t] # NoVid /\ pc'[t] \notin Copying => \A r \in Rotors : Within(r)',
             pc'[t] = "copyLocal" => myNonlocal'[t] = nonlocalBudgets[t]
      PROVE  SlotInv'
  <2>1. SlotBudget'
    BY <1>2, <1>3, <1>5 DEF SlotInv, SlotBudget
  <2>2. HalfCopied'
    BY <1>2, <1>5 DEF SlotInv, HalfCopied, shared
  <2>3. QED BY <1>4, <2>1, <2>2 DEF SlotInv
<1>6. copied[t] # NoVid /\ pc[t] \notin Copying => \A r \in Rotors : Within(r)
  BY DEF SlotInv, SlotBudget
<1>7. \A r \in Rotors : /\ Total(myLocal[t][r]) \in Nat /\ Total(myNonlocal[t][r]) \in Nat
                        /\ sent[t][r] \in Nat
  BY <1>1, TotalIsSum
<1>8. CASE Start(t) \/ ReadMatching(t) \/ ReadLock(t) \/ PassOver(t) \/ EnterRotor(t)
  <2>1. /\ UNCHANGED <<myLocal, myNonlocal, copied, sent>>
        /\ pc[t] \notin Copying /\ pc'[t] # "copyLocal"
    BY <1>1, <1>8 DEF Start, ReadMatching, ReadLock, PassOver, EnterRotor, NextPort, Goto, Copying,
                      history
  <2>2. QED BY <1>5, <1>6, <2>1
<1>9. CASE CopyNonlocal(t)
  <2>1. pc'[t] = "copyLocal" /\ myNonlocal'[t] = nonlocalBudgets[t]
    BY <1>1, <1>9 DEF CopyNonlocal, Goto
  <2>2. QED BY <1>5, <2>1 DEF Copying
<1>10. CASE CopyLocal(t)
  <2>1. /\ pc[t] = "copyLocal" /\ pc'[t] = "rotor"
        /\ myLocal'[t] = localBudgets[t] /\ myNonlocal' = myNonlocal
        /\ \A r \in Rotors : sent'[t][r] = 0
    BY <1>1, <1>10 DEF CopyLocal, Goto
  <2>2. myNonlocal[t] = nonlocalBudgets[t]
    BY <2>1 DEF SlotInv, HalfCopied
  <2>3. \A r \in Rotors : /\ Total(localBudgets[t][r]) \in Nat /\ Total(nonlocalBudgets[t][r]) \in Nat
                          /\ SlotShared(t, r) <= BudgetPerSlot
    BY <1>1, TotalIsSum DEF SlotInv, SharedWithin
  <2>4. \A r \in Rotors : Within(r)'
    BY <2>1, <2>2, <2>3 DEF SlotShared
  <2>5. QED BY <1>5, <2>1, <2>4
<1>11. ASSUME NEW b \in Nat, NEW c \in Nat PROVE Drained(b, c) \in Nat /\ Drained(b, c) <= b
  BY <1>11 DEF Drained, Share
<1> DEFINE r0 == rotor[t]
           d0 == dst[t]
<1>12. CASE DrainNonlocal(t)
  <2> DEFINE b == myNonlocal[t][r0]
             n == Drained(b[d0], nonlocalQueues[t][d0])
  <2>1. b \in [Racks -> Nat] /\ b[d0] \in Nat
    BY <1>1
  <2>2. n \in Nat /\ b[d0] - n \in Nat
    <3>1. n \in Nat /\ n <= b[d0]
      <4> HIDE DEF b
      <4> QED BY <1>1, <1>11, <2>1
    <3> HIDE DEF n
    <3>2. QED BY <2>1, <3>1
  <2>3. /\ pc[t] = "nonlocal" /\ pc'[t] \notin Copying
        /\ myNonlocal' = [myNonlocal EXCEPT ![t][r0] = [b EXCEPT ![d0] = b[d0] - n]]
        /\ sent' = [sent EXCEPT ![t][r0] = @ + n]
        /\ UNCHANGED <<myLocal, copied>>
    BY <1>1, <1>12 DEF DrainNonlocal, Copying
  <2> HIDE DEF n
  <2> DEFINE c == [b EXCEPT ![d0] = b[d0] - n]
  <2>4. Total(c) = Total(b) - n /\ Total(b) \in Nat
    <3>1. Total(c) = Total(b) + ((b[d0] - n) - b[d0])
      <4> HIDE DEF b
      <4> QED BY <1>1, <2>1, <2>2, TotalChange
    <3>2. Total(b) \in Nat
      BY <2>1, TotalIsSum
    <3>3. QED BY <2>1, <2>2, <3>1, <3>2
  <2>5. /\ myNonlocal'[t][r0] = c /\ sent'[t][r0] = sent[t][r0] + n
        /\ \A r \in Rotors : r # r0 => myNonlocal'[t][r] = myNonlocal[t][r] /\ sent'[t][r] = sent[t][r]
    BY <1>1, <2>3
  <2>6. ASSUME copied'[t] # NoVid, NEW r \in Rotors PROVE Within(r)'
    <3>1. Within(r)
      BY <1>6, <2>3, <2>6 DEF Copying
    <3>2. CASE r = r0
      <4>1. /\ myNonlocal'[t][r] = c /\ Total(c) = Total(myNonlocal[t][r]) - n
            /\ sent'[t][r] = sent[t][r] + n /\ myLocal'[t][r] = myLocal[t][r]
            /\ Total(myNonlocal[t][r]) \in Nat
        BY <2>3, <2>4, <2>5, <3>2
      <4>2. Total(myLocal[t][r]) \in Nat /\ sent[t][r] \in Nat
        BY <1>7
      <4> HIDE DEF c
      <4> QED BY <1>1, <2>2, <3>1, <4>1, <4>2
    <3>3. CASE r # r0
      BY <2>3, <2>5, <3>1, <3>3
    <3>4. QED BY <3>2, <3>3
  <2>7. QED BY <1>5, <2>3, <2>6 DEF Copying
<1>13. CASE DrainLocal(t)
  <2> DEFINE b == myLocal[t][r0]
             n == Drained(b[d0], queues[t][d0])
  <2>1. b \in [Racks -> Nat] /\ b[d0] \in Nat
    BY <1>1
  <2>2. n \in Nat /\ b[d0] - n \in Nat
    <3>1. n \in Nat /\ n <= b[d0]
      <4> HIDE DEF b
      <4> QED BY <1>1, <1>11, <2>1
    <3> HIDE DEF n
    <3>2. QED BY <2>1, <3>1
  <2>3. /\ pc[t] = "local" /\ pc'[t] \notin Copying
        /\ myLocal' = [myLocal EXCEPT ![t][r0] = [b EXCEPT ![d0] = b[d0] - n]]
        /\ sent' = [sent EXCEPT ![t][r0] = @ + n]
        /\ UNCHANGED <<myNonlocal, copied>>
    BY <1>1, <1>13 DEF DrainLocal, NextPort, Copying
  <2> HIDE DEF n
  <2> DEFINE c == [b EXCEPT ![d0] = b[d0] - n]
  <2>4. Total(c) = Total(b) - n /\ Total(b) \in Nat
    <3>1. Total(c) = Total(b) + ((b[d0] - n) - b[d0])
      <4> HIDE DEF b
      <4> QED BY <1>1, <2>1, <2>2, TotalChange
    <3>2. Total(b) \in Nat
      BY <2>1, TotalIsSum
    <3>3. QED BY <2>1, <2>2, <3>1, <3>2
  <2>5. /\ myLocal'[t][r0] = c /\ sent'[t][r0] = sent[t][r0] + n
        /\ \A r \in Rotors : r # r0 => myLocal'[t][r] = myLocal[t][r] /\ sent'[t][r] = sent[t][r]
    BY <1>1, <2>3
  <2>6. ASSUME copied'[t] # NoVid, NEW r \in Rotors PROVE Within(r)'
    <3>1. Within(r)
      BY <1>6, <2>3, <2>6 DEF Copying
    <3>2. CASE r = r0
      <4>1. /\ myLocal'[t][r] = c /\ Total(c) = Total(myLocal[t][r]) - n
            /\ sent'[t][r] = sent[t][r] + n /\ myNonlocal'[t][r] = myNonlocal[t][r]
            /\ Total(myLocal[t][r]) \in Nat
        BY <2>3, <2>4, <2>5, <3>2
      <4>2. Total(myNonlocal[t][r]) \in Nat /\ sent[t][r] \in Nat
        BY <1>7
      <4> HIDE DEF c
      <4> QED BY <1>1, <2>2, <3>1, <4>1, <4>2
    <3>3. CASE r # r0
      BY <2>3, <2>5, <3>1, <3>3
    <3>4. QED BY <3>2, <3>3
  <2>7. QED BY <1>5, <2>3, <2>6 DEF Copying
<1>14. QED BY <1>8, <1>9, <1>10, <1>12, <1>13 DEF Tx2Step

LEMMA NextSlotInv ==
    ASSUME SlotIsLong
    PROVE  TypeInv /\ HandoverInv /\ SlotInv /\ [Next]_vars => SlotInv'
<1> SUFFICES ASSUME TypeInv, HandoverInv, SlotInv, [Next]_vars PROVE SlotInv'
  OBVIOUS
<1>1. CASE UNCHANGED vars
  BY <1>1, ArrivalSlotInv DEF vars, shared, tx2, history
<1>2. ASSUME NEW t \in Tors, NEW d \in Racks, VmSends(t, d) \/ RemoteArrives(t, d)
      PROVE  SlotInv'
  BY <1>2, ArrivalSlotInv DEF VmSends, RemoteArrives, shared, tx2, history
<1>3. ASSUME NEW v \in Vids \cup {MinMatchingVid}, ReceiveFrame(v) PROVE SlotInv'
  BY <1>3, ArrivalSlotInv DEF ReceiveFrame, tx2
<1>4. QED
  BY <1>1, <1>2, <1>3, SyncSlotInv, Tx2SlotInv DEF Next

(* On the budgets of one copy a rotor sends at most budget_per_slot, under *)
(* each of the three allocations (main.c:970-1131, 815-843).               *)
THEOREM SlotNeverExceeded == ASSUME SlotIsLong PROVE Spec => []SlotBudget
<1>1. SlotInv => SlotBudget
  BY DEF SlotInv
<1>2. QED BY InitSlotInv, NextSlotInv, HandoverInvariant, <1>1, PTL DEF Spec

=============================================================================
