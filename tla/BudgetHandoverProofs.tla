------------------------ MODULE BudgetHandoverProofs ------------------------
(***************************************************************************)
(* Proofs about BudgetHandover, for every number of ToRs, rotors, racks    *)
(* and matchings, every budget and every allocation.                       *)
(***************************************************************************)
EXTENDS BudgetHandover, TLAPS

(***************************************************************************)
(* Facts about the allocation operators.                                   *)
(***************************************************************************)

(* Integer division of naturals by a positive number is a natural. *)
LEMMA DivNat == ASSUME NEW x \in Nat, NEW y \in Nat \ {0} PROVE x \div y \in Nat
OBVIOUS

LEMMA ShareBounds ==
    ASSUME NEW count \in Nat, NEW left \in Nat
    PROVE  /\ Share(count, left) \in Nat
           /\ Share(count, left) <= left
           /\ Share(count, left) <= count
           /\ left - Share(count, left) \in 0 .. left
BY DEF Share

LEMMA AllocationTypes ==
    ASSUME NEW qid \in Racks
    PROVE  /\ NoBudget \in [Racks -> Nat]
           /\ FixedLocal(qid) \in [Racks -> Nat]
           /\ FixedNonlocal(qid) \in [Racks -> Nat]
<1> USE RacksAssumption, BudgetAssumption
<1>1. NoBudget \in [Racks -> Nat]
  BY DEF NoBudget
<1>2. BudgetPerSlot \div 10 \in Nat /\ (8 * BudgetPerSlot) \div 10 \in Nat
  OBVIOUS
<1>3. ASSUME NEW d \in Racks, d # qid PROVE BudgetPerSlot \div (10 * (NbDstRacks - 1)) \in Nat
  <2>1. 10 * (NbDstRacks - 1) \in Nat \ {0}
    BY <1>3 DEF Racks
  <2>2. QED BY <2>1, DivNat
<1>4. FixedLocal(qid) \in [Racks -> Nat]
  BY <1>2, <1>3 DEF FixedLocal
<1>5. FixedNonlocal(qid) \in [Racks -> Nat]
  BY <1>2 DEF FixedNonlocal
<1>6. QED BY <1>1, <1>4, <1>5

-----------------------------------------------------------------------------
(***************************************************************************)
(* Type correctness.                                                       *)
(***************************************************************************)

(* Budgets are only allocated for a matching that connects something. *)
Allocating == {"rotor", "local", "indirect", "toggle"}

TypeInv == TypeOK /\ (syncPc \in Allocating => vid \in Vids)

LEMMA InitTypeInv == Init => TypeInv
<1> USE RacksAssumption, BudgetAssumption, HandoverAssumption
<1> SUFFICES ASSUME Init PROVE TypeInv
  OBVIOUS
<1> USE DEF Init
<1>1. 0 \in Tors /\ 0 \in Rotors /\ 0 \in Racks
  BY DEF Tors, Rotors, Racks
<1>2. [r \in Rotors |-> NoBudget] \in Budgets
  BY <1>1, AllocationTypes DEF Budgets
<1>3. SharedOK
  BY <1>2 DEF SharedOK, Flag
<1>4. TrafficOK
  BY DEF TrafficOK
<1>5. SyncOK
  BY <1>1 DEF SyncOK, SyncSteps
<1>6. Tx2OK
  <2>1. PICK u \in Uninitialised :
           /\ myLocal = [t \in Tors |-> [r \in Rotors |-> [d \in Racks |-> u]]]
           /\ myNonlocal = myLocal
    OBVIOUS
  <2>2. u \in Nat
    OBVIOUS
  <2>3. QED BY <1>1, <2>1, <2>2 DEF Tx2OK, Budgets, Flag, TxSteps
<1>7. HistoryOK
  BY DEF HistoryOK
<1>8. QED
  BY <1>3, <1>4, <1>5, <1>6, <1>7 DEF TypeInv, TypeOK, Allocating

LEMMA SyncTypeInv ==
    ASSUME TypeInv, SyncStep \/ \E v \in Vids \cup {MinMatchingVid} : ReceiveFrame(v)
    PROVE  TypeInv'
<1> USE RacksAssumption, BudgetAssumption, HandoverAssumption
<1> USE DEF TypeInv, TypeOK, SharedOK, SyncOK, shared, sync
<1>0. [r \in Rotors |-> NoBudget] \in Budgets
  BY AllocationTypes DEF Budgets, Racks
<1>1. TrafficOK' /\ Tx2OK'
  BY DEF SyncStep, ReceiveFrame, ResetLocal, ResetNonlocal, AssignDirect, AssignFixed,
         AssignSecondHop, AssignLocal, AssignIndirect, Toggle,
         traffic, tx2, TrafficOK, Tx2OK
<1>2. ASSUME NEW v \in Vids \cup {MinMatchingVid}, ReceiveFrame(v)
      PROVE  SharedOK' /\ SyncOK' /\ HistoryOK' /\ (syncPc \in Allocating => vid \in Vids)'
  BY <1>2 DEF ReceiveFrame, SyncSteps, Allocating, Tors, HistoryOK
<1>3. CASE ResetLocal
  BY <1>0, <1>1, <1>3 DEF ResetLocal, SyncSteps, Allocating, history, HistoryOK
<1>4. CASE ResetNonlocal
  <2>1. SharedOK'
    BY <1>0, <1>4 DEF ResetNonlocal
  <2>2. SyncOK' /\ (syncPc \in Allocating => vid \in Vids)'
    BY <1>4 DEF ResetNonlocal, NextTor, SyncSteps, Allocating, Tors, Rotors, MinMatchingVid
  <2>3. HistoryOK'
    BY <1>4 DEF ResetNonlocal, history, HistoryOK
  <2>4. QED BY <1>1, <2>1, <2>2, <2>3
<1>5. ASSUME syncPc \in Allocating PROVE Qid(syncTor, syncRotor, vid) \in Racks
  BY <1>5 DEF Qid
<1>6. ASSUME NextRotor, syncPc \in Allocating, UNCHANGED <<vid, syncTor, remaining>>
      PROVE  SyncOK' /\ (syncPc \in Allocating => vid \in Vids)'
  BY <1>6 DEF NextRotor, SyncSteps, Allocating, Rotors
<1>7. CASE AssignDirect
  <2>1. SharedOK'
    BY <1>5, <1>7 DEF AssignDirect, Allocating, Budgets
  <2>2. QED
    BY <1>1, <1>6, <1>7, <2>1 DEF AssignDirect, Allocating, history, HistoryOK
<1>8. CASE AssignFixed
  <2>1. SharedOK'
    BY <1>5, <1>8, AllocationTypes DEF AssignFixed, Allocating, Budgets
  <2>2. QED
    BY <1>1, <1>6, <1>8, <2>1 DEF AssignFixed, Allocating, history, HistoryOK
<1>9. CASE AssignSecondHop
  <2> DEFINE qid == Qid(syncTor, syncRotor, vid)
             share == Share(nonlocalQueues[syncTor][qid], BudgetPerSlot)
  <2>1. qid \in Racks
    BY <1>5, <1>9 DEF AssignSecondHop, Allocating
  <2>2. share \in Nat /\ BudgetPerSlot - share \in 0 .. BudgetPerSlot
    <3>1. nonlocalQueues[syncTor][qid] \in Nat
      BY <2>1 DEF TrafficOK
    <3>2. QED BY <3>1, ShareBounds
  <2>3. SharedOK'
    BY <1>9, <2>1, <2>2 DEF AssignSecondHop, Budgets
  <2>4. SyncOK' /\ (syncPc \in Allocating => vid \in Vids)'
    BY <1>9, <2>2 DEF AssignSecondHop, NextRotor, SyncSteps, Allocating, Rotors
  <2>5. QED
    BY <1>1, <1>9, <2>3, <2>4 DEF AssignSecondHop, history, HistoryOK
<1>10. CASE AssignLocal
  <2> DEFINE qid == Qid(syncTor, syncRotor, vid)
             share == Share(queues[syncTor][qid], remaining)
  <2>1. qid \in Racks
    BY <1>5, <1>10 DEF AssignLocal, Allocating
  <2>2. share \in Nat /\ remaining - share \in 0 .. BudgetPerSlot
    <3>1. queues[syncTor][qid] \in Nat
      BY <2>1 DEF TrafficOK
    <3>2. remaining \in Nat /\ remaining <= BudgetPerSlot
      OBVIOUS
    <3>3. /\ share \in Nat
          /\ remaining - share \in 0 .. remaining
      BY <3>1, <3>2, ShareBounds
    <3>4. QED BY <3>2, <3>3
  <2>3. SharedOK'
    BY <1>10, <2>1, <2>2 DEF AssignLocal, Budgets
  <2>4. SyncOK' /\ (syncPc \in Allocating => vid \in Vids)'
    BY <1>10, <2>2 DEF AssignLocal, NextRotor, SyncSteps, Allocating, Rotors
  <2>5. QED
    BY <1>1, <1>10, <2>3, <2>4 DEF AssignLocal, history, HistoryOK
<1>11. CASE AssignIndirect
  <2>1. IndirectShare(remaining) \in Nat
    BY DivNat DEF IndirectShare
  <2>2. SharedOK'
    BY <1>11, <2>1 DEF AssignIndirect, Budgets
  <2>3. QED
    BY <1>1, <1>6, <1>11, <2>2 DEF AssignIndirect, Allocating, history, HistoryOK
<1>12. CASE Toggle
  <2>1. SharedOK'
    BY <1>12 DEF Toggle, Flag
  <2>2. SyncOK' /\ (syncPc \in Allocating => vid \in Vids)'
    BY <1>12 DEF Toggle, NextTor, SyncSteps, Allocating, Tors
  <2>3. HistoryOK'
    BY <1>12 DEF Toggle, Allocating, HistoryOK
  <2>4. QED BY <1>1, <2>1, <2>2, <2>3
<1>13. QED
  BY <1>1, <1>2, <1>3, <1>4, <1>7, <1>8, <1>9, <1>10, <1>11, <1>12 DEF SyncStep

LEMMA Tx2TypeInv ==
    ASSUME TypeInv, NEW t \in Tors, Tx2Step(t)
    PROVE  TypeInv'
<1> USE RacksAssumption, BudgetAssumption, HandoverAssumption
<1> USE DEF TypeInv, TypeOK, Tx2OK
<1>1. SharedOK' /\ SyncOK' /\ (syncPc \in Allocating => vid \in Vids)'
  BY DEF Tx2Step, Start, ReadMatching, ReadLock, CopyNonlocal, CopyLocal, PassOver,
         EnterRotor, DrainNonlocal, DrainLocal, shared, sync, SharedOK, SyncOK
<1>2. CASE Start(t)
  BY <1>1, <1>2 DEF Start, Goto, TxSteps, SharedOK, traffic, TrafficOK, history, HistoryOK
<1>3. CASE ReadMatching(t)
  BY <1>1, <1>3 DEF ReadMatching, Goto, TxSteps, SharedOK, traffic, TrafficOK, HistoryOK
<1>4. CASE ReadLock(t)
  BY <1>1, <1>4 DEF ReadLock, Goto, TxSteps, SharedOK, traffic, TrafficOK, history, HistoryOK
<1>5. CASE CopyNonlocal(t)
  BY <1>1, <1>5 DEF CopyNonlocal, Goto, TxSteps, SharedOK, traffic, TrafficOK, history, HistoryOK
<1>6. CASE CopyLocal(t)
  BY <1>1, <1>6 DEF CopyLocal, Goto, TxSteps, SharedOK, traffic, TrafficOK, HistoryOK
<1>8. CASE EnterRotor(t)
  BY <1>1, <1>8 DEF EnterRotor, Goto, TxSteps, traffic, TrafficOK, history, HistoryOK
<1>9. ASSUME NEW budget \in Nat, NEW count \in 0 .. RingSize
      PROVE  /\ Drained(budget, count) \in Nat
             /\ budget - Drained(budget, count) \in Nat
             /\ count - Drained(budget, count) \in 0 .. RingSize
  BY DEF Drained, Share
<1>10. /\ rotor[t] \in Rotors
       /\ dst[t] \in Racks
       /\ rotor[t] + 1 < NumRotors => rotor[t] + 1 \in Rotors
       /\ dst[t] + 1 < NbDstRacks => dst[t] + 1 \in Racks
       /\ 0 \in Rotors
       /\ 0 \in Racks
  BY DEF Rotors, Racks
<1>14. ASSUME NextPort(t)
       PROVE  /\ dst' \in [Tors -> Racks]
              /\ rotor' \in [Tors -> Rotors]
              /\ pc' \in [Tors -> TxSteps]
              /\ settled \subseteq Tors => settled' \subseteq Tors
  <2>1. dst' = [dst EXCEPT ![t] = 0]
    BY <1>14 DEF NextPort
  <2>2. dst' \in [Tors -> Racks]
    BY <1>10, <2>1
  <2>3. CASE rotor[t] + 1 < NumRotors
    <3>1. /\ rotor' = [rotor EXCEPT ![t] = rotor[t] + 1]
          /\ pc' = [pc EXCEPT ![t] = "rotor"]
          /\ settled' = settled
      BY <1>14, <2>3 DEF NextPort
    <3>2. rotor[t] + 1 \in Rotors
      BY <1>10, <2>3
    <3>3. QED BY <2>2, <3>1, <3>2 DEF TxSteps
  <2>4. CASE ~(rotor[t] + 1 < NumRotors)
    <3>1. /\ rotor' = [rotor EXCEPT ![t] = 0]
          /\ pc' = [pc EXCEPT ![t] = "readMatching"]
          /\ settled' \subseteq settled \cup {t}
      BY <1>14, <2>4 DEF NextPort
    <3>2. QED BY <1>10, <2>2, <3>1 DEF TxSteps
  <2>5. QED BY <2>3, <2>4
<1>7. CASE PassOver(t)
  <2>1. NextPort(t)
    BY <1>7 DEF PassOver
  <2>2. HistoryOK'
    BY <1>7, <1>14, <2>1 DEF PassOver, HistoryOK
  <2>3. TrafficOK'
    BY <1>7 DEF PassOver, traffic, TrafficOK
  <2>4. QED
    BY <1>1, <1>7, <1>14, <2>1, <2>2, <2>3 DEF PassOver
<1>11. CASE DrainNonlocal(t)
  <2> DEFINE n == Drained(myNonlocal[t][rotor[t]][dst[t]], nonlocalQueues[t][dst[t]])
  <2>1. /\ n \in Nat
        /\ myNonlocal[t][rotor[t]][dst[t]] - n \in Nat
        /\ nonlocalQueues[t][dst[t]] - n \in 0 .. RingSize
    <3>1. myNonlocal[t][rotor[t]][dst[t]] \in Nat
      BY <1>10 DEF Budgets
    <3>2. nonlocalQueues[t][dst[t]] \in 0 .. RingSize
      BY <1>10 DEF TrafficOK
    <3>3. QED BY <1>9, <3>1, <3>2
  <2> HIDE DEF n
  <2>2. /\ nonlocalQueues' = [nonlocalQueues EXCEPT ![t][dst[t]] = @ - n]
        /\ myNonlocal' = [myNonlocal EXCEPT ![t][rotor[t]][dst[t]] = @ - n]
        /\ sent' = [sent EXCEPT ![t][rotor[t]] = @ + n]
    BY <1>11 DEF DrainNonlocal, n
  <2>3. TrafficOK'
    BY <1>10, <1>11, <2>1, <2>2 DEF DrainNonlocal, TrafficOK
  <2>4. HistoryOK'
    BY <1>10, <1>11, <2>1, <2>2 DEF DrainNonlocal, HistoryOK
  <2>5. myNonlocal' \in [Tors -> Budgets]
    BY <1>10, <2>1, <2>2 DEF Budgets
  <2>6. dst' \in [Tors -> Racks] /\ pc' \in [Tors -> TxSteps]
    <3>1. CASE dst[t] + 1 < NbDstRacks
      <4>1. dst' = [dst EXCEPT ![t] = dst[t] + 1] /\ pc' = pc
        BY <1>11, <3>1 DEF DrainNonlocal
      <4>2. QED BY <1>10, <3>1, <4>1
    <3>2. CASE ~(dst[t] + 1 < NbDstRacks)
      <4>1. dst' = [dst EXCEPT ![t] = 0] /\ pc' = [pc EXCEPT ![t] = "local"]
        BY <1>11, <3>2 DEF DrainNonlocal
      <4>2. QED BY <1>10, <4>1 DEF TxSteps
    <3>3. QED BY <3>1, <3>2
  <2>7. QED
    BY <1>1, <1>11, <2>3, <2>4, <2>5, <2>6 DEF DrainNonlocal
<1>12. CASE DrainLocal(t)
  <2> DEFINE n == Drained(myLocal[t][rotor[t]][dst[t]], queues[t][dst[t]])
  <2>1. /\ n \in Nat
        /\ myLocal[t][rotor[t]][dst[t]] - n \in Nat
        /\ queues[t][dst[t]] - n \in 0 .. RingSize
    <3>1. myLocal[t][rotor[t]][dst[t]] \in Nat
      BY <1>10 DEF Budgets
    <3>2. queues[t][dst[t]] \in 0 .. RingSize
      BY <1>10 DEF TrafficOK
    <3>3. QED BY <1>9, <3>1, <3>2
  <2> HIDE DEF n
  <2>2. /\ queues' = [queues EXCEPT ![t][dst[t]] = @ - n]
        /\ myLocal' = [myLocal EXCEPT ![t][rotor[t]][dst[t]] = @ - n]
        /\ sent' = [sent EXCEPT ![t][rotor[t]] = @ + n]
    BY <1>12 DEF DrainLocal, n
  <2>3. TrafficOK'
    BY <1>10, <1>12, <2>1, <2>2 DEF DrainLocal, TrafficOK
  <2>8. \/ NextPort(t)
        \/ /\ dst[t] + 1 < NbDstRacks
           /\ dst' = [dst EXCEPT ![t] = dst[t] + 1]
           /\ UNCHANGED <<pc, rotor, settled>>
    BY <1>12 DEF DrainLocal
  <2>4. HistoryOK'
    <3>1. sent' \in [Tors -> [Rotors -> Nat]]
      BY <1>10, <2>1, <2>2 DEF HistoryOK
    <3>2. settled' \subseteq Tors
      BY <1>14, <2>8 DEF HistoryOK
    <3>3. QED BY <1>12, <3>1, <3>2 DEF DrainLocal, HistoryOK
  <2>5. myLocal' \in [Tors -> Budgets]
    BY <1>10, <2>1, <2>2 DEF Budgets
  <2>6. /\ dst' \in [Tors -> Racks]
        /\ pc' \in [Tors -> TxSteps]
        /\ rotor' \in [Tors -> Rotors]
    BY <1>10, <1>14, <2>8
  <2>7. QED
    BY <1>1, <1>12, <2>3, <2>4, <2>5, <2>6 DEF DrainLocal
<1>13. QED
  BY <1>2, <1>3, <1>4, <1>5, <1>6, <1>7, <1>8, <1>11, <1>12 DEF Tx2Step

LEMMA NextTypeInv == TypeInv /\ [Next]_vars => TypeInv'
<1> SUFFICES ASSUME TypeInv, [Next]_vars PROVE TypeInv'
  OBVIOUS
<1>1. ASSUME NEW t \in Tors, NEW d \in Racks, VmSends(t, d) \/ RemoteArrives(t, d)
      PROVE  TypeInv'
  <2>1. /\ queues[t][d] \in 0 .. RingSize
        /\ nonlocalQueues[t][d] \in 0 .. RingSize
        /\ RingSize \in Nat
    BY HandoverAssumption DEF TypeInv, TypeOK, TrafficOK
  <2>2. TrafficOK'
    <3>1. CASE VmSends(t, d)
      <4>1. queues[t][d] + 1 \in 0 .. RingSize
        BY <2>1, <3>1 DEF VmSends
      <4>2. QED BY <3>1, <4>1 DEF VmSends, TypeInv, TypeOK, TrafficOK
    <3>2. CASE RemoteArrives(t, d)
      <4>1. nonlocalQueues[t][d] + 1 \in 0 .. RingSize
        BY <2>1, <3>2 DEF RemoteArrives
      <4>2. QED BY <3>2, <4>1 DEF RemoteArrives, TypeInv, TypeOK, TrafficOK
    <3>3. QED BY <1>1, <3>1, <3>2
  <2>3. QED
    BY <1>1, <2>2 DEF VmSends, RemoteArrives, TypeInv, TypeOK, SharedOK, SyncOK, Tx2OK,
                      HistoryOK, shared, sync, tx2, history
<1>2. CASE UNCHANGED vars
  BY <1>2 DEF vars, TypeInv, TypeOK, SharedOK, TrafficOK, SyncOK, Tx2OK, HistoryOK,
              shared, traffic, sync, tx2, history
<1>3. QED
  BY <1>1, <1>2, SyncTypeInv, Tx2TypeInv DEF Next

LEMMA TypeInvariant == Spec => []TypeInv
BY InitTypeInv, NextTypeInv, PTL DEF Spec

(* Every variable keeps its type; in particular no queue length, no budget *)
(* and no remaining share ever becomes negative.                           *)
THEOREM TypeCorrect == Spec => []TypeOK
<1>1. TypeInv => TypeOK
  BY DEF TypeInv
<1>2. QED BY <1>1, TypeInvariant, PTL

-----------------------------------------------------------------------------
(***************************************************************************)
(* The safety properties, from the inductive invariant HandoverInv under   *)
(* the assumption that slots are long.                                     *)
(***************************************************************************)
(* What every step of the sync thread leaves alone. *)
LEMMA SyncEffects ==
    ASSUME TypeInv, SyncStep
    PROVE  /\ syncPc # "poll"
           /\ UNCHANGED <<activeMatching, vid, tx2, traffic, copied, clean, settled, sent>>
           /\ ~Toggle => UNCHANGED <<lockBudget, published>>
BY DEF SyncStep, ResetLocal, ResetNonlocal, AssignDirect, AssignFixed, AssignSecondHop,
       AssignLocal, AssignIndirect, Toggle, history, tx2, traffic

(* A ToR whose flag is still to be flipped after a step of the sync thread *)
(* was so before, and a step keeps the frame in progress or ends it.       *)
LEMMA SyncProgress ==
    ASSUME TypeInv, SyncStep
    PROVE  /\ syncPc' # "poll" => syncTor' \in {syncTor, syncTor + 1}
           /\ syncPc' # "poll" /\ syncTor' = syncTor + 1 => syncPc' = "resetLocal"
           /\ syncPc' = "poll" => syncTor + 1 >= NumTors
           /\ syncTor' # syncTor \/ syncPc' = "poll" => ResetNonlocal \/ Toggle
           /\ Toggle => syncPc' = "poll" \/ syncTor' = syncTor + 1
<1>1. syncTor \in Nat
  BY HandoverAssumption DEF TypeInv, TypeOK, SyncOK, Tors
<1>2. CASE NextTor /\ (ResetNonlocal \/ Toggle)
  BY <1>1, <1>2, HandoverAssumption DEF NextTor
<1>3. CASE syncPc' # "poll" /\ UNCHANGED syncTor /\ ~Toggle
  BY <1>1, <1>3
<1>4. NextRotor => syncPc' # "poll"
  BY DEF NextRotor
<1>5. CASE ResetLocal \/ ResetNonlocal
  BY <1>2, <1>3, <1>5 DEF ResetLocal, ResetNonlocal, Toggle
<1>6. CASE AssignDirect \/ AssignFixed \/ AssignIndirect
  BY <1>3, <1>4, <1>6 DEF AssignDirect, AssignFixed, AssignIndirect, Toggle
<1>7. CASE AssignSecondHop \/ AssignLocal
  BY <1>3, <1>4, <1>7 DEF AssignSecondHop, AssignLocal, Toggle
<1>8. CASE Toggle
  BY <1>2, <1>8 DEF Toggle
<1>9. QED BY <1>5, <1>6, <1>7, <1>8 DEF SyncStep

(* A step of one tx2 thread leaves everything of the others alone. *)
LEMMA Tx2Effects ==
    ASSUME TypeInv, NEW t \in Tors, Tx2Step(t)
    PROVE  /\ UNCHANGED <<shared, sync, published>>
           /\ \A s \in Tors \ {t} :
                 /\ UNCHANGED <<pc[s], actMatching[s], oldLock[s], lockRead[s], copied[s]>>
                 /\ UNCHANGED <<myLocal[s], myNonlocal[s]>>
                 /\ s \in clean' <=> s \in clean
                 /\ s \in settled' <=> s \in settled
BY DEF Tx2Step, Start, ReadMatching, ReadLock, CopyNonlocal, CopyLocal, PassOver, EnterRotor,
       DrainNonlocal, DrainLocal, Goto, NextPort, history, TypeInv, TypeOK, Tx2OK, HistoryOK

-----------------------------------------------------------------------------
(***************************************************************************)
(* HandoverInv is inductive.                                               *)
(***************************************************************************)
LEMMA InitHandoverInv == Init => HandoverInv
<1> SUFFICES ASSUME Init PROVE HandoverInv
  OBVIOUS
<1> USE DEF Init
<1>1. PublishedInv
  BY DEF PublishedInv, MinMatchingVid
<1>2. ASSUME NEW t \in Tors PROVE HandshakeOf(t) /\ CleanOf(t)
  BY <1>2 DEF HandshakeOf, CleanOf, Pending, CaughtUp, Copying, Egress
<1>3. ASSUME NEW t \in Tors PROVE NonlocalOf(t) /\ DirectOf(t)
  BY <1>3 DEF NonlocalOf, DirectOf, OnlyFor, NoBudget, SharedVid, HeldVid, Writing, NoVid
<1>4. QED BY <1>1, <1>2, <1>3 DEF HandoverInv

(* The arrival of packets, and a step that changes nothing. *)
LEMMA TrafficHandoverInv ==
    ASSUME HandoverInv, UNCHANGED <<shared, sync, tx2, history>>
    PROVE  HandoverInv'
<1> USE DEF shared, sync, tx2, history
<1>1. PublishedInv'
  BY DEF HandoverInv, PublishedInv
<1>2. ASSUME NEW t \in Tors PROVE (HandshakeOf(t) /\ CleanOf(t))'
  BY DEF HandoverInv, HandshakeOf, CleanOf, Pending, CaughtUp, Copying, Egress
<1>3. ASSUME NEW t \in Tors PROVE (NonlocalOf(t) /\ (Mode = "direct" => DirectOf(t)))'
  BY DEF HandoverInv, NonlocalOf, DirectOf, OnlyFor, SharedVid, HeldVid, Writing, Qid
<1>4. QED BY <1>1, <1>2, <1>3 DEF HandoverInv

(* A frame comes when every tx2 has caught up, so it may be handled.       *)
LEMMA FrameHandoverInv ==
    ASSUME SlotIsLong, TypeInv, HandoverInv,
           NEW v \in Vids \cup {MinMatchingVid}, ReceiveFrame(v)
    PROVE  HandoverInv'
<1> USE HandoverAssumption
<1>1. /\ settled = Tors
      /\ syncPc = "poll"
      /\ syncTor' = 0
      /\ vid' = v /\ activeMatching' = v
      /\ syncPc' \in {"poll", "resetLocal"}
      /\ v > MinMatchingVid => syncPc' = "resetLocal"
      /\ clean' = {} /\ (v > MinMatchingVid => settled' = {})
      /\ UNCHANGED <<localBudgets, nonlocalBudgets, lockBudget, tx2, published, copied>>
  <2>1. v \in Nat
    BY DEF MinMatchingVid
  <2>2. QED
    BY <2>1 DEF ReceiveFrame, FrameMayCome, tx2, MinMatchingVid
<1>2. PublishedInv'
  BY <1>1 DEF PublishedInv, Tors, MinMatchingVid
<1>3. ASSUME NEW t \in Tors PROVE HandshakeOf(t)'
  BY <1>1 DEF HandoverInv, HandshakeOf, Pending, CaughtUp, tx2
<1>4. ASSUME NEW t \in Tors PROVE CleanOf(t)'
  <2>1. pc[t] # "start"
    BY <1>1 DEF HandoverInv, HandshakeOf, CaughtUp
  <2>2. v > MinMatchingVid \/ v <= MinMatchingVid
    BY DEF MinMatchingVid
  <2>3. QED BY <1>1, <2>1, <2>2 DEF HandoverInv, CleanOf, tx2
<1>5. ASSUME NEW t \in Tors PROVE SharedVid(t) = published[t] /\ SharedVid(t)' = published[t]
  BY <1>1 DEF SharedVid, Writing
<1>6. ASSUME NEW t \in Tors PROVE (NonlocalOf(t) /\ (Mode = "direct" => DirectOf(t)))'
  BY <1>1, <1>5 DEF HandoverInv, NonlocalOf, DirectOf, OnlyFor, HeldVid, Qid, tx2
<1>7. QED BY <1>2, <1>3, <1>4, <1>6 DEF HandoverInv

(* Cleared budgets let nothing be sent. *)
LEMMA OnlyForReset ==
    ASSUME NEW t \in Tors, NEW v
    PROVE  OnlyFor([r \in Rotors |-> NoBudget], t, v)
BY DEF OnlyFor, NoBudget

(* The sync thread changes the flag and the budgets only of a ToR that has *)
(* caught up.                                                              *)
LEMMA SyncHandoverInv ==
    ASSUME SlotIsLong, TypeInv, HandoverInv, SyncStep
    PROVE  HandoverInv'
<1> USE HandoverAssumption
<1>1. /\ syncPc # "poll"
      /\ syncTor \in Tors
      /\ vid \in Vids \cup {MinMatchingVid}
      /\ UNCHANGED <<activeMatching, vid, tx2, copied, clean, settled>>
      /\ ~Toggle => UNCHANGED <<lockBudget, published>>
  BY SyncEffects DEF TypeInv, TypeOK, SyncOK
<1>2. CaughtUp(syncTor)
  BY <1>1 DEF HandoverInv, HandshakeOf, Pending, Tors
<1>3. Toggle => /\ lockBudget' = [lockBudget EXCEPT ![syncTor] = 1 - @]
                /\ published' = [published EXCEPT ![syncTor] = vid]
                /\ vid \in Vids
                /\ syncPc = "toggle"
  BY DEF Toggle, TypeInv, Allocating
<1>4. ASSUME NEW t \in Tors PROVE CleanOf(t)'
  <2>1. t \notin clean /\ (t \in settled \/ pc[t] = "start" => vid <= MinMatchingVid)
    BY <1>1 DEF HandoverInv, CleanOf
  <2>2. QED BY <1>1, <2>1 DEF HandoverInv, CleanOf, tx2
<1>5. ASSUME NEW t \in Tors PROVE HandshakeOf(t)'
  <2>1. Toggle => t \notin settled
    BY <1>1, <1>3 DEF HandoverInv, CleanOf, MinMatchingVid
  <2>2. Pending(t)' => Pending(t) /\ (Toggle => t # syncTor)
    BY <1>1, SyncProgress DEF Pending, Tors
  <2>3. CASE Toggle /\ t = syncTor
    <3>1. lockBudget[t] \in {0, 1} /\ lockBudget'[t] = 1 - lockBudget[t]
      BY <1>3, <2>3 DEF TypeInv, TypeOK, SharedOK, Flag
    <3>2. oldLock'[t] = lockBudget[t] /\ pc'[t] \notin Copying \cup {"start"}
      BY <1>1, <1>2, <2>3 DEF CaughtUp, tx2
    <3>3. lockBudget'[t] # oldLock'[t]
      BY <3>1, <3>2
    <3>4. QED
      BY <1>1, <2>1, <2>2, <2>3, <3>2, <3>3 DEF HandshakeOf, tx2
  <2>4. CASE ~(Toggle /\ t = syncTor)
    <3>1. lockBudget'[t] = lockBudget[t] /\ published'[t] = published[t]
      BY <1>1, <1>3, <2>4 DEF TypeInv, TypeOK, SharedOK, HistoryOK
    <3>2. QED
      BY <1>1, <2>1, <2>2, <3>1 DEF HandoverInv, HandshakeOf, CaughtUp, tx2
  <2>5. QED BY <2>3, <2>4
<1>6. PublishedInv'
  <2>1. vid = activeMatching /\ vid' = activeMatching'
    BY <1>1 DEF HandoverInv, PublishedInv
  <2>2. syncPc' \in {"local", "indirect"} => Mode = "max"
    BY DEF SyncStep, ResetLocal, ResetNonlocal, AssignDirect, AssignFixed, AssignSecondHop,
           AssignLocal, AssignIndirect, Toggle, NextTor, NextRotor, HandoverInv, PublishedInv
  <2>3. ASSUME vid > MinMatchingVid, NEW t \in Tors, t < syncTor' \/ syncPc' = "poll"
        PROVE  published'[t] = vid
    <3>1. CASE t < syncTor
      BY <1>1, <1>3, <2>3, <3>1 DEF HandoverInv, PublishedInv, TypeInv, TypeOK, HistoryOK, Tors
    <3>2. CASE ~(t < syncTor)
      <4>1. Toggle \/ ResetNonlocal
        BY <1>1, <2>3, <3>2, SyncProgress DEF Tors
      <4>2. ~ResetNonlocal
        BY <2>3, <3>2, <1>1 DEF ResetNonlocal, MinMatchingVid, Tors
      <4>3. t = syncTor
        BY <1>1, <2>3, <3>2, SyncProgress DEF Tors
      <4>4. QED BY <1>3, <4>1, <4>2, <4>3 DEF TypeInv, TypeOK, HistoryOK
    <3>3. QED BY <3>1, <3>2
  <2>4. QED BY <1>1, <2>1, <2>2, <2>3 DEF PublishedInv, tx2
<1>7. ASSUME NEW t \in Tors
      PROVE  /\ HeldVid(t)' = HeldVid(t)
             /\ myNonlocal'[t] = myNonlocal[t]
             /\ myLocal'[t] = myLocal[t]
             /\ copied'[t] = copied[t]
  BY <1>1, <1>2, <1>3 DEF HeldVid, CaughtUp, Copying, tx2, TypeInv, TypeOK, HistoryOK
<1>8. ASSUME NEW t \in Tors, t # syncTor
      PROVE  /\ SharedVid(t) = published[t] /\ SharedVid(t)' = published[t]
             /\ nonlocalBudgets'[t] = nonlocalBudgets[t]
             /\ localBudgets'[t] = localBudgets[t]
  <2>1. published'[t] = published[t]
    BY <1>1, <1>3, <1>8 DEF TypeInv, TypeOK, HistoryOK
  <2>2. ~Writing(t) /\ (Writing(t)' => syncPc' = "resetLocal")
    BY <1>1, <1>8, SyncProgress DEF Writing, Tors
  <2>3. /\ nonlocalBudgets'[t] = nonlocalBudgets[t]
        /\ localBudgets'[t] = localBudgets[t]
    BY <1>8 DEF SyncStep, ResetLocal, ResetNonlocal, AssignDirect, AssignFixed,
                AssignSecondHop, AssignLocal, AssignIndirect, Toggle,
                TypeInv, TypeOK, SharedOK
  <2>4. QED BY <2>1, <2>2, <2>3 DEF SharedVid
<1>9. ASSUME NEW t \in Tors, t # syncTor
      PROVE  (NonlocalOf(t) /\ (Mode = "direct" => DirectOf(t)))'
  <2>1. syncPc' = "resetNonlocal" => syncTor' = syncTor
    BY SyncProgress
  <2>2. NonlocalOf(t)'
    <3>1. OnlyFor(nonlocalBudgets[t], t, published[t])
      BY <1>8, <1>9 DEF HandoverInv, NonlocalOf
    <3>2. HeldVid(t) # NoVid => OnlyFor(myNonlocal[t], t, HeldVid(t))
      BY DEF HandoverInv, NonlocalOf
    <3>3. QED
      BY <1>7, <1>8, <1>9, <3>1, <3>2 DEF NonlocalOf, OnlyFor, Qid
  <2>3. Mode = "direct" => DirectOf(t)'
    <3>1. Mode = "direct" => /\ OnlyFor(localBudgets[t], t, published[t])
                             /\ copied[t] # NoVid => OnlyFor(myLocal[t], t, copied[t])
      BY <1>8, <1>9 DEF HandoverInv, DirectOf
    <3>2. ASSUME Mode = "direct" PROVE OnlyFor(localBudgets[t], t, SharedVid(t))'
      BY <1>8, <1>9, <3>1, <3>2 DEF OnlyFor, Qid
    <3>3. ASSUME Mode = "direct" PROVE (copied[t] # NoVid => OnlyFor(myLocal[t], t, copied[t]))'
      BY <1>7, <3>1, <3>3 DEF OnlyFor, Qid
    <3>4. ~(syncPc' = "resetNonlocal" /\ syncTor' = t)
      BY <1>9, <2>1
    <3>5. QED
      BY <3>2, <3>3, <3>4 DEF DirectOf
  <2>4. QED BY <2>2, <2>3
<1>10. ASSUME NEW t \in Tors, t = syncTor, OnlyFor(nonlocalBudgets'[t], t, SharedVid(t)')
       PROVE  NonlocalOf(t)'
  <2>1. HeldVid(t) # NoVid => OnlyFor(myNonlocal[t], t, HeldVid(t))
    BY DEF HandoverInv, NonlocalOf
  <2>2. QED BY <1>7, <1>10, <2>1 DEF NonlocalOf, OnlyFor, Qid
<1>11. ASSUME NEW t \in Tors, t = syncTor, Mode = "direct",
              OnlyFor(localBudgets'[t], t, SharedVid(t)'),
              syncPc' = "resetNonlocal" => localBudgets'[t] = [r \in Rotors |-> NoBudget]
       PROVE  DirectOf(t)'
  <2>1. copied[t] # NoVid => OnlyFor(myLocal[t], t, copied[t])
    BY <1>11 DEF HandoverInv, DirectOf
  <2>2. QED
    BY <1>7, <1>11, <2>1 DEF DirectOf, OnlyFor, Qid, NoBudget
<1>12. ASSUME NEW t \in Tors, t = syncTor
       PROVE  /\ OnlyFor(nonlocalBudgets'[t], t, SharedVid(t)')
              /\ Mode = "direct" =>
                    /\ OnlyFor(localBudgets'[t], t, SharedVid(t)')
                    /\ syncPc' = "resetNonlocal" => localBudgets'[t] = [r \in Rotors |-> NoBudget]
  <2> USE DEF TypeInv, TypeOK, SharedOK, HistoryOK
  <2>1. /\ OnlyFor(nonlocalBudgets[t], t, SharedVid(t))
        /\ Mode = "direct" =>
              /\ OnlyFor(localBudgets[t], t, SharedVid(t))
              /\ syncPc = "resetNonlocal" => localBudgets[t] = [r \in Rotors |-> NoBudget]
    BY <1>12 DEF HandoverInv, NonlocalOf, DirectOf
  <2>2. CASE ResetLocal
    <3>1. /\ SharedVid(t) = published[t] /\ SharedVid(t)' = published[t]
          /\ nonlocalBudgets'[t] = nonlocalBudgets[t]
          /\ localBudgets'[t] = [r \in Rotors |-> NoBudget]
      BY <1>12, <2>2 DEF ResetLocal, SharedVid, history
    <3>2. QED BY <2>1, <3>1, OnlyForReset
  <2>3. CASE ResetNonlocal
    <3>1. /\ syncPc = "resetNonlocal" /\ syncPc' # "resetNonlocal"
          /\ nonlocalBudgets'[t] = [r \in Rotors |-> NoBudget]
          /\ localBudgets'[t] = localBudgets[t]
      BY <1>12, <2>3 DEF ResetNonlocal, NextTor
    <3>2. OnlyFor(nonlocalBudgets'[t], t, SharedVid(t)')
      BY <3>1 DEF OnlyFor, NoBudget
    <3>3. Mode = "direct" => OnlyFor(localBudgets'[t], t, SharedVid(t)')
      BY <2>1, <3>1 DEF OnlyFor, NoBudget
    <3>4. QED BY <3>1, <3>2, <3>3
  <2>4. CASE AssignDirect \/ AssignFixed \/ AssignSecondHop \/ AssignLocal \/ AssignIndirect
    <3> DEFINE qid == Qid(t, syncRotor, vid)
    <3>1. /\ syncPc \in Allocating /\ syncPc' \in Allocating
          /\ SharedVid(t) = vid /\ SharedVid(t)' = vid
          /\ vid \in Vids
      BY <1>1, <1>12, <2>4
         DEF AssignDirect, AssignFixed, AssignSecondHop, AssignLocal, AssignIndirect,
             NextRotor, Allocating, SharedVid, Writing
    <3>2. qid \in Racks /\ syncRotor \in Rotors
      BY <1>12, <3>1 DEF Qid, SyncOK
    <3>3. OnlyFor(nonlocalBudgets'[t], t, vid)
      <4>1. /\ nonlocalBudgets[t] \in Budgets
            /\ OnlyFor(nonlocalBudgets[t], t, vid)
        BY <2>1, <3>1
      <4>2. CASE AssignDirect \/ AssignLocal \/ AssignIndirect
        BY <4>1, <4>2 DEF AssignDirect, AssignLocal, AssignIndirect
      <4>3. CASE AssignFixed
        <5>1. nonlocalBudgets'[t] = [nonlocalBudgets[t] EXCEPT ![syncRotor] = FixedNonlocal(qid)]
          BY <1>12, <4>3 DEF AssignFixed
        <5>2. \A d \in Racks : FixedNonlocal(qid)[d] > 0 => d = qid
          BY DEF FixedNonlocal
        <5>3. vid # NoVid
          BY <3>1 DEF NoVid, MinMatchingVid
        <5>4. QED BY <3>2, <4>1, <5>1, <5>2, <5>3 DEF OnlyFor, Budgets
      <4>4. CASE AssignSecondHop
        <5> DEFINE share == Share(nonlocalQueues[t][qid], BudgetPerSlot)
        <5>1. nonlocalBudgets'[t] = [nonlocalBudgets[t] EXCEPT ![syncRotor][qid] = share]
          BY <1>12, <4>4 DEF AssignSecondHop
        <5>2. vid # NoVid
          BY <3>1 DEF NoVid, MinMatchingVid
        <5> HIDE DEF share
        <5>3. QED BY <3>2, <4>1, <5>1, <5>2 DEF OnlyFor, Budgets
      <4>5. QED BY <2>4, <4>2, <4>3, <4>4
    <3>4. ASSUME Mode = "direct" PROVE OnlyFor(localBudgets'[t], t, vid)
      <4>1. AssignDirect
        BY <2>4, <3>4 DEF AssignFixed, AssignSecondHop, AssignLocal, AssignIndirect,
                          HandoverInv, PublishedInv
      <4>2. localBudgets'[t] = [localBudgets[t] EXCEPT ![syncRotor][qid] = BudgetPerSlot]
        BY <1>12, <4>1 DEF AssignDirect
      <4>3. localBudgets[t] \in Budgets /\ OnlyFor(localBudgets[t], t, vid)
        BY <2>1, <3>1, <3>4
      <4>4. vid # NoVid
        BY <3>1 DEF NoVid, MinMatchingVid
      <4>5. QED BY <3>2, <4>2, <4>3, <4>4 DEF OnlyFor, Budgets
    <3>5. QED BY <3>1, <3>3, <3>4 DEF Allocating
  <2>5. CASE Toggle
    <3>1. /\ SharedVid(t) = vid /\ SharedVid(t)' = vid
          /\ nonlocalBudgets'[t] = nonlocalBudgets[t]
          /\ localBudgets'[t] = localBudgets[t]
          /\ syncPc' # "resetNonlocal"
      BY <1>1, <1>3, <1>12, <2>5, SyncProgress DEF Toggle, SharedVid, Writing, NextTor
    <3>2. QED BY <2>1, <3>1
  <2>6. QED BY <2>2, <2>3, <2>4, <2>5 DEF SyncStep
<1>13. QED
  BY <1>1, <1>4, <1>5, <1>6, <1>9, <1>10, <1>11, <1>12 DEF HandoverInv

(* A ToR that may copy is not being written to. *)
LEMMA HandoverExclusive == HandoverInv => BudgetsExclusive
BY DEF HandoverInv, BudgetsExclusive, Writing, HandshakeOf, Pending, CaughtUp, Tors

(* What a tx2 thread sends on only gets smaller. *)
LEMMA OnlyForLess ==
    ASSUME NEW t \in Tors, NEW v, NEW r \in Rotors, NEW d \in Racks, NEW n \in Nat,
           NEW budgets \in Budgets, OnlyFor(budgets, t, v)
    PROVE  OnlyFor([budgets EXCEPT ![r][d] = @ - n], t, v)
<1>1. ASSUME NEW s \in Rotors, NEW e \in Racks, [budgets EXCEPT ![r][d] = @ - n][s][e] > 0
      PROVE  budgets[s][e] > 0
  BY <1>1 DEF Budgets
<1>2. QED BY <1>1 DEF OnlyFor

(* The tx2 threads copy only complete budgets.                             *)
LEMMA Tx2HandoverInv ==
    ASSUME SlotIsLong, TypeInv, HandoverInv, NEW t \in Tors, Tx2Step(t)
    PROVE  HandoverInv'
<1> USE HandoverAssumption
<1>1. /\ UNCHANGED <<shared, sync, published>>
      /\ \A s \in Tors \ {t} :
            /\ UNCHANGED <<pc[s], actMatching[s], oldLock[s], lockRead[s], copied[s]>>
            /\ UNCHANGED <<myLocal[s], myNonlocal[s]>>
            /\ s \in clean' <=> s \in clean
            /\ s \in settled' <=> s \in settled
  BY Tx2Effects
<1>2. PublishedInv'
  BY <1>1 DEF HandoverInv, PublishedInv, shared, sync
<1>3. ASSUME NEW s \in Tors, s # t
      PROVE  (HandshakeOf(s) /\ CleanOf(s))'
  <2>1. HandshakeOf(s)'
    BY <1>1, <1>3 DEF HandoverInv, HandshakeOf, Pending, CaughtUp, shared, sync
  <2>2. CleanOf(s)'
    <3>1. CleanOf(s)
      BY DEF HandoverInv
    <3>2. /\ UNCHANGED <<pc[s], actMatching[s], oldLock[s], lockBudget, syncPc, vid>>
          /\ UNCHANGED activeMatching
          /\ s \in clean' <=> s \in clean
          /\ s \in settled' <=> s \in settled
      BY <1>1, <1>3 DEF shared, sync
    <3>3. QED BY <3>1, <3>2 DEF CleanOf
  <2>3. QED BY <2>1, <2>2
<1>4. ASSUME NEW s \in Tors, s # t
      PROVE  (NonlocalOf(s) /\ (Mode = "direct" => DirectOf(s)))'
  <2>1. /\ SharedVid(s)' = SharedVid(s) /\ HeldVid(s)' = HeldVid(s)
        /\ UNCHANGED <<nonlocalBudgets, localBudgets, syncPc, syncTor>>
        /\ UNCHANGED <<myLocal[s], myNonlocal[s], copied[s]>>
    BY <1>1, <1>4 DEF SharedVid, HeldVid, Writing, shared, sync
  <2>2. NonlocalOf(s) /\ (Mode = "direct" => DirectOf(s))
    BY DEF HandoverInv
  <2>3. NonlocalOf(s)'
    BY <2>1, <2>2 DEF NonlocalOf, OnlyFor, Qid
  <2>4. Mode = "direct" => DirectOf(s)'
    BY <2>1, <2>2 DEF DirectOf, OnlyFor, Qid
  <2>5. QED BY <2>3, <2>4
<1>5. /\ pc \in [Tors -> TxSteps] /\ actMatching \in [Tors -> Vids \cup {MinMatchingVid}]
      /\ oldLock \in [Tors -> Flag] /\ lockRead \in [Tors -> Flag]
      /\ lockBudget \in [Tors -> Flag]
      /\ published \in [Tors -> Vids \cup {NoVid}] /\ copied \in [Tors -> Vids \cup {NoVid}]
  BY DEF TypeInv, TypeOK, Tx2OK, SharedOK, HistoryOK
<1>6. HandshakeOf(t) /\ CleanOf(t)
  BY DEF HandoverInv
<1>7. (HandshakeOf(t) /\ CleanOf(t))'
  <2> USE DEF HandshakeOf, CleanOf, Pending, CaughtUp, Copying, Egress
  <2>1. CASE Start(t)
    BY <1>1, <1>5, <1>6, <2>1 DEF Start, Goto, history, shared, sync
  <2>2. CASE ReadMatching(t)
    BY <1>1, <1>5, <1>6, <2>2 DEF ReadMatching, Goto, shared, sync
  <2>3. CASE ReadLock(t)
    BY <1>1, <1>5, <1>6, <2>3 DEF ReadLock, Goto, history, shared, sync
  <2>4. CASE CopyNonlocal(t)
    BY <1>1, <1>5, <1>6, <2>4 DEF CopyNonlocal, Goto, history, shared, sync
  <2>5. CASE CopyLocal(t)
    BY <1>1, <1>5, <1>6, <2>5 DEF CopyLocal, Goto, shared, sync
  <2>6. CASE EnterRotor(t)
    BY <1>1, <1>5, <1>6, <2>6 DEF EnterRotor, Goto, history, shared, sync
  <2>7. ASSUME pc[t] \in Egress, UNCHANGED <<actMatching, oldLock, lockRead, copied, clean>>,
               NextPort(t)
        PROVE  (HandshakeOf(t) /\ CleanOf(t))'
    <3>1. CASE pc' = [pc EXCEPT ![t] = "rotor"] /\ settled' = settled
      BY <1>1, <1>5, <1>6, <2>7, <3>1 DEF shared, sync
    <3>2. CASE /\ pc' = [pc EXCEPT ![t] = "readMatching"]
               /\ settled' = IF t \in clean THEN settled \cup {t} ELSE settled
      BY <1>1, <1>5, <1>6, <2>7, <3>2 DEF shared, sync
    <3>3. QED BY <2>7, <3>1, <3>2 DEF NextPort
  <2>8. CASE PassOver(t)
    BY <2>7, <2>8 DEF PassOver
  <2>9. CASE DrainNonlocal(t)
    <3>1. /\ pc[t] = "nonlocal"
          /\ pc' = pc \/ pc' = [pc EXCEPT ![t] = "local"]
          /\ UNCHANGED <<actMatching, oldLock, lockRead, copied, clean, settled>>
      BY <2>9 DEF DrainNonlocal
    <3>2. QED
      BY <1>1, <1>5, <1>6, <3>1 DEF shared, sync
  <2>10. CASE DrainLocal(t)
    <3>1. /\ pc[t] = "local"
          /\ UNCHANGED <<pc, settled>> \/ NextPort(t)
          /\ UNCHANGED <<actMatching, oldLock, lockRead, copied, clean>>
      BY <2>10 DEF DrainLocal
    <3>2. CASE UNCHANGED <<pc, settled>>
      BY <1>1, <1>5, <1>6, <3>1, <3>2 DEF shared, sync
    <3>3. QED BY <2>7, <3>1, <3>2
  <2>11. QED
    BY <2>1, <2>2, <2>3, <2>4, <2>5, <2>6, <2>8, <2>9, <2>10 DEF Tx2Step
<1>8. (NonlocalOf(t) /\ (Mode = "direct" => DirectOf(t)))'
  <2>1. /\ SharedVid(t)' = SharedVid(t)
        /\ nonlocalBudgets' = nonlocalBudgets
        /\ localBudgets' = localBudgets
        /\ published' = published
        /\ Mode = "direct" /\ syncPc' = "resetNonlocal" /\ syncTor' = t
              => localBudgets'[t] = [r \in Rotors |-> NoBudget]
    BY <1>1 DEF SharedVid, Writing, shared, sync, HandoverInv, DirectOf
  <2>2. /\ OnlyFor(nonlocalBudgets[t], t, SharedVid(t))
        /\ HeldVid(t) # NoVid => OnlyFor(myNonlocal[t], t, HeldVid(t))
        /\ Mode = "direct" =>
              /\ OnlyFor(localBudgets[t], t, SharedVid(t))
              /\ copied[t] # NoVid => OnlyFor(myLocal[t], t, copied[t])
    BY DEF HandoverInv, NonlocalOf, DirectOf
  <2>3. SUFFICES /\ HeldVid(t)' # NoVid => OnlyFor(myNonlocal'[t], t, HeldVid(t)')
                 /\ Mode = "direct" /\ copied'[t] # NoVid => OnlyFor(myLocal'[t], t, copied'[t])
    <3>1. NonlocalOf(t)'
      BY <2>1, <2>2, <2>3 DEF NonlocalOf, OnlyFor, Qid
    <3>2. Mode = "direct" => DirectOf(t)'
      BY <2>1, <2>2, <2>3 DEF DirectOf, OnlyFor, Qid
    <3>3. QED BY <3>1, <3>2
  <2>4. ASSUME UNCHANGED <<myLocal, myNonlocal, copied>>,
               pc[t] # "copyLocal", pc'[t] # "copyLocal"
        PROVE  /\ HeldVid(t)' # NoVid => OnlyFor(myNonlocal'[t], t, HeldVid(t)')
               /\ copied'[t] # NoVid /\ Mode = "direct" => OnlyFor(myLocal'[t], t, copied'[t])
    BY <2>1, <2>2, <2>4 DEF HeldVid
  <2>5. CASE Start(t) \/ ReadMatching(t) \/ ReadLock(t) \/ EnterRotor(t) \/ PassOver(t)
    <3>1. /\ UNCHANGED <<myLocal, myNonlocal, copied>>
          /\ pc[t] # "copyLocal" /\ pc'[t] # "copyLocal"
      BY <1>5, <2>5 DEF Start, ReadMatching, ReadLock, EnterRotor, PassOver, NextPort, Goto, history
    <3>2. QED BY <2>4, <3>1
  <2>6. ASSUME pc[t] \in Copying PROVE SharedVid(t) = published[t]
    BY <2>6, HandoverExclusive DEF BudgetsExclusive, SharedVid
  <2>7. CASE CopyNonlocal(t)
    <3>1. /\ pc[t] \in Copying /\ pc[t] # "copyLocal" /\ pc'[t] = "copyLocal"
          /\ myNonlocal'[t] = nonlocalBudgets[t]
          /\ UNCHANGED <<myLocal, copied>>
      BY <1>5, <2>7 DEF CopyNonlocal, Goto, history, Copying, TypeInv, TypeOK, Tx2OK
    <3>2. HeldVid(t)' = published[t]
      BY <2>1, <3>1 DEF HeldVid
    <3>3. QED BY <2>2, <2>6, <3>1, <3>2
  <2>8. CASE CopyLocal(t)
    <3>1. /\ pc[t] \in Copying /\ pc[t] = "copyLocal" /\ pc'[t] # "copyLocal"
          /\ myLocal'[t] = localBudgets[t]
          /\ copied'[t] = published[t]
          /\ UNCHANGED myNonlocal
      BY <1>5, <2>8 DEF CopyLocal, Goto, Copying, TypeInv, TypeOK, Tx2OK
    <3>2. HeldVid(t) = published[t] /\ HeldVid(t)' = published[t]
      BY <2>1, <3>1 DEF HeldVid
    <3>3. QED BY <2>2, <2>6, <3>1, <3>2
  <2>9. ASSUME NEW b \in Nat, NEW c \in 0 .. RingSize PROVE Drained(b, c) \in Nat
    BY <2>9 DEF Drained, Share
  <2>10. /\ rotor[t] \in Rotors /\ dst[t] \in Racks
         /\ myLocal \in [Tors -> Budgets] /\ myNonlocal \in [Tors -> Budgets]
         /\ queues[t][dst[t]] \in 0 .. RingSize
         /\ nonlocalQueues[t][dst[t]] \in 0 .. RingSize
         /\ myLocal[t][rotor[t]][dst[t]] \in Nat
         /\ myNonlocal[t][rotor[t]][dst[t]] \in Nat
    BY DEF TypeInv, TypeOK, Tx2OK, TrafficOK, Budgets
  <2>11. CASE DrainNonlocal(t)
    <3> DEFINE n == Drained(myNonlocal[t][rotor[t]][dst[t]], nonlocalQueues[t][dst[t]])
    <3>1. n \in Nat
      BY <2>9, <2>10
    <3>2. /\ pc[t] # "copyLocal" /\ pc'[t] # "copyLocal"
          /\ UNCHANGED <<myLocal, copied>>
          /\ myNonlocal'[t] = [myNonlocal[t] EXCEPT ![rotor[t]][dst[t]] = @ - n]
      BY <1>5, <2>10, <2>11 DEF DrainNonlocal
    <3> HIDE DEF n
    <3>3. HeldVid(t)' = copied[t] /\ HeldVid(t) = copied[t]
      BY <3>2 DEF HeldVid
    <3>4. copied[t] # NoVid => OnlyFor(myNonlocal'[t], t, copied[t])
      <4>1. /\ myNonlocal[t] \in Budgets
            /\ copied[t] # NoVid => OnlyFor(myNonlocal[t], t, copied[t])
        BY <2>2, <2>10, <3>3
      <4>2. copied[t] # NoVid =>
               OnlyFor([myNonlocal[t] EXCEPT ![rotor[t]][dst[t]] = @ - n], t, copied[t])
        BY <2>10, <3>1, <4>1, OnlyForLess
      <4>3. QED BY <3>2, <4>2
    <3>5. QED BY <2>2, <3>2, <3>3, <3>4
  <2>12. CASE DrainLocal(t)
    <3> DEFINE n == Drained(myLocal[t][rotor[t]][dst[t]], queues[t][dst[t]])
    <3>1. n \in Nat
      BY <2>9, <2>10
    <3>2. /\ pc[t] # "copyLocal" /\ pc'[t] # "copyLocal"
          /\ UNCHANGED <<myNonlocal, copied>>
          /\ myLocal'[t] = [myLocal[t] EXCEPT ![rotor[t]][dst[t]] = @ - n]
      BY <1>5, <2>10, <2>12 DEF DrainLocal, NextPort
    <3> HIDE DEF n
    <3>3. HeldVid(t)' = copied[t] /\ HeldVid(t) = copied[t]
      BY <3>2 DEF HeldVid
    <3>4. Mode = "direct" /\ copied[t] # NoVid => OnlyFor(myLocal'[t], t, copied[t])
      <4>1. /\ myLocal[t] \in Budgets
            /\ Mode = "direct" /\ copied[t] # NoVid => OnlyFor(myLocal[t], t, copied[t])
        BY <2>2, <2>10
      <4>2. Mode = "direct" /\ copied[t] # NoVid =>
               OnlyFor([myLocal[t] EXCEPT ![rotor[t]][dst[t]] = @ - n], t, copied[t])
        BY <2>10, <3>1, <4>1, OnlyForLess
      <4>3. QED BY <3>2, <4>2
    <3>5. QED BY <2>2, <3>2, <3>3, <3>4
  <2>13. QED BY <2>5, <2>7, <2>8, <2>11, <2>12 DEF Tx2Step
<1>9. QED BY <1>2, <1>3, <1>4, <1>7, <1>8 DEF HandoverInv

LEMMA NextHandoverInv ==
    ASSUME SlotIsLong
    PROVE  TypeInv /\ HandoverInv /\ [Next]_vars => HandoverInv'
<1> SUFFICES ASSUME TypeInv, HandoverInv, [Next]_vars PROVE HandoverInv'
  OBVIOUS
<1>1. CASE UNCHANGED vars
  BY <1>1, TrafficHandoverInv DEF vars
<1>2. ASSUME NEW t \in Tors, NEW d \in Racks, VmSends(t, d) \/ RemoteArrives(t, d)
      PROVE  HandoverInv'
  BY <1>2, TrafficHandoverInv DEF VmSends, RemoteArrives
<1>3. QED
  BY <1>1, <1>2, FrameHandoverInv, SyncHandoverInv, Tx2HandoverInv DEF Next

LEMMA HandoverInvariant == ASSUME SlotIsLong PROVE Spec => [](TypeInv /\ HandoverInv)
BY InitHandoverInv, NextHandoverInv, InitTypeInv, NextTypeInv, PTL DEF Spec

-----------------------------------------------------------------------------
(* The handshake over lock_budget and what the shared and the copied       *)
(* budgets are for (970-1131, 1325-1341), at every moment of every slot.   *)
THEOREM HandoverHolds == ASSUME SlotIsLong PROVE Spec => []HandoverInv
BY HandoverInvariant, PTL

(* If every tx2 loop fits between two sync frames, no tx2 thread copies    *)
(* budgets the sync thread is rewriting (1339-1340 against 970-1094).      *)
THEOREM Exclusive == ASSUME SlotIsLong PROVE Spec => []BudgetsExclusive
BY HandoverInvariant, HandoverExclusive, PTL

LEMMA HandoverMatches == TypeInv /\ HandoverInv => CleanLoopMatches
<1> SUFFICES ASSUME TypeInv, HandoverInv, NEW t \in Tors,
                    t \in clean, pc[t] \in Egress, actMatching[t] > MinMatchingVid
             PROVE  copied[t] = actMatching[t]
  BY DEF CleanLoopMatches
<1>1. HandshakeOf(t) /\ CleanOf(t) /\ PublishedInv
  BY DEF HandoverInv
<1>2. /\ syncPc = "poll"
      /\ actMatching[t] = activeMatching
      /\ copied[t] = published[t]
  BY <1>1 DEF HandshakeOf, CleanOf, Egress
<1>3. QED BY <1>1, <1>2 DEF PublishedInv

(* An undisturbed tx2 loop sends on the budgets of the matching whose VLAN *)
(* id it puts on its packets (1330, 1335-1341, 885).                       *)
THEOREM CleanLoops == ASSUME SlotIsLong PROVE Spec => []CleanLoopMatches
BY HandoverInvariant, HandoverMatches, PTL

(* Only the drain of ToR t takes packets out of its queues, and only within *)
(* the budget it holds.                                                     *)
LEMMA Drains ==
    ASSUME TypeInv, [Next]_vars, NEW t \in Tors, NEW d \in Racks
    PROVE  /\ nonlocalQueues'[t][d] < nonlocalQueues[t][d]
                 => /\ pc[t] = "nonlocal"
                    /\ myNonlocal[t][rotor[t]][d] > 0
           /\ queues'[t][d] < queues[t][d]
                 => /\ pc[t] = "local"
                    /\ myLocal[t][rotor[t]][d] > 0
<1> USE DEF TypeInv, TypeOK
<1>1. /\ queues \in [Tors -> [Racks -> 0 .. RingSize]]
      /\ nonlocalQueues \in [Tors -> [Racks -> 0 .. RingSize]]
      /\ queues[t][d] \in Nat /\ nonlocalQueues[t][d] \in Nat
      /\ RingSize \in Nat /\ BurstSize \in Nat
  BY HandoverAssumption DEF TrafficOK
<1>2. CASE UNCHANGED traffic
  BY <1>1, <1>2 DEF traffic
<1>3. ASSUME NEW s \in Tors, NEW e \in Racks, VmSends(s, e)
      PROVE  UNCHANGED nonlocalQueues /\ ~(queues'[t][d] < queues[t][d])
  BY <1>1, <1>3 DEF VmSends
<1>4. ASSUME NEW s \in Tors, NEW e \in Racks, RemoteArrives(s, e)
      PROVE  UNCHANGED queues /\ ~(nonlocalQueues'[t][d] < nonlocalQueues[t][d])
  BY <1>1, <1>4 DEF RemoteArrives
<1>5. ASSUME NEW count \in Nat, NEW budget \in Nat,
             count - Drained(budget, count) < count
      PROVE  budget > 0
  BY <1>1, <1>5 DEF Drained, Share
<1>6. ASSUME NEW s \in Tors
      PROVE  /\ dst[s] \in Racks /\ rotor[s] \in Rotors
             /\ myLocal[s][rotor[s]][dst[s]] \in Nat
             /\ myNonlocal[s][rotor[s]][dst[s]] \in Nat
  BY DEF Tx2OK, Budgets
<1>7. ASSUME NEW s \in Tors, DrainNonlocal(s),
             nonlocalQueues'[t][d] < nonlocalQueues[t][d]
      PROVE  pc[t] = "nonlocal" /\ myNonlocal[t][rotor[t]][d] > 0
  <2> DEFINE n == Drained(myNonlocal[s][rotor[s]][dst[s]], nonlocalQueues[s][dst[s]])
  <2>1. pc[s] = "nonlocal" /\ nonlocalQueues' = [nonlocalQueues EXCEPT ![s][dst[s]] = @ - n]
    BY <1>7 DEF DrainNonlocal
  <2> HIDE DEF n
  <2>2. s = t /\ d = dst[s]
    BY <1>1, <1>6, <1>7, <2>1
  <2>3. nonlocalQueues'[t][d] = nonlocalQueues[t][d] - n
    BY <1>1, <2>1, <2>2
  <2>4. QED BY <1>1, <1>5, <1>6, <1>7, <2>1, <2>2, <2>3 DEF n
<1>8. ASSUME NEW s \in Tors, DrainLocal(s), queues'[t][d] < queues[t][d]
      PROVE  pc[t] = "local" /\ myLocal[t][rotor[t]][d] > 0
  <2> DEFINE n == Drained(myLocal[s][rotor[s]][dst[s]], queues[s][dst[s]])
  <2>1. pc[s] = "local" /\ queues' = [queues EXCEPT ![s][dst[s]] = @ - n]
    BY <1>8 DEF DrainLocal
  <2> HIDE DEF n
  <2>2. s = t /\ d = dst[s]
    BY <1>1, <1>6, <1>8, <2>1
  <2>3. queues'[t][d] = queues[t][d] - n
    BY <1>1, <2>1, <2>2
  <2>4. QED BY <1>1, <1>5, <1>6, <1>8, <2>1, <2>2, <2>3 DEF n
<1>9. ASSUME NEW s \in Tors, Tx2Step(s), ~DrainNonlocal(s), ~DrainLocal(s)
      PROVE  UNCHANGED traffic
  BY <1>9 DEF Tx2Step, Start, ReadMatching, ReadLock, CopyNonlocal, CopyLocal, PassOver, EnterRotor
<1>10. ASSUME NEW s \in Tors
       PROVE  /\ DrainNonlocal(s) => UNCHANGED queues
              /\ DrainLocal(s) => UNCHANGED nonlocalQueues
  BY DEF DrainNonlocal, DrainLocal
<1>11. CASE SyncStep \/ (\E v \in Vids \cup {MinMatchingVid} : ReceiveFrame(v)) \/ UNCHANGED vars
  BY <1>2, <1>11, SyncEffects DEF ReceiveFrame, vars
<1>12. CASE \E s \in Tors : Tx2Step(s)
  BY <1>1, <1>2, <1>7, <1>8, <1>9, <1>10, <1>12
<1>13. CASE \E s \in Tors, e \in Racks : VmSends(s, e) \/ RemoteArrives(s, e)
  BY <1>1, <1>3, <1>4, <1>13
<1>14. QED BY <1>11, <1>12, <1>13 DEF Next

(* The matching of a clean loop that is draining a queue. *)
LEMMA CleanDrain ==
    ASSUME TypeInv, HandoverInv, NEW t \in Tors, t \in clean, pc[t] \in {"nonlocal", "local"}
    PROVE  copied[t] = actMatching[t] /\ copied[t] # NoVid
<1>1. actMatching[t] > MinMatchingVid
  BY DEF HandoverInv, CleanOf
<1>2. copied[t] = actMatching[t]
  BY <1>1, HandoverMatches DEF CleanLoopMatches, Egress
<1>3. QED BY <1>1, <1>2 DEF MinMatchingVid, NoVid

(* In an undisturbed loop no second-hop packet is sent anywhere but to its *)
(* destination: no packet takes a third hop (924-946).                     *)
THEOREM TwoHops == ASSUME SlotIsLong PROVE Spec => SecondHopInCleanLoop
<1>1. ASSUME TypeInv, HandoverInv, [Next]_vars, NEW t \in Tors, NEW d \in Racks, t \in clean,
             nonlocalQueues'[t][d] < nonlocalQueues[t][d]
      PROVE  d = Qid(t, rotor[t], actMatching[t])
  <2>1. pc[t] = "nonlocal" /\ myNonlocal[t][rotor[t]][d] > 0 /\ rotor[t] \in Rotors
    BY <1>1, Drains DEF TypeInv, TypeOK, Tx2OK
  <2>2. copied[t] = actMatching[t] /\ HeldVid(t) = copied[t] /\ copied[t] # NoVid
    BY <1>1, <2>1, CleanDrain DEF HeldVid
  <2>3. QED BY <1>1, <2>1, <2>2 DEF HandoverInv, NonlocalOf, OnlyFor
<1>2. TypeInv /\ HandoverInv /\ [Next]_vars =>
         [\A t \in Tors, d \in Racks :
             t \in clean /\ nonlocalQueues'[t][d] < nonlocalQueues[t][d]
                 => d = Qid(t, rotor[t], actMatching[t])]_vars
  BY <1>1
<1>3. QED BY <1>2, HandoverInvariant, PTL DEF SecondHopInCleanLoop, Spec

(* Under direct routing likewise for the packets of the VM (949-967).      *)
THEOREM DirectOnly == ASSUME SlotIsLong PROVE Spec => DirectInCleanLoop
<1>1. ASSUME TypeInv, HandoverInv, [Next]_vars, NEW t \in Tors, NEW d \in Racks,
             Mode = "direct", t \in clean, queues'[t][d] < queues[t][d]
      PROVE  d = Qid(t, rotor[t], actMatching[t])
  <2>1. pc[t] = "local" /\ myLocal[t][rotor[t]][d] > 0 /\ rotor[t] \in Rotors
    BY <1>1, Drains DEF TypeInv, TypeOK, Tx2OK
  <2>2. copied[t] = actMatching[t] /\ copied[t] # NoVid
    BY <1>1, <2>1, CleanDrain
  <2>3. QED BY <1>1, <2>1, <2>2 DEF HandoverInv, DirectOf, OnlyFor
<1>2. TypeInv /\ HandoverInv /\ [Next]_vars =>
         [\A t \in Tors, d \in Racks :
             Mode = "direct" /\ t \in clean /\ queues'[t][d] < queues[t][d]
                 => d = Qid(t, rotor[t], actMatching[t])]_vars
  BY <1>1
<1>3. QED BY <1>2, HandoverInvariant, PTL DEF DirectInCleanLoop, Spec

-----------------------------------------------------------------------------
(***************************************************************************)
(* The handover implements a box with room for one allocation.             *)
(***************************************************************************)
BoxOf(t) ==
    IF oldLock[t] # lockBudget[t] /\ pc[t] # "copyLocal"
    THEN {[local |-> localBudgets[t], nonlocal |-> nonlocalBudgets[t]]} ELSE {}
HeldOf(t) ==
    [local    |-> IF pc[t] = "copyLocal" THEN localBudgets[t] ELSE myLocal[t],
     nonlocal |-> myNonlocal[t]]

LEMMA BoxAndHeld ==
    /\ Box = [t \in Tors |-> BoxOf(t)] /\ Held = [t \in Tors |-> HeldOf(t)]
    /\ Box' = [t \in Tors |-> BoxOf(t)'] /\ Held' = [t \in Tors |-> HeldOf(t)']
BY DEF Box, Held, BoxOf, HeldOf

(* A step that changes nothing for any ToR is a stutter of the box.        *)
LEMMA BoxesStay ==
    ASSUME \A t \in Tors : BoxOf(t)' = BoxOf(t) /\ HeldOf(t)' = HeldOf(t)
    PROVE  UNCHANGED <<Box, Held>>
BY BoxAndHeld

(* ... and one that changes something for one ToR is a step of its box.    *)
LEMMA OneBox ==
    ASSUME NEW t \in Tors,
           \A u \in Tors \ {t} : BoxOf(u)' = BoxOf(u) /\ HeldOf(u)' = HeldOf(u)
    PROVE  /\ Box' = [Box EXCEPT ![t] = BoxOf(t)'] /\ Held' = [Held EXCEPT ![t] = HeldOf(t)']
           /\ Box[t] = BoxOf(t) /\ Box'[t] = BoxOf(t)' /\ Held[t] = HeldOf(t)
BY BoxAndHeld

LEMMA HeldAllocation ==
    ASSUME TypeInv, NEW t \in Tors
    PROVE  /\ HeldOf(t) \in Mailbox!Allocations
           /\ [local |-> localBudgets[t], nonlocal |-> nonlocalBudgets[t]] \in Mailbox!Allocations
BY DEF HeldOf, Mailbox!Allocations, Mailbox!Budgets, Budgets, TypeInv, TypeOK, SharedOK, Tx2OK

LEMMA InitMailbox == Init => Mailbox!Init
<1> SUFFICES ASSUME Init PROVE Mailbox!Init
  OBVIOUS
<1>1. \A t \in Tors : BoxOf(t) = {}
  BY DEF Init, BoxOf
<1>2. \A t \in Tors : HeldOf(t) \in Mailbox!Allocations
  BY InitTypeInv, HeldAllocation
<1>3. QED BY <1>1, <1>2, BoxAndHeld DEF Mailbox!Init

(* The sync thread only writes where tx2 has taken what there was, and its *)
(* flip posts what it has written.                                         *)
LEMMA SyncMailbox ==
    ASSUME TypeInv, HandoverInv, TypeInv', SyncStep
    PROVE  [Mailbox!Next]_<<Box, Held>>
<1> PICK s \in Tors : s = syncTor
  BY DEF TypeInv, TypeOK, SyncOK
<1>1. CaughtUp(s)
  BY SyncEffects DEF HandoverInv, HandshakeOf, Pending, TypeInv, TypeOK, SyncOK, Tors
<1>2. UNCHANGED tx2 /\ (~Toggle => UNCHANGED lockBudget)
  BY SyncEffects
<1>3. ASSUME NEW t \in Tors \ {s}
      PROVE  UNCHANGED <<localBudgets[t], nonlocalBudgets[t], lockBudget[t]>>
  BY <1>1 DEF SyncStep, ResetLocal, ResetNonlocal, AssignDirect, AssignFixed, AssignSecondHop,
              AssignLocal, AssignIndirect, Toggle, TypeInv, TypeOK, SharedOK
<1>4. \A t \in Tors \ {s} : BoxOf(t)' = BoxOf(t) /\ HeldOf(t)' = HeldOf(t)
  BY <1>2, <1>3 DEF BoxOf, HeldOf, tx2
<1>5. BoxOf(s) = {} /\ pc[s] # "copyLocal"
  BY <1>1 DEF BoxOf, CaughtUp, Copying
<1>6. HeldOf(s)' = HeldOf(s)
  BY <1>2, <1>5 DEF HeldOf, tx2
<1>7. CASE ~Toggle
  <2>1. BoxOf(s)' = BoxOf(s)
    BY <1>1, <1>2, <1>7 DEF BoxOf, CaughtUp, tx2
  <2>2. QED BY <1>4, <1>6, <2>1, BoxesStay
<1>8. CASE Toggle
  <2>1. lockBudget'[s] # oldLock'[s] /\ pc'[s] # "copyLocal"
    BY <1>1, <1>2, <1>5, <1>8 DEF Toggle, CaughtUp, tx2, TypeInv, TypeOK, SharedOK, Tx2OK, Flag
  <2> DEFINE a == [local |-> localBudgets'[s], nonlocal |-> nonlocalBudgets'[s]]
  <2>2. BoxOf(s)' = {a} /\ a \in Mailbox!Allocations
    <3>1. a \in Mailbox!Allocations
      BY DEF Mailbox!Allocations, Mailbox!Budgets, Budgets, TypeInv, TypeOK, SharedOK
    <3>2. QED BY <2>1, <3>1 DEF BoxOf
  <2> HIDE DEF a
  <2>3. HeldOf(s)' = HeldOf(s) /\ BoxOf(s) = {}
    BY <1>5, <1>6 DEF HeldOf
  <2>4. Mailbox!Post(s)
    <3>1. \A t \in Tors \ {s} : BoxOf(t)' = BoxOf(t) /\ HeldOf(t)' = HeldOf(t)
      BY <1>4
    <3>2. Box[s] = {} /\ Box'[s] = {a} /\ Box' = [Box EXCEPT ![s] = {a}]
      BY <2>2, <2>3, <3>1, OneBox
    <3>3. Held' = Held
      BY <1>4, <2>3, BoxAndHeld
    <3>4. QED BY <2>2, <3>2, <3>3 DEF Mailbox!Post
  <2>5. QED BY <2>4 DEF Mailbox!Next
<1>9. QED BY <1>7, <1>8

(* What a drain takes off a budget. *)
LEMMA DrainedWithin ==
    ASSUME NEW budget \in Nat, NEW count \in Nat
    PROVE  Drained(budget, count) \in 0 .. budget
BY HandoverAssumption DEF Drained, Share

(* A tx2 thread takes what is in its box when it starts to copy, and the   *)
(* second copy changes nothing any more.                                   *)
LEMMA Tx2Mailbox ==
    ASSUME TypeInv, HandoverInv, NEW t \in Tors, Tx2Step(t)
    PROVE  [Mailbox!Next]_<<Box, Held>>
<1>1. \A u \in Tors \ {t} : BoxOf(u)' = BoxOf(u) /\ HeldOf(u)' = HeldOf(u)
  BY Tx2Effects DEF BoxOf, HeldOf, shared
<1>2. UNCHANGED shared /\ HandshakeOf(t)
  BY Tx2Effects DEF HandoverInv
<1>3. /\ pc \in [Tors -> TxSteps] /\ oldLock \in [Tors -> Flag] /\ lockRead \in [Tors -> Flag]
      /\ myLocal \in [Tors -> Budgets] /\ myNonlocal \in [Tors -> Budgets]
      /\ rotor[t] \in Rotors /\ dst[t] \in Racks
  BY DEF TypeInv, TypeOK, Tx2OK
<1>4. CASE Start(t) \/ ReadMatching(t) \/ ReadLock(t) \/ PassOver(t) \/ EnterRotor(t)
  <2>1. UNCHANGED <<myLocal, myNonlocal>> /\ pc[t] \notin Copying /\ pc'[t] # "copyLocal"
    BY <1>3, <1>4 DEF Start, ReadMatching, ReadLock, PassOver, EnterRotor, NextPort, Goto, Copying
  <2>2. oldLock'[t] = oldLock[t]
    BY <1>2, <1>3, <1>4 DEF Start, ReadMatching, ReadLock, PassOver, EnterRotor, HandshakeOf, Goto
  <2>3. BoxOf(t)' = BoxOf(t) /\ HeldOf(t)' = HeldOf(t)
    BY <1>2, <2>1, <2>2 DEF BoxOf, HeldOf, Copying, shared
  <2>4. QED BY <1>1, <2>3, BoxesStay
<1>5. CASE CopyNonlocal(t)
  <2>1. /\ pc[t] = "copyNonlocal" /\ pc'[t] = "copyLocal"
        /\ UNCHANGED <<oldLock, myLocal>> /\ myNonlocal'[t] = nonlocalBudgets[t]
    BY <1>3, <1>5 DEF CopyNonlocal, Goto
  <2>2. oldLock[t] # lockBudget[t]
    BY <1>2, <2>1 DEF HandshakeOf, Copying
  <2> DEFINE a == [local |-> localBudgets[t], nonlocal |-> nonlocalBudgets[t]]
  <2>3. BoxOf(t) = {a} /\ BoxOf(t)' = {} /\ HeldOf(t)' = a
    BY <1>2, <2>1, <2>2 DEF BoxOf, HeldOf, shared
  <2> HIDE DEF a
  <2>4. Mailbox!Take(t)
    <3>1. Box[t] = {a} /\ Box' = [Box EXCEPT ![t] = {}] /\ Held' = [Held EXCEPT ![t] = a]
      BY <1>1, <2>3, OneBox
    <3>2. QED BY <3>1 DEF Mailbox!Take
  <2>5. QED BY <2>4 DEF Mailbox!Next
<1>6. CASE CopyLocal(t)
  <2>1. /\ pc[t] = "copyLocal" /\ pc'[t] = "rotor" /\ oldLock'[t] = lockRead[t]
        /\ UNCHANGED myNonlocal /\ myLocal'[t] = localBudgets[t]
    BY <1>3, <1>6 DEF CopyLocal, Goto
  <2>2. lockRead[t] = lockBudget[t]
    BY <1>2, <2>1 DEF HandshakeOf, Copying
  <2>3. BoxOf(t)' = BoxOf(t) /\ HeldOf(t)' = HeldOf(t)
    BY <1>2, <2>1, <2>2 DEF BoxOf, HeldOf, shared
  <2>4. QED BY <1>1, <2>3, BoxesStay
<1>7. CASE DrainNonlocal(t)
  <2> DEFINE n == Drained(myNonlocal[t][rotor[t]][dst[t]], nonlocalQueues[t][dst[t]])
  <2>1. /\ pc[t] = "nonlocal" /\ pc'[t] \in {"nonlocal", "local"} /\ UNCHANGED <<oldLock, myLocal>>
        /\ myNonlocal' = [myNonlocal EXCEPT ![t][rotor[t]][dst[t]] = @ - n]
    BY <1>3, <1>7 DEF DrainNonlocal
  <2>2. n \in 0 .. myNonlocal[t][rotor[t]][dst[t]]
    <3>1. myNonlocal[t][rotor[t]][dst[t]] \in Nat /\ nonlocalQueues[t][dst[t]] \in Nat
      BY <1>3, HandoverAssumption DEF Budgets, TypeInv, TypeOK, TrafficOK
    <3>2. QED BY <3>1, DrainedWithin
  <2> HIDE DEF n
  <2>3. BoxOf(t)' = BoxOf(t)
    BY <1>2, <2>1 DEF BoxOf, shared
  <2>4. HeldOf(t)' = [HeldOf(t) EXCEPT !.nonlocal[rotor[t]][dst[t]] = @ - n]
    BY <1>3, <2>1 DEF HeldOf
  <2>5. Mailbox!SpendNonlocal(t)
    <3>1. /\ Box' = Box /\ Held[t] = HeldOf(t)
          /\ Held' = [Held EXCEPT ![t] = [HeldOf(t) EXCEPT !.nonlocal[rotor[t]][dst[t]] = @ - n]]
      BY <1>1, <2>3, <2>4, OneBox, BoxAndHeld
    <3>2. Held[t].nonlocal = myNonlocal[t]
      BY <3>1 DEF HeldOf
    <3>3. Held' = [Held EXCEPT ![t].nonlocal[rotor[t]][dst[t]] = @ - n]
      BY <3>1
    <3>4. n \in 0 .. Held[t].nonlocal[rotor[t]][dst[t]]
      BY <2>2, <3>2
    <3>5. \E r \in Rotors, d \in Racks : \E k \in 0 .. Held[t].nonlocal[r][d] :
              Held' = [Held EXCEPT ![t].nonlocal[r][d] = @ - k]
      BY <1>3, <3>3, <3>4, Zenon
    <3>6. QED BY <3>1, <3>5 DEF Mailbox!SpendNonlocal
  <2>6. QED BY <2>5 DEF Mailbox!Next
<1>8. CASE DrainLocal(t)
  <2> DEFINE n == Drained(myLocal[t][rotor[t]][dst[t]], queues[t][dst[t]])
  <2>1. /\ pc[t] = "local" /\ pc'[t] # "copyLocal" /\ UNCHANGED <<oldLock, myNonlocal>>
        /\ myLocal' = [myLocal EXCEPT ![t][rotor[t]][dst[t]] = @ - n]
    BY <1>3, <1>8 DEF DrainLocal, NextPort
  <2>2. n \in 0 .. myLocal[t][rotor[t]][dst[t]]
    <3>1. myLocal[t][rotor[t]][dst[t]] \in Nat /\ queues[t][dst[t]] \in Nat
      BY <1>3, HandoverAssumption DEF Budgets, TypeInv, TypeOK, TrafficOK
    <3>2. QED BY <3>1, DrainedWithin
  <2> HIDE DEF n
  <2>3. BoxOf(t)' = BoxOf(t)
    BY <1>2, <2>1 DEF BoxOf, shared
  <2>4. HeldOf(t)' = [HeldOf(t) EXCEPT !.local[rotor[t]][dst[t]] = @ - n]
    BY <1>3, <2>1 DEF HeldOf
  <2>5. Mailbox!SpendLocal(t)
    <3>1. /\ Box' = Box /\ Held[t] = HeldOf(t)
          /\ Held' = [Held EXCEPT ![t] = [HeldOf(t) EXCEPT !.local[rotor[t]][dst[t]] = @ - n]]
      BY <1>1, <2>3, <2>4, OneBox, BoxAndHeld
    <3>2. Held[t].local = myLocal[t]
      BY <2>1, <3>1 DEF HeldOf
    <3>3. Held' = [Held EXCEPT ![t].local[rotor[t]][dst[t]] = @ - n]
      BY <3>1
    <3>4. n \in 0 .. Held[t].local[rotor[t]][dst[t]]
      BY <2>2, <3>2
    <3>5. \E r \in Rotors, d \in Racks : \E k \in 0 .. Held[t].local[r][d] :
              Held' = [Held EXCEPT ![t].local[r][d] = @ - k]
      BY <1>3, <3>3, <3>4, Zenon
    <3>6. QED BY <3>1, <3>5 DEF Mailbox!SpendLocal
  <2>6. QED BY <2>5 DEF Mailbox!Next
<1>9. QED BY <1>4, <1>5, <1>6, <1>7, <1>8 DEF Tx2Step

LEMMA NextMailbox ==
    ASSUME TypeInv, TypeInv', HandoverInv, [Next]_vars
    PROVE  [Mailbox!Next]_<<Box, Held>>
<1>1. CASE UNCHANGED <<shared, tx2>>
  <2>1. \A t \in Tors : BoxOf(t)' = BoxOf(t) /\ HeldOf(t)' = HeldOf(t)
    BY <1>1 DEF BoxOf, HeldOf, shared, tx2
  <2>2. QED BY <2>1, BoxesStay
<1>2. ASSUME NEW v \in Vids \cup {MinMatchingVid}, ReceiveFrame(v)
      PROVE  UNCHANGED <<Box, Held>>
  <2>1. \A t \in Tors : BoxOf(t)' = BoxOf(t) /\ HeldOf(t)' = HeldOf(t)
    BY <1>2 DEF ReceiveFrame, BoxOf, HeldOf, tx2
  <2>2. QED BY <2>1, BoxesStay
<1>3. CASE \/ \E t \in Tors, d \in Racks : VmSends(t, d) \/ RemoteArrives(t, d)
           \/ UNCHANGED vars
  BY <1>1, <1>3 DEF VmSends, RemoteArrives, vars
<1>4. QED BY <1>2, <1>3, SyncMailbox, Tx2Mailbox DEF Next

(* If every tx2 loop fits between two sync frames, flag and copies         *)
(* implement the box: every allocation is taken once and whole (1036, 1070,*)
(* 1091 and 1335-1342).                                                    *)
THEOREM OneAllocationEach == ASSUME SlotIsLong PROVE Spec => MailboxSpec
<1>1. TypeInv /\ TypeInv' /\ HandoverInv /\ [Next]_vars => [Mailbox!Next]_<<Box, Held>>
  BY NextMailbox
<1>2. QED BY <1>1, InitMailbox, HandoverInvariant, PTL DEF Spec, MailboxSpec, Mailbox!Spec

=============================================================================
