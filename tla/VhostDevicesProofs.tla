------------------------- MODULE VhostDevicesProofs -------------------------
(***************************************************************************)
(* No tx lcore touches a device that destroy_device has freed, no lcore is *)
(* given a second device, and the packets of a VM reach the queues of its  *)
(* own ToR, for every number of ToRs and of blocks.                        *)
(***************************************************************************)
EXTENDS VhostDevices, SumTheorems, TLAPS

(* The part of TypeOK that the argument needs.  device_num and rx_thread_id *)
(* only choose the list of a device, and which one is of no account here.  *)
TypesUsed ==
    /\ mac \in [Blocks -> Tors \cup {NoVm}]
    /\ rxThread = [b \in Blocks |-> rxThread[b]]
    /\ vdevList \in [Tors -> SUBSET Blocks]
    /\ removalFlag \in [Tors -> {"ack", "request"}]
    /\ vhostPc \in {"idle", "waitSafe", "request", "waitAck"}
    /\ asked \in Tors
    /\ txPc \in [Tors -> Holding \cup {"head", "ack", "first", "stopped"}]
    /\ cur \in [Tors -> Blocks \cup {None}]

(* A device in a list is connected, and knows which list it is in.         *)
ListsOfConnected ==
    \A t \in Tors : \A b \in vdevList[t] : b \in Connected /\ rxThread[b] = t

(* destroy_device works on a connected device and looks at the lcores from *)
(* the first one on.                                                       *)
VictimConnected ==
    /\ vhostPc # "idle" => victim \in Connected
    /\ vhostPc \in {"idle", "waitSafe"} => asked = 0

(* Once the lcores are being asked the device is in no list ...            *)
Unlinked == vhostPc \in {"request", "waitAck"}

VictimUnlinked ==
    Unlinked => \A t \in Tors : victim \notin vdevList[t]

(* ... and a lcore that has acknowledged does not come back to it.         *)
AckMeansCleared ==
    \A t \in Tors :
        /\ vhostPc = "waitAck" \/ (vhostPc = "request" /\ t < asked)
        /\ removalFlag[t] = "ack"
        => ~(txPc[t] \in Holding /\ cur[t] = victim)

(* The lcores that destroy_device has gone past have acknowledged.         *)
PassedHaveAcked ==
    vhostPc = "waitAck" => \A t \in Tors : t < asked => removalFlag[t] = "ack"

Inv ==
    /\ TypesUsed
    /\ ListsOfConnected
    /\ VictimConnected
    /\ VictimUnlinked
    /\ AckMeansCleared
    /\ PassedHaveAcked
    /\ TxOnLiveDevice

(***************************************************************************)
(* The callbacks.                                                          *)
(***************************************************************************)
LEMMA InitInv == Init => Inv
<1> USE DevicesAssumption
<1>1. SUFFICES ASSUME Init PROVE Inv
  OBVIOUS
<1>2. TypesUsed
  BY <1>1 DEF Init, TypesUsed, Tors, NoVm
<1>3. ListsOfConnected /\ VictimConnected /\ VictimUnlinked
  BY <1>1 DEF Init, ListsOfConnected, VictimConnected, VictimUnlinked, Unlinked
<1>4. AckMeansCleared /\ PassedHaveAcked /\ TxOnLiveDevice
  BY <1>1 DEF Init, AckMeansCleared, PassedHaveAcked, TxOnLiveDevice, Holding
<1>5. QED BY <1>2, <1>3, <1>4 DEF Inv

LEMMA NewDeviceInv ==
    ASSUME Inv, NEW m \in Tors, NEW b \in Blocks, NewDevice(m, b)
    PROVE  Inv'
<1> USE DevicesAssumption
<1> DEFINE c == CoreToAdd
<1> HIDE DEF c
<1>1. /\ vhostPc = "idle" /\ b \notin Connected
      /\ mac' = [mac EXCEPT ![b] = m]
      /\ rxThread' = [rxThread EXCEPT ![b] = c]
      /\ vdevList' = [vdevList EXCEPT ![c] = @ \cup {b}]
      /\ UNCHANGED <<removalFlag, vhost, tx>>
  BY DEF NewDevice, c
<1>2. TypesUsed'
  BY <1>1 DEF Inv, TypesUsed, vhost, tx
<1>3. Connected' = Connected \cup {b}
  BY <1>1 DEF Inv, TypesUsed, Connected, Tors, NoVm
<1>4. ListsOfConnected'
  BY <1>1, <1>3 DEF Inv, TypesUsed, ListsOfConnected
<1>5. (VictimConnected /\ VictimUnlinked)'
  BY <1>1 DEF Inv, VictimConnected, VictimUnlinked, Unlinked, vhost
<1>6. (AckMeansCleared /\ PassedHaveAcked)'
  BY <1>1 DEF AckMeansCleared, PassedHaveAcked, vhost
<1>7. TxOnLiveDevice'
  BY <1>1, <1>3 DEF Inv, TxOnLiveDevice, tx
<1>8. QED BY <1>2, <1>4, <1>5, <1>6, <1>7 DEF Inv

LEMMA MarkRemovedInv ==
    ASSUME Inv, NEW b \in Blocks, MarkRemoved(b)
    PROVE  Inv'
<1>1. /\ vhostPc = "idle" /\ vhostPc' = "waitSafe"
      /\ victim' = b /\ b \in Connected
      /\ UNCHANGED <<mac, rxThread, vdevList, removalFlag, asked, tx>>
  BY DEF MarkRemoved, threads
<1>2. Connected' = Connected
  BY <1>1 DEF Connected
<1>3. TypesUsed' /\ ListsOfConnected'
  BY <1>1, <1>2 DEF Inv, TypesUsed, ListsOfConnected, tx
<1>4. (VictimConnected /\ VictimUnlinked)'
  BY <1>1, <1>2 DEF Inv, VictimConnected, VictimUnlinked, Unlinked
<1>5. (AckMeansCleared /\ PassedHaveAcked)'
  BY <1>1 DEF AckMeansCleared, PassedHaveAcked
<1>6. TxOnLiveDevice'
  BY <1>1, <1>2 DEF Inv, TxOnLiveDevice, tx
<1>7. QED BY <1>3, <1>4, <1>5, <1>6 DEF Inv

LEMMA UnlinkInv ==
    ASSUME Inv, Unlink
    PROVE  Inv'
<1> USE DevicesAssumption
<1>1. /\ vhostPc = "waitSafe" /\ vhostPc' = "request" /\ asked = 0
      /\ vdevList' = [vdevList EXCEPT ![rxThread[victim]] = @ \ {victim}]
      /\ UNCHANGED <<mac, rxThread, removalFlag, victim, asked, tx>>
  BY DEF Unlink, device, Inv, VictimConnected
<1>2. Connected' = Connected
  BY <1>1 DEF Connected
<1>3. TypesUsed'
  BY <1>1 DEF Inv, TypesUsed, tx
<1>4. ListsOfConnected'
  BY <1>1, <1>2 DEF Inv, TypesUsed, ListsOfConnected
<1>5. VictimUnlinked'
  BY <1>1 DEF Inv, TypesUsed, ListsOfConnected, VictimUnlinked
<1>6. VictimConnected'
  BY <1>1, <1>2 DEF Inv, VictimConnected
<1>7. (AckMeansCleared /\ PassedHaveAcked)'
  BY <1>1 DEF AckMeansCleared, PassedHaveAcked, Tors
<1>8. TxOnLiveDevice'
  BY <1>1, <1>2 DEF Inv, TxOnLiveDevice, tx
<1>9. QED BY <1>3, <1>4, <1>5, <1>6, <1>7, <1>8 DEF Inv

LEMMA RequestRemovalInv ==
    ASSUME Inv, RequestRemoval
    PROVE  Inv'
<1> USE DevicesAssumption
<1>1. /\ vhostPc = "request"
      /\ removalFlag' = [removalFlag EXCEPT ![asked] = "request"]
      /\ UNCHANGED <<mac, rxThread, vdevList, victim, tx>>
  BY DEF RequestRemoval, device
<1>2. \/ asked + 1 < NumTors /\ asked' = asked + 1 /\ vhostPc' = "request"
      \/ ~(asked + 1 < NumTors) /\ asked' = 0 /\ vhostPc' = "waitAck"
  BY <1>1 DEF RequestRemoval
<1>3. Connected' = Connected
  BY <1>1 DEF Connected
<1>4. TypesUsed'
  BY <1>1, <1>2 DEF Inv, TypesUsed, Tors, tx
<1>5. ListsOfConnected'
  BY <1>1, <1>3 DEF Inv, ListsOfConnected
<1>6. (VictimConnected /\ VictimUnlinked)'
  BY <1>1, <1>2, <1>3 DEF Inv, VictimConnected, VictimUnlinked, Unlinked
<1>7. AckMeansCleared'
  <2>1. SUFFICES ASSUME NEW t \in Tors, removalFlag'[t] = "ack",
                        vhostPc' = "waitAck" \/ (vhostPc' = "request" /\ t < asked')
                 PROVE  ~(txPc'[t] \in Holding /\ cur'[t] = victim')
    BY DEF AckMeansCleared
  <2>2. t # asked /\ removalFlag[t] = "ack"
    BY <1>1, <2>1 DEF Inv, TypesUsed
  <2>3. t < asked
    BY <1>2, <2>1, <2>2 DEF Inv, TypesUsed, Tors
  <2>4. QED BY <1>1, <2>2, <2>3 DEF Inv, AckMeansCleared, tx
<1>8. PassedHaveAcked'
  BY <1>2 DEF PassedHaveAcked, Tors
<1>9. TxOnLiveDevice'
  BY <1>1, <1>3 DEF Inv, TxOnLiveDevice, tx
<1>10. QED BY <1>4, <1>5, <1>6, <1>7, <1>8, <1>9 DEF Inv

LEMMA AwaitAckInv ==
    ASSUME Inv, AwaitAck
    PROVE  Inv'
<1> USE DevicesAssumption
<1>1. /\ vhostPc = "waitAck" /\ asked' = asked + 1 /\ asked + 1 < NumTors
      /\ removalFlag[asked] = "ack"
      /\ UNCHANGED <<mac, rxThread, vdevList, removalFlag, vhostPc, victim, tx>>
  BY DEF AwaitAck, device, threads
<1>2. Connected' = Connected
  BY <1>1 DEF Connected
<1>3. asked' \in Tors
  BY <1>1 DEF Inv, TypesUsed, Tors
<1>4. TypesUsed' /\ ListsOfConnected'
  BY <1>1, <1>2, <1>3 DEF Inv, TypesUsed, ListsOfConnected, tx
<1>5. (VictimConnected /\ VictimUnlinked)'
  BY <1>1, <1>2 DEF Inv, VictimConnected, VictimUnlinked, Unlinked
<1>6. AckMeansCleared'
  BY <1>1 DEF Inv, AckMeansCleared, tx
<1>7. PassedHaveAcked'
  BY <1>1 DEF Inv, TypesUsed, PassedHaveAcked, Tors
<1>8. TxOnLiveDevice'
  BY <1>1, <1>2 DEF Inv, TxOnLiveDevice, tx
<1>9. QED BY <1>4, <1>5, <1>6, <1>7, <1>8 DEF Inv

(* Every lcore has acknowledged when the device is freed.                  *)
LEMMA FreeInv ==
    ASSUME Inv, Free
    PROVE  Inv'
<1> USE DevicesAssumption
<1>1. /\ vhostPc = "waitAck" /\ vhostPc' = "idle" /\ asked' = 0
      /\ asked + 1 = NumTors /\ removalFlag[asked] = "ack"
      /\ mac' = [mac EXCEPT ![victim] = NoVm]
      /\ rxThread' = [rxThread EXCEPT ![victim] = 0]
      /\ UNCHANGED <<vdevList, removalFlag, tx>>
  BY DEF Free, Wipe
<1>2. victim \in Connected /\ victim \in Blocks
  BY <1>1 DEF Inv, VictimConnected, Connected
<1>3. Connected' = Connected \ {victim}
  BY <1>1, <1>2 DEF Inv, TypesUsed, Connected
<1>4. mac' \in [Blocks -> Tors \cup {NoVm}] /\ asked' \in Tors
  BY <1>1, <1>2 DEF Inv, TypesUsed, Tors
<1>5. rxThread' = [b \in Blocks |-> rxThread'[b]]
  BY <1>1 DEF Inv, TypesUsed
<1>6. TypesUsed'
  BY <1>1, <1>4, <1>5 DEF Inv, TypesUsed, tx
<1>7. ListsOfConnected'
  BY <1>1, <1>2, <1>3 DEF Inv, TypesUsed, ListsOfConnected, VictimUnlinked, Unlinked
<1>8. (VictimConnected /\ VictimUnlinked)'
  BY <1>1 DEF VictimConnected, VictimUnlinked, Unlinked
<1>9. (AckMeansCleared /\ PassedHaveAcked)'
  BY <1>1 DEF AckMeansCleared, PassedHaveAcked
<1>10. \A t \in Tors : removalFlag[t] = "ack"
  BY <1>1 DEF Inv, TypesUsed, PassedHaveAcked, Tors
<1>11. TxOnLiveDevice'
  BY <1>1, <1>3, <1>10 DEF Inv, AckMeansCleared, TxOnLiveDevice, tx
<1>12. QED BY <1>6, <1>7, <1>8, <1>9, <1>11 DEF Inv

(***************************************************************************)
(* The tx lcores.                                                          *)
(***************************************************************************)

(* A step that changes neither the lists nor the flags, and that moves one *)
(* lcore on, is safe if the lcore had the same device before, or has none. *)
LEMMA WalkInv ==
    ASSUME Inv, NEW t \in Tors,
           UNCHANGED <<mac, rxThread, vdevList, removalFlag, vhost, cur>>,
           NEW pc \in Holding \cup {"head", "ack", "first", "stopped"},
           txPc' = [txPc EXCEPT ![t] = pc],
           pc \in Holding => txPc[t] \in Holding
    PROVE  Inv'
<1>1. Connected' = Connected
  BY DEF Connected
<1>2. TypesUsed'
  BY DEF Inv, TypesUsed, vhost
<1>3. (ListsOfConnected /\ VictimConnected /\ VictimUnlinked /\ PassedHaveAcked)'
  BY <1>1 DEF Inv, ListsOfConnected, VictimConnected, VictimUnlinked, Unlinked,
              PassedHaveAcked, vhost
<1>4. \A u \in Tors : txPc'[u] \in Holding => txPc[u] \in Holding
  BY DEF Inv, TypesUsed
<1>5. AckMeansCleared'
  BY <1>4 DEF Inv, AckMeansCleared, vhost
<1>6. TxOnLiveDevice'
  BY <1>1, <1>4 DEF Inv, TxOnLiveDevice
<1>7. QED BY <1>2, <1>3, <1>5, <1>6 DEF Inv

(* A lcore acknowledges between two walks.                                 *)
LEMMA AcknowledgeInv ==
    ASSUME Inv, NEW t \in Tors, Acknowledge(t)
    PROVE  Inv'
<1>1. /\ txPc' = [txPc EXCEPT ![t] = "first"]
      /\ removalFlag' = [removalFlag EXCEPT ![t] = "ack"]
      /\ UNCHANGED <<mac, rxThread, vdevList, vhost, cur>>
  BY DEF Acknowledge, TxGoto, device
<1>2. Connected' = Connected
  BY <1>1 DEF Connected
<1>3. TypesUsed'
  BY <1>1 DEF Inv, TypesUsed, vhost
<1>4. (ListsOfConnected /\ VictimConnected /\ VictimUnlinked)'
  BY <1>1, <1>2 DEF Inv, ListsOfConnected, VictimConnected, VictimUnlinked, Unlinked, vhost
<1>5. /\ txPc'[t] \notin Holding
      /\ \A u \in Tors \ {t} : txPc'[u] = txPc[u] /\ removalFlag'[u] = removalFlag[u]
  BY <1>1 DEF Inv, TypesUsed, Holding
<1>6. AckMeansCleared'
  BY <1>1, <1>5 DEF Inv, AckMeansCleared, vhost
<1>7. PassedHaveAcked'
  BY <1>1 DEF Inv, TypesUsed, PassedHaveAcked, vhost
<1>8. TxOnLiveDevice'
  BY <1>1, <1>2, <1>5 DEF Inv, TxOnLiveDevice
<1>9. QED BY <1>3, <1>4, <1>6, <1>7, <1>8 DEF Inv

(* The next device of a walk comes from the list, where the one that is    *)
(* being removed no longer is.                                             *)
LEMMA VisitInv ==
    ASSUME Inv, NEW t \in Tors, NEW seen, Visit(t, seen),
           UNCHANGED <<mac, rxThread, vdevList, removalFlag, vhost>>
    PROVE  Inv'
<1> USE DevicesAssumption
<1>1. PICK next \in vdevList[t] \cup {None}, pc \in {"check", "head"} :
          /\ cur' = [cur EXCEPT ![t] = next]
          /\ txPc' = [txPc EXCEPT ![t] = pc]
          /\ pc = "check" => next \in vdevList[t]
  BY Zenon DEF Visit
<1>2. Connected' = Connected
  BY DEF Connected
<1>3. TypesUsed'
  BY <1>1 DEF Inv, TypesUsed, Holding, vhost
<1>4. (ListsOfConnected /\ VictimConnected /\ VictimUnlinked /\ PassedHaveAcked)'
  BY <1>2 DEF Inv, ListsOfConnected, VictimConnected, VictimUnlinked, Unlinked,
              PassedHaveAcked, vhost
<1>5. /\ txPc'[t] \in Holding => cur'[t] \in vdevList[t]
      /\ \A u \in Tors \ {t} : txPc'[u] = txPc[u] /\ cur'[u] = cur[u]
  BY <1>1 DEF Inv, TypesUsed, Holding
<1>6. AckMeansCleared'
  BY <1>5 DEF Inv, AckMeansCleared, VictimUnlinked, Unlinked, vhost
<1>7. TxOnLiveDevice'
  BY <1>2, <1>5 DEF Inv, ListsOfConnected, TxOnLiveDevice
<1>8. QED BY <1>3, <1>4, <1>6, <1>7 DEF Inv

LEMMA TxStepInv ==
    ASSUME Inv, NEW t \in Tors, TxStep(t)
    PROVE  Inv'
<1> DEFINE Walks(pc) ==
       /\ UNCHANGED <<mac, rxThread, vdevList, removalFlag, vhost, cur>>
       /\ txPc' = [txPc EXCEPT ![t] = pc]
       /\ pc \in Holding => txPc[t] \in Holding
<1>1. CASE TxHead(t)
  <2>1. PICK pc \in {"stopped", "ack"} : Walks(pc)
    BY <1>1 DEF TxHead, TxGoto, device, threads, Holding
  <2>2. QED BY <2>1, WalkInv
<1>2. CASE Acknowledge(t)
  BY <1>2, AcknowledgeInv
<1>3. CASE TxFirst(t)
  BY <1>3, VisitInv DEF TxFirst, device, threads
<1>4. CASE TxNext(t)
  BY <1>4, VisitInv DEF TxNext, device, threads
<1>5. CASE LetGo(t) \/ DequeueNone(t) \/ MapBurst(t)
  <2>1. Walks("next") /\ "next" \in Holding
    BY <1>5 DEF LetGo, DequeueNone, MapBurst, TxGoto, device, threads, Holding
  <2>2. QED BY <2>1, WalkInv
<1>6. CASE Keep(t)
  <2>1. Walks("checkAgain") /\ "checkAgain" \in Holding
    BY <1>6 DEF Keep, TxGoto, device, threads, Holding
  <2>2. QED BY <2>1, WalkInv
<1>7. CASE CheckAgain(t)
  <2>1. PICK pc \in {"next", "dequeue"} : Walks(pc)
    BY <1>7 DEF CheckAgain, TxGoto, device, threads, Holding
  <2>2. pc \in Holding
    BY <2>1 DEF Holding
  <2>3. QED BY <2>1, <2>2, WalkInv
<1>8. CASE DequeueBurst(t)
  <2>1. PICK pc \in {"link", "map"} : Walks(pc)
    BY <1>8 DEF DequeueBurst, TxGoto, device, threads, Holding
  <2>2. pc \in Holding
    BY <2>1 DEF Holding
  <2>3. QED BY <2>1, <2>2, WalkInv
<1>9. CASE LinkQueues(t)
  <2>1. Walks("map") /\ "map" \in Holding
    BY <1>9 DEF LinkQueues, TxGoto, Holding
  <2>2. QED BY <2>1, WalkInv
<1>10. QED BY <1>1, <1>2, <1>3, <1>4, <1>5, <1>6, <1>7, <1>8, <1>9 DEF TxStep

(***************************************************************************)
(* All steps.  The rx lcores and the signal change nothing of this.        *)
(***************************************************************************)
LEMMA UntouchedInv ==
    ASSUME Inv, UNCHANGED <<mac, rxThread, vdevList, removalFlag, vhost, txPc, cur>>
    PROVE  Inv'
<1>1. Connected' = Connected
  BY DEF Connected
<1>2. TypesUsed'
  BY DEF Inv, TypesUsed, vhost
<1>3. QED
  BY <1>1, <1>2 DEF Inv, ListsOfConnected, VictimConnected, VictimUnlinked, Unlinked,
                    AckMeansCleared, PassedHaveAcked, TxOnLiveDevice, vhost

LEMMA NextInv == Inv /\ [Next]_vars => Inv'
<1>1. SUFFICES ASSUME Inv, [Next]_vars PROVE Inv'
  OBVIOUS
<1>2. CASE \E m \in Tors, b \in Blocks : NewDevice(m, b)
  BY <1>1, <1>2, NewDeviceInv
<1>3. CASE \E b \in Blocks : MarkRemoved(b)
  BY <1>1, <1>3, MarkRemovedInv
<1>4. CASE Destroying
  BY <1>1, <1>4, UnlinkInv, RequestRemovalInv, AwaitAckInv, FreeInv DEF Destroying
<1>5. CASE \E t \in Tors : TxStep(t)
  BY <1>1, <1>5, TxStepInv
<1>6. CASE \E t \in Tors : RxStep(t)
  <2>1. UNCHANGED <<device, threads, vhost, tx>>
    BY <1>6 DEF RxStep, RxStop, RxLoad, RxSend, RxRotors, RxGoto
  <2>2. QED BY <1>1, <2>1, UntouchedInv DEF device, threads, tx
<1>7. CASE Signal \/ StopLcores
  BY <1>1, <1>7, UntouchedInv DEF Signal, StopLcores, device, threads, tx
<1>8. CASE UNCHANGED vars
  BY <1>1, <1>8, UntouchedInv DEF vars, device, threads, tx
<1>9. QED BY <1>1, <1>2, <1>3, <1>4, <1>5, <1>6, <1>7, <1>8 DEF Next

(* A tx lcore never touches a device that destroy_device has freed         *)
(* (main.c:1728-1744).                                                     *)
THEOREM TxNeverDangles == Spec => []TxOnLiveDevice
<1>1. Inv => TxOnLiveDevice
  BY DEF Inv
<1>2. QED BY InitInv, NextInv, <1>1, PTL DEF Spec

-----------------------------------------------------------------------------
(***************************************************************************)
(* Which thread a device is given, and whose queues its packets reach.     *)
(***************************************************************************)
Served(t) == {b \in Connected : rxThread[b] = t}

(* One connection per VM, and device_num counts the devices of a thread,   *)
(* of which there is at most one.                                          *)
OneConnectionEach == \A b, c \in Connected : mac[b] = mac[c] => b = c

DevicesCounted == \A t \in Tors : deviceNum[t] = IF Served(t) = {} THEN 0 ELSE 1

(* The device a tx lcore holds is its own, ...                             *)
HoldsOwn == \A t \in Tors : txPc[t] \in Holding => rxThread[cur[t]] = t

(* ... and it goes on with a device only while it is not marked safe.      *)
AtWork == {"checkAgain", "dequeue", "link", "map"}

SafeIsRemoved == \A b \in Blocks : ready[b] = "safe" => remove[b]

NotSafeAtWork == \A t \in Tors : txPc[t] \in AtWork => ready[cur[t]] # "safe"

(* The lcore of a linked device fills the queues of the ToR of its VM.     *)
LinkedToOwn == \A b \in Connected : ready[b] = "rx" => torId[rxThread[b]] = mac[b]

LinkedAtMap == \A t \in Tors : txPc[t] = "map" => ready[cur[t]] = "rx"

Own ==
    /\ TypeOK
    /\ OneConnectionEach
    /\ OneDevicePerThread
    /\ DevicesCounted
    /\ HoldsOwn
    /\ SafeIsRemoved
    /\ NotSafeAtWork
    /\ LinkedToOwn
    /\ LinkedAtMap

(* As long as a VM is not connected there is a thread without a device: if *)
(* each had one, the VMs of these would be all there are.                  *)
LEMMA SomeThreadIdle ==
    ASSUME Own, NEW m \in Tors, m \notin {mac[c] : c \in Connected}
    PROVE  \E t \in Tors : deviceNum[t] < 1
<1> USE DevicesAssumption
<1>1. SUFFICES ASSUME \A t \in Tors : Served(t) # {} PROVE FALSE
  BY DEF Own, DevicesCounted
<1> DEFINE device_(t) == CHOOSE b \in Connected : rxThread[b] = t
           f == [t \in Tors |-> mac[device_(t)]]
<1>2. \A t \in Tors : device_(t) \in Connected /\ rxThread[device_(t)] = t
  BY <1>1 DEF Served
<1>3. \A c \in Connected : mac[c] \in Tors
  BY DEF Connected, Own, TypeOK
<1>4. f \in [Tors -> Tors \ {m}]
  BY <1>2, <1>3
<1>5. /\ IsFiniteSet(Tors) /\ IsFiniteSet(Tors \ {m})
      /\ Cardinality(Tors \ {m}) < Cardinality(Tors)
  <2>1. 0 \in Int /\ NumTors - 1 \in Int /\ ~(0 > NumTors - 1)
    OBVIOUS
  <2>2. IsFiniteSet(Tors) /\ Cardinality(Tors) = NumTors
    BY <2>1, FS_Interval DEF Tors
  <2>3. IsFiniteSet(Tors \ {m}) /\ Cardinality(Tors \ {m}) = Cardinality(Tors) - 1
    BY <2>2, FS_RemoveElement
  <2>4. QED BY <2>2, <2>3
<1>6. PICK t, u \in Tors : t # u /\ f[t] = f[u]
  <2> HIDE DEF f
  <2> QED BY <1>4, <1>5, FS_PigeonHole
<1>7. device_(t) = device_(u)
  <2>1. mac[device_(t)] = mac[device_(u)]
    BY <1>6
  <2> HIDE DEF device_
  <2> QED BY <1>2, <2>1 DEF Own, OneConnectionEach
<1>8. QED BY <1>2, <1>6, <1>7

LEMMA CoreIsIdle ==
    ASSUME Own, NEW m \in Tors, m \notin {mac[c] : c \in Connected}
    PROVE  CoreToAdd \in Tors /\ Served(CoreToAdd) = {}
<1> USE DevicesAssumption
<1> DEFINE idle == {t \in Tors : deviceNum[t] < 1}
<1>1. idle # {} /\ idle \in SUBSET Nat
  BY SomeThreadIdle DEF Tors
<1>2. \E t \in idle : \A u \in idle : t <= u
  <2> HIDE DEF idle
  <2> QED BY <1>1, Least
<1>3. CoreToAdd \in idle
  <2>1. CoreToAdd = CHOOSE t \in idle : \A u \in idle : t <= u
    BY <1>1 DEF CoreToAdd
  <2> HIDE DEF idle
  <2> QED BY <1>2, <2>1
<1>4. QED BY <1>3 DEF Own, DevicesCounted

LEMMA InitOwn == Init => Own
<1> USE DevicesAssumption
<1>1. SUFFICES ASSUME Init PROVE Own
  OBVIOUS
<1>2. Connected = {} /\ 0 \in Tors
  BY <1>1 DEF Init, Connected, Tors
<1>3. TypeOK
  BY <1>1, <1>2 DEF Init, TypeOK
<1>4. OneConnectionEach /\ OneDevicePerThread /\ LinkedToOwn
  BY <1>2 DEF OneConnectionEach, OneDevicePerThread, LinkedToOwn
<1>5. DevicesCounted
  BY <1>1, <1>2 DEF Init, DevicesCounted, Served
<1>6. HoldsOwn /\ SafeIsRemoved /\ NotSafeAtWork /\ LinkedAtMap
  BY <1>1 DEF Init, HoldsOwn, SafeIsRemoved, NotSafeAtWork, LinkedAtMap, Holding, AtWork
<1>7. QED BY <1>3, <1>4, <1>5, <1>6 DEF Own

LEMMA NewDeviceOwn ==
    ASSUME Inv, Own, NEW m \in Tors, NEW b \in Blocks, NewDevice(m, b)
    PROVE  Own'
<1> USE DevicesAssumption
<1> DEFINE c == CoreToAdd
<1>1. c \in Tors /\ Served(c) = {}
  BY CoreIsIdle DEF NewDevice
<1> HIDE DEF c
<1>2. /\ m \notin {mac[d] : d \in Connected} /\ b \notin Connected
      /\ mac' = [mac EXCEPT ![b] = m]
      /\ rxThread' = [rxThread EXCEPT ![b] = c]
      /\ ready' = [ready EXCEPT ![b] = "learning"]
      /\ remove' = [remove EXCEPT ![b] = FALSE]
      /\ vdevList' = [vdevList EXCEPT ![c] = @ \cup {b}]
      /\ deviceNum' = [deviceNum EXCEPT ![c] = @ + 1]
      /\ UNCHANGED <<removalFlag, torId, vdev, vhost, tx, rx, stop>>
  BY DEF NewDevice, c
<1>3. TypeOK'
  BY <1>1, <1>2 DEF Own, TypeOK, vhost, tx, rx, stop
<1>4. Connected' = Connected \cup {b}
  BY <1>2 DEF Own, TypeOK, Connected, Tors, NoVm
<1>5. \A d \in Blocks : d # b => /\ mac'[d] = mac[d] /\ rxThread'[d] = rxThread[d]
                                 /\ ready'[d] = ready[d] /\ remove'[d] = remove[d]
  BY <1>2 DEF Own, TypeOK
<1>6. mac'[b] = m /\ rxThread'[b] = c /\ ready'[b] = "learning" /\ ~remove'[b]
  BY <1>2 DEF Own, TypeOK
<1>7. Connected \subseteq Blocks
  BY DEF Connected
<1>8. OneConnectionEach'
  BY <1>2, <1>4, <1>5, <1>6, <1>7 DEF Own, OneConnectionEach
<1>9. OneDevicePerThread'
  BY <1>1, <1>4, <1>5, <1>6, <1>7 DEF Own, OneDevicePerThread, Served
<1>10. DevicesCounted'
  <2>1. \A t \in Tors : Served(t)' = IF t = c THEN Served(t) \cup {b} ELSE Served(t)
    BY <1>2, <1>4, <1>5, <1>6, <1>7 DEF Served
  <2>2. deviceNum[c] = 0 /\ deviceNum'[c] = 1
    BY <1>1, <1>2 DEF Own, TypeOK, DevicesCounted
  <2>3. \A t \in Tors : t # c => deviceNum'[t] = deviceNum[t]
    BY <1>2 DEF Own, TypeOK
  <2>4. \A t \in Tors : t = c => Served(t)' # {}
    BY <1>1, <2>1
  <2> QED BY <2>1, <2>2, <2>3, <2>4 DEF Own, DevicesCounted
<1>11. \A t \in Tors : txPc[t] \in Holding => cur[t] \in Blocks /\ cur[t] # b
  BY <1>2, <1>7 DEF Inv, TxOnLiveDevice
<1>12. HoldsOwn' /\ NotSafeAtWork' /\ LinkedAtMap'
  BY <1>2, <1>5, <1>11 DEF Own, HoldsOwn, NotSafeAtWork, LinkedAtMap, tx, Holding, AtWork
<1>13. SafeIsRemoved' /\ LinkedToOwn'
  BY <1>2, <1>4, <1>5, <1>6, <1>7 DEF Own, SafeIsRemoved, LinkedToOwn
<1>14. QED BY <1>3, <1>8, <1>9, <1>10, <1>12, <1>13 DEF Own

(* Steps that leave the devices, their counts and the ToRs learnt alone.   *)
LEMMA SameDevices ==
    ASSUME Own, TypeOK', UNCHANGED <<mac, rxThread, ready, deviceNum, torId>>,
           \A b \in Blocks : remove[b] => remove'[b],
           \A t \in Tors : txPc'[t] \in Holding => rxThread[cur'[t]] = t,
           \A t \in Tors : txPc'[t] \in AtWork => ready[cur'[t]] # "safe",
           \A t \in Tors : txPc'[t] = "map" => ready[cur'[t]] = "rx"
    PROVE  Own'
<1>1. Connected' = Connected
  BY DEF Connected
<1>2. (OneConnectionEach /\ OneDevicePerThread)'
  BY <1>1 DEF Own, OneConnectionEach, OneDevicePerThread
<1>3. DevicesCounted'
  BY <1>1 DEF Own, DevicesCounted, Served
<1>4. (SafeIsRemoved /\ LinkedToOwn)'
  BY <1>1 DEF Own, SafeIsRemoved, LinkedToOwn
<1>5. (HoldsOwn /\ NotSafeAtWork /\ LinkedAtMap)'
  BY DEF HoldsOwn, NotSafeAtWork, LinkedAtMap
<1>6. QED BY <1>2, <1>3, <1>4, <1>5 DEF Own

LEMMA HandshakeOwn ==
    ASSUME Inv, Own,
           (\E b \in Blocks : MarkRemoved(b)) \/ Unlink \/ RequestRemoval \/ AwaitAck
    PROVE  Own'
<1> USE DevicesAssumption
<1>1. victim \in Blocks \/ vhostPc = "idle"
  BY DEF Inv, VictimConnected, Connected
<1>2. /\ UNCHANGED <<mac, rxThread, ready, deviceNum, torId, vdev, tx, rx, stop>>
      /\ \A b \in Blocks : remove[b] => remove'[b]
  BY DEF MarkRemoved, Unlink, RequestRemoval, AwaitAck, device, threads, Own, TypeOK
<1>3. TypeOK'
  <2>1. CASE \E b \in Blocks : MarkRemoved(b)
    BY <1>2, <2>1 DEF MarkRemoved, Own, TypeOK, threads, tx, rx, stop
  <2>2. CASE Unlink
    BY <1>1, <1>2, <2>2 DEF Unlink, Own, TypeOK, device, tx, rx, stop
  <2>3. CASE RequestRemoval
    <3>1. asked' \in Tors
      <4>1. \/ asked + 1 < NumTors /\ asked' = asked + 1
            \/ asked' = 0
        BY <2>3 DEF RequestRemoval
      <4>2. asked \in Tors
        BY DEF Own, TypeOK
      <4>3. QED BY <4>1, <4>2 DEF Tors
    <3>2. vhostPc' \in {"request", "waitAck"}
      BY <2>3 DEF RequestRemoval
    <3>3. QED
      BY <1>2, <2>3, <3>1, <3>2 DEF RequestRemoval, Own, TypeOK, device, tx, rx, stop
  <2>4. CASE AwaitAck
    <3>1. asked' \in Tors
      BY <2>4 DEF AwaitAck, Own, TypeOK, Tors
    <3>2. QED
      BY <1>2, <2>4, <3>1 DEF AwaitAck, Own, TypeOK, device, threads, tx, rx, stop
  <2>5. QED BY <2>1, <2>2, <2>3, <2>4
<1>4. QED
  BY <1>2, <1>3, SameDevices DEF Own, HoldsOwn, NotSafeAtWork, LinkedAtMap, tx

LEMMA FreeOwn ==
    ASSUME Inv, Own, Free
    PROVE  Own'
<1> USE DevicesAssumption
<1> DEFINE r == rxThread[victim]
<1>1. /\ vhostPc = "waitAck"
      /\ asked + 1 = NumTors /\ removalFlag[asked] = "ack"
      /\ deviceNum' = [deviceNum EXCEPT ![r] = @ - 1]
      /\ mac' = [mac EXCEPT ![victim] = NoVm]
      /\ rxThread' = [rxThread EXCEPT ![victim] = 0]
      /\ ready' = [ready EXCEPT ![victim] = "learning"]
      /\ remove' = [remove EXCEPT ![victim] = FALSE]
      /\ victim' = None /\ asked' = 0 /\ vhostPc' = "idle"
      /\ UNCHANGED <<vdevList, removalFlag, torId, vdev, tx, rx, stop>>
  BY DEF Free, Wipe
<1>2. victim \in Connected /\ victim \in Blocks /\ r \in Tors /\ 0 \in Tors
  BY <1>1 DEF Inv, VictimConnected, Connected, Own, TypeOK, Tors
<1>3. deviceNum[r] = 1
  BY <1>2 DEF Own, DevicesCounted, Served
<1>4. TypeOK'
  BY <1>1, <1>2, <1>3 DEF Own, TypeOK, tx, rx, stop
<1>5. Connected' = Connected \ {victim} /\ Connected \subseteq Blocks
  BY <1>1, <1>2 DEF Own, TypeOK, Connected
<1>6. \A d \in Blocks : d # victim => /\ mac'[d] = mac[d] /\ rxThread'[d] = rxThread[d]
                                      /\ ready'[d] = ready[d] /\ remove'[d] = remove[d]
  BY <1>1 DEF Own, TypeOK
<1>7. ready'[victim] = "learning"
  BY <1>1, <1>2 DEF Own, TypeOK
<1>8. OneConnectionEach' /\ OneDevicePerThread'
  BY <1>5, <1>6 DEF Own, OneConnectionEach, OneDevicePerThread
<1>9. DevicesCounted'
  <2>1. Served(r) = {victim}
    BY <1>2 DEF Own, OneDevicePerThread, Served
  <2>2. \A t \in Tors : Served(t)' = Served(t) \ {victim}
    BY <1>5, <1>6 DEF Served
  <2>3. \A t \in Tors : t # r => Served(t)' = Served(t)
    BY <2>2 DEF Served
  <2> QED BY <1>1, <1>3, <2>1, <2>2, <2>3 DEF Own, TypeOK, DevicesCounted
<1>10. \A t \in Tors : removalFlag[t] = "ack"
  BY <1>1 DEF Inv, TypesUsed, PassedHaveAcked, Tors
<1>11. \A t \in Tors : txPc[t] \in Holding => cur[t] \in Blocks /\ cur[t] # victim
  BY <1>1, <1>5, <1>10 DEF Inv, TxOnLiveDevice, AckMeansCleared
<1>12. HoldsOwn' /\ NotSafeAtWork' /\ LinkedAtMap'
  BY <1>1, <1>6, <1>11 DEF Own, HoldsOwn, NotSafeAtWork, LinkedAtMap, tx, Holding, AtWork
<1>13. SafeIsRemoved' /\ LinkedToOwn'
  BY <1>1, <1>5, <1>6, <1>7 DEF Own, SafeIsRemoved, LinkedToOwn
<1>14. QED BY <1>4, <1>8, <1>9, <1>12, <1>13 DEF Own

(* A lcore that goes on with the device it has.                            *)
LEMMA WalkOwn ==
    ASSUME Inv, Own, NEW t \in Tors,
           UNCHANGED <<device, vdevList, deviceNum, torId, vdev, vhost, cur, visited, rx, stop>>,
           removalFlag' \in [Tors -> {"ack", "request"}],
           NEW pc \in Holding \cup {"head", "ack", "first", "stopped"},
           txPc' = [txPc EXCEPT ![t] = pc],
           pc \in Holding => txPc[t] \in Holding,
           pc \in AtWork => ready[cur[t]] # "safe",
           pc = "map" => ready[cur[t]] = "rx"
    PROVE  Own'
<1>1. TypeOK'
  BY DEF Own, TypeOK, device, vhost, rx, stop
<1>2. \A u \in Tors : /\ txPc'[u] \in Holding => txPc[u] \in Holding
                      /\ txPc'[u] \in AtWork => ready[cur[u]] # "safe"
                      /\ txPc'[u] = "map" => ready[cur[u]] = "rx"
  BY DEF Own, TypeOK, NotSafeAtWork, LinkedAtMap
<1>3. QED
  BY <1>1, <1>2, SameDevices DEF Own, HoldsOwn, device

LEMMA VisitOwn ==
    ASSUME Inv, Own, NEW t \in Tors, NEW seen \in SUBSET Blocks, Visit(t, seen),
           UNCHANGED <<device, threads, vhost, rx, stop>>
    PROVE  Own'
<1>1. PICK next \in vdevList[t] \cup {None}, pc \in {"check", "head"}, v \in SUBSET Blocks :
          /\ cur' = [cur EXCEPT ![t] = next]
          /\ txPc' = [txPc EXCEPT ![t] = pc]
          /\ visited' = [visited EXCEPT ![t] = v]
          /\ pc = "check" => next \in vdevList[t]
  <2>1. CASE \E b \in vdevList[t] \ seen :
                /\ cur' = [cur EXCEPT ![t] = b]
                /\ visited' = [visited EXCEPT ![t] = seen \cup {b}]
                /\ txPc' = [txPc EXCEPT ![t] = "check"]
    <3>1. PICK b \in vdevList[t] \ seen :
                /\ cur' = [cur EXCEPT ![t] = b]
                /\ visited' = [visited EXCEPT ![t] = seen \cup {b}]
                /\ txPc' = [txPc EXCEPT ![t] = "check"]
      BY <2>1
    <3>2. seen \cup {b} \in SUBSET Blocks
      BY DEF Own, TypeOK
    <3>3. QED BY <3>1, <3>2, Zenon
  <2>2. CASE /\ cur' = [cur EXCEPT ![t] = None]
             /\ visited' = [visited EXCEPT ![t] = {}]
             /\ txPc' = [txPc EXCEPT ![t] = "head"]
    <3>1. {} \in SUBSET Blocks /\ "head" # "check"
      OBVIOUS
    <3>2. QED BY <2>2, <3>1, Zenon
  <2>3. QED BY <2>1, <2>2, Zenon DEF Visit
<1>2. TypeOK'
  BY <1>1 DEF Own, TypeOK, Holding, device, threads, vhost, rx, stop
<1>3. /\ \A u \in Tors : txPc'[u] \in Holding => rxThread[cur'[u]] = u
      /\ \A u \in Tors : txPc'[u] \in AtWork => ready[cur'[u]] # "safe"
      /\ \A u \in Tors : txPc'[u] = "map" => ready[cur'[u]] = "rx"
  BY <1>1 DEF Inv, ListsOfConnected, Own, TypeOK, HoldsOwn, NotSafeAtWork, LinkedAtMap, Holding, AtWork
<1>4. QED
  BY <1>2, <1>3, SameDevices DEF device, threads

(* The one step that marks a device safe leaves it behind, and no other    *)
(* lcore holds it.                                                         *)
LEMMA LetGoOwn ==
    ASSUME Inv, Own, NEW t \in Tors, LetGo(t)
    PROVE  Own'
<1> DEFINE b == cur[t]
<1>1. /\ txPc[t] = "check" /\ txPc' = [txPc EXCEPT ![t] = "next"] /\ remove[b]
      /\ ready' = [ready EXCEPT ![b] = "safe"]
      /\ UNCHANGED <<mac, rxThread, remove, threads, vhost, cur, visited, rx, stop>>
  BY DEF LetGo, TxGoto
<1>2. b \in Connected /\ b \in Blocks /\ rxThread[b] = t
  BY <1>1 DEF Inv, TxOnLiveDevice, Connected, Own, HoldsOwn, Holding
<1>3. TypeOK'
  BY <1>1, <1>2 DEF Own, TypeOK, Holding, threads, vhost, rx, stop
<1>4. Connected' = Connected
  BY <1>1 DEF Connected
<1>5. (OneConnectionEach /\ OneDevicePerThread)'
  BY <1>1, <1>4 DEF Own, OneConnectionEach, OneDevicePerThread
<1>6. DevicesCounted'
  BY <1>1, <1>4 DEF Own, DevicesCounted, Served, threads
<1>7. /\ txPc'[t] = "next" /\ ready'[b] = "safe"
      /\ \A u \in Tors \ {t} : txPc'[u] = txPc[u]
      /\ \A d \in Blocks \ {b} : ready'[d] = ready[d]
  BY <1>1, <1>2 DEF Own, TypeOK
<1>8. (SafeIsRemoved /\ LinkedToOwn)'
  BY <1>1, <1>2, <1>4, <1>7 DEF Own, SafeIsRemoved, LinkedToOwn, threads, Connected
<1>9. \A u \in Tors \ {t} : txPc[u] \in Holding => cur[u] \in Blocks \ {b}
  BY <1>2 DEF Inv, TxOnLiveDevice, Connected, Own, HoldsOwn
<1>10. (HoldsOwn /\ NotSafeAtWork /\ LinkedAtMap)'
  BY <1>1, <1>2, <1>7, <1>9 DEF Own, HoldsOwn, NotSafeAtWork, LinkedAtMap, Holding, AtWork
<1>11. QED BY <1>3, <1>5, <1>6, <1>8, <1>10 DEF Own

(* The lcore learns the ToR of the only device it has.                     *)
LEMMA LinkQueuesOwn ==
    ASSUME Inv, Own, NEW t \in Tors, LinkQueues(t)
    PROVE  Own'
<1> DEFINE b == cur[t]
<1>1. /\ txPc[t] = "link" /\ txPc' = [txPc EXCEPT ![t] = "map"]
      /\ torId' = [torId EXCEPT ![t] = mac[b]]
      /\ vdev' = [vdev EXCEPT ![mac[b]] = b]
      /\ ready' = [ready EXCEPT ![b] = "rx"]
      /\ UNCHANGED <<mac, rxThread, remove, vdevList, deviceNum, removalFlag,
                     vhost, cur, visited, rx, stop>>
  BY DEF LinkQueues, TxGoto
<1>2. b \in Connected /\ b \in Blocks /\ rxThread[b] = t /\ mac[b] \in Tors
  BY <1>1 DEF Inv, TxOnLiveDevice, Connected, Own, TypeOK, HoldsOwn, Holding
<1>3. TypeOK'
  BY <1>1, <1>2 DEF Own, TypeOK, Holding, vhost, rx, stop
<1>4. Connected' = Connected
  BY <1>1 DEF Connected
<1>5. (OneConnectionEach /\ OneDevicePerThread)'
  BY <1>1, <1>4 DEF Own, OneConnectionEach, OneDevicePerThread
<1>6. DevicesCounted'
  BY <1>1, <1>4 DEF Own, DevicesCounted, Served
<1>7. /\ txPc'[t] = "map" /\ ready'[b] = "rx" /\ torId'[t] = mac[b]
      /\ \A u \in Tors \ {t} : txPc'[u] = txPc[u] /\ torId'[u] = torId[u]
      /\ \A d \in Blocks \ {b} : ready'[d] = ready[d]
  BY <1>1, <1>2 DEF Own, TypeOK
<1>8. SafeIsRemoved'
  BY <1>1, <1>7 DEF Own, SafeIsRemoved
<1>9. LinkedToOwn'
  <2>1. SUFFICES ASSUME NEW d \in Connected, ready'[d] = "rx"
                 PROVE  torId'[rxThread[d]] = mac[d]
    BY <1>1, <1>4 DEF LinkedToOwn
  <2>2. CASE d = b
    BY <1>2, <1>7, <2>2
  <2>3. CASE d # b
    <3>1. d \in Blocks \ {b} /\ rxThread[d] \in Tors
      BY <2>3 DEF Connected, Own, TypeOK
    <3>2. rxThread[d] # t
      BY <1>2, <2>3 DEF Own, OneDevicePerThread
    <3>3. QED BY <1>7, <2>1, <3>1, <3>2 DEF Own, LinkedToOwn
  <2>4. QED BY <2>2, <2>3
<1>10. \A u \in Tors \ {t} : txPc[u] \in Holding => cur[u] \in Blocks \ {b}
  BY <1>2 DEF Inv, TxOnLiveDevice, Connected, Own, HoldsOwn
<1>11. (HoldsOwn /\ NotSafeAtWork /\ LinkedAtMap)'
  BY <1>1, <1>2, <1>7, <1>10 DEF Own, HoldsOwn, NotSafeAtWork, LinkedAtMap, Holding, AtWork
<1>12. QED BY <1>3, <1>5, <1>6, <1>8, <1>9, <1>11 DEF Own

LEMMA TxStepOwn ==
    ASSUME Inv, Own, NEW t \in Tors, TxStep(t)
    PROVE  Own'
<1> DEFINE Walks(pc) ==
       /\ UNCHANGED <<device, vdevList, deviceNum, torId, vdev, vhost, cur, visited, rx, stop>>
       /\ removalFlag' \in [Tors -> {"ack", "request"}]
       /\ txPc' = [txPc EXCEPT ![t] = pc]
       /\ pc \in Holding => txPc[t] \in Holding
       /\ pc \in AtWork => ready[cur[t]] # "safe"
       /\ pc = "map" => ready[cur[t]] = "rx"
<1> USE DEF Own, TypeOK, threads
<1>1. CASE TxHead(t)
  <2>1. PICK pc \in {"stopped", "ack"} : Walks(pc)
    BY <1>1 DEF TxHead, TxGoto, Holding, AtWork
  <2>2. QED BY <2>1, WalkOwn
<1>2. CASE Acknowledge(t)
  <2>1. Walks("first")
    BY <1>2 DEF Acknowledge, TxGoto, Holding, AtWork
  <2>2. QED BY <2>1, WalkOwn
<1>3. CASE TxFirst(t)
  BY <1>3, VisitOwn DEF TxFirst
<1>4. CASE TxNext(t)
  BY <1>4, VisitOwn DEF TxNext
<1>5. CASE LetGo(t)
  BY <1>5, LetGoOwn
<1>6. CASE DequeueNone(t) \/ MapBurst(t)
  <2>1. Walks("next") /\ "next" \in Holding
    BY <1>6 DEF DequeueNone, MapBurst, TxGoto, Holding, AtWork
  <2>2. QED BY <2>1, WalkOwn
<1>7. CASE Keep(t)
  <2>1. cur[t] \in Blocks
    BY <1>7 DEF Keep, TxGoto, Inv, TxOnLiveDevice, Connected, Holding
  <2>2. Walks("checkAgain") /\ "checkAgain" \in Holding
    BY <1>7, <2>1 DEF Keep, TxGoto, Holding, AtWork, SafeIsRemoved
  <2>3. QED BY <2>2, WalkOwn
<1>8. CASE CheckAgain(t)
  <2>1. PICK pc \in {"next", "dequeue"} : Walks(pc)
    BY <1>8 DEF CheckAgain, TxGoto, Holding, AtWork, NotSafeAtWork
  <2>2. pc \in Holding
    BY <2>1 DEF Holding
  <2>3. QED BY <2>1, <2>2, WalkOwn
<1>9. CASE DequeueBurst(t)
  <2>1. txPc[t] = "dequeue" /\ ready[cur[t]] # "safe" /\ cur[t] \in Blocks
    BY <1>9 DEF DequeueBurst, TxGoto, NotSafeAtWork, AtWork, Inv, TxOnLiveDevice, Connected, Holding
  <2>2. ready[cur[t]] \in {"learning", "rx"}
    BY <2>1
  <2>3. PICK pc \in {"link", "map"} : Walks(pc)
    BY <1>9, <2>1, <2>2 DEF DequeueBurst, TxGoto, Holding
  <2>4. pc \in Holding
    BY <2>3 DEF Holding
  <2>5. QED BY <2>3, <2>4, WalkOwn
<1>10. CASE LinkQueues(t)
  BY <1>10, LinkQueuesOwn
<1>11. QED
  BY <1>1, <1>2, <1>3, <1>4, <1>5, <1>6, <1>7, <1>8, <1>9, <1>10 DEF TxStep

LEMMA NextOwn == Inv /\ Own /\ [Next]_vars => Own'
<1>1. SUFFICES ASSUME Inv, Own, [Next]_vars PROVE Own'
  OBVIOUS
<1> DEFINE Rest == /\ UNCHANGED <<device, threads, vhost, tx>>
                   /\ rxPc' \in [Tors -> {"head", "sending", "rotors", "stopped"}]
                   /\ dstVdev' \in [Tors -> Blocks \cup {None}]
                   /\ unregistering' \in BOOLEAN /\ kniStop' \in BOOLEAN
<1>2. ASSUME Rest PROVE Own'
  <2>1. TypeOK'
    BY <1>1, <1>2 DEF Own, TypeOK, device, threads, vhost, tx
  <2>2. QED
    BY <1>1, <1>2, <2>1, SameDevices
    DEF Own, HoldsOwn, NotSafeAtWork, LinkedAtMap, device, threads, tx
<1>3. CASE \E m \in Tors, b \in Blocks : NewDevice(m, b)
  BY <1>1, <1>3, NewDeviceOwn
<1>4. CASE (\E b \in Blocks : MarkRemoved(b)) \/ Destroying
  BY <1>1, <1>4, HandshakeOwn, FreeOwn DEF Destroying
<1>5. CASE \E t \in Tors : TxStep(t)
  BY <1>1, <1>5, TxStepOwn
<1>6. CASE \E t \in Tors : RxStep(t)
  <2>1. Rest
    <3>1. PICK t \in Tors : RxStep(t)
      BY <1>6
    <3>2. \E to \in {"head", "sending", "rotors", "stopped"}, d \in Blocks \cup {None} :
              /\ rxPc' = [rxPc EXCEPT ![t] = to]
              /\ dstVdev' \in {dstVdev, [dstVdev EXCEPT ![t] = d]}
      <4>1. CASE RxStop(t)
        BY <4>1 DEF RxStop, RxGoto
      <4>2. CASE RxLoad(t)
        BY <1>1, <4>2 DEF RxLoad, RxGoto, Own, TypeOK
      <4>3. CASE RxSend(t)
        BY <4>3 DEF RxSend, RxGoto
      <4>4. CASE RxRotors(t)
        BY <4>4 DEF RxRotors, RxGoto
      <4>5. QED BY <3>1, <4>1, <4>2, <4>3, <4>4 DEF RxStep
    <3>3. UNCHANGED <<device, threads, vhost, tx, stop>>
      BY <3>1 DEF RxStep, RxStop, RxLoad, RxSend, RxRotors, RxGoto
    <3>4. QED BY <1>1, <3>2, <3>3 DEF Own, TypeOK, stop
  <2>2. QED BY <1>2, <2>1
<1>7. CASE Signal \/ StopLcores \/ UNCHANGED vars
  <2>1. Rest
    BY <1>1, <1>7 DEF Signal, StopLcores, Own, TypeOK, vars, rx, stop
  <2>2. QED BY <1>2, <2>1
<1>8. QED BY <1>1, <1>3, <1>4, <1>5, <1>6, <1>7 DEF Next

LEMMA OwnHolds == Spec => []Own
BY InitInv, NextInv, InitOwn, NextOwn, PTL DEF Spec

(* device_num never falls below zero, tor_id and the device of a ToR are   *)
(* taken from a connected device (main.c:586-594, 1742-1744).              *)
THEOREM TypeCorrect == Spec => []TypeOK
<1>1. Own => TypeOK
  BY DEF Own
<1>2. QED BY OwnHolds, <1>1, PTL

(* No lcore is given a second device (main.c:1777-1783): when all have one *)
(* every VM is connected.                                                  *)
THEOREM OneDeviceEach == Spec => []OneDevicePerThread
<1>1. Own => OneDevicePerThread
  BY DEF Own
<1>2. QED BY OwnHolds, <1>1, PTL

(* The packets of a VM are put into the queues of its own ToR              *)
(* (main.c:586-588, 645).                                                  *)
THEOREM PacketsStayWithTor == Spec => []QueuesOfOwnTor
<1>1. Inv /\ Own => QueuesOfOwnTor
  <2>1. SUFFICES ASSUME Inv, Own, NEW t \in Tors, txPc[t] = "map"
                 PROVE  torId[t] = mac[cur[t]]
    BY DEF QueuesOfOwnTor
  <2>2. cur[t] \in Connected /\ rxThread[cur[t]] = t /\ ready[cur[t]] = "rx"
    BY <2>1 DEF Inv, Own, TxOnLiveDevice, HoldsOwn, LinkedAtMap, Holding
  <2>3. QED BY <2>1, <2>2 DEF Own, LinkedToOwn
<1>2. QED BY InitInv, NextInv, OwnHolds, <1>1, PTL DEF Spec

-----------------------------------------------------------------------------
(***************************************************************************)
(* The removal implements a grace period.                                  *)
(***************************************************************************)
PhaseOf(b) ==
    IF b \in Listed THEN "offered" ELSE IF b \in Connected THEN "withdrawn" ELSE "free"
UserOf(t) == IF txPc[t] \in Holding THEN cur[t] ELSE None

LEMMA PhaseAndUsing ==
    /\ Phase = [b \in Blocks |-> PhaseOf(b)] /\ Using = [t \in Tors |-> UserOf(t)]
    /\ Phase' = [b \in Blocks |-> PhaseOf(b)'] /\ Using' = [t \in Tors |-> UserOf(t)']
BY DEF Phase, Using, PhaseOf, UserOf

LEMMA UsersStay ==
    ASSUME UNCHANGED tx
    PROVE  Using' = Using
BY DEF Using, tx

LEMMA PhasesStay ==
    ASSUME UNCHANGED <<mac, vdevList>>
    PROVE  Phase' = Phase
BY DEF Phase, Listed, Connected

(* A step of one device.                                                   *)
LEMMA OnePhase ==
    ASSUME NEW b \in Blocks, \A c \in Blocks \ {b} : PhaseOf(c)' = PhaseOf(c)
    PROVE  /\ Phase' = [Phase EXCEPT ![b] = PhaseOf(b)']
           /\ Phase[b] = PhaseOf(b)
BY PhaseAndUsing

LEMMA InitGrace == Init => Grace!Init
<1> SUFFICES ASSUME Init PROVE Grace!Init
  OBVIOUS
<1>1. Listed = {} /\ Connected = {}
  BY DEF Init, Listed, Connected
<1>2. \A t \in Tors : UserOf(t) = None
  BY DEF Init, UserOf
<1>3. \A b \in Blocks : PhaseOf(b) = "free"
  BY <1>1 DEF PhaseOf
<1>4. QED BY <1>2, <1>3, PhaseAndUsing DEF Grace!Init

(* A new device comes from a free block.                                   *)
LEMMA NewDeviceGrace ==
    ASSUME Inv, Own, NEW m \in Tors, NEW b \in Blocks, NewDevice(m, b)
    PROVE  Grace!Offer(b)
<1> DEFINE c == CoreToAdd
<1>1. c \in Tors
  BY CoreIsIdle DEF NewDevice
<1> HIDE DEF c
<1>2. /\ b \notin Connected /\ mac' = [mac EXCEPT ![b] = m]
      /\ vdevList' = [vdevList EXCEPT ![c] = @ \cup {b}] /\ UNCHANGED tx
  BY DEF NewDevice, c
<1>3. Connected' = Connected \cup {b}
  BY <1>2 DEF Inv, TypesUsed, Connected, Tors, NoVm
<1>4. Listed' = Listed \cup {b}
  <2>1. vdevList'[c] = vdevList[c] \cup {b} /\ \A t \in Tors \ {c} : vdevList'[t] = vdevList[t]
    BY <1>1, <1>2 DEF Inv, TypesUsed
  <2>2. \A d : d \in Listed' <=> d \in Listed \/ d = b
    BY <1>1, <2>1 DEF Listed
  <2>3. QED BY <2>2
<1>5. b \notin Listed
  BY <1>2 DEF Inv, ListsOfConnected, Listed
<1>6. /\ PhaseOf(b) = "free" /\ PhaseOf(b)' = "offered"
      /\ \A d \in Blocks \ {b} : PhaseOf(d)' = PhaseOf(d)
  BY <1>2, <1>3, <1>4, <1>5 DEF PhaseOf
<1>7. QED BY <1>2, <1>6, OnePhase, UsersStay DEF Grace!Offer, Grace!Move

(* It is withdrawn when it leaves the list of its lcore: it is in no other.*)
LEMMA UnlinkGrace ==
    ASSUME Inv, Unlink
    PROVE  [Grace!Next]_<<Phase, Using>>
<1>1. /\ vdevList' = [vdevList EXCEPT ![rxThread[victim]] = @ \ {victim}]
      /\ victim \in Connected /\ UNCHANGED <<mac, tx>>
  BY DEF Unlink, device, Inv, VictimConnected
<1> PICK b \in Blocks : b = victim
  BY <1>1 DEF Connected
<1>2. Connected' = Connected
  BY <1>1 DEF Connected
<1>3. \A t \in Tors : vdevList'[t] = vdevList[t] \ {b}
  BY <1>1 DEF Inv, TypesUsed, ListsOfConnected
<1>4. Listed' = Listed \ {b}
  <2>1. \A d : d \in Listed' <=> d \in Listed /\ d # b
    BY <1>3 DEF Listed
  <2>2. QED BY <2>1
<1>5. /\ PhaseOf(b)' = "withdrawn" /\ PhaseOf(b) \in {"offered", "withdrawn"}
      /\ \A d \in Blocks \ {b} : PhaseOf(d)' = PhaseOf(d)
  BY <1>1, <1>2, <1>4 DEF PhaseOf
<1>6. Using' = Using
  BY <1>1, UsersStay
<1>7. CASE PhaseOf(b) = "offered"
  BY <1>5, <1>6, <1>7, OnePhase DEF Grace!Next, Grace!Withdraw, Grace!Move
<1>8. CASE PhaseOf(b) = "withdrawn"
  <2>1. \A d \in Blocks : PhaseOf(d)' = PhaseOf(d)
    BY <1>5, <1>8
  <2>2. QED BY <1>6, <2>1, PhaseAndUsing
<1>9. QED BY <1>5, <1>7, <1>8

(* When it is freed every lcore has acknowledged, so that none uses it.    *)
LEMMA FreeGrace ==
    ASSUME Inv, Free
    PROVE  Grace!Next
<1> USE DevicesAssumption
<1>1. /\ vhostPc = "waitAck" /\ asked + 1 = NumTors /\ removalFlag[asked] = "ack"
      /\ mac' = [mac EXCEPT ![victim] = NoVm] /\ victim \in Connected
      /\ UNCHANGED <<vdevList, tx>>
  BY DEF Free, Wipe, Inv, VictimConnected
<1> PICK b \in Blocks : b = victim
  BY <1>1 DEF Connected
<1>2. \A t \in Tors : removalFlag[t] = "ack"
  BY <1>1 DEF Inv, TypesUsed, PassedHaveAcked, Tors
<1>3. \A t \in Tors : UserOf(t) # b
  BY <1>1, <1>2 DEF Inv, AckMeansCleared, UserOf
<1>4. b \notin Listed /\ Listed' = Listed
  BY <1>1 DEF Inv, VictimUnlinked, Unlinked, Listed
<1>5. Connected' = Connected \ {b}
  BY <1>1 DEF Inv, TypesUsed, Connected
<1>6. /\ PhaseOf(b) = "withdrawn" /\ PhaseOf(b)' = "free"
      /\ \A d \in Blocks \ {b} : PhaseOf(d)' = PhaseOf(d)
  BY <1>1, <1>4, <1>5 DEF PhaseOf
<1>7. Using' = Using /\ \A t \in Tors : Using[t] # b
  BY <1>1, <1>3, UsersStay, PhaseAndUsing
<1>8. Grace!Reclaim(b)
  BY <1>6, <1>7, OnePhase DEF Grace!Reclaim, Grace!Move
<1>9. QED BY <1>8 DEF Grace!Next

(* A lcore takes up a device that is in its list, or leaves one.           *)
LEMMA VisitGrace ==
    ASSUME Inv, NEW t \in Tors, NEW seen, Visit(t, seen), UNCHANGED <<mac, vdevList>>
    PROVE  Grace!Next
<1>1. PICK next \in vdevList[t] \cup {None}, pc \in {"check", "head"} :
          /\ cur' = [cur EXCEPT ![t] = next]
          /\ txPc' = [txPc EXCEPT ![t] = pc]
          /\ pc = "check" => next \in vdevList[t]
  BY Zenon DEF Visit
<1>2. Phase' = Phase
  BY PhasesStay
<1>3. /\ \A u \in Tors \ {t} : UserOf(u)' = UserOf(u)
      /\ UserOf(t)' = IF pc = "check" THEN next ELSE None
  BY <1>1 DEF UserOf, Inv, TypesUsed, Holding
<1>4. Using' = [Using EXCEPT ![t] = UserOf(t)']
  BY <1>3, PhaseAndUsing
<1>5. CASE pc = "check"
  <2>1. next \in Blocks /\ next \in Listed
    BY <1>1, <1>5 DEF Inv, TypesUsed, Listed
  <2>2. Phase[next] = "offered" /\ Using' = [Using EXCEPT ![t] = next]
    BY <1>3, <1>4, <1>5, <2>1, PhaseAndUsing DEF PhaseOf
  <2>3. QED BY <1>2, <2>1, <2>2 DEF Grace!Next, Grace!TakeUp
<1>6. CASE pc # "check"
  BY <1>2, <1>3, <1>4, <1>6 DEF Grace!Next, Grace!Leave
<1>7. QED BY <1>5, <1>6

(* The other steps of a tx lcore keep what it uses.                        *)
LEMMA TxGrace ==
    ASSUME Inv, NEW t \in Tors, TxStep(t)
    PROVE  [Grace!Next]_<<Phase, Using>>
<1>1. UNCHANGED <<mac, vdevList>>
  BY DEF TxStep, TxHead, Acknowledge, TxFirst, TxNext, LetGo, Keep, CheckAgain, DequeueNone,
         DequeueBurst, LinkQueues, MapBurst, device, threads
<1>2. CASE TxFirst(t) \/ TxNext(t)
  BY <1>1, <1>2, VisitGrace DEF TxFirst, TxNext
<1>3. CASE ~(TxFirst(t) \/ TxNext(t))
  <2>1. PICK pc : /\ UNCHANGED cur /\ txPc' = [txPc EXCEPT ![t] = pc]
                  /\ pc \in Holding <=> txPc[t] \in Holding
    BY <1>3 DEF TxStep, TxHead, Acknowledge, LetGo, Keep, CheckAgain, DequeueNone,
                DequeueBurst, LinkQueues, MapBurst, TxGoto, Holding
  <2>2. \A u \in Tors : UserOf(u)' = UserOf(u)
    BY <2>1 DEF UserOf, Inv, TypesUsed
  <2>3. QED BY <1>1, <2>2, PhasesStay, PhaseAndUsing
<1>4. QED BY <1>2, <1>3

LEMMA NextGrace ==
    ASSUME Inv, Own, [Next]_vars
    PROVE  [Grace!Next]_<<Phase, Using>>
<1>1. CASE \E m \in Tors, b \in Blocks : NewDevice(m, b)
  BY <1>1, NewDeviceGrace DEF Grace!Next
<1>2. CASE Unlink \/ Free
  BY <1>2, UnlinkGrace, FreeGrace
<1>3. CASE \E t \in Tors : TxStep(t)
  BY <1>3, TxGrace
<1>4. CASE \/ \E b \in Blocks : MarkRemoved(b)
           \/ RequestRemoval \/ AwaitAck
           \/ \E t \in Tors : RxStep(t)
           \/ Signal \/ StopLcores \/ UNCHANGED vars
  <2>1. UNCHANGED <<mac, vdevList, tx>>
    BY <1>4 DEF MarkRemoved, RequestRemoval, AwaitAck, RxStep, RxStop, RxLoad, RxSend, RxRotors,
                RxGoto, Signal, StopLcores, vars, device, threads
  <2>2. QED BY <2>1, PhasesStay, UsersStay
<1>5. QED BY <1>1, <1>2, <1>3, <1>4 DEF Next, Destroying

(* A device that has left the lists is taken up by no tx lcore, and freed  *)
(* when none uses it any more (main.c:1720-1744).                          *)
THEOREM RemovalIsGrace == Spec => GraceSpec
<1>1. Inv /\ Own /\ [Next]_vars => [Grace!Next]_<<Phase, Using>>
  BY NextGrace
<1>2. QED
  BY <1>1, InitGrace, InitInv, NextInv, OwnHolds, PTL DEF Spec, GraceSpec, Grace!Spec

=============================================================================
