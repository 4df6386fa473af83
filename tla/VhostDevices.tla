---------------------------- MODULE VhostDevices ----------------------------
(***************************************************************************)
(* The vhost devices of a ToR-emulation process (end-host/docker/app/      *)
(* main.c).  A VM that connects or leaves makes the vhost library call     *)
(* new_device or destroy_device.  The device is memory that the tx lcore   *)
(* of one ToR walks over in its list (egress_stage1) and that the rx lcore *)
(* of a ToR reaches through tor_params.vdev (kni_ingress).  Removal is a   *)
(* handshake of destroy_device with the tx lcores; the rx lcores are no    *)
(* part of it.                                                             *)
(*                                                                         *)
(* VM m belongs to ToR m, by the last byte of its MAC address, and has at  *)
(* most one connection.  The library runs one callback at a time.          *)
(***************************************************************************)
EXTENDS Integers, FiniteSets

CONSTANTS
    NumTors,   \* num_tors, which is also the number of VMs
    Blocks,    \* blocks of memory that rte_zmalloc may hand out
    None       \* NULL

Tors == 0 .. NumTors - 1
NoVm == -1

ASSUME DevicesAssumption ==
    /\ NumTors \in Nat \ {0}
    /\ None \notin Blocks

VARIABLES
    (* struct vhost_dev, per block *)
    mac,            \* the VM behind the device, NoVm when the block is free
    rxThread,       \* rx_thread_id: the tx lcore whose list holds the device
    ready, remove,
    (* struct rx_thread_params and struct tor_params, per ToR *)
    vdevList,       \* vdev_list
    deviceNum,      \* device_num of rx_thread_params
    removalFlag,    \* dev_removal_flag
    torId,          \* tor_id: the ToR whose queues the lcore fills
    vdev,           \* tor_params.vdev; None as long as tor_params.device_num is 0
    (* the callbacks of the vhost library *)
    vhostPc, victim, asked,
    (* the tx lcores *)
    txPc, cur, visited,
    (* the rx lcores *)
    rxPc, dstVdev,
    (* stopping the process *)
    unregistering, kniStop

device  == <<mac, rxThread, ready, remove>>
threads == <<vdevList, deviceNum, removalFlag, torId, vdev>>
vhost   == <<vhostPc, victim, asked>>
tx      == <<txPc, cur, visited>>
rx      == <<rxPc, dstVdev>>
stop    == <<unregistering, kniStop>>
vars    == <<device, threads, vhost, tx, rx, stop>>

Connected == {b \in Blocks : mac[b] # NoVm}

(* A tx lcore holds a pointer to a device while it is in its list walk. *)
Holding == {"check", "checkAgain", "dequeue", "link", "map", "next"}

TypeOK ==
    /\ mac \in [Blocks -> Tors \cup {NoVm}]
    /\ rxThread \in [Blocks -> Tors]
    /\ ready \in [Blocks -> {"learning", "rx", "safe"}]
    /\ remove \in [Blocks -> BOOLEAN]
    /\ vdevList \in [Tors -> SUBSET Blocks]
    /\ deviceNum \in [Tors -> Nat]
    /\ removalFlag \in [Tors -> {"ack", "request"}]
    /\ torId \in [Tors -> Tors]
    /\ vdev \in [Tors -> Blocks \cup {None}]
    /\ vhostPc \in {"idle", "waitSafe", "request", "waitAck"}
    /\ victim \in Blocks \cup {None}
    /\ asked \in Tors
    /\ txPc \in [Tors -> Holding \cup {"head", "ack", "first", "stopped"}]
    /\ cur \in [Tors -> Blocks \cup {None}]
    /\ visited \in [Tors -> SUBSET Blocks]
    /\ rxPc \in [Tors -> {"head", "sending", "rotors", "stopped"}]
    /\ dstVdev \in [Tors -> Blocks \cup {None}]
    /\ unregistering \in BOOLEAN
    /\ kniStop \in BOOLEAN

Init ==
    /\ mac = [b \in Blocks |-> NoVm]
    /\ rxThread = [b \in Blocks |-> 0]
    /\ ready = [b \in Blocks |-> "learning"]
    /\ remove = [b \in Blocks |-> FALSE]
    /\ vdevList = [t \in Tors |-> {}]
    /\ deviceNum = [t \in Tors |-> 0]
    /\ removalFlag = [t \in Tors |-> "ack"]
    /\ torId = [t \in Tors |-> 0]
    /\ vdev = [t \in Tors |-> None]
    /\ vhostPc = "idle" /\ victim = None /\ asked = 0
    /\ txPc = [t \in Tors |-> "head"]
    /\ cur = [t \in Tors |-> None]
    /\ visited = [t \in Tors |-> {}]
    /\ rxPc = [t \in Tors |-> "head"]
    /\ dstVdev = [t \in Tors |-> None]
    /\ unregistering = FALSE
    /\ kniStop = FALSE

-----------------------------------------------------------------------------
(***************************************************************************)
(* The callbacks.                                                          *)
(***************************************************************************)

(* num_devices is 1: only a thread without a device is better than none,   *)
(* the first of them is taken, and thread 0 when there is none.            *)
CoreToAdd ==
    LET idle == {t \in Tors : deviceNum[t] < 1}
    IN  IF idle = {} THEN 0 ELSE CHOOSE t \in idle : \A u \in idle : t <= u

(* new_device: nothing of the device can be seen before it is in the list. *)
NewDevice(m, b) ==
    /\ vhostPc = "idle" /\ ~unregistering
    /\ m \notin {mac[c] : c \in Connected}
    /\ b \notin Connected
    /\ mac' = [mac EXCEPT ![b] = m]
    /\ rxThread' = [rxThread EXCEPT ![b] = CoreToAdd]
    /\ ready' = [ready EXCEPT ![b] = "learning"]
    /\ remove' = [remove EXCEPT ![b] = FALSE]
    /\ vdevList' = [vdevList EXCEPT ![CoreToAdd] = @ \cup {b}]
    /\ deviceNum' = [deviceNum EXCEPT ![CoreToAdd] = @ + 1]
    /\ UNCHANGED <<removalFlag, torId, vdev, vhost, tx, rx, stop>>

(* destroy_device: ask the lcore of the device to let go of it ... *)
MarkRemoved(b) ==
    /\ vhostPc = "idle"
    /\ b \in Connected
    /\ remove' = [remove EXCEPT ![b] = TRUE]
    /\ victim' = b
    /\ vhostPc' = "waitSafe"
    /\ UNCHANGED <<mac, rxThread, ready, threads, asked, tx, rx, stop>>

(* Fault: the lcores are not asked. *)
UnlinkUnasked ==
    /\ vhostPc = "waitSafe"
    /\ ready[victim] = "safe"
    /\ vdevList' = [vdevList EXCEPT ![rxThread[victim]] = @ \ {victim}]
    /\ vhostPc' = "waitAck"
    /\ UNCHANGED <<device, deviceNum, removalFlag, torId, vdev, victim, asked, tx, rx, stop>>

(* ... unlink it once the lcore has marked it ... *)
Unlink ==
    /\ vhostPc = "waitSafe"
    /\ ready[victim] = "safe"
    /\ vdevList' = [vdevList EXCEPT ![rxThread[victim]] = @ \ {victim}]
    /\ vhostPc' = "request"
    /\ UNCHANGED <<device, deviceNum, removalFlag, torId, vdev, victim, asked, tx, rx, stop>>

(* ... then ask every tx lcore, one after the other, ... *)
RequestRemoval ==
    /\ vhostPc = "request"
    /\ removalFlag' = [removalFlag EXCEPT ![asked] = "request"]
    /\ IF asked + 1 < NumTors
       THEN asked' = asked + 1 /\ UNCHANGED vhostPc
       ELSE asked' = 0 /\ vhostPc' = "waitAck"
    /\ UNCHANGED <<device, vdevList, deviceNum, torId, vdev, victim, tx, rx, stop>>

(* ... wait for every one to acknowledge, ... *)
AwaitAck ==
    /\ vhostPc = "waitAck"
    /\ asked + 1 < NumTors
    /\ removalFlag[asked] = "ack"
    /\ asked' = asked + 1
    /\ UNCHANGED <<device, threads, vhostPc, victim, tx, rx, stop>>

(* What a freed block holds is left out: rte_zmalloc clears it before use. *)
Wipe(b) ==
    /\ mac' = [mac EXCEPT ![b] = NoVm]
    /\ rxThread' = [rxThread EXCEPT ![b] = 0]
    /\ ready' = [ready EXCEPT ![b] = "learning"]
    /\ remove' = [remove EXCEPT ![b] = FALSE]

(* Fault: device_num is not decremented. *)
FreeUncounted ==
    /\ vhostPc = "waitAck"
    /\ asked + 1 = NumTors
    /\ removalFlag[asked] = "ack"
    /\ Wipe(victim)
    /\ victim' = None /\ asked' = 0 /\ vhostPc' = "idle"
    /\ UNCHANGED <<threads, tx, rx, stop>>

(* Fault: the device is taken off the count of the lcore asked last. *)
FreeLastThread ==
    /\ vhostPc = "waitAck"
    /\ asked + 1 = NumTors
    /\ removalFlag[asked] = "ack"
    /\ deviceNum' = [deviceNum EXCEPT ![asked] = @ - 1]
    /\ Wipe(victim)
    /\ victim' = None /\ asked' = 0 /\ vhostPc' = "idle"
    /\ UNCHANGED <<vdevList, removalFlag, torId, vdev, tx, rx, stop>>

(* ... and free the device after the last one.  tor_params.vdev and its    *)
(* device_num stay as they are.                                            *)
Free ==
    /\ vhostPc = "waitAck"
    /\ asked + 1 = NumTors
    /\ removalFlag[asked] = "ack"
    /\ deviceNum' = [deviceNum EXCEPT ![rxThread[victim]] = @ - 1]
    /\ Wipe(victim)
    /\ victim' = None /\ asked' = 0 /\ vhostPc' = "idle"
    /\ UNCHANGED <<vdevList, removalFlag, torId, vdev, tx, rx, stop>>

Destroying == Unlink \/ RequestRemoval \/ AwaitAck \/ Free

-----------------------------------------------------------------------------
(***************************************************************************)
(* The tx lcore of ToR t: main_loop and egress_stage1.                     *)
(***************************************************************************)
TxGoto(t, from, to) ==
    /\ txPc[t] = from
    /\ txPc' = [txPc EXCEPT ![t] = to]

TxHead(t) ==
    /\ TxGoto(t, "head", IF kniStop THEN "stopped" ELSE "ack")
    /\ UNCHANGED <<device, threads, vhost, cur, visited, rx, stop>>

(* Fault: only a lcore with a device acknowledges. *)
AcknowledgeWithDevice(t) ==
    /\ TxGoto(t, "ack", "first")
    /\ removalFlag' = IF vdevList[t] # {} THEN [removalFlag EXCEPT ![t] = "ack"] ELSE removalFlag
    /\ UNCHANGED <<device, vdevList, deviceNum, torId, vdev, vhost, cur, visited, rx, stop>>

Acknowledge(t) ==
    /\ TxGoto(t, "ack", "first")
    /\ removalFlag' = [removalFlag EXCEPT ![t] = "ack"]
    /\ UNCHANGED <<device, vdevList, deviceNum, torId, vdev, vhost, cur, visited, rx, stop>>

(* The walk over the list: on to a device not yet visited, if there is one *)
Visit(t, seen) ==
    \/ \E b \in vdevList[t] \ seen :
          /\ cur' = [cur EXCEPT ![t] = b]
          /\ visited' = [visited EXCEPT ![t] = seen \cup {b}]
          /\ txPc' = [txPc EXCEPT ![t] = "check"]
    \/ /\ vdevList[t] \subseteq seen
       /\ cur' = [cur EXCEPT ![t] = None]
       /\ visited' = [visited EXCEPT ![t] = {}]
       /\ txPc' = [txPc EXCEPT ![t] = "head"]

TxFirst(t) ==
    /\ txPc[t] = "first"
    /\ Visit(t, {})
    /\ UNCHANGED <<device, threads, vhost, rx, stop>>

TxNext(t) ==
    /\ txPc[t] = "next"
    /\ Visit(t, visited[t])
    /\ UNCHANGED <<device, threads, vhost, rx, stop>>

LetGo(t) ==
    /\ TxGoto(t, "check", "next")
    /\ remove[cur[t]]
    /\ ready' = [ready EXCEPT ![cur[t]] = "safe"]
    /\ UNCHANGED <<mac, rxThread, remove, threads, vhost, cur, visited, rx, stop>>

Keep(t) ==
    /\ TxGoto(t, "check", "checkAgain")
    /\ ~remove[cur[t]]
    /\ UNCHANGED <<device, threads, vhost, cur, visited, rx, stop>>

(* The mark is read a second time.  If it is there now nothing is dequeued, *)
(* and num is still 0 as the list holds no other device.                   *)
CheckAgain(t) ==
    /\ TxGoto(t, "checkAgain", IF remove[cur[t]] THEN "next" ELSE "dequeue")
    /\ UNCHANGED <<device, threads, vhost, cur, visited, rx, stop>>

DequeueNone(t) ==
    /\ TxGoto(t, "dequeue", "next")
    /\ UNCHANGED <<device, threads, vhost, cur, visited, rx, stop>>

DequeueBurst(t) ==
    /\ TxGoto(t, "dequeue", IF ready[cur[t]] = "learning" THEN "link" ELSE "map")
    /\ UNCHANGED <<device, threads, vhost, cur, visited, rx, stop>>

(* Fault: the lcore does not learn its ToR. *)
LinkDeviceOnly(t) ==
    /\ TxGoto(t, "link", "map")
    /\ vdev' = [vdev EXCEPT ![mac[cur[t]]] = cur[t]]
    /\ ready' = [ready EXCEPT ![cur[t]] = "rx"]
    /\ UNCHANGED <<mac, rxThread, remove, vdevList, deviceNum, removalFlag, torId,
                   vhost, cur, visited, rx, stop>>

(* link_queues: the first packet tells which ToR the device belongs to. *)
LinkQueues(t) ==
    /\ TxGoto(t, "link", "map")
    /\ torId' = [torId EXCEPT ![t] = mac[cur[t]]]
    /\ vdev' = [vdev EXCEPT ![mac[cur[t]]] = cur[t]]
    /\ ready' = [ready EXCEPT ![cur[t]] = "rx"]
    /\ UNCHANGED <<mac, rxThread, remove, vdevList, deviceNum, removalFlag,
                   vhost, cur, visited, rx, stop>>

(* map_local_dst_to_queue: the burst goes to the queues of ToR torId[t]. *)
MapBurst(t) ==
    /\ TxGoto(t, "map", "next")
    /\ UNCHANGED <<device, threads, vhost, cur, visited, rx, stop>>

TxStep(t) ==
    \/ TxHead(t) \/ Acknowledge(t) \/ TxFirst(t) \/ TxNext(t)
    \/ LetGo(t) \/ Keep(t) \/ CheckAgain(t)
    \/ DequeueNone(t) \/ DequeueBurst(t) \/ LinkQueues(t) \/ MapBurst(t)

-----------------------------------------------------------------------------
(***************************************************************************)
(* The rx lcore of ToR t: kni_ingress.                                     *)
(***************************************************************************)
RxGoto(t, from, to) ==
    /\ rxPc[t] = from
    /\ rxPc' = [rxPc EXCEPT ![t] = to]
    /\ UNCHANGED <<device, threads, vhost, tx, stop>>

RxStop(t) ==
    /\ kniStop
    /\ RxGoto(t, "head", "stopped")
    /\ UNCHANGED dstVdev

(* Packets may or may not have come in on the links of the circuit switch. *)
RxLoad(t) ==
    /\ ~kniStop
    /\ vdev[t] # None
    /\ \E next \in {"sending", "rotors"} : RxGoto(t, "head", next)
    /\ dstVdev' = [dstVdev EXCEPT ![t] = vdev[t]]

(* vhost_send_burst_all_packets tries until the VM has taken all of them.  *)
(* Nobody takes packets for a device that is gone; what a freed block says *)
(* of its VM is undefined, so any other VM may be given them.              *)
RxSend(t) ==
    /\ Connected # {}
    /\ RxGoto(t, "sending", "rotors")
    /\ UNCHANGED dstVdev

(* ingress_route tries once and drops the packet. *)
RxRotors(t) ==
    /\ RxGoto(t, "rotors", "head")
    /\ dstVdev' = [dstVdev EXCEPT ![t] = None]

RxStep(t) == RxStop(t) \/ RxLoad(t) \/ RxSend(t) \/ RxRotors(t)

-----------------------------------------------------------------------------
(***************************************************************************)
(* SIGINT or SIGRTMIN: signal_handler unregisters the drivers, by which    *)
(* the library removes every device, and stops the lcores afterwards.      *)
(***************************************************************************)
Signal ==
    /\ ~unregistering
    /\ unregistering' = TRUE
    /\ UNCHANGED <<device, threads, vhost, tx, rx, kniStop>>

(* Fault: the lcores are stopped first. *)
StopLcoresFirst ==
    /\ unregistering /\ ~kniStop
    /\ kniStop' = TRUE
    /\ UNCHANGED <<device, threads, vhost, tx, rx, unregistering>>

StopLcores ==
    /\ unregistering /\ ~kniStop
    /\ vhostPc = "idle" /\ Connected = {}
    /\ kniStop' = TRUE
    /\ UNCHANGED <<device, threads, vhost, tx, rx, unregistering>>

Next ==
    \/ \E m \in Tors, b \in Blocks : NewDevice(m, b)
    \/ \E b \in Blocks : MarkRemoved(b)
    \/ Destroying
    \/ \E t \in Tors : TxStep(t) \/ RxStep(t)
    \/ Signal \/ StopLcores

Spec == Init /\ [][Next]_vars

(* The lcores spin on their own cores, the callbacks run in a thread of    *)
(* the library, a connected VM takes its packets, and unregistering goes   *)
(* on until no device is left.  Nothing makes a VM leave or a signal come. *)
Fairness ==
    /\ WF_vars(Destroying)
    /\ WF_vars(unregistering /\ \E b \in Blocks : MarkRemoved(b))
    /\ WF_vars(StopLcores)
    /\ \A t \in Tors : WF_vars(TxStep(t)) /\ WF_vars(RxStep(t))

FairSpec == Spec /\ Fairness

(***************************************************************************)
(*                               Properties                                *)
(***************************************************************************)

(* A tx lcore never touches a device that destroy_device has freed (1728-  *)
(* 1744): it acknowledges only between two walks, and the device has left  *)
(* the list before it is asked.                                            *)
TxOnLiveDevice ==
    \A t \in Tors : txPc[t] \in Holding => cur[t] \in Connected

(* The packets of a VM are put into the queues of its own ToR (586-588,    *)
(* 645), although the lcore remembers one tor_id only and keeps it when    *)
(* devices come and go.                                                    *)
QueuesOfOwnTor ==
    \A t \in Tors : txPc[t] = "map" => torId[t] = mac[cur[t]]

(* No lcore is given a second device while the VMs are no more than the    *)
(* ToRs (1777-1783): what keeps QueuesOfOwnTor.                            *)
OneDevicePerThread ==
    \A b, c \in Connected : rxThread[b] = rxThread[c] => b = c

(* destroy_device does not wait for ever (1711, 1734), because the lcores  *)
(* are only stopped when no device is left (341-342).                      *)
RemovalEnds == vhostPc # "idle" ~> vhostPc = "idle"

(* A signal stops the tx lcores. *)
TxStops == unregistering ~> \A t \in Tors : txPc[t] = "stopped"

(* "We can be sure that they can no longer access the device removed from  *)
(* the linked lists and that the devices are no longer in use" (1729-1731) *)
(* said of every lcore: the rx lcores too.                                 *)
RxOnLiveDevice ==
    \A t \in Tors : dstVdev[t] # None => dstVdev[t] \in Connected

(***************************************************************************)
(* The removal as a grace period: a device in a list is offered, one that  *)
(* is in no list any more and not freed yet is withdrawn.                  *)
(***************************************************************************)
Listed == UNION {vdevList[t] : t \in Tors}
Phase ==
    [b \in Blocks |-> IF b \in Listed THEN "offered"
                      ELSE IF b \in Connected THEN "withdrawn" ELSE "free"]
Using == [t \in Tors |-> IF txPc[t] \in Holding THEN cur[t] ELSE None]

Grace == INSTANCE GracePeriod WITH phase <- Phase, using <- Using

(* No tx lcore takes up a device that has left the lists, and its memory   *)
(* is freed when none uses it any more (1720-1744), whichever lcores were  *)
(* in the middle of a walk when it left.                                   *)
GraceSpec == Grace!Spec

=============================================================================
