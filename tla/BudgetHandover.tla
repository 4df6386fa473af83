--------------------------- MODULE BudgetHandover ---------------------------
(***************************************************************************)
(* The handover of slot budgets inside one ToR-emulation process           *)
(* (end-host/docker/app/main.c).                                           *)
(*                                                                         *)
(* One sync lcore polls the sync port.  A sync frame carries the VLAN id   *)
(* of the matching that is now active: the thread stores it in             *)
(* active_matching, rewrites the budgets of every ToR in place, ToR by     *)
(* ToR, and flips lock_budget of a ToR when its budgets are complete.      *)
(* One tx2 lcore per ToR loops: read active_matching, read lock_budget,    *)
(* copy the budgets when the flag differs from the one seen last, then     *)
(* walk over the rotors and drain every queue within its budget, tagging   *)
(* each packet with the matching that was read at the head of the loop.    *)
(* Nothing else synchronises the two.                                      *)
(*                                                                         *)
(* A step here is one access of a thread to shared memory: the store of    *)
(* active_matching, one memset, the allocation of one queue class of one   *)
(* rotor, the flip; one load, one memcpy, one drained ring.  Packets are   *)
(* counted, not named: a queue is its length.                              *)
(***************************************************************************)
EXTENDS BudgetAllocation

CONSTANTS
    NumTors,       \* num_tors: ToRs emulated by this process
    NumRotors,     \* num_rotors: rotor ports of each ToR
    Vids,          \* VLAN ids of the matchings (all above MinMatchingVid)
    VidToQid,      \* vid_to_qid_mapping of each ToR and rotor
    SelfRack,      \* p->id: the rack a ToR is itself
    Mode,          \* indirect_routing: "direct", "max" or "fixed"
    VmTargets,     \* bound: racks the VMs send to
    RingSize,      \* RING_SIZE: capacity of a queue
    BurstSize,     \* PKT_BURST_SZ
    Shaped,        \* whether a shaping period may be used up (shaping.c)
    Uninitialised, \* values the uninitialised copy of tx2 may hold
    SlotIsLong     \* see FrameMayCome

MinMatchingVid == 1

Tors   == 0 .. NumTors - 1
Rotors == 0 .. NumRotors - 1
Flag   == {0, 1}
NoVid  == 0

ASSUME HandoverAssumption ==
    /\ NumTors \in Nat \ {0}
    /\ NumRotors \in Nat \ {0}
    /\ Vids \subseteq {v \in Nat : v > MinMatchingVid}   \* at most 127: payload[2] is signed
    /\ VidToQid \in [Tors -> [Rotors -> [Vids -> Racks]]]
    /\ SelfRack \in [Tors -> Racks]
    /\ Mode \in {"direct", "max", "fixed"}
    /\ RingSize \in Nat
    /\ BurstSize \in Nat \ {0}
    /\ Shaped \in BOOLEAN
    /\ Uninitialised \subseteq Nat /\ Uninitialised # {}
    /\ SlotIsLong \in BOOLEAN

VARIABLES
    (* shared memory *)
    activeMatching,   \* active_matching
    localBudgets,     \* tor_params.local_budgets, per ToR, rotor and queue
    nonlocalBudgets,  \* tor_params.nonlocal_budgets
    lockBudget,       \* tor_params.lock_budget
    queues,           \* length of the VOQs filled by the VM of the ToR
    nonlocalQueues,   \* length of the queues of second-hop traffic
    (* the sync thread *)
    syncPc, vid, syncTor, syncRotor, remaining,
    (* the tx2 threads *)
    pc, actMatching, oldLock, lockRead, myLocal, myNonlocal, rotor, dst,
    (* history *)
    published,        \* matching whose budgets were last completed, per ToR
    copied,           \* matching whose budgets tx2 holds (NoVid: none yet)
    clean,            \* ToRs whose tx2 loop overlaps no sync frame so far
    settled,          \* ToRs that ran a whole clean loop since the last slot began
    sent              \* packets per rotor since the budgets were copied

shared  == <<activeMatching, localBudgets, nonlocalBudgets, lockBudget>>
traffic == <<queues, nonlocalQueues>>
sync    == <<syncPc, vid, syncTor, syncRotor, remaining>>
tx2     == <<pc, actMatching, oldLock, lockRead, myLocal, myNonlocal, rotor, dst>>
history == <<published, copied, clean, settled, sent>>
vars    == <<shared, traffic, sync, tx2, history>>

Budgets == [Rotors -> [Racks -> Nat]]

SyncSteps == {"poll", "resetLocal", "resetNonlocal", "rotor", "local",
              "indirect", "toggle"}
TxSteps   == {"start", "readMatching", "readLock", "copyNonlocal", "copyLocal",
              "rotor", "nonlocal", "local"}
Copying   == {"copyNonlocal", "copyLocal"}
Egress    == {"rotor", "nonlocal", "local"}

SharedOK ==
    /\ activeMatching \in Vids \cup {MinMatchingVid}
    /\ localBudgets \in [Tors -> Budgets]
    /\ nonlocalBudgets \in [Tors -> Budgets]
    /\ lockBudget \in [Tors -> Flag]

TrafficOK ==
    /\ queues \in [Tors -> [Racks -> 0 .. RingSize]]
    /\ nonlocalQueues \in [Tors -> [Racks -> 0 .. RingSize]]

SyncOK ==
    /\ syncPc \in SyncSteps
    /\ vid \in Vids \cup {MinMatchingVid}
    /\ syncTor \in Tors
    /\ syncRotor \in Rotors
    /\ remaining \in 0 .. BudgetPerSlot

Tx2OK ==
    /\ pc \in [Tors -> TxSteps]
    /\ actMatching \in [Tors -> Vids \cup {MinMatchingVid}]
    /\ oldLock \in [Tors -> Flag]
    /\ lockRead \in [Tors -> Flag]
    /\ myLocal \in [Tors -> Budgets]
    /\ myNonlocal \in [Tors -> Budgets]
    /\ rotor \in [Tors -> Rotors]
    /\ dst \in [Tors -> Racks]

HistoryOK ==
    /\ published \in [Tors -> Vids \cup {NoVid}]
    /\ copied \in [Tors -> Vids \cup {NoVid}]
    /\ clean \subseteq Tors
    /\ settled \subseteq Tors
    /\ sent \in [Tors -> [Rotors -> Nat]]

TypeOK == SharedOK /\ TrafficOK /\ SyncOK /\ Tx2OK /\ HistoryOK

(* The local arrays of main_loop (1322-1323) are on the stack and hold any *)
(* value until the first copy.                                             *)
Init ==
    /\ activeMatching = MinMatchingVid
    /\ localBudgets = [t \in Tors |-> [r \in Rotors |-> NoBudget]]
    /\ nonlocalBudgets = [t \in Tors |-> [r \in Rotors |-> NoBudget]]
    /\ lockBudget = [t \in Tors |-> 0]
    /\ queues = [t \in Tors |-> [d \in Racks |-> 0]]
    /\ nonlocalQueues = [t \in Tors |-> [d \in Racks |-> 0]]
    /\ syncPc = "poll"
    /\ vid = MinMatchingVid
    /\ syncTor = 0
    /\ syncRotor = 0
    /\ remaining = 0
    /\ pc = [t \in Tors |-> "start"]
    /\ actMatching = [t \in Tors |-> MinMatchingVid]
    /\ oldLock = [t \in Tors |-> 0]
    /\ lockRead = [t \in Tors |-> 0]
    /\ \E u \in Uninitialised :
          /\ myLocal = [t \in Tors |-> [r \in Rotors |-> [d \in Racks |-> u]]]
          /\ myNonlocal = myLocal
    /\ rotor = [t \in Tors |-> 0]
    /\ dst = [t \in Tors |-> 0]
    /\ published = [t \in Tors |-> NoVid]
    /\ copied = [t \in Tors |-> NoVid]
    /\ clean = {}
    /\ settled = {}
    /\ sent = [t \in Tors |-> [r \in Rotors |-> 0]]

-----------------------------------------------------------------------------
(***************************************************************************)
(* The environment: the VM of a ToR sends a packet (egress_stage1 puts it  *)
(* into a VOQ, whichever rack it is for, the own one included), or a       *)
(* packet for another rack arrives on a rotor port (ingress_route puts it  *)
(* into the queue of its second hop, and packets for the own rack into the *)
(* VM).  A packet that meets a full ring is freed and counted as dropped,  *)
(* which changes nothing here.                                             *)
(***************************************************************************)
VmSends(t, d) ==
    /\ d \in VmTargets
    /\ queues[t][d] < RingSize
    /\ queues' = [queues EXCEPT ![t][d] = @ + 1]
    /\ UNCHANGED <<shared, nonlocalQueues, sync, tx2, history>>

RemoteArrives(t, d) ==
    /\ d # SelfRack[t]
    /\ nonlocalQueues[t][d] < RingSize
    /\ nonlocalQueues' = [nonlocalQueues EXCEPT ![t][d] = @ + 1]
    /\ UNCHANGED <<shared, queues, sync, tx2, history>>

-----------------------------------------------------------------------------
(***************************************************************************)
(* The sync thread.                                                        *)
(***************************************************************************)

(* A slot lasts milliseconds and a tx2 loop microseconds: under SlotIsLong *)
(* a sync frame comes only when every tx2 has run one whole loop since the *)
(* frame that began the slot was handled.  A night frame begins no slot:   *)
(* the next frame may follow it at once, as periodic_send.lua sends them.  *)
(* Before the first slot tx2 need only have started.  The code enforces    *)
(* none of this.                                                           *)
FrameMayCome == SlotIsLong => settled = Tors

(* A sync frame of the clock generator: process_sync_frame stores the      *)
(* matching first.  The two indirect allocations return at once for an     *)
(* open circuit; assign_only_direct still clears the shared budgets.       *)
ReceiveFrame(v) ==
    /\ syncPc = "poll"
    /\ FrameMayCome
    /\ activeMatching' = v
    /\ vid' = v
    /\ syncTor' = 0
    /\ syncPc' = IF v <= MinMatchingVid /\ Mode # "direct" THEN "poll" ELSE "resetLocal"
    /\ clean' = {}
    /\ settled' = IF v <= MinMatchingVid THEN settled ELSE {}
    /\ UNCHANGED <<localBudgets, nonlocalBudgets, lockBudget, syncRotor, remaining,
                   traffic, tx2, published, copied, sent>>

(* On to the next ToR, or back to polling after the last one. *)
NextTor ==
    IF syncTor + 1 < NumTors
    THEN syncTor' = syncTor + 1 /\ syncPc' = "resetLocal"
    ELSE syncTor' = 0 /\ syncPc' = "poll"

(* On to the next rotor of the ToR, or to the flip after the last one. *)
NextRotor ==
    IF syncRotor + 1 < NumRotors
    THEN syncRotor' = syncRotor + 1 /\ syncPc' = "rotor"
    ELSE syncRotor' = 0 /\ syncPc' = "toggle"

(* Fault: the local budgets are not cleared. *)
KeepLocal ==
    /\ syncPc = "resetLocal"
    /\ syncPc' = "resetNonlocal"
    /\ UNCHANGED <<shared, traffic, vid, syncTor, syncRotor, remaining, tx2, history>>

ResetLocal ==
    /\ syncPc = "resetLocal"
    /\ localBudgets' = [localBudgets EXCEPT ![syncTor] = [r \in Rotors |-> NoBudget]]
    /\ syncPc' = "resetNonlocal"
    /\ UNCHANGED <<activeMatching, nonlocalBudgets, lockBudget, traffic,
                   vid, syncTor, syncRotor, remaining, tx2, history>>

(* Fault: the nonlocal budgets are not cleared. *)
KeepNonlocal ==
    /\ syncPc = "resetNonlocal"
    /\ syncRotor' = 0
    /\ IF vid <= MinMatchingVid THEN NextTor ELSE syncPc' = "rotor" /\ UNCHANGED syncTor
    /\ UNCHANGED <<shared, traffic, vid, remaining, tx2, history>>

(* For an open circuit assign_only_direct skips the rotors and the flip. *)
ResetNonlocal ==
    /\ syncPc = "resetNonlocal"
    /\ nonlocalBudgets' = [nonlocalBudgets EXCEPT ![syncTor] = [r \in Rotors |-> NoBudget]]
    /\ syncRotor' = 0
    /\ IF vid <= MinMatchingVid THEN NextTor ELSE syncPc' = "rotor" /\ UNCHANGED syncTor
    /\ UNCHANGED <<activeMatching, localBudgets, lockBudget, traffic,
                   vid, remaining, tx2, history>>

Qid(t, r, v) == VidToQid[t][r][v]

(* Fault: the slot goes to the neighbour of the connected rack. *)
AssignNeighbour ==
    LET next == (Qid(syncTor, syncRotor, vid) + 1) % NbDstRacks
    IN  /\ Mode = "direct"
        /\ syncPc = "rotor"
        /\ localBudgets' = [localBudgets EXCEPT ![syncTor][syncRotor][next] = BudgetPerSlot]
        /\ NextRotor
        /\ UNCHANGED <<activeMatching, nonlocalBudgets, lockBudget, traffic,
                       vid, syncTor, remaining, tx2, history>>

(* The whole slot for the queue of the connected rack. *)
AssignDirect ==
    LET qid == Qid(syncTor, syncRotor, vid)
    IN  /\ Mode = "direct"
        /\ syncPc = "rotor"
        /\ localBudgets' = [localBudgets EXCEPT ![syncTor][syncRotor][qid] = BudgetPerSlot]
        /\ NextRotor
        /\ UNCHANGED <<activeMatching, nonlocalBudgets, lockBudget, traffic,
                       vid, syncTor, remaining, tx2, history>>

AssignFixed ==
    /\ Mode = "fixed"
    /\ syncPc = "rotor"
    /\ localBudgets' =
          [localBudgets EXCEPT ![syncTor][syncRotor] = FixedLocal(Qid(syncTor, syncRotor, vid))]
    /\ nonlocalBudgets' =
          [nonlocalBudgets EXCEPT ![syncTor][syncRotor] = FixedNonlocal(Qid(syncTor, syncRotor, vid))]
    /\ NextRotor
    /\ UNCHANGED <<activeMatching, lockBudget, traffic, vid, syncTor, remaining, tx2, history>>

(* Fault: every rotor uses the mapping of rotor 0. *)
SecondHopOfFirstRotor ==
    LET qid   == Qid(syncTor, 0, vid)
        share == Share(nonlocalQueues[syncTor][qid], BudgetPerSlot)
    IN  /\ Mode = "max"
        /\ syncPc = "rotor"
        /\ nonlocalBudgets' = [nonlocalBudgets EXCEPT ![syncTor][syncRotor][qid] = share]
        /\ remaining' = BudgetPerSlot - share
        /\ IF remaining' = 0 THEN NextRotor ELSE syncPc' = "local" /\ UNCHANGED syncRotor
        /\ UNCHANGED <<activeMatching, localBudgets, lockBudget, traffic,
                       vid, syncTor, tx2, history>>

(* The second-hop traffic first ... *)
AssignSecondHop ==
    LET qid   == Qid(syncTor, syncRotor, vid)
        share == Share(nonlocalQueues[syncTor][qid], BudgetPerSlot)
    IN  /\ Mode = "max"
        /\ syncPc = "rotor"
        /\ nonlocalBudgets' = [nonlocalBudgets EXCEPT ![syncTor][syncRotor][qid] = share]
        /\ remaining' = BudgetPerSlot - share
        /\ IF remaining' = 0 THEN NextRotor ELSE syncPc' = "local" /\ UNCHANGED syncRotor
        /\ UNCHANGED <<activeMatching, localBudgets, lockBudget, traffic,
                       vid, syncTor, tx2, history>>

(* Fault: the budget of every rotor is written to rotor 0. *)
LocalOfFirstRotor ==
    LET qid   == Qid(syncTor, syncRotor, vid)
        share == Share(queues[syncTor][qid], remaining)
    IN  /\ syncPc = "local"
        /\ localBudgets' = [localBudgets EXCEPT ![syncTor][0][qid] = share]
        /\ remaining' = remaining - share
        /\ IF remaining' = 0 THEN NextRotor ELSE syncPc' = "indirect" /\ UNCHANGED syncRotor
        /\ UNCHANGED <<activeMatching, nonlocalBudgets, lockBudget, traffic,
                       vid, syncTor, tx2, history>>

(* Fault: the second hop does not count. *)
LocalOfWholeSlot ==
    LET qid   == Qid(syncTor, syncRotor, vid)
        share == Share(queues[syncTor][qid], BudgetPerSlot)
    IN  /\ syncPc = "local"
        /\ localBudgets' = [localBudgets EXCEPT ![syncTor][syncRotor][qid] = share]
        /\ remaining' = BudgetPerSlot - share
        /\ IF remaining' = 0 THEN NextRotor ELSE syncPc' = "indirect" /\ UNCHANGED syncRotor
        /\ UNCHANGED <<activeMatching, nonlocalBudgets, lockBudget, traffic,
                       vid, syncTor, tx2, history>>

(* ... then the traffic of the own rack on the direct path ... *)
AssignLocal ==
    LET qid   == Qid(syncTor, syncRotor, vid)
        share == Share(queues[syncTor][qid], remaining)
    IN  /\ syncPc = "local"
        /\ localBudgets' = [localBudgets EXCEPT ![syncTor][syncRotor][qid] = share]
        /\ remaining' = remaining - share
        /\ IF remaining' = 0 THEN NextRotor ELSE syncPc' = "indirect" /\ UNCHANGED syncRotor
        /\ UNCHANGED <<activeMatching, nonlocalBudgets, lockBudget, traffic,
                       vid, syncTor, tx2, history>>

(* ... then a fifth of the rest for the longest queue, on its first hop. *)
AssignIndirect ==
    /\ syncPc = "indirect"
    /\ \E longest \in Racks :
          /\ IsLongestQueue(longest, queues[syncTor], Qid(syncTor, syncRotor, vid))
          /\ localBudgets' =
                [localBudgets EXCEPT ![syncTor][syncRotor][longest] = IndirectShare(remaining)]
    /\ NextRotor
    /\ UNCHANGED <<activeMatching, nonlocalBudgets, lockBudget, traffic,
                   vid, syncTor, remaining, tx2, history>>

(* Fault: the flag of the first ToR is flipped for every ToR. *)
ToggleFirst ==
    /\ syncPc = "toggle"
    /\ lockBudget' = [lockBudget EXCEPT ![0] = 1 - @]
    /\ published' = [published EXCEPT ![syncTor] = vid]
    /\ NextTor
    /\ UNCHANGED <<activeMatching, localBudgets, nonlocalBudgets, traffic,
                   vid, syncRotor, remaining, tx2, copied, clean, settled, sent>>

(* Fault: the flags of all ToRs are flipped with each ToR. *)
ToggleAll ==
    /\ syncPc = "toggle"
    /\ lockBudget' = [t \in Tors |-> 1 - lockBudget[t]]
    /\ published' = [published EXCEPT ![syncTor] = vid]
    /\ NextTor
    /\ UNCHANGED <<activeMatching, localBudgets, nonlocalBudgets, traffic,
                   vid, syncRotor, remaining, tx2, copied, clean, settled, sent>>

(* Fault: the flag is not flipped. *)
ToggleForgotten ==
    /\ syncPc = "toggle"
    /\ published' = [published EXCEPT ![syncTor] = vid]
    /\ NextTor
    /\ UNCHANGED <<shared, traffic, vid, syncRotor, remaining, tx2, copied, clean, settled, sent>>

(* The budgets of a ToR are complete: flip its flag. *)
Toggle ==
    /\ syncPc = "toggle"
    /\ lockBudget' = [lockBudget EXCEPT ![syncTor] = 1 - @]
    /\ published' = [published EXCEPT ![syncTor] = vid]
    /\ NextTor
    /\ UNCHANGED <<activeMatching, localBudgets, nonlocalBudgets, traffic,
                   vid, syncRotor, remaining, tx2, copied, clean, settled, sent>>

SyncStep ==
    \/ ResetLocal \/ ResetNonlocal
    \/ AssignDirect \/ AssignFixed
    \/ AssignSecondHop \/ AssignLocal \/ AssignIndirect
    \/ Toggle

-----------------------------------------------------------------------------
(***************************************************************************)
(* The tx2 thread of ToR t: main_loop and egress_stage2.                   *)
(***************************************************************************)
Goto(t, from, to) ==
    /\ pc[t] = from
    /\ pc' = [pc EXCEPT ![t] = to]

Start(t) ==
    /\ Goto(t, "start", "readMatching")
    /\ oldLock' = [oldLock EXCEPT ![t] = lockBudget[t]]
    /\ settled' = settled \cup {t}
    /\ UNCHANGED <<shared, traffic, sync, actMatching, lockRead, myLocal, myNonlocal,
                   rotor, dst, published, copied, clean, sent>>

ReadMatching(t) ==
    /\ Goto(t, "readMatching", "readLock")
    /\ actMatching' = [actMatching EXCEPT ![t] = activeMatching]
    /\ clean' = IF syncPc = "poll" THEN clean \cup {t} ELSE clean \ {t}
    /\ UNCHANGED <<shared, traffic, sync, oldLock, lockRead, myLocal, myNonlocal,
                   rotor, dst, published, copied, settled, sent>>

(* Fault: the budgets are copied when the flag has not changed. *)
ReadLockInverted(t) ==
    /\ Goto(t, "readLock", IF lockBudget[t] = oldLock[t] THEN "copyNonlocal" ELSE "rotor")
    /\ lockRead' = [lockRead EXCEPT ![t] = lockBudget[t]]
    /\ UNCHANGED <<shared, traffic, sync, actMatching, oldLock, myLocal, myNonlocal,
                   rotor, dst, history>>

ReadLock(t) ==
    /\ Goto(t, "readLock", IF lockBudget[t] # oldLock[t] THEN "copyNonlocal" ELSE "rotor")
    /\ lockRead' = [lockRead EXCEPT ![t] = lockBudget[t]]
    /\ UNCHANGED <<shared, traffic, sync, actMatching, oldLock, myLocal, myNonlocal,
                   rotor, dst, history>>

CopyNonlocal(t) ==
    /\ Goto(t, "copyNonlocal", "copyLocal")
    /\ myNonlocal' = [myNonlocal EXCEPT ![t] = nonlocalBudgets[t]]
    /\ UNCHANGED <<shared, traffic, sync, actMatching, oldLock, lockRead, myLocal,
                   rotor, dst, history>>

(* Fault: the flag seen is not remembered, so every loop copies. *)
CopyLocalEveryLoop(t) ==
    /\ Goto(t, "copyLocal", "rotor")
    /\ myLocal' = [myLocal EXCEPT ![t] = localBudgets[t]]
    /\ copied' = [copied EXCEPT ![t] = published[t]]
    /\ sent' = [sent EXCEPT ![t] = [r \in Rotors |-> 0]]
    /\ UNCHANGED <<shared, traffic, sync, actMatching, oldLock, lockRead, myNonlocal,
                   rotor, dst, published, clean, settled>>

CopyLocal(t) ==
    /\ Goto(t, "copyLocal", "rotor")
    /\ myLocal' = [myLocal EXCEPT ![t] = localBudgets[t]]
    /\ oldLock' = [oldLock EXCEPT ![t] = lockRead[t]]
    /\ copied' = [copied EXCEPT ![t] = published[t]]
    /\ sent' = [sent EXCEPT ![t] = [r \in Rotors |-> 0]]
    /\ UNCHANGED <<shared, traffic, sync, actMatching, lockRead, myNonlocal,
                   rotor, dst, published, clean, settled>>

(* On to the next rotor, or back to the head of the loop after the last. *)
NextPort(t) ==
    /\ dst' = [dst EXCEPT ![t] = 0]
    /\ IF rotor[t] + 1 < NumRotors
       THEN /\ rotor' = [rotor EXCEPT ![t] = @ + 1]
            /\ pc' = [pc EXCEPT ![t] = "rotor"]
            /\ UNCHANGED settled
       ELSE /\ rotor' = [rotor EXCEPT ![t] = 0]
            /\ pc' = [pc EXCEPT ![t] = "readMatching"]
            /\ settled' = IF t \in clean THEN settled \cup {t} ELSE settled

(* The port is passed over on an open circuit, or when its share of the    *)
(* shaping period is used up.                                              *)
PassOver(t) ==
    /\ pc[t] = "rotor"
    /\ actMatching[t] <= MinMatchingVid \/ Shaped
    /\ NextPort(t)
    /\ UNCHANGED <<shared, traffic, sync, actMatching, oldLock, lockRead,
                   myLocal, myNonlocal, published, copied, clean, sent>>

EnterRotor(t) ==
    /\ Goto(t, "rotor", "nonlocal")
    /\ actMatching[t] > MinMatchingVid
    /\ UNCHANGED <<shared, traffic, sync, actMatching, oldLock, lockRead,
                   myLocal, myNonlocal, rotor, dst, history>>

(* Fault: the budget does not limit the burst. *)
DrainedFreely(budget, count) == Share(BurstSize, count)

(* drain_queue_by_budget: at most a burst, at most the budget, at most     *)
(* what the ring holds.  send_burst_all_packets retries until all is sent. *)
Drained(budget, count) == Share(Share(budget, BurstSize), count)

DrainNonlocal(t) ==
    LET r == rotor[t]
        d == dst[t]
        n == Drained(myNonlocal[t][r][d], nonlocalQueues[t][d])
    IN  /\ pc[t] = "nonlocal"
        /\ nonlocalQueues' = [nonlocalQueues EXCEPT ![t][d] = @ - n]
        /\ myNonlocal' = [myNonlocal EXCEPT ![t][r][d] = @ - n]
        /\ sent' = [sent EXCEPT ![t][r] = @ + n]
        /\ IF d + 1 < NbDstRacks
           THEN dst' = [dst EXCEPT ![t] = d + 1] /\ UNCHANGED pc
           ELSE dst' = [dst EXCEPT ![t] = 0] /\ pc' = [pc EXCEPT ![t] = "local"]
        /\ UNCHANGED <<shared, queues, sync, actMatching, oldLock, lockRead, myLocal,
                       rotor, published, copied, clean, settled>>

DrainLocal(t) ==
    LET r == rotor[t]
        d == dst[t]
        n == Drained(myLocal[t][r][d], queues[t][d])
    IN  /\ pc[t] = "local"
        /\ queues' = [queues EXCEPT ![t][d] = @ - n]
        /\ myLocal' = [myLocal EXCEPT ![t][r][d] = @ - n]
        /\ sent' = [sent EXCEPT ![t][r] = @ + n]
        /\ IF d + 1 < NbDstRacks
           THEN dst' = [dst EXCEPT ![t] = d + 1] /\ UNCHANGED <<pc, rotor, settled>>
           ELSE NextPort(t)
        /\ UNCHANGED <<shared, nonlocalQueues, sync, actMatching, oldLock, lockRead, myNonlocal,
                       published, copied, clean>>

Tx2Step(t) ==
    \/ Start(t) \/ ReadMatching(t) \/ ReadLock(t)
    \/ CopyNonlocal(t) \/ CopyLocal(t)
    \/ PassOver(t) \/ EnterRotor(t) \/ DrainNonlocal(t) \/ DrainLocal(t)

-----------------------------------------------------------------------------
Next ==
    \/ \E v \in Vids \cup {MinMatchingVid} : ReceiveFrame(v)
    \/ SyncStep
    \/ \E t \in Tors : Tx2Step(t)
    \/ \E t \in Tors, d \in Racks : VmSends(t, d) \/ RemoteArrives(t, d)

Spec == Init /\ [][Next]_vars

(* Both lcores spin on their own core and never block; the clock generator *)
(* sends every matching once per cycle, so each of them comes again and    *)
(* again although single frames may be lost.                               *)
Fairness ==
    /\ WF_vars(SyncStep)
    /\ \A t \in Tors : WF_vars(Tx2Step(t))
    /\ \A v \in Vids : SF_vars(ReceiveFrame(v))

FairSpec == Spec /\ Fairness

(***************************************************************************)
(*                               Properties                                *)
(***************************************************************************)

(* The sync thread is rewriting the budgets of ToR t: from the first       *)
(* memset to the flip of lock_budget.                                      *)
Writing(t) == syncPc # "poll" /\ syncTor = t

(* What lock_budget is there for ("semaphore for budgets", config.h:199):  *)
(* tx2 never copies budgets that are being rewritten, so a copy is never a *)
(* mix of two allocations.  Holds only because slots are long.             *)
BudgetsExclusive == \A t \in Tors : Writing(t) => pc[t] \notin Copying

(* On the budgets of one copy a rotor never sends more than                *)
(* budget_per_slot: what it has sent and what it may still send are        *)
(* together within the slot, for each of the allocations.                  *)
SlotBudget ==
    \A t \in Tors : copied[t] # NoVid /\ pc[t] \notin Copying =>
        \A r \in Rotors :
            sent[t][r] + Total(myLocal[t][r]) + Total(myNonlocal[t][r]) <= BudgetPerSlot

(* A loop of tx2 that no sync frame disturbs sends on the budgets of the   *)
(* matching it tags its packets with (1330, 1335-1341, 885): stale budgets *)
(* are confined to loops that overlap the handling of a sync frame.        *)
CleanLoopMatches ==
    \A t \in Tors :
        t \in clean /\ pc[t] \in Egress /\ actMatching[t] > MinMatchingVid
            => copied[t] = actMatching[t]

(* Outside the handover a packet of the second-hop queues is only sent to  *)
(* the rack it is destined for: it takes at most two hops.                 *)
SecondHopInCleanLoop ==
    [][\A t \in Tors, d \in Racks :
          t \in clean /\ nonlocalQueues'[t][d] < nonlocalQueues[t][d]
              => d = Qid(t, rotor[t], actMatching[t])]_vars

(* Outside the handover, direct routing sends the packets of the VM only   *)
(* to the rack they are destined for.                                      *)
DirectInCleanLoop ==
    [][\A t \in Tors, d \in Racks :
          Mode = "direct" /\ t \in clean /\ queues'[t][d] < queues[t][d]
              => d = Qid(t, rotor[t], actMatching[t])]_vars

(***************************************************************************)
(* Why these hold: what is true between any two steps while slots are      *)
(* long.  Pending: the flag of ToR t is still to be flipped for the frame  *)
(* being handled.  CaughtUp: tx2 has taken every allocation published.     *)
(***************************************************************************)
Pending(t)  == syncPc # "poll" /\ syncTor <= t
CaughtUp(t) == pc[t] \notin Copying \cup {"start"} /\ oldLock[t] = lockBudget[t]

(* The sync thread only starts on budgets that tx2 has long taken.         *)
HandshakeOf(t) ==
    /\ t \in settled \/ Pending(t) => CaughtUp(t)
    /\ pc[t] \in Copying => lockRead[t] = lockBudget[t] /\ oldLock[t] # lockBudget[t]
    /\ pc[t] = "start" => oldLock[t] = lockBudget[t]
    /\ oldLock[t] = lockBudget[t] => copied[t] = published[t]

(* What a loop of tx2 that overlaps no sync frame knows.                   *)
CleanOf(t) ==
    /\ t \in settled \/ pc[t] = "start" => syncPc = "poll" \/ vid <= MinMatchingVid
    /\ t \in clean => syncPc = "poll" /\ pc[t] # "start"
    /\ t \in clean /\ pc[t] # "readMatching" => actMatching[t] = activeMatching
    /\ t \in clean /\ pc[t] \in Egress => oldLock[t] = lockBudget[t]
    /\ pc[t] \in {"nonlocal", "local"} => actMatching[t] > MinMatchingVid

(* Which matching the published budgets are for.                           *)
PublishedInv ==
    /\ syncPc = "poll" /\ activeMatching > MinMatchingVid
          => \A t \in Tors : published[t] = activeMatching
    /\ syncPc # "poll"
          => /\ vid = activeMatching
             /\ vid > MinMatchingVid => \A t \in Tors : t < syncTor => published[t] = vid
    /\ syncPc \in {"local", "indirect"} => Mode = "max"

(* Budgets of ToR t that let it send only to the rack matching v connects. *)
OnlyFor(budgets, t, v) ==
    \A r \in Rotors, d \in Racks : budgets[r][d] > 0 => v # NoVid /\ d = Qid(t, r, v)

(* The matching the shared budgets and the nonlocal copy are for.          *)
SharedVid(t) == IF Writing(t) /\ syncPc \notin {"resetLocal", "resetNonlocal"}
                THEN vid ELSE published[t]
HeldVid(t)   == IF pc[t] = "copyLocal" THEN published[t] ELSE copied[t]

NonlocalOf(t) ==
    /\ OnlyFor(nonlocalBudgets[t], t, SharedVid(t))
    /\ HeldVid(t) # NoVid => OnlyFor(myNonlocal[t], t, HeldVid(t))

DirectOf(t) ==
    /\ OnlyFor(localBudgets[t], t, SharedVid(t))
    /\ syncPc = "resetNonlocal" /\ syncTor = t => localBudgets[t] = [r \in Rotors |-> NoBudget]
    /\ copied[t] # NoVid => OnlyFor(myLocal[t], t, copied[t])

(* The inductive invariant behind BudgetsExclusive, CleanLoopMatches and   *)
(* the two properties of clean loops: flag, copies and contents agree.     *)
HandoverInv ==
    /\ PublishedInv
    /\ \A t \in Tors : /\ HandshakeOf(t)
                       /\ CleanOf(t)
                       /\ NonlocalOf(t)
                       /\ Mode = "direct" => DirectOf(t)


(* A full VOQ does not stay full: the slot of its rack comes and serves it *)
(* (allocations "direct" and "fixed", which give every queue a share).     *)
LocalQueuesServed ==
    \A t \in Tors, d \in Racks :
        d # SelfRack[t] => []<>(queues[t][d] < RingSize)

(* Likewise for the second-hop queues (allocations "fixed" and "max").     *)
NonlocalQueuesServed ==
    \A t \in Tors, d \in Racks :
        d # SelfRack[t] => []<>(nonlocalQueues[t][d] < RingSize)

(***************************************************************************)
(* The handover as a box with room for one allocation.  An allocation is   *)
(* posted by the flip, and taken when tx2 starts to copy: the sync thread  *)
(* changes nothing before the second array is copied too.                  *)
(***************************************************************************)
Box ==
    [t \in Tors |->
        IF oldLock[t] # lockBudget[t] /\ pc[t] # "copyLocal"
        THEN {[local |-> localBudgets[t], nonlocal |-> nonlocalBudgets[t]]} ELSE {}]

Held ==
    [t \in Tors |->
        [local    |-> IF pc[t] = "copyLocal" THEN localBudgets[t] ELSE myLocal[t],
         nonlocal |-> myNonlocal[t]]]

Mailbox == INSTANCE BudgetMailbox WITH box <- Box, held <- Held

(* Every allocation is handed over once and whole, although the two arrays *)
(* are copied one after the other and the flag has one bit (1036, 1070,    *)
(* 1091 and 1335-1342): one flip too many and a frame's budgets are lost.  *)
MailboxSpec == Mailbox!Spec

=============================================================================
