# Verification of exrec

TLA+ models of [ExRec](../src/README.md), a testbed that emulates the ToR switches of a
reconfigurable data-center network: rotor switches that step through fixed matchings, driven by a
clock generator, and a demand-aware circuit switch that is set by a controller. The
models are checked with TLC on small instances; the theorems are proved with TLAPS for all values
of the constants. `PROJECT.json` holds the runs, the map from definitions to source lines, the
hazards and the fault injected for every property.

## 1. The system

| Component | Source | State | Operations | Interacts with |
|---|---|---|---|---|
| Budget handover: sync lcore and tx2 lcores | `end-host/docker/app/main.c` 850-1131, 1202-1244, 1318-1374, `config.h` | `active_matching`, `local_budgets`, `nonlocal_budgets`, `lock_budget`, the copies on the stack of tx2 | `process_sync_frame`, `assign_*`, the tx2 loop, `egress_stage2`, `drain_queue_by_budget` | frames of the clock generator; shared memory between the lcores; rings filled by the packet path |
| Packet path | `main.c` 347-663, 739-778, 850-900 | rings of the VOQs, second-hop queues and cache queues, mbufs, counters | `ingress_route`, `kni_ingress`, `get_dst_qid`, `map_local_dst_to_queue`, `egress_stage1`, `send_burst_all_packets` | virtio queues of the VM, NIC ports, the rings that tx2 drains |
| vhost devices | `main.c` 577-593, 1698-1807 | device list, `ready`, `remove`, `dev_removal_flag`, `tor_params.vdev` | `new_device`, `link_queues`, `destroy_device` | callbacks of the vhost thread against the rx and tx lcores |
| Cache control plane | `main.c` 1138-1197, `da-controller/src/` | `cache_active`, flow mappings, circuits of the switch | `process_cplane_frame`, `reconfigure_links`, scheduled changes | UDP messages without acknowledgement, OCS over TL1 |
| Shaper | `shaping.c` | `remaining_cycles` per link | `prepare_shaping`, `reset_shaper`, `decrease_shaper` | the tx2 loop |
| Statistics ring buffer | `ringbuffer.c` | `head`, `tail`, `full`, cells | `circular_buf_*` | tx2 (writer) and print thread (reader) |
| Statistics threads | `main.c` 148-250, 668-736, 1505-1571 | temp values and two paired buffers per counter | `collect_cycle_sample`, `print_thread_stats` | the ring buffer, without synchronisation |
| ToR configuration | `config.c` | `tor_params_array` | `process_object`, `extract_*` | everything reads it |
| Process start and stop | `main.c` 319-345, 1249-1400 | `kni_stop` | `signal_handler`, lcore loops | vhost devices |
| Clock generator | `clkgen/moongen` | current matching | days and nights of the cycle | sync frames |
| Rotor switch rules | `do-controller/src/` | static OpenFlow tables per VLAN | none at run time | frames of the ToRs |
| Experiment automation | `automation/` | processes on the servers | `run`, `__prepare_*`, `__clean_up` | SSH |

What makes the code hard: the lcores share memory with one flag and no lock; a loop of tx2 uses
values it read at different moments; frames come at any point of a loop, are lost, or are not for
any matching (a night, also called an open circuit); callbacks of vhost race with the lcores; the
control plane is UDP. The hazards, each at its line, are in `PROJECT.json`.

What correct means, component by component:

* *Handover*: a copy of the budgets is one allocation; in a loop that no frame disturbs, budgets
  and VLAN tag belong to the same matching; no slot is oversold; second-hop packets only go to
  their rack; full queues are served.
* *Ring buffer*: a bounded log. *Statistics threads*: what is printed was measured, and once.
* *Packet path*: every mbuf is in one place, and freed once; the counters agree with the queues.
* *vhost devices*: no lcore uses a freed device; removal ends; a packet goes to the VM of its ToR.
* *Cache control plane*: packets are put on a circuit only when it reaches their rack, and a ToR that
  heard everything uses the circuits it has.
* *Shaper*: a link sends for no longer than its share of a period, and not at all only when that
  is used up; a used-up link is served again in the next period.
* *Configuration*: what one key leaves is enough for what reads it, in whatever order they come.
* *Experiment*: whatever fails, everything that was started is stopped.

## 2. Modules

| Module | What it is |
|---|---|
| `BudgetAllocation` | the arithmetic of the three allocations (`assign_*`) as operators on numbers and queue lengths |
| `BudgetHandover` | the sync lcore and one tx2 lcore per ToR, and their properties |
| `BudgetMailbox` | what the handover promises: a box with room for one allocation per ToR |
| `MCBudgetHandover` | the small topologies of the runs |
| `BudgetHandoverProofs`, `BudgetHandoverSlots` | type correctness, the inductive invariant and what follows from it; the slot |
| `BoundedLog` | what a statistics buffer promises |
| `CircularBuffer`, `CircularBufferProofs` | `ringbuffer.c` with its refinement mapping to `BoundedLog`; its invariant and the refinement |
| `ThreadStats`, `ThreadStatsProofs` | tx2 and the print thread on two pairs of statistics buffers, access by access; the inductive invariant of the reports |
| `GracePeriod` | what the removal of a device promises the tx lcores |
| `VhostDevices`, `MCVhostDevices`, `VhostDevicesProofs` | connecting and removing VMs, the tx and rx lcores that use the devices, the stop signal; symmetry of the memory blocks; two inductive invariants |
| `PacketPath`, `PacketPathProofs` | who holds which mbuf in the process of a ToR, and the shaper; its invariants |
| `TorConfig` | what the fields of a ToR in the configuration leave, in the order of the file |
| `CachePlane`, `MCCachePlane`, `CachePlaneProofs` | the controller of the circuit switch, its messages and the flow mappings, on a configuration of `TorConfig`; three racks and two lists of links; the invariants, what the fields leave for every file, and the delivery of a list |
| `SumTheorems` | facts about sums over finite sets and folds over sequences, and the induction they need |

`ThreadStats`, `PacketPath` and `CachePlane` look at the same tx2 and sync lcores as
`BudgetHandover` from another side each; what one of them leaves open (which packets a drain may
take, which queue a packet goes to, which frame comes) is what another one is about.

Definitions marked `Fault:` stand right before the one they are a faulty version of. No
specification uses them; each shows that a property notices the mistake.

### 2.1 The budget handover

A sync frame carries the VLAN id of the matching that is active from now on. `process_sync_frame`
stores it in `active_matching` (`ReceiveFrame`), then rewrites the budgets of all ToRs in place,
one ToR after the other, and flips `lock_budget` of a ToR when its budgets are complete. The tx2
thread of a ToR reads `active_matching`, reads `lock_budget`, copies the budgets when the flag
differs from the one it saw last, and drains every queue of every rotor within its budget.

A step is one access to shared memory, so that every interleaving of the two threads that can make
a difference is a behaviour:

| Code (`main.c`) | Actions |
|---|---|
| store of `active_matching`, 1113 | `ReceiveFrame` |
| two `memset`s, 978-981, 1048-1051, 1079-1085 | `ResetLocal`, `ResetNonlocal` |
| budgets of one rotor | `AssignDirect` (1086-1090), `AssignFixed` (1052-1069); longest queue in three steps, because it reads the rings in between: `AssignSecondHop` (985-1002), `AssignLocal` (1005-1015), `AssignIndirect` (1019-1033) |
| flip, 1036, 1070, 1091 | `Toggle` |
| 1325, 1330, 1335 | `Start`, `ReadMatching`, `ReadLock` |
| two `memcpy`s and the flag seen last, 1339-1341 | `CopyNonlocal`, `CopyLocal` |
| per rotor and ring, 901-967 with 780-843 | `PassOver`, `EnterRotor`, `DrainNonlocal`, `DrainLocal` |
| `rte_ring` enqueue by the rx and tx lcores | `VmSends`, `RemoteArrives` |

Abstractions. Packets are counted: a ring is its length, capped by its usable capacity `RingSize`.
A packet of the VM may be for any rack, the
own one included, which gets a VOQ like the others (`VmTargets` bounds for which racks a run has traffic). A `memset` or `memcpy` is one step; mixing two allocations is still visible, because the two arrays
are copied in two steps. The search for the longest queue reads all lengths at one
moment. A used-up shaping period (`Shaped`) passes over a port at any time. Before the first flip
tx2 reads uninitialised arrays; they hold any value of `Uninitialised`. The order of memory
accesses is that of the program. Counters `published`, `copied`, `clean`, `settled` and
`sent` are history: no action's guard reads them, except that `SlotIsLong` reads `settled`.

*`SlotIsLong`* is the assumption that a slot, which lasts milliseconds, is longer than one
loop of tx2, which lasts microseconds: a frame is handled only after every tx2 thread
has run a whole loop since the frame that began the slot. A frame of the night begins no slot, so the next
day may follow it at once, as with the default duty of `periodic_send.lua`; and before the first
slot a tx2 thread need only have started. No code enforces it: without it a frame may come while
tx2 copies, and `lock_budget`, which nobody waits for, does not keep the two apart. It is a
constant, and the theorems name it.

*What it promises.* `BudgetMailbox` has a box with room for one allocation per ToR. The sync thread posts into an
empty box, tx2 takes the allocation out and spends it. The refinement mapping: a box is full when the flag differs from
the one tx2 saw last (`Box`), an allocation is posted by the flip and taken with the first `memcpy`; from
then to the second one tx2 holds what is in shared memory already (`Held`), since nobody changes it. The two
`memset`s, also those for an open circuit, which no flip follows, are stutters.

*Fairness.* `WF_vars(SyncStep)` and `WF_vars(Tx2Step(t))`: the lcores spin on cores of their own
and never block. `SF_vars(ReceiveFrame(v))` for every matching `v`: the clock generator sends the
matchings in a cycle for ever (`periodic_send.lua`), so a frame of each is handled again and again
although single frames may be lost. Nothing is assumed of traffic.

### 2.2 The ring buffer

One action per function of `ringbuffer.c`; `advance_pointer` and `retreat_pointer` are operators.
`Contents` reads the values between `tail` and `head` and maps the ring to `BoundedLog`, where
`put` gives up the oldest of a full log, `put2` refuses, `get` takes the oldest. The calls are
those of one thread at a time; what two threads do to a ring is in 2.4. `circular_buf_free` and
`circular_buf_capacity` change nothing that a later call may use.

### 2.3 The vhost devices

The vhost library calls `new_device` when a VM connects (`NewDevice`) and `destroy_device` when it
leaves: mark the device, wait for its tx lcore to mark it safe, unlink it, set the removal flag of
every ToR, wait for every tx lcore to clear its flag, free (`MarkRemoved`, `Unlink`,
`RequestRemoval`, `AwaitAck`, `Free`). A tx lcore clears the flag at the top of its loop
(`Acknowledge`) and then walks over its list (`TxFirst` to `TxNext`); every look at the device is a
step of its own. The first burst of a device tells the lcore which ToR it fills the queues of
(`LinkQueues`). A rx lcore takes `tor_params.vdev` (`RxLoad`) and uses it through the rest of
`kni_ingress` (`RxSend`, `RxRotors`). `signal_handler` unregisters the drivers first, which removes
every device, and sets `kni_stop` afterwards (`Signal`, `StopLcores`).

Abstractions. A device is a block of memory that is handed out again after it was freed; what a
freed block holds is left out, and a rx lcore that sends to one gets rid of its packets only while
some VM is connected. A list is a set, and a walk remembers which devices it has been at. Packets
are not counted: a burst is empty or not. The library runs one callback at a time, accepts no VM
after `Signal`, and calls nothing for a VM twice; VM m has the MAC address of ToR m and at most one
connection, as the images of the testbed set it up.

*What it promises.* `GracePeriod`, of the tx lcores: a device is offered while it is in a list, withdrawn when it is in
none and not freed yet (`Phase`), and a lcore uses what it holds in its walk (`Using`). Only an offered
device is taken up, and only one that nobody uses is reclaimed. The marks, flags and answers are stutters. The
rx lcores keep no such promise (`RxOnLiveDevice`).

*Fairness.* The lcores spin on their own cores, the vhost thread runs, a connected VM takes its
packets, and unregistering goes on until no device is left. No VM has to leave and no
signal has to come. The processes really end, so these runs do not check for deadlock.

### 2.4 The statistics threads

After `NUM_TEMP_CYCLE_SAMPLES` loops tx2 puts its sums into a pair of rings and then, for every jump
location, two more into a second pair (`Collect`, then per put `StoreCell`, `GiveUpOldest`,
`AdvanceHead`, `MarkFull`: the accesses of `circular_buf_put` and `advance_pointer` in order). The
print thread wakes up, reads the size of the first ring of a pair and calls get that often on both
(`WakeUp`, `ReadSize`, then per get `GetNone` or `GetCell`, `ClearFull`, `RetreatTail`). A
get of an empty ring leaves the variable as it was and the print thread adds it again (`GetNone`):
the model keeps that. Rings of locations are read in the opposite order of the puts.

Abstractions. A value is named by the flush that put it, so that a sum is the list of the flushes in
it; one jump location stands for all, which are handled alike; the number of flushes is bounded by
`MaxFlushes`. `overlap`, `lapsed`, `ever` and `seen` are history.

### 2.5 The packet path and the shaper

| Code | Actions |
|---|---|
| `egress_stage1`, `map_local_dst_to_queue` (tx lcore) | `FetchFromVm`, `QueueLocal`, `CountLocal`, `DropLocal` |
| `kni_ingress`, `ingress_route` (rx lcore) | `FetchFromPort`; for a cache `VmTakes`, `FreeBurst`; for a rotor `FreeRouted`, `QueueNonlocal`, `CountNonlocal`, `LoseForeign` |
| `sync_thread`, which frees no frame | `LoseFrames` |
| `egress_stage2`, `drain_queue_by_budget`, `send_burst_all_packets` (tx2) | `SkipPort`, `OpenCircuit`, `EnterRotor`, `Dequeue`, `Send` |
| end of the tx2 loop, `reset_shaper` | `ResetShaper`, `EndLoop` |
| `prepare_shaping`, `decrease_shaper` | `CyclesPerPeriod`, `Less` |

A packet is put into a ring and counted in a step of its own, since tx2 may send it in between. An
mbuf is nowhere else than in the pool, in a ring, in the hands of a lcore, or lost: the code frees
neither the frames of the sync port nor packets of a rotor that are not IPv4.

Abstractions. Packets are counted, and a packet may go to any ring (which one `get_dst_qid` picks is
in `CachePlane`) or to none; a drain of a rotor takes any number up to a burst, as budgets are
in `BudgetHandover`. A packet of a rotor without room for its tag is sent as it is and charges the shaper once more
(`TagFailures`; the charges of one drain are added up in `Send`). The NIC takes every packet in the end (`send_burst_all_packets` tries for
ever) and frees it. The clock is external: a drain takes up to `MaxDrain` cycles. `MaxLost` bounds
the mbufs that leak: with more of them the pool runs dry, which nothing in the code prevents.

*Fairness.* `WF_vars(Tx2)`: tx2 spins on its own core. `SF_vars(ResetShaper)`: the clock goes on, so
that one of the ends of the loop of tx2 is past the end of the period again and again.

### 2.6 The configuration and the cache control plane

`process_object` of `config.c` reads fields in the order of the file. `extract_caches` allocates a
flow mapping per rack known by then, and racks become known by `num_racks` and by `rotors`:
`Configured(order)` folds the three fields, `mappings` says which flow mappings exist, and the initial
states of `CachePlane` are all orders. `malloc` does not clear them (`dirty`).

The controller (`reconfigure_links`) clears the cache of every source of the list, puts the circuits into
one transaction, commits it, and adds the flows (`ResetCacheConfig`, `SetDuplexLink`, `Commit` or
`CommitFails`, `SetCacheConfig`); with `only_ocs` it only sets circuits. `scheduled_change.py`
starts a second list after a sleep (`NextList`); `single_send_cp_message.py` sends any single frame
(`SendByHand`). Frames are Ethernet broadcasts, one inbox per process. `sync_thread` takes a
burst, serves the first frame, and forgets the others, or all when the first is of another kind
(`SyncThread`); `process_cplane_frame` checks ToR, cache and rack and changes the mapping
(`ProcessCplaneFrame`, with the port put together from signed bytes: `DecodedPort`). `get_dst_qid`
asks the caches in turn (`CacheOf`), and the packet waits in a cache ring until `SendOnCache`. A frame
or packet that reaches a mapping without memory ends the process (`crashed`).

Abstractions. The optical switch is external: a commit drops the circuits whose ports the new ones take.
A flow is its port, 0 for "all flows". `PlaneAssumption` says what a list of links is (no link
to itself, circuits of one list disjoint) and that no *add* is sent by hand. `NextList` waits for
nothing, as the code does: frames of the first list may still be under way. An *add* among them that is served
after the commit of the second list lies on no circuit, so `AddedOnCircuit` speaks of a controller whose sleep
was long enough (`hurried` remembers when it was not); the other properties do not.
`live`, `missed` and `hurried` are history.

## 3. Properties and runs

| Property | States |
|---|---|
| `TypeOK` | one per module |
| `BudgetsExclusive` | tx2 does not copy what the sync thread is rewriting |
| `SlotBudget` | sent and still to be sent on one copy fit the slot, per rotor, for all allocations |
| `CleanLoopMatches` | a loop that overlaps no frame sends on the budgets of the matching it tags with |
| `SecondHopInCleanLoop` | in such a loop a second-hop packet goes only to its rack (two hops at most) |
| `DirectInCleanLoop` | in such a loop direct routing sends packets of the VM only to their rack |
| `HandoverInv` | the inductive invariant |
| `MailboxSpec` | the handover implements `BudgetMailbox`: every allocation is taken once and whole, and tx2 spends from nothing else |
| `LocalQueuesServed`, `NonlocalQueuesServed` | a full queue does not stay full |
| `FullMeansMet` | the full flag never outlives the meeting of head and tail |
| `LogSpec` | the ring implements the bounded log |
| `ReportExact` | as long as no report overlapped a flush, both sums of a report are over exactly the flushes since the last one, each count beside its cycles |
| `SizedRingRecovers` | whatever a race left behind, one undisturbed report mends the ring that gives the size |
| `TxOnLiveDevice` | a tx lcore does not touch a freed device |
| `QueuesOfOwnTor` | the packets of a VM are put into the queues of its ToR |
| `OneDevicePerThread` | no lcore is given a second device |
| `GraceSpec` | the removal implements `GracePeriod`: no tx lcore takes up a device that has left the lists, and it is freed when none uses it any more |
| `RemovalEnds` | `destroy_device` does not wait for ever |
| `TxStops` | a signal stops the tx lcores |
| `MbufsConserved` | pool, rings, hands of the lcores and lost frames add up to the pool |
| `CountersAddUp` | queued less sent is what is in the ring, but for the packet a lcore has yet to count |
| `ChargedByUse` | a link has at most its share less its use left, a cache link exactly that |
| `CacheRingsServed` | a full cache ring does not stay full, however often its link has used up its share |
| `AddedOnCircuit` | a flow added since the last commit lies on a circuit to its rack, whatever frames are lost, if no list overtook frames of the one before |
| `LastListInstalled` | a ToR that missed no frame has all its links of the list when the controller is done, also when frames of the list before came late |
| `PacketsReachRack` | with the first list, a packet in a cache ring has a circuit to its rack, unless the mapping that sent it there was left as garbage |
| `NoNullMapping` | if the racks, or the rotors, come before the cache links in the file, no process ends at a mapping without memory |

| Run | Instance | Shows |
|---|---|---|
| `HandoverDirect` | 1 ToR of 3 racks, rings of 1, slot of 2, bursts of 1, fair | direct routing: one allocation at a time, slot, matching, destination; every VOQ is served |
| `HandoverMax` | rings of 2, slot of 5, bursts of 2, VM traffic for one rack and the own one | longest-queue allocation with budget left for an indirect queue, also when the search picks the connected queue 0 again |
| `HandoverTwoRotors` | 2 rotors with different matchings, rings of 1, slot of 1, traffic for the other racks, fair | ports are kept apart; the early exits of the longest-queue allocation; second-hop queues are served |
| `HandoverFixed` | 2 ToRs, 2 rotors, slot of 20, shaping, garbage 0 or 1, no traffic | 80/10/10 with every share positive; the budgets of the ToRs are rewritten one after the other, and each is taken once |
| `HandoverThirdHop` | longest-queue, rings of 1 | violated: in a loop that overlaps a frame a second-hop packet goes to a third rack |
| `CircularBuffer` | 4 cells, 2 samples | all calls in all orders |
| `ThreadStats` | rings of 2, a flush every second loop, 3 flushes | put against get and size in every interleaving |
| `VhostSafety` | 2 ToRs, 2 VMs, 2 blocks (symmetric) | removal and use of devices interleaved in every way |
| `VhostLive` | 2 ToRs, 1 block, fair | removals end, a signal stops the tx lcores; the grace period of a removal |
| `VhostDangling` | as `VhostSafety` | violated (`RxOnLiveDevice`): a rx lcore uses a freed device |
| `PacketPath` | 2 racks, 1 cache, 1 rotor, pool of 3, rings and bursts of 2, shares of 2 cycles, fair | four lcores on one pool, rings that fill up, shares that are used up |
| `CachePlane` | 3 ToRs on 2 processes, 2 caches, 2 lists, rings of 1, every order of fields, with and without garbage | circuits, lost and late frames and packets interleaved in every way |

Why the bounds are enough.

* *Handover.* Two matchings and the night give every change of matching there is (to the same, to
  another, to none); three racks give a connected rack, an unconnected one and the ToR itself, and
  `SelfRack` is chosen so that the connected queue may be queue 0, where the search starts. Rings of
  two with bursts of two (`HandoverMax`) tell apart an empty, partly drained and full queue; in
  `HandoverDirect`, whose budgets do not depend on the queues, and with two rotors they have room for one
  packet. `VmTargets` leaves out the rack itself in `HandoverTwoRotors`, where a slot of one packet lends the
  longest queue nothing, and in `HandoverMax` rack 1, so that the longest queue is the connected one, one that is
  not connected, or that of the rack itself. `HandoverFixed` has
  rings without room (`RingSize` 0): what it is about, the shares and the order of two ToRs and two
  rotors, does not depend on the queues, since fixed shares do not read them.
* *Rings.* Four cells make the ring wrap with more than one value inside. In `ThreadStats` three flushes
  overfill rings of two, and leave a flush after a report that a flush overlapped.
* *Devices.* With two ToRs a removal waits for a lcore that has the device and for one that has not,
  and two blocks let a new device come up at the address of an old one or beside it; a second block
  adds nothing to one removal at a time, which is why `VhostLive` has one.
* *Packet path.* With three mbufs the rings of two fill, the pool runs dry with all lcores
  holding something, and one mbuf may be lost. A share of two cycles with drains of at most one
  is used up within a period.
* *Cache plane.* A process with two ToRs and one with one tell apart frames for another ToR and for
  another process; the second list takes a port of the first one's circuit away, has two links of one ToR
  on different caches, and a port that is decoded wrongly. Packets of ports no flow is for take a part of the
  steps of those of port 60000, since only a mapping for all flows takes them.

The theorems of section 4 remove these bounds for all safety properties.

`VhostSafety`, `VhostLive` and `VhostDangling` do not check for deadlock, because a signal ends the
processes; `CachePlane` does not, because the controller ends and processes may crash.

The two violated runs are disagreements between a comment and the code
(`findings` in `PROJECT.json`). That of the handover lasts for at most one loop of tx2, some
packets per change of matching. That of the devices lasts: a rx lcore that has packets for a device
that is gone tries for ever (`main.c` 356) and never sees `kni_stop`, so `TxStops` is about the tx
lcores only.

Local queues are served for certain only under direct routing: under the longest-queue allocation
second-hop traffic may use every slot up.

Other places where the code does less than one would expect. The models contain all of them but the
last two, and the properties are stated around them:

* A report that overlaps a flush may add a value twice or pair a count with the cycles of another
  flush, although the comment at `main.c` 148-150 promises the cycles since the last call. `ReportExact`
  is about reports that no flush overlapped; the second ring of a pair may stay shifted after that.
* Links of cache ids above 0 and other destinations are not cleared (`cache_controller.py` 81), so after
  a second list packets of old flows wait for circuits that are gone.
* Garbage in a flow mapping sends packets of its rack onto a cache link without a circuit (`config.c` 136).
* Every drain of a rotor charges the shaper with all cycles since the visit began (`shaping.c` 39), and so
  does every packet without room for its tag (`main.c` 752-761): a rotor gets less than its share.
* A port whose low byte is above 127 is installed 256 lower (`main.c` 1166).
* All frames of a burst but the first are dropped (`main.c` 1213), and nothing repeats them.
* Mbufs of sync frames and of packets that are not IPv4 are never freed.
* With the cache links first in the file, a frame or packet for a rack not yet known ends the process.
* `tx_dropped[-1]` is written for a packet without a ring (`main.c` 573). Drop counters are not modelled.
* `config.h` 52 and `config.c` read the keys `rotors` and `cache`; the automation writes `do_links` and `da_links`
  (`entities.py` 604, 612).

## 4. Theorems

| Theorem | Module | Statement |
|---|---|---|
| `TypeCorrect` | `BudgetHandoverProofs` | `Spec => []TypeOK` |
| `HandoverHolds` | `BudgetHandoverProofs` | the invariant `HandoverInv`, if `SlotIsLong` |
| `Exclusive`, `CleanLoops` | `BudgetHandoverProofs` | `BudgetsExclusive`, `CleanLoopMatches`, if `SlotIsLong` |
| `TwoHops`, `DirectOnly` | `BudgetHandoverProofs` | `SecondHopInCleanLoop`, `DirectInCleanLoop`, if `SlotIsLong` |
| `OneAllocationEach` | `BudgetHandoverProofs` | `Spec => MailboxSpec`, if `SlotIsLong` |
| `SlotNeverExceeded` | `BudgetHandoverSlots` | `SlotBudget`, if `SlotIsLong` |
| `TypeCorrect`, `FullRing` | `CircularBufferProofs` | `TypeOK` and `FullMeansMet` |
| `IsBoundedLog` | `CircularBufferProofs` | `Spec => LogSpec` |
| `TxNeverDangles` | `VhostDevicesProofs` | `Spec => []TxOnLiveDevice` |
| `RemovalIsGrace` | `VhostDevicesProofs` | `Spec => GraceSpec` |
| `TypeCorrect`, `OneDeviceEach`, `PacketsStayWithTor` | `VhostDevicesProofs` | `TypeOK`, `OneDevicePerThread`, `QueuesOfOwnTor` |
| `TypeCorrect`, `Counters`, `MbufsAreConserved`, `Charged` | `PacketPathProofs` | `TypeOK`, `CountersAddUp`, `MbufsConserved`, `ChargedByUse` |
| `TypeCorrect`, `Reports`, `Recovers` | `ThreadStatsProofs` | `TypeOK`, `ReportExact`, `SizedRingRecovers` |
| `TypeCorrect`, `Added`, `FirstListReaches`, `Installed` | `CachePlaneProofs` | `TypeOK`, `AddedOnCircuit`, `PacketsReachRack`, `LastListInstalled` |
| `NoneCrashes` | `CachePlaneProofs` | `NoNullMapping`, if `FileAgrees` |

They hold for every number of ToRs, rotors, racks, matchings, caches, cells, samples, mbufs and memory
blocks, every slot budget and allocation, every shaping period, every order of the fields and every list of links, under
the assumptions on the constants that the modules name (`RacksAssumption`, `BudgetAssumption`,
`HandoverAssumption`, `MaxAssumption`, `DevicesAssumption`, `ConfigAssumption`, `PlaneAssumption`,
`PathAssumption`, `StatsAssumption`): their types, at least one of what there has to be one of, and for the lists of links what
section 2.6 says.

*Handover.* None of the properties is inductive. What they rest on is the handshake
(`HandshakeOf`): once a ToR has run a whole loop since the last frame, and for as long as the flag
is still to be flipped for the current one, tx2 has seen the flag and copies nothing; while it
copies, the flag it read is the current one. `PublishedInv` says which matching the
complete budgets are for at each step of the sync thread, `CleanOf` ties a clean loop to the idle
sync thread and the current matching, and `NonlocalOf` and `DirectOf` say that shared and copied
budgets let a ToR send only to the rack their matching connects. `HandoverInv` is their
conjunction, for every ToR. The proof has a lemma per action group and part of the invariant: steps
of the sync thread cannot disturb tx2 because they only run while it has caught up; steps of tx2
of one ToR leave the others alone.

`OneAllocationEach` follows from it: while the sync thread is at the budgets of a ToR, `HandshakeOf` says that its box
is empty and tx2 copies nothing, so that only the flip changes the box; in the middle of a copy the flag read is
still the current one, so that the second `memcpy` empties no box that has been filled again.

*Slot.* `SlotInv` adds to `SlotBudget` that shared budgets fit the slot (`SharedWithin`), that the
rotors the sync thread has yet to reach hold nothing (`Cleared`), that the one it is at has room for
what is left to give away (`RoomLeft`), and that a ToR that has copied one array has copied
what is still in it (`HalfCopied`), which needs the handshake of `HandoverInv`. A step that changes one
budget or one queue changes the sum by that much.

*Sums* are folds over sets, and the induction they need is not available as a theorem with an operator parameter.
`SumTheorems` takes it from the least number of a set of numbers (`Least`, by the well-foundedness of
`<` on the naturals), for sets of sizes instead of predicates: `Induction`, from it `SubsetInduction`, and from
that what a sum is when one element is added, changed or bounded.

*Ring buffer.* `Inv` is the type invariant and `FullMeansMet`. `Place(t, i)` is the cell of the
i-th value; `PlaceIs` replaces its remainder by one comparison, `Shift` says that giving up the
oldest value moves every other one up by one place. From these the three lemmas `AppendStep`,
`TailStep` and `OverwriteStep` show what the moves of the indices do to `Contents`; every
call is one of these or a stutter of the log.

*Devices.* `TxOnLiveDevice` alone is not inductive. `AckMeansCleared` carries the handshake: a lcore
that has answered since it was asked does not hold the device, and cannot come back to it, because
the device is in no list by then (`VictimUnlinked`); `PassedHaveAcked` adds up the answers, so that
at the moment of `Free` nobody holds the device. A list holds connected devices only
(`ListsOfConnected`), and a step that only moves a lcore along its walk is `WalkInv`.
The refinement `RemovalIsGrace` uses the same invariant: `Free` is a `Reclaim` because everybody has answered, and a
lcore that goes on in its walk takes a device from its list, where the withdrawn one no longer is.
`OneDevicePerThread` and `QueuesOfOwnTor` rest on `Own`: a VM has one connection
(`OneConnectionEach`), `device_num` counts the devices of a lcore (`DevicesCounted`), what a lcore holds
is in its list or was (`HoldsOwn`), and a burst is queued for the ToR of the VM it is
from (`LinkedToOwn`, `LinkedAtMap`); a new device gets a lcore without one because there are
no more VMs than lcores, a pigeonhole argument (`SomeThreadIdle`).

*Packet path.* `Inv` is the type invariant and that the rx lcore routes a packet only while it has one
(`RoutesSomething`). `CountersAddUp`, `ChargedByUse` and the conservation of mbufs are each
preserved beside it; for the last one a put moves the sum over the rings by one, a dequeue by what is taken.

*Cache plane.* `AddedOnCircuit` rests on where the controller is: the transaction holds only circuits of the
list (`TransactionIsList`), after the commit the switch has all of them (`ListCommitted`), and every
add that is still under way is for a link of the list and sent after the commit (`AddsOfList`), as long as
every list found the inboxes empty. The first list overtakes nothing (`FirstInTime`). `Reach` says that with it every flow
that is set in a mapping without garbage, and so every packet that such a mapping sends, is one of `live`, and that
nothing is before the commit.

Two more theorems follow a list of links and a file from end to end.

* `Installed` rests on `Delivered`: for every link of the list whose *add* has been sent to a ToR that missed
  nothing, the *add* is in the inbox with no frame that clears behind it, or it is served and none is left
  in the inbox (`UnderWay`). It holds because all frames that clear are sent before the first *add*, and a
  step of another process, or a frame for another ToR, cannot touch the mapping of this one.
* `NoneCrashes` needs what the fields of the file leave. `extract_rotors` and `extract_caches` are folds over
  sequences; that such a fold equals the recursive function its steps define is `FoldExists`, once more by
  induction on sets. From it: a rotor makes known as many racks as it has matchings, and one more
  (`RotorsKnow`), a cache link allocates for the racks known by then (`CacheField`), and every order of the three
  fields ends with all racks known (`ConfiguredIs`). The theorem assumes `FileAgrees`: no rotor names
  a rack beyond `num_racks`, and one names the last. The code does not check it, and without it the property is
  false; a rotor that connects all racks has one matching less than there are racks.

*Statistics threads.* `WriterInv` holds whatever the print thread does: `head` is the number of puts modulo
the ring (`HeadIsPuts`), and the youngest values are in the cells their numbers say (`CellsHold`). The
print thread can only spoil `tail` and `full`. `Undisturbed`: a report that no flush has overlapped sees no put
half done. `Draining`: in such a report the ring that gives the size has as many values as gets are left,
even if it was spoilt before, which is why one report mends it. `Good(r)` is what a ring no race has touched
looks like: `tail` is so far behind `head` as there are values kept, and the sums so far are the
flushes in order; `Sound(r)` says when it is owed, and `SoundIsGood` is that it is then the case. The proof is a
lemma per action and part, and most of the work is the remainders: `Divided`, and that two numbers less
than a ring apart are in the same cell only when they are equal.

*Left to TLC.* The liveness properties, `LocalQueuesServed`, `NonlocalQueuesServed`, `RemovalEnds`,
`TxStops` and `CacheRingsServed`: they hold by fairness, which is about `ENABLED`, and the provers have no
rule for it. Every other property of a passing run is a theorem.

## 5. Not modelled

* *Cache control plane*: the connection to the switch (TL1 commands and their answers), and
  `unset_duplex_link_between_tors`, which nothing calls.
* *Configuration*: cores, ids, ports and addresses, which are copied one by one, and a file that is
  refused half-way, which ends the program.
* *Process start and stop*: start-up, which runs before there is a second thread and exits on
  every error; `SIGUSR1` and `SIGUSR2`, which print and clear counters; and the read of `kni_stop` in the
  sync and tx2 loops.
* *Clock generator*: its loop only sleeps and sends. What it may send is `ReceiveFrame`.
* *Rotor switch rules*: static tables, written once; the matchings they stand for are the constant
  `VidToQid`. The controller framework and the switch are external.
* *Experiment automation*: remote commands whose effects are outside the repository. A model would
  check assumptions about servers, containers and a database, not the code. What the automation hands to the other
  parts, the configuration of a ToR and the lists of links, is in `TorConfig` and `CachePlane`.
* *Virtio driver in the tree* (never selected), *JSON parser* (vendored), *experiment descriptions*,
  *evaluation scripts*, *images and shell scripts*: no behaviour of the system at run time.
