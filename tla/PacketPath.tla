------------------------------ MODULE PacketPath ------------------------------
(***************************************************************************)
(* The way of the packets through the process of one ToR (main.c and       *)
(* shaping.c): the tx lcore fetches packets of the VM and sorts them into  *)
(* the VOQs and cache rings, the rx lcore takes packets from the ports to  *)
(* the VM or into the second-hop rings, tx2 sends what is in the rings as  *)
(* far as the shaper lets it, and the sync lcore takes frames.  All of     *)
(* them draw on one pool of mbufs.                                         *)
(*                                                                         *)
(* Packets are counted.  A ring is <<"local", i>>, the VOQ of rack i or    *)
(* the ring of cache i - NumRacks, or <<"nonlocal", i>>.  Which packets    *)
(* the budgets let through is the business of BudgetHandover: a drain of a *)
(* rotor takes any number up to a burst.                                   *)
(* External: the VM, the ports, the memory pool and the clock.             *)
(***************************************************************************)
EXTENDS Integers, FiniteSetsExt

CONSTANTS NumRacks, Self, NumCaches, NumRotors,
          PoolSize,      \* mbufs of the pool
          RingSize, BurstSize,
          Shaping,       \* 0 off, 1 native, n > 1 one n-th
          Period,        \* cycles of a shaping period
          MaxDrain,      \* bound: cycles a drain takes
          MaxLost        \* bound: mbufs that are never freed

NumLinks == NumCaches + NumRotors

ASSUME PathAssumption ==
    /\ NumRacks \in Nat \ {0} /\ Self \in 0 .. NumRacks - 1
    /\ NumCaches \in Nat /\ NumRotors \in Nat /\ NumLinks > 0
    /\ PoolSize \in Nat /\ RingSize \in Nat /\ BurstSize \in Nat \ {0}
    /\ Shaping \in Nat /\ Period \in Nat /\ MaxDrain \in Nat /\ MaxLost \in Nat

Racks  == 0 .. NumRacks - 1
Locals == {"local"} \X (0 .. NumRacks + NumCaches - 1)
Second == {"nonlocal"} \X Racks
Rings  == Locals \cup Second
None   == <<"none", 0>>

(* The ports in the order the loops go through them: caches, rotors.       *)
Ports == 1 .. NumLinks
IsCache(l)     == l <= NumCaches
RingOfCache(l) == <<"local", NumRacks + l - 1>>

(* Drain k of the visit of a rotor: first the second-hop rings, then the   *)
(* VOQs.                                                                   *)
Drains   == 0 .. 2 * NumRacks - 1
Drain(k) == IF k < NumRacks THEN <<"nonlocal", k>> ELSE <<"local", k - NumRacks>>

VARIABLES
    free, ring,                      \* mbufs in the pool and in each ring
    lost,                            \* mbufs nobody will free
    txHeld, txCounts,                \* tx lcore: packets to sort, ring to count
    rxPc, rxPort, rxHeld, rxCounts,  \* rx lcore, and those the VM has not
    rxLeft,                          \*   taken yet
    pc, port, drain, held,           \* tx2: visited port, packets in hand
    elapsed, remaining,              \* since loop_cycle_start; remaining_cycles
    used,                            \* cycles a port was in use, this period
    backlog                          \* packets counted in less counted out

txLcore == <<txHeld, txCounts>>
rxLcore == <<rxPc, rxPort, rxHeld, rxCounts, rxLeft>>
tx2     == <<pc, port, drain, held>>
shaper  == <<elapsed, remaining, used>>
vars    == <<free, ring, lost, txLcore, rxLcore, tx2, shaper, backlog>>

-----------------------------------------------------------------------------
(* shaping.c *)

MinOf(a, b) == IF a < b THEN a ELSE b

(* prepare_shaping: cycles_per_period, with SHAPING_MARGIN 0.9. *)
Divisor == IF Shaping = 1 THEN NumLinks ELSE Shaping
CyclesPerPeriod == IF Shaping = 0 THEN 0 ELSE (9 * Period) \div (10 * Divisor)
Shaped == CyclesPerPeriod > 0

(* Fault: what would go below zero is not taken off at all. *)
LessIfLeft(left, cycles) == IF cycles > left THEN left ELSE left - cycles

(* decrease_shaper *)
Less(left, cycles) == IF cycles >= left THEN 0 ELSE left - cycles

-----------------------------------------------------------------------------
Init ==
    /\ free = PoolSize /\ ring = [q \in Rings |-> 0] /\ lost = 0
    /\ txHeld = 0 /\ txCounts = None
    /\ rxPc = "fetch" /\ rxPort = 1 /\ rxHeld = 0 /\ rxCounts = None /\ rxLeft = 0
    /\ pc = "visit" /\ port = 1 /\ drain = 0 /\ held = 0
    /\ elapsed = 0 /\ remaining = [l \in Ports |-> CyclesPerPeriod]
    /\ used = [l \in Ports |-> 0]
    /\ backlog = [q \in Rings |-> 0]

(* A burst of n packets into new mbufs. *)
Fetch(n) == n <= MinOf(BurstSize, free) /\ free' = free - n

(* Fault: the ring is taken to have room. *)
PutUnchecked(q) == ring' = [ring EXCEPT ![q] = @ + 1]

Put(q) == ring[q] < RingSize /\ ring' = [ring EXCEPT ![q] = @ + 1]

Count(q, n) == backlog' = [backlog EXCEPT ![q] = @ + n]

-----------------------------------------------------------------------------
(* The tx lcore: egress_stage1, map_local_dst_to_queue. *)

FetchFromVm ==
    /\ txHeld = 0 /\ txCounts = None
    /\ \E n \in 1 .. BurstSize : Fetch(n) /\ txHeld' = n
    /\ UNCHANGED <<ring, lost, txCounts, rxLcore, tx2, shaper, backlog>>

Sorting == txHeld > 0 /\ txCounts = None /\ txHeld' = txHeld - 1

QueueLocal ==
    /\ Sorting
    /\ \E q \in Locals : Put(q) /\ txCounts' = q
    /\ UNCHANGED <<free, lost, rxLcore, tx2, shaper, backlog>>

(* tx_queued follows; by now the packet may have been sent.                *)
CountLocal ==
    /\ txCounts # None
    /\ Count(txCounts, 1) /\ txCounts' = None
    /\ UNCHANGED <<free, ring, lost, txHeld, rxLcore, tx2, shaper>>

(* Fault: the packet is dropped but not freed. *)
DropUnfreed ==
    /\ Sorting
    /\ UNCHANGED <<free, ring, lost, txCounts, rxLcore, tx2, shaper, backlog>>

(* The ring is full, or get_dst_qid has none for this packet.              *)
DropLocal ==
    /\ Sorting
    /\ free' = free + 1
    /\ UNCHANGED <<ring, lost, txCounts, rxLcore, tx2, shaper, backlog>>

-----------------------------------------------------------------------------
(* The rx lcore: kni_ingress, ingress_route. *)

NextPort == rxPort' = (rxPort % NumLinks) + 1 /\ rxPc' = "fetch"

FetchFromPort ==
    /\ rxPc = "fetch" /\ rxCounts = None
    /\ \E n \in 0 .. BurstSize :
        /\ Fetch(n) /\ rxHeld' = n /\ rxLeft' = n
        /\ IF n = 0 THEN NextPort
           ELSE rxPc' = (IF IsCache(rxPort) THEN "vm" ELSE "route") /\ UNCHANGED rxPort
    /\ UNCHANGED <<ring, lost, rxCounts, txLcore, tx2, shaper, backlog>>

(* vhost_send_burst_all_packets tries until the VM has taken all of them.  *)
VmTakes ==
    /\ rxPc = "vm" /\ rxLeft > 0
    /\ \E k \in 1 .. rxLeft : rxLeft' = rxLeft - k
    /\ UNCHANGED <<free, ring, lost, rxPc, rxPort, rxHeld, rxCounts, txLcore, tx2, shaper, backlog>>

FreeBurst ==
    /\ rxPc = "vm" /\ rxLeft = 0
    /\ free' = free + rxHeld /\ rxHeld' = 0
    /\ NextPort
    /\ UNCHANGED <<ring, lost, rxCounts, rxLeft, txLcore, tx2, shaper, backlog>>

(* One packet of the burst of a rotor. *)
Routing == rxPc = "route" /\ rxCounts = None

Routed ==
    /\ rxHeld' = rxHeld - 1 /\ rxLeft' = rxLeft - 1
    /\ IF rxHeld = 1 THEN NextPort ELSE UNCHANGED <<rxPc, rxPort>>

(* For the VM, whether it takes it or not; or its ring is full.            *)
FreeRouted ==
    /\ Routing
    /\ free' = free + 1
    /\ Routed
    /\ UNCHANGED <<ring, lost, rxCounts, txLcore, tx2, shaper, backlog>>

QueueNonlocal ==
    /\ Routing
    /\ \E q \in Second \ {<<"nonlocal", Self>>} : Put(q) /\ rxCounts' = q
    /\ Routed
    /\ UNCHANGED <<free, lost, txLcore, tx2, shaper, backlog>>

CountNonlocal ==
    /\ rxCounts # None
    /\ Count(rxCounts, 1) /\ rxCounts' = None
    /\ UNCHANGED <<free, ring, lost, rxPc, rxPort, rxHeld, rxLeft, txLcore, tx2, shaper>>

(* A packet that is not IPv4 falls through. *)
LoseForeign ==
    /\ Routing /\ lost < MaxLost
    /\ lost' = lost + 1
    /\ Routed
    /\ UNCHANGED <<free, ring, rxCounts, txLcore, tx2, shaper, backlog>>

-----------------------------------------------------------------------------
(* The sync lcore: sync_thread returns with its frames. *)
LoseFrames ==
    /\ \E n \in 1 .. BurstSize : Fetch(n) /\ lost + n <= MaxLost /\ lost' = lost + n
    /\ UNCHANGED <<ring, txLcore, rxLcore, tx2, shaper, backlog>>

-----------------------------------------------------------------------------
(* tx2: egress_stage2, drain_queue_by_budget, the end of its loop.         *)

(* All cycles since the visit began are taken off, at every return.        *)
Decrease(cycles) ==
    remaining' = IF Shaped THEN [remaining EXCEPT ![port] = Less(@, cycles)] ELSE remaining

EndVisit(cycles) ==
    /\ used' = IF Shaped THEN [used EXCEPT ![port] = @ + cycles] ELSE used
    /\ elapsed' = 0 /\ drain' = 0
    /\ IF port < NumLinks THEN port' = port + 1 /\ pc' = "visit"
       ELSE port' = 1 /\ pc' = "loop"

MayUse == pc = "visit" /\ (Shaped => remaining[port] > 0)

SkipPort ==
    /\ pc = "visit" /\ ~MayUse
    /\ EndVisit(0)
    /\ UNCHANGED <<free, ring, lost, txLcore, rxLcore, held, remaining, backlog>>

(* The time of an open circuit is taken off although nothing is sent.      *)
OpenCircuit ==
    /\ MayUse /\ ~IsCache(port)
    /\ \E c \in 0 .. MaxDrain : Decrease(c)
    /\ EndVisit(0)
    /\ UNCHANGED <<free, ring, lost, txLcore, rxLcore, held, backlog>>

EnterRotor ==
    /\ MayUse /\ ~IsCache(port)
    /\ pc' = "drain"
    /\ UNCHANGED <<free, ring, lost, txLcore, rxLcore, port, drain, held, shaper, backlog>>

(* The ring of the current drain. *)
Current == IF IsCache(port) THEN RingOfCache(port) ELSE Drain(drain)

Dequeue ==
    /\ IF IsCache(port) THEN MayUse /\ held' = MinOf(BurstSize, ring[Current])
       ELSE pc = "drain" /\ held' \in 0 .. MinOf(BurstSize, ring[Current])
    /\ ring' = [ring EXCEPT ![Current] = @ - held']
    /\ pc' = "send"
    /\ UNCHANGED <<free, lost, txLcore, rxLcore, port, drain, shaper, backlog>>

(* Fault: the packets asked for are counted, not those sent. *)
SentAsked == BurstSize
Sent == held

(* tag_packet: for each packet of a rotor without room for the tag, which  *)
(* is sent as it is, all cycles since the visit began are taken off too.   *)
TagFailures == IF IsCache(port) THEN {0} ELSE 0 .. held

(* The port takes and frees all of them; then they are counted.            *)
Send ==
    /\ pc = "send"
    /\ free' = free + held /\ held' = 0
    /\ Count(Current, -Sent)
    /\ \E c \in elapsed .. elapsed + MaxDrain :
        /\ \E failed \in TagFailures :
              \E extra \in failed * elapsed .. failed * c : Decrease(c + extra)
        /\ IF IsCache(port) \/ drain = 2 * NumRacks - 1 THEN EndVisit(c)
           ELSE elapsed' = c /\ drain' = drain + 1 /\ pc' = "drain" /\ UNCHANGED <<used, port>>
    /\ UNCHANGED <<ring, lost, txLcore, rxLcore>>

(* Fault: the caches keep what they have left. *)
ResetRotors ==
    /\ pc = "loop" /\ pc' = "visit"
    /\ remaining' = [l \in Ports |-> IF IsCache(l) THEN remaining[l] ELSE CyclesPerPeriod]
    /\ used' = [l \in Ports |-> IF IsCache(l) THEN used[l] ELSE 0]
    /\ UNCHANGED <<free, ring, lost, txLcore, rxLcore, port, drain, held, elapsed, backlog>>

(* The shaping period is over: reset_shaper. *)
ResetShaper ==
    /\ pc = "loop" /\ pc' = "visit"
    /\ remaining' = [l \in Ports |-> CyclesPerPeriod]
    /\ used' = [l \in Ports |-> 0]
    /\ UNCHANGED <<free, ring, lost, txLcore, rxLcore, port, drain, held, elapsed, backlog>>

(* It is not. *)
EndLoop ==
    /\ pc = "loop" /\ pc' = "visit"
    /\ UNCHANGED <<free, ring, lost, txLcore, rxLcore, port, drain, held, shaper, backlog>>

-----------------------------------------------------------------------------
TxLcore == FetchFromVm \/ QueueLocal \/ CountLocal \/ DropLocal
RxLcore ==
    \/ FetchFromPort \/ VmTakes \/ FreeBurst
    \/ FreeRouted \/ QueueNonlocal \/ CountNonlocal \/ LoseForeign
Tx2 == SkipPort \/ OpenCircuit \/ EnterRotor \/ Dequeue \/ Send \/ ResetShaper \/ EndLoop

Next == TxLcore \/ RxLcore \/ LoseFrames \/ Tx2

Spec == Init /\ [][Next]_vars

(* tx2 is a lcore of its own that never waits; and periods end.            *)
FairSpec == Spec /\ WF_vars(Tx2) /\ SF_vars(ResetShaper)

-----------------------------------------------------------------------------
PoolOK ==
    /\ free \in Nat /\ lost \in 0 .. MaxLost
    /\ ring \in [Rings -> 0 .. RingSize]
    /\ backlog \in [Rings -> Int]

TxOK == txHeld \in 0 .. BurstSize /\ txCounts \in Locals \cup {None}

RxOK ==
    /\ rxPc \in {"fetch", "vm", "route"} /\ rxPort \in Ports
    /\ rxHeld \in 0 .. BurstSize /\ rxCounts \in Second \cup {None}
    /\ rxLeft \in 0 .. rxHeld

Tx2OK ==
    /\ pc \in {"visit", "drain", "send", "loop"} /\ port \in Ports
    /\ drain \in Drains /\ held \in 0 .. BurstSize

ShaperOK ==
    /\ elapsed \in Nat
    /\ remaining \in [Ports -> 0 .. CyclesPerPeriod]
    /\ used \in [Ports -> Nat]

(* Rings stay within their size, held bursts within theirs, and cycles     *)
(* never go below zero, where the 64 bits of the code would start over.    *)
TypeOK == PoolOK /\ TxOK /\ RxOK /\ Tx2OK /\ ShaperOK

(* No mbuf is freed twice and none gets lost but with the frames of the    *)
(* sync port and the packets that are not IPv4: a full ring, a VM that     *)
(* refuses a packet and a destination without a ring all give it back.     *)
MbufsConserved ==
    free + txHeld + rxHeld + held + lost + MapThenSumSet(LAMBDA q : ring[q], Rings) = PoolSize

(* What the counters say is queued is what the ring and tx2 hold; only the *)
(* one packet a lcore has put and not yet counted is missing, so that the  *)
(* printed numbers may say that more was sent than queued, by one.         *)
CountersAddUp ==
    \A q \in Rings :
        backlog[q] = ring[q] + (IF pc = "send" /\ q = Current THEN held ELSE 0)
                             - (IF q \in {txCounts, rxCounts} THEN 1 ELSE 0)

(* A port never has more cycles left than its share less its use in this  *)
(* period, so that one that has used up its share is passed over; a cache  *)
(* has exactly that, while a rotor pays for every drain with all the       *)
(* cycles since the visit began.                                           *)
ChargedByUse ==
    Shaped => \A l \in Ports :
        LET left == Less(CyclesPerPeriod, used[l])
        IN  remaining[l] <= left /\ (IsCache(l) => remaining[l] = left)

(* A cache ring is served again and again, whatever is in the rotor rings  *)
(* and however often the cache had used up its share: no period starts     *)
(* without cycles for it.                                                  *)
CacheRingsServed ==
    \A l \in {k \in Ports : IsCache(k)} : []<>(ring[RingOfCache(l)] < RingSize)

=============================================================================
