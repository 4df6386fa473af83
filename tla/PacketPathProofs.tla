-------------------------- MODULE PacketPathProofs --------------------------
(***************************************************************************)
(* Rings, bursts and shares stay within their bounds, no mbuf is lost or   *)
(* given back twice, the counters add up to what waits, and no port is     *)
(* used beyond its share, for every number of racks and links and all      *)
(* sizes.                                                                  *)
(***************************************************************************)
EXTENDS PacketPath, SumTheorems, TLAPS

(* A rx lcore that routes has a packet in hand, and all of it still to do. *)
RoutesSomething == rxPc = "route" => rxHeld > 0 /\ rxLeft = rxHeld

Inv == TypeOK /\ RoutesSomething

(* The share of a port is a number of cycles: the divisor is not zero.     *)
LEMMA ShareIsNat == CyclesPerPeriod \in Nat
<1>1. (Divisor \in Nat /\ Divisor > 0) \/ Shaping = 0
  BY PathAssumption DEF PathAssumption, Divisor, NumLinks
<1>2. ASSUME NEW a \in Nat, NEW b \in Nat, b > 0
      PROVE  a \div b \in Nat
  BY <1>2
<1> QED
  BY <1>1, <1>2, PathAssumption DEF PathAssumption, CyclesPerPeriod

LEMMA LessIsLess ==
  ASSUME NEW left \in Nat, NEW c \in Nat
  PROVE  /\ Less(left, c) \in Nat
         /\ Less(left, c) <= left
         /\ Less(left, 0) = left
BY DEF Less

(* Taking off cycles twice is taking them off together, and leaves less of *)
(* less.                                                                   *)
LEMMA LessAdds ==
  ASSUME NEW share \in Nat, NEW left \in Nat, NEW u \in Nat, NEW c \in Nat
  PROVE  /\ left <= Less(share, u) => Less(left, c) <= Less(share, u + c)
         /\ left = Less(share, u) => Less(left, c) = Less(share, u + c)
BY DEF Less

(* Every drain of tx2 is of one of the rings. *)
LEMMA CurrentIsRing == Tx2OK => Current \in Rings
BY PathAssumption DEF PathAssumption, Tx2OK, Current, IsCache, RingOfCache, Drain,
     Drains, Ports, NumLinks, Rings, Locals, Second, Racks

LEMMA RingsDiffer ==
  /\ Locals \subseteq Rings /\ Second \subseteq Rings
  /\ Locals \cap Second = {}
  /\ None \notin Rings
BY DEF Rings, Locals, Second, None, Racks

(***************************************************************************)
(* Types.                                                                  *)
(***************************************************************************)
LEMMA InitInv == Init => Inv
<1> USE PathAssumption DEF PathAssumption
<1>1. 0 \in Drains /\ 1 \in Ports
  BY DEF Drains, Ports, NumLinks
<1> QED
  BY <1>1, ShareIsNat DEF Init, Inv, TypeOK, PoolOK, TxOK, RxOK, Tx2OK, ShaperOK,
       RoutesSomething

LEMMA TxTypes == Inv /\ TxLcore => Inv'
<1> SUFFICES ASSUME Inv, TxLcore PROVE Inv'
  OBVIOUS
<1> USE PathAssumption, RingsDiffer DEF PathAssumption, Inv, TypeOK, RoutesSomething
<1>1. CASE FetchFromVm
  <2>1. PoolOK' /\ TxOK'
    BY <1>1 DEF FetchFromVm, Fetch, MinOf, PoolOK, TxOK
  <2> QED
    BY <1>1, <2>1 DEF FetchFromVm, rxLcore, tx2, shaper, RxOK, Tx2OK, ShaperOK
<1>2. CASE QueueLocal
  <2>1. PoolOK' /\ TxOK'
    BY <1>2 DEF QueueLocal, Sorting, Put, PoolOK, TxOK
  <2> QED
    BY <1>2, <2>1 DEF QueueLocal, rxLcore, tx2, shaper, RxOK, Tx2OK, ShaperOK
<1>3. CASE CountLocal
  <2>1. PoolOK' /\ TxOK'
    BY <1>3 DEF CountLocal, Count, PoolOK, TxOK
  <2> QED
    BY <1>3, <2>1 DEF CountLocal, rxLcore, tx2, shaper, RxOK, Tx2OK, ShaperOK
<1>4. CASE DropLocal
  <2>1. PoolOK' /\ TxOK'
    BY <1>4 DEF DropLocal, Sorting, PoolOK, TxOK
  <2> QED
    BY <1>4, <2>1 DEF DropLocal, rxLcore, tx2, shaper, RxOK, Tx2OK, ShaperOK
<1> QED
  BY <1>1, <1>2, <1>3, <1>4 DEF TxLcore

LEMMA RxTypes == Inv /\ RxLcore => Inv'
<1> SUFFICES ASSUME Inv, RxLcore PROVE Inv'
  OBVIOUS
<1> USE PathAssumption, RingsDiffer DEF PathAssumption, Inv, TypeOK
<1>1. ASSUME NextPort PROVE rxPort' \in Ports /\ rxPc' = "fetch"
  BY <1>1 DEF NextPort, RxOK, Ports, NumLinks
<1>2. CASE FetchFromPort
  <2>1. PICK n \in 0 .. BurstSize :
           /\ Fetch(n) /\ rxHeld' = n /\ rxLeft' = n
           /\ IF n = 0 THEN NextPort
              ELSE rxPc' = (IF IsCache(rxPort) THEN "vm" ELSE "route") /\ UNCHANGED rxPort
    BY <1>2 DEF FetchFromPort
  <2>2. PoolOK'
    BY <1>2, <2>1 DEF FetchFromPort, Fetch, MinOf, PoolOK
  <2>3. RxOK' /\ RoutesSomething'
    BY <1>1, <1>2, <2>1 DEF FetchFromPort, RxOK, RoutesSomething
  <2> QED
    BY <1>2, <2>2, <2>3 DEF FetchFromPort, txLcore, tx2, shaper, TxOK, Tx2OK, ShaperOK
<1>3. CASE VmTakes
  <2>1. RxOK' /\ RoutesSomething'
    BY <1>3 DEF VmTakes, RxOK, RoutesSomething
  <2> QED
    BY <1>3, <2>1 DEF VmTakes, txLcore, tx2, shaper, PoolOK, TxOK, Tx2OK, ShaperOK
<1>4. CASE FreeBurst
  <2>1. PoolOK'
    BY <1>4 DEF FreeBurst, PoolOK, RxOK
  <2>2. RxOK' /\ RoutesSomething'
    BY <1>1, <1>4 DEF FreeBurst, RxOK, RoutesSomething
  <2> QED
    BY <1>4, <2>1, <2>2 DEF FreeBurst, txLcore, tx2, shaper, TxOK, Tx2OK, ShaperOK
<1>5. ASSUME Routing, Routed
      PROVE  /\ rxHeld' \in 0 .. BurstSize /\ rxLeft' \in 0 .. rxHeld'
             /\ rxPc' \in {"fetch", "route"} /\ rxPort' \in Ports
             /\ RoutesSomething'
  BY <1>1, <1>5 DEF Routing, Routed, RxOK, RoutesSomething
<1>6. CASE FreeRouted
  <2>1. PoolOK'
    BY <1>6 DEF FreeRouted, PoolOK
  <2>2. RxOK' /\ RoutesSomething'
    BY <1>5, <1>6 DEF FreeRouted, RxOK
  <2> QED
    BY <1>6, <2>1, <2>2 DEF FreeRouted, txLcore, tx2, shaper, TxOK, Tx2OK, ShaperOK
<1>7. CASE QueueNonlocal
  <2>1. PoolOK'
    BY <1>7 DEF QueueNonlocal, Put, PoolOK
  <2>2. RxOK' /\ RoutesSomething'
    BY <1>5, <1>7 DEF QueueNonlocal, RxOK
  <2> QED
    BY <1>7, <2>1, <2>2 DEF QueueNonlocal, txLcore, tx2, shaper, TxOK, Tx2OK, ShaperOK
<1>8. CASE CountNonlocal
  <2>1. PoolOK'
    BY <1>8 DEF CountNonlocal, Count, PoolOK, RxOK
  <2>2. RxOK' /\ RoutesSomething'
    BY <1>8 DEF CountNonlocal, RxOK, RoutesSomething
  <2> QED
    BY <1>8, <2>1, <2>2 DEF CountNonlocal, txLcore, tx2, shaper, TxOK, Tx2OK, ShaperOK
<1>9. CASE LoseForeign
  <2>1. PoolOK'
    BY <1>9 DEF LoseForeign, PoolOK
  <2>2. RxOK' /\ RoutesSomething'
    BY <1>5, <1>9 DEF LoseForeign, RxOK
  <2> QED
    BY <1>9, <2>1, <2>2 DEF LoseForeign, txLcore, tx2, shaper, TxOK, Tx2OK, ShaperOK
<1> QED
  BY <1>2, <1>3, <1>4, <1>6, <1>7, <1>8, <1>9 DEF RxLcore

LEMMA SyncTypes == Inv /\ LoseFrames => Inv'
<1> SUFFICES ASSUME Inv, LoseFrames PROVE Inv'
  OBVIOUS
<1>1. PoolOK'
  BY PathAssumption DEF PathAssumption, Inv, TypeOK, LoseFrames, Fetch, MinOf, PoolOK
<1> QED
  BY <1>1 DEF Inv, TypeOK, RoutesSomething, LoseFrames, txLcore, rxLcore, tx2, shaper, TxOK,
       RxOK, Tx2OK, ShaperOK

(* What a drain or an open circuit leaves of the shaper and of the visit.  *)
LEMMA VisitTypes ==
  ASSUME Inv, NEW c \in Nat
  PROVE  /\ Decrease(c) => remaining' \in [Ports -> 0 .. CyclesPerPeriod]
         /\ EndVisit(c) => /\ used' \in [Ports -> Nat] /\ elapsed' \in Nat
                           /\ drain' \in Drains /\ port' \in Ports
                           /\ pc' \in {"visit", "loop"}
<1> USE PathAssumption DEF PathAssumption, Inv, TypeOK
<1>1. ASSUME Decrease(c) PROVE remaining' \in [Ports -> 0 .. CyclesPerPeriod]
  <2>1. ASSUME NEW l \in Ports
        PROVE  Less(remaining[l], c) \in 0 .. CyclesPerPeriod
    <3>1. remaining[l] \in Nat /\ remaining[l] <= CyclesPerPeriod
      BY ShareIsNat DEF ShaperOK
    <3>2. Less(remaining[l], c) \in Nat /\ Less(remaining[l], c) <= remaining[l]
      BY <3>1, LessIsLess
    <3> QED
      BY <3>1, <3>2, ShareIsNat
  <2> QED
    BY <1>1, <2>1 DEF Decrease, ShaperOK, Tx2OK
<1>2. ASSUME EndVisit(c)
      PROVE  /\ used' \in [Ports -> Nat] /\ elapsed' \in Nat
             /\ drain' \in Drains /\ port' \in Ports
             /\ pc' \in {"visit", "loop"}
  BY <1>2 DEF EndVisit, ShaperOK, Tx2OK, Drains, Ports, NumLinks
<1> QED
  BY <1>1, <1>2

(* Packets without room for their tag only add to what a drain takes off.  *)
LEMMA TagsAdd ==
  ASSUME Inv, NEW c \in elapsed .. elapsed + MaxDrain, NEW failed \in TagFailures,
         NEW extra \in failed * elapsed .. failed * c
  PROVE  /\ c \in Nat /\ c + extra \in Nat /\ c <= c + extra
         /\ IsCache(port) => c + extra = c
<1>1. elapsed \in Nat /\ c \in Nat /\ failed \in Nat /\ (IsCache(port) => failed = 0)
  BY PathAssumption DEF PathAssumption, TagFailures, Inv, TypeOK, ShaperOK, Tx2OK
<1>2. \A m, n \in Nat : m * n \in Nat /\ 0 * n = 0
  OBVIOUS
<1>3. failed * elapsed \in Nat /\ failed * c \in Nat
  BY <1>1, <1>2
<1>4. extra \in Nat
  BY <1>3
<1>5. IsCache(port) => extra = 0
  BY <1>1, <1>2
<1> QED
  BY <1>1, <1>4, <1>5

LEMMA Tx2Types == Inv /\ Tx2 => Inv'
<1> SUFFICES ASSUME Inv, Tx2 PROVE Inv'
  OBVIOUS
<1> USE PathAssumption DEF PathAssumption, Inv, TypeOK, RoutesSomething
<1>1. CASE SkipPort
  BY <1>1, VisitTypes DEF SkipPort, txLcore, rxLcore, PoolOK, TxOK, RxOK, Tx2OK, ShaperOK
<1>2. CASE OpenCircuit
  BY <1>2, VisitTypes DEF OpenCircuit, txLcore, rxLcore, PoolOK, TxOK, RxOK, Tx2OK, ShaperOK
<1>3. CASE EnterRotor
  BY <1>3 DEF EnterRotor, txLcore, rxLcore, shaper, PoolOK, TxOK, RxOK, Tx2OK, ShaperOK
<1>4. CASE Dequeue
  <2>1. /\ Current \in Rings
        /\ held' \in 0 .. MinOf(BurstSize, ring[Current])
        /\ MinOf(BurstSize, ring[Current]) \in Nat
        /\ MinOf(BurstSize, ring[Current]) <= ring[Current]
        /\ MinOf(BurstSize, ring[Current]) <= BurstSize
    BY <1>4, CurrentIsRing DEF Dequeue, MinOf, PoolOK
  <2>2. PoolOK'
    BY <1>4, <2>1 DEF Dequeue, PoolOK
  <2> QED
    BY <1>4, <2>1, <2>2 DEF Dequeue, txLcore, rxLcore, shaper, TxOK, RxOK, Tx2OK, ShaperOK
<1>5. CASE Send
  <2>1. PICK c \in elapsed .. elapsed + MaxDrain :
           /\ \E failed \in TagFailures :
                \E extra \in failed * elapsed .. failed * c : Decrease(c + extra)
           /\ IF IsCache(port) \/ drain = 2 * NumRacks - 1 THEN EndVisit(c)
              ELSE elapsed' = c /\ drain' = drain + 1 /\ pc' = "drain" /\ UNCHANGED <<used, port>>
    BY <1>5 DEF Send
  <2>2. c \in Nat
    BY DEF ShaperOK
  <2>5. remaining' \in [Ports -> 0 .. CyclesPerPeriod]
    <3>1. PICK d \in Nat : Decrease(d)
      BY <2>1, TagsAdd
    <3> QED
      BY <3>1, VisitTypes
  <2>3. PoolOK'
    BY <1>5, CurrentIsRing DEF Send, Count, Sent, PoolOK, Tx2OK
  <2>4. ShaperOK' /\ Tx2OK'
    BY <1>5, <2>1, <2>2, <2>5, VisitTypes DEF Send, ShaperOK, Tx2OK, Drains
  <2> QED
    BY <1>5, <2>3, <2>4 DEF Send, txLcore, rxLcore, TxOK, RxOK
<1>6. CASE ResetShaper
  BY <1>6, ShareIsNat DEF ResetShaper, txLcore, rxLcore, PoolOK, TxOK, RxOK, Tx2OK, ShaperOK
<1>7. CASE EndLoop
  BY <1>7 DEF EndLoop, txLcore, rxLcore, shaper, PoolOK, TxOK, RxOK, Tx2OK, ShaperOK
<1> QED
  BY <1>1, <1>2, <1>3, <1>4, <1>5, <1>6, <1>7 DEF Tx2

LEMMA InvStutters == Inv /\ UNCHANGED vars => Inv'
BY DEF Inv, RoutesSomething, TypeOK, PoolOK, TxOK, RxOK, Tx2OK, ShaperOK, vars, txLcore, rxLcore,
     tx2, shaper

(* The types hold, and a lcore that routes has something to route.         *)
THEOREM Invariant == Spec => []Inv
BY InitInv, TxTypes, RxTypes, SyncTypes, Tx2Types, InvStutters, PTL DEF Spec, Next

(* Rings stay within their size, held bursts within theirs, and cycles     *)
(* left over never go below zero, whatever the lcores do.                  *)
THEOREM TypeCorrect == Spec => []TypeOK
BY Invariant, PTL DEF Inv

(***************************************************************************)
(* The counters.                                                           *)
(***************************************************************************)
LEMMA InitCounters == Init => CountersAddUp
BY RingsDiffer DEF Init, CountersAddUp

(* As long as tx2 does nothing it holds the same packets of the same ring. *)
LEMMA HoldsTheSame ==
  ASSUME UNCHANGED tx2
  PROVE  (pc = "send")' = (pc = "send") /\ Current' = Current /\ held' = held
BY DEF tx2, Current, IsCache, RingOfCache, Drain

LEMMA TxCounters == Inv /\ CountersAddUp /\ TxLcore => CountersAddUp'
<1> SUFFICES ASSUME Inv, CountersAddUp, TxLcore PROVE CountersAddUp'
  OBVIOUS
<1> USE RingsDiffer, HoldsTheSame DEF Inv, TypeOK, PoolOK, TxOK, RxOK, Tx2OK, CountersAddUp
<1>1. CASE FetchFromVm
  BY <1>1 DEF FetchFromVm, rxLcore
<1>2. CASE QueueLocal
  BY <1>2 DEF QueueLocal, Sorting, Put, rxLcore
<1>3. CASE CountLocal
  BY <1>3 DEF CountLocal, Count, rxLcore
<1>4. CASE DropLocal
  BY <1>4 DEF DropLocal, rxLcore
<1> QED
  BY <1>1, <1>2, <1>3, <1>4 DEF TxLcore

LEMMA RxCounters == Inv /\ CountersAddUp /\ RxLcore => CountersAddUp'
<1> SUFFICES ASSUME Inv, CountersAddUp, RxLcore PROVE CountersAddUp'
  OBVIOUS
<1> USE RingsDiffer, HoldsTheSame DEF Inv, TypeOK, PoolOK, TxOK, RxOK, Tx2OK, CountersAddUp
<1>1. CASE FetchFromPort
  BY <1>1 DEF FetchFromPort, txLcore
<1>2. CASE VmTakes
  BY <1>2 DEF VmTakes, txLcore
<1>3. CASE FreeBurst
  BY <1>3 DEF FreeBurst, txLcore
<1>4. CASE FreeRouted
  BY <1>4 DEF FreeRouted, txLcore
<1>5. CASE QueueNonlocal
  BY <1>5 DEF QueueNonlocal, Routing, Put, txLcore
<1>6. CASE CountNonlocal
  BY <1>6 DEF CountNonlocal, Count, txLcore
<1>7. CASE LoseForeign
  BY <1>7 DEF LoseForeign, txLcore
<1> QED
  BY <1>1, <1>2, <1>3, <1>4, <1>5, <1>6, <1>7 DEF RxLcore

LEMMA SyncCounters == Inv /\ CountersAddUp /\ LoseFrames => CountersAddUp'
BY HoldsTheSame DEF LoseFrames, CountersAddUp, txLcore, rxLcore

(* A visit ends, or goes to the next drain, with nothing in hand.          *)
LEMMA Tx2Counters == Inv /\ CountersAddUp /\ Tx2 => CountersAddUp'
<1> SUFFICES ASSUME Inv, CountersAddUp, Tx2 PROVE CountersAddUp'
  OBVIOUS
<1> USE RingsDiffer DEF Inv, TypeOK, PoolOK, TxOK, RxOK, Tx2OK, CountersAddUp, txLcore, rxLcore
<1>1. ASSUME NEW c, EndVisit(c) PROVE pc' # "send"
  BY <1>1 DEF EndVisit
<1>2. CASE SkipPort
  BY <1>1, <1>2 DEF SkipPort
<1>3. CASE OpenCircuit
  BY <1>1, <1>3 DEF OpenCircuit, MayUse
<1>4. CASE EnterRotor
  BY <1>4 DEF EnterRotor, MayUse
<1>5. CASE Dequeue
  <2>1. Current' = Current /\ Current \in Rings
    BY <1>5, CurrentIsRing DEF Dequeue, Current, IsCache, RingOfCache, Drain
  <2>2. pc # "send" /\ pc' = "send"
        /\ ring' = [ring EXCEPT ![Current] = @ - held']
        /\ UNCHANGED <<txCounts, rxCounts, backlog>>
    BY <1>5 DEF Dequeue, MayUse
  <2>3. held' \in Int
    BY <1>5, <2>1, PathAssumption DEF Dequeue, PathAssumption, MinOf
  <2> QED
    BY <2>1, <2>2, <2>3
<1>6. CASE Send
  <2>1. pc' # "send"
    BY <1>1, <1>6 DEF Send
  <2> QED
    BY <1>6, <2>1, CurrentIsRing DEF Send, Count, Sent
<1>7. CASE ResetShaper
  BY <1>7 DEF ResetShaper
<1>8. CASE EndLoop
  BY <1>8 DEF EndLoop
<1> QED
  BY <1>2, <1>3, <1>4, <1>5, <1>6, <1>7, <1>8 DEF Tx2

LEMMA CountersStutter == CountersAddUp /\ UNCHANGED vars => CountersAddUp'
BY HoldsTheSame DEF CountersAddUp, vars, txLcore, rxLcore

(* What is counted as queued is what the rings and tx2 hold, but for one   *)
(* packet per lcore that is put and not yet counted.                       *)
THEOREM Counters == Spec => []CountersAddUp
<1>1. Inv /\ CountersAddUp /\ [Next]_vars => CountersAddUp'
  BY TxCounters, RxCounters, SyncCounters, Tx2Counters, CountersStutter DEF Next
<1> QED
  BY InitCounters, Invariant, <1>1, PTL DEF Spec

(***************************************************************************)
(* The mbufs.                                                              *)
(***************************************************************************)

(* tx2 holds packets between a dequeue and the send that follows only, and *)
(* the rx lcore not before it has fetched some.                            *)
EmptyHanded == (pc # "send" => held = 0) /\ (rxPc = "fetch" => rxHeld = 0)

Queued == Sum(ring, Rings)

Mbufs == free + txHeld + rxHeld + held + lost + Queued

Conserved == EmptyHanded /\ Mbufs = PoolSize

LEMMA ConservedIsSum == MbufsConserved <=> Mbufs = PoolSize
BY SumOfSet DEF MbufsConserved, Mbufs, Queued

LEMMA RingsFinite == IsFiniteSet(Rings)
<1>1. IsFiniteSet(0 .. NumRacks + NumCaches - 1) /\ IsFiniteSet(0 .. NumRacks - 1)
  BY FS_Interval, PathAssumption DEF PathAssumption
<1>2. IsFiniteSet({"local"}) /\ IsFiniteSet({"nonlocal"})
  BY FS_Singleton
<1>3. IsFiniteSet(Locals) /\ IsFiniteSet(Second)
  BY <1>1, <1>2, FS_Product DEF Locals, Second, Racks
<1> QED
  BY <1>3, FS_Union DEF Rings

LEMMA QueuedIsInt == PoolOK => Queued \in Int
<1>1. PoolOK => ring \in [Rings -> Int]
  BY PathAssumption DEF PathAssumption, PoolOK
<1> QED
  BY <1>1, RingsFinite, SumIsInt DEF Queued

(* Packets that are put into a ring or taken out of it.                    *)
LEMMA QueuedChanges ==
  ASSUME PoolOK, NEW q \in Rings, NEW n \in Int, ring' = [ring EXCEPT ![q] = @ + n]
  PROVE  Queued' = Queued + n
<1>1. ring \in [Rings -> Int] /\ ring' \in [Rings -> Int]
  BY PathAssumption DEF PathAssumption, PoolOK
<1>2. ring'[q] - ring[q] = n
  BY <1>1
<1>3. \A x \in Rings : x # q => ring'[x] = ring[x]
  BY <1>1
<1> DEFINE after == ring'
<1> HIDE DEF after
<1>4. after \in [Rings -> Int] /\ \A x \in Rings : x # q => after[x] = ring[x]
  BY <1>1, <1>3 DEF after
<1>5. Sum(after, Rings) = Sum(ring, Rings) + (after[q] - ring[q])
  BY <1>1, <1>4, RingsFinite, SumChange
<1> QED
  BY <1>2, <1>5 DEF Queued, after

LEMMA PutQueues == \A q \in Rings : PoolOK /\ Put(q) => Queued' = Queued + 1
<1> SUFFICES ASSUME NEW q \in Rings, PoolOK, Put(q) PROVE Queued' = Queued + 1
  OBVIOUS
<1>1. 1 \in Int /\ ring' = [ring EXCEPT ![q] = @ + 1]
  BY DEF Put
<1> QED
  BY <1>1, QueuedChanges

LEMMA InitConserved == Init => Conserved
<1> SUFFICES ASSUME Init PROVE Conserved
  OBVIOUS
<1>1. Queued = 0
  BY RingsFinite, SumZero DEF Init, Queued
<1> QED
  BY <1>1, PathAssumption DEF PathAssumption, Init, Conserved, EmptyHanded, Mbufs

LEMMA TxConserved == Inv /\ Conserved /\ TxLcore => Conserved'
<1> SUFFICES ASSUME Inv, Conserved, TxLcore PROVE Conserved'
  OBVIOUS
<1> USE QueuedIsInt, PathAssumption
    DEF PathAssumption, Inv, TypeOK, PoolOK, TxOK, RxOK, Tx2OK, Conserved, EmptyHanded, Mbufs
<1>1. CASE FetchFromVm
  BY <1>1 DEF FetchFromVm, Fetch, MinOf, Queued, rxLcore, tx2
<1>2. CASE QueueLocal
  <2>1. PICK q \in Rings : Put(q)
    BY <1>2, RingsDiffer DEF QueueLocal
  <2>2. Queued' = Queued + 1
    BY <2>1, PutQueues
  <2> QED
    BY <1>2, <2>2 DEF QueueLocal, Sorting, rxLcore, tx2
<1>3. CASE CountLocal
  BY <1>3 DEF CountLocal, Queued, rxLcore, tx2
<1>4. CASE DropLocal
  BY <1>4 DEF DropLocal, Sorting, Queued, rxLcore, tx2
<1> QED
  BY <1>1, <1>2, <1>3, <1>4 DEF TxLcore

LEMMA RxConserved == Inv /\ Conserved /\ RxLcore => Conserved'
<1> SUFFICES ASSUME Inv, Conserved, RxLcore PROVE Conserved'
  OBVIOUS
<1> USE QueuedIsInt, PathAssumption
    DEF PathAssumption, Inv, TypeOK, PoolOK, TxOK, RxOK, Tx2OK, Conserved, EmptyHanded, Mbufs
<1>1. CASE FetchFromPort
  <2>1. PICK n \in 0 .. BurstSize : Fetch(n) /\ rxHeld' = n
    BY <1>1 DEF FetchFromPort
  <2>2. rxHeld = 0
    BY <1>1 DEF FetchFromPort
  <2>3. rxPc' = "fetch" => rxHeld' = 0
    BY <1>1, <2>1 DEF FetchFromPort
  <2> QED
    BY <1>1, <2>1, <2>2, <2>3 DEF FetchFromPort, Fetch, MinOf, Queued, txLcore, tx2
<1>2. CASE VmTakes
  BY <1>2 DEF VmTakes, Queued, txLcore, tx2
<1>3. CASE FreeBurst
  BY <1>3 DEF FreeBurst, Queued, txLcore, tx2
<1>4. CASE FreeRouted
  BY <1>4 DEF FreeRouted, Routing, Routed, Queued, txLcore, tx2
<1>5. CASE QueueNonlocal
  <2>1. PICK q \in Rings : Put(q)
    BY <1>5, RingsDiffer DEF QueueNonlocal
  <2>2. Queued' = Queued + 1
    BY <2>1, PutQueues
  <2> QED
    BY <1>5, <2>2 DEF QueueNonlocal, Routing, Routed, txLcore, tx2
<1>6. CASE CountNonlocal
  BY <1>6 DEF CountNonlocal, Queued, txLcore, tx2
<1>7. CASE LoseForeign
  BY <1>7 DEF LoseForeign, Routing, Routed, Queued, txLcore, tx2
<1> QED
  BY <1>1, <1>2, <1>3, <1>4, <1>5, <1>6, <1>7 DEF RxLcore

LEMMA SyncConserved == Inv /\ Conserved /\ LoseFrames => Conserved'
BY QueuedIsInt, PathAssumption
   DEF PathAssumption, Inv, TypeOK, PoolOK, TxOK, RxOK, Tx2OK, Conserved, EmptyHanded, Mbufs,
       LoseFrames, Fetch, MinOf, Queued, txLcore, rxLcore, tx2

LEMMA Tx2Conserved == Inv /\ Conserved /\ Tx2 => Conserved'
<1> SUFFICES ASSUME Inv, Conserved, Tx2 PROVE Conserved'
  OBVIOUS
<1> USE QueuedIsInt, PathAssumption
    DEF PathAssumption, Inv, TypeOK, PoolOK, TxOK, RxOK, Tx2OK, Conserved, EmptyHanded, Mbufs,
        txLcore, rxLcore
<1>1. CASE SkipPort \/ OpenCircuit \/ EnterRotor \/ ResetShaper \/ EndLoop
  <2>1. UNCHANGED <<free, ring, lost, txLcore, rxLcore, held>> /\ held = 0
    BY <1>1 DEF SkipPort, OpenCircuit, EnterRotor, ResetShaper, EndLoop, MayUse
  <2> QED
    BY <2>1 DEF Queued
<1>2. CASE Dequeue
  <2>1. Current \in Rings /\ pc # "send" /\ pc' = "send"
    BY <1>2, CurrentIsRing DEF Dequeue, MayUse
  <2>2. held' \in Int /\ -held' \in Int
    BY <1>2, <2>1 DEF Dequeue, MinOf
  <2>3. ring' = [ring EXCEPT ![Current] = @ + (-held')]
    BY <1>2, <2>1, <2>2 DEF Dequeue
  <2>4. Queued' = Queued + (-held')
    BY <2>1, <2>2, <2>3, QueuedChanges
  <2> QED
    BY <1>2, <2>1, <2>2, <2>4 DEF Dequeue
<1>3. CASE Send
  BY <1>3 DEF Send, Queued
<1> QED
  BY <1>1, <1>2, <1>3 DEF Tx2

(* Every mbuf of the pool is in the pool, in a ring, in the hands of a     *)
(* lcore, or lost with a frame of the sync port or a packet that is not    *)
(* IPv4: none is freed twice and no other way to drop one forgets it.      *)
THEOREM MbufsAreConserved == Spec => []MbufsConserved
<1>1. Inv /\ Conserved /\ [Next]_vars => Conserved'
  <2>1. Conserved /\ UNCHANGED vars => Conserved'
    BY DEF Conserved, EmptyHanded, Mbufs, Queued, vars, txLcore, rxLcore, tx2
  <2> QED
    BY <2>1, TxConserved, RxConserved, SyncConserved, Tx2Conserved DEF Next
<1>2. Conserved => MbufsConserved
  BY ConservedIsSum DEF Conserved
<1> QED
  BY InitConserved, Invariant, <1>1, <1>2, PTL DEF Spec

(***************************************************************************)
(* The shaper.                                                             *)
(***************************************************************************)
LEMMA InitCharged == Init => ChargedByUse
BY ShareIsNat, LessIsLess DEF Init, ChargedByUse

(* A visit that ends charges at least what it adds to the use of the port, *)
(* and that of a cache exactly as much.                                    *)
LEMMA ChargedVisit ==
  ASSUME Inv, ChargedByUse, NEW c \in Nat, NEW d \in Nat, c <= d, IsCache(port) => d = c,
         Decrease(d), EndVisit(c)
  PROVE  ChargedByUse'
<1> SUFFICES ASSUME Shaped, NEW l \in Ports
             PROVE  /\ remaining'[l] <= Less(CyclesPerPeriod, used'[l])
                    /\ IsCache(l) => remaining'[l] = Less(CyclesPerPeriod, used'[l])
  BY DEF ChargedByUse, Shaped
<1>1. /\ remaining[l] \in Nat /\ used[l] \in Nat /\ CyclesPerPeriod \in Nat
      /\ remaining[l] <= Less(CyclesPerPeriod, used[l])
      /\ IsCache(l) => remaining[l] = Less(CyclesPerPeriod, used[l])
  BY ShareIsNat DEF Inv, TypeOK, ShaperOK, ChargedByUse
<1>2. CASE l = port
  <2>1. remaining'[l] = Less(remaining[l], d) /\ used'[l] = used[l] + c
    BY <1>2 DEF Inv, TypeOK, ShaperOK, Decrease, EndVisit
  <2>2. Less(remaining[l], d) <= Less(remaining[l], c)
    BY <1>1 DEF Less
  <2>3. /\ Less(remaining[l], c) <= Less(CyclesPerPeriod, used[l] + c)
        /\ IsCache(l) => Less(remaining[l], c) = Less(CyclesPerPeriod, used[l] + c)
    BY <1>1, LessAdds
  <2>4. /\ Less(remaining[l], d) \in Nat /\ Less(remaining[l], c) \in Nat
        /\ Less(CyclesPerPeriod, used[l] + c) \in Nat
    BY <1>1 DEF Less
  <2> QED
    BY <1>2, <2>1, <2>2, <2>3, <2>4
<1>3. CASE l # port
  <2>1. remaining'[l] = remaining[l] /\ used'[l] = used[l]
    BY <1>3 DEF Inv, TypeOK, ShaperOK, Decrease, EndVisit
  <2> QED
    BY <1>1, <2>1
<1> QED
  BY <1>2, <1>3

(* In between a rotor only pays. *)
LEMMA ChargedDrain ==
  ASSUME Inv, ChargedByUse, NEW c \in Nat, Decrease(c), ~IsCache(port), UNCHANGED used
  PROVE  ChargedByUse'
<1> SUFFICES ASSUME Shaped, NEW l \in Ports
             PROVE  /\ remaining'[l] <= Less(CyclesPerPeriod, used'[l])
                    /\ IsCache(l) => remaining'[l] = Less(CyclesPerPeriod, used'[l])
  BY DEF ChargedByUse, Shaped
<1>1. /\ remaining[l] \in Nat /\ used[l] \in Nat /\ CyclesPerPeriod \in Nat
      /\ remaining[l] <= Less(CyclesPerPeriod, used[l])
      /\ IsCache(l) => remaining[l] = Less(CyclesPerPeriod, used[l])
  BY ShareIsNat DEF Inv, TypeOK, ShaperOK, ChargedByUse
<1>2. CASE l = port
  <2>1. remaining'[l] = Less(remaining[l], c) /\ Less(remaining[l], c) <= remaining[l]
        /\ Less(remaining[l], c) \in Nat
    BY <1>1, <1>2, LessIsLess DEF Inv, TypeOK, ShaperOK, Decrease
  <2>2. Less(CyclesPerPeriod, used[l]) \in Nat
    BY <1>1, LessIsLess
  <2> QED
    BY <1>1, <1>2, <2>1, <2>2
<1>3. CASE l # port
  <2>1. remaining'[l] = remaining[l]
    BY <1>3 DEF Inv, TypeOK, ShaperOK, Decrease
  <2> QED
    BY <1>1, <2>1
<1> QED
  BY <1>2, <1>3

LEMMA Tx2Charged == Inv /\ ChargedByUse /\ Tx2 => ChargedByUse'
<1> SUFFICES ASSUME Inv, ChargedByUse, Tx2 PROVE ChargedByUse'
  OBVIOUS
<1>1. ASSUME EndVisit(0) PROVE used' = used
  BY <1>1 DEF EndVisit, Inv, TypeOK, ShaperOK, Tx2OK
<1>2. CASE SkipPort
  <2>1. UNCHANGED <<remaining, used>>
    BY <1>1, <1>2 DEF SkipPort
  <2> QED
    BY <2>1 DEF ChargedByUse
<1>3. CASE OpenCircuit
  <2>1. PICK c \in 0 .. MaxDrain : Decrease(c)
    BY <1>3 DEF OpenCircuit
  <2> QED
    BY <1>1, <1>3, <2>1, ChargedDrain, PathAssumption DEF OpenCircuit, PathAssumption
<1>4. CASE EnterRotor
  BY <1>4 DEF EnterRotor, shaper, ChargedByUse
<1>5. CASE Dequeue
  BY <1>5 DEF Dequeue, shaper, ChargedByUse
<1>6. CASE Send
  <2>1. PICK c \in elapsed .. elapsed + MaxDrain :
           /\ \E failed \in TagFailures :
                \E extra \in failed * elapsed .. failed * c : Decrease(c + extra)
           /\ IF IsCache(port) \/ drain = 2 * NumRacks - 1 THEN EndVisit(c)
              ELSE elapsed' = c /\ drain' = drain + 1 /\ pc' = "drain" /\ UNCHANGED <<used, port>>
    BY <1>6 DEF Send
  <2>2. PICK d \in Nat : c \in Nat /\ c <= d /\ (IsCache(port) => d = c) /\ Decrease(d)
    BY <2>1, TagsAdd
  <2>3. CASE IsCache(port) \/ drain = 2 * NumRacks - 1
    BY <2>1, <2>2, <2>3, ChargedVisit
  <2>4. CASE ~(IsCache(port) \/ drain = 2 * NumRacks - 1)
    BY <2>1, <2>2, <2>4, ChargedDrain
  <2> QED
    BY <2>3, <2>4
<1>7. CASE ResetShaper
  BY <1>7, ShareIsNat, LessIsLess DEF ResetShaper, ChargedByUse
<1>8. CASE EndLoop
  BY <1>8 DEF EndLoop, shaper, ChargedByUse
<1> QED
  BY <1>2, <1>3, <1>4, <1>5, <1>6, <1>7, <1>8 DEF Tx2

(* No port has more cycles left than its share less its use, for every     *)
(* share and however long drains take.                                     *)
THEOREM Charged == Spec => []ChargedByUse
<1>1. ChargedByUse /\ UNCHANGED shaper => ChargedByUse'
  BY DEF ChargedByUse, shaper
<1>2. TxLcore \/ RxLcore \/ LoseFrames => UNCHANGED shaper
  BY DEF TxLcore, RxLcore, LoseFrames, FetchFromVm, QueueLocal, CountLocal, DropLocal,
       FetchFromPort, VmTakes, FreeBurst, FreeRouted, QueueNonlocal, CountNonlocal, LoseForeign
<1>3. UNCHANGED vars => UNCHANGED shaper
  BY DEF vars, shaper
<1>4. Inv /\ ChargedByUse /\ [Next]_vars => ChargedByUse'
  BY <1>1, <1>2, <1>3, Tx2Charged DEF Next
<1> QED
  BY InitCharged, Invariant, <1>4, PTL DEF Spec

=============================================================================
