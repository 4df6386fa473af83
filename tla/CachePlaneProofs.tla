-------------------------- MODULE CachePlaneProofs --------------------------
(***************************************************************************)
(* What the controller adds lies on a circuit, and with the first list the *)
(* packets that wait for a cache link have one to their rack, for every    *)
(* number of racks, cache links and processes and all lists of links.      *)
(* Then what the fields of a file leave, and that no process ends at a     *)
(* mapping without memory; last, that a ToR that misses no frame of a list *)
(* has all its flows.                                                      *)
(***************************************************************************)
EXTENDS CachePlane, SumTheorems, SequenceTheorems, TLAPS

(* The list of the controller is one of its lists, and every step starts   *)
(* with the first link.                                                    *)
StepsStart == pc \in {"commit", "idle"} => next = 1

(* The circuits set so far are in the transaction, and no others ...       *)
TransactionIsList ==
    /\ pc \in {"clear", "add", "idle"} => transaction = {}
    /\ pc \in {"circuits", "commit"} =>
            transaction \subseteq {Circuit(l) : l \in Range(Current)}
    /\ pc = "circuits" => \A i \in 1 .. next - 1 : Circuit(Current[i]) \in transaction
    /\ pc = "commit" => \A i \in 1 .. Len(Current) : Circuit(Current[i]) \in transaction

(* ... so that after the commit there is a circuit for every link.         *)
ListCommitted ==
    pc \in {"add", "idle"} => \A i \in 1 .. Len(Current) : Circuit(Current[i]) \in circuits

(* A frame that adds belongs to the current list, after its commit, as     *)
(* long as every sleep has outlasted the frames of the list before.        *)
Adds(m) == m.action = ADD_FLOW
OfCurrent(m) ==
    \E i \in 1 .. Len(Current) :
        {<<m.tor, m.cache>>, <<m.rack, m.cache>>} = Circuit(Current[i])

AddsOfList ==
    ~hurried =>
        \A p \in Processes \ crashed : \A i \in 1 .. Len(inbox[p]) :
            Adds(inbox[p][i]) => pc \in {"add", "idle"} /\ OfCurrent(inbox[p][i])

(* The first list overtakes no frames. *)
FirstInTime == hurried => list > 1

Inv ==
    /\ TypeOK
    /\ StepsStart
    /\ TransactionIsList
    /\ ListCommitted
    /\ FirstInTime
    /\ AddsOfList
    /\ AddedOnCircuit

(***************************************************************************)
(* The lists.                                                              *)
(***************************************************************************)
LEMMA ListsNotEmpty ==
  ASSUME NEW k \in DOMAIN LinkLists
  PROVE  /\ LinkLists[k] \in Seq(LinkType)
         /\ Len(LinkLists[k]) \in Nat /\ Len(LinkLists[k]) > 0
         /\ DOMAIN LinkLists[k] = 1 .. Len(LinkLists[k])
BY PlaneAssumption DEF PlaneAssumption

LEMMA FirstList == 1 \in DOMAIN LinkLists /\ DOMAIN LinkLists = 1 .. Len(LinkLists)
BY PlaneAssumption DEF PlaneAssumption

LEMMA LinksOfList ==
  ASSUME NEW k \in DOMAIN LinkLists, NEW i \in 1 .. Len(LinkLists[k])
  PROVE  /\ LinkLists[k][i] \in LinkType
         /\ LinkLists[k][i] \in Range(LinkLists[k])
         /\ LinkLists[k][i] \in Links
BY ListsNotEmpty DEF Links, Range

(* Two circuits of a list are the same or have no end in common.           *)
LEMMA CircuitsDisjoint ==
  ASSUME NEW k \in DOMAIN LinkLists, NEW l \in Range(LinkLists[k]), NEW m \in Range(LinkLists[k]),
         Circuit(l) \cap Circuit(m) # {}
  PROVE  Circuit(l) = Circuit(m)
BY PlaneAssumption DEF PlaneAssumption

LEMMA HandTypes ==
  ASSUME NEW m \in ByHand
  PROVE  m \in Messages /\ ~Adds(m)
<1>1. Bytes \subseteq Nat
  BY DEF Bytes
<1> QED
  BY <1>1, PlaneAssumption DEF PlaneAssumption, Messages, Adds

LEMMA LinkTypes ==
  ASSUME NEW k \in DOMAIN LinkLists, NEW i \in 1 .. Len(LinkLists[k]), NEW l, l = LinkLists[k][i]
  PROVE  /\ Message(CLEAR_CACHE, l.src, 0, 0, 0) \in Messages
         /\ ~Adds(Message(CLEAR_CACHE, l.src, 0, 0, 0))
         /\ Message(ADD_FLOW, l.src, l.cache, l.dst, l.port) \in Messages
         /\ LET m == Message(ADD_FLOW, l.src, l.cache, l.dst, l.port)
            IN  {<<m.tor, m.cache>>, <<m.rack, m.cache>>} = Circuit(l)
<1>1. /\ l.src \in Nat /\ l.cache \in Nat /\ l.dst \in Nat /\ l.port \in PortNumbers
  <2>1. Tors \subseteq Nat /\ CacheIds \subseteq Nat
    BY PlaneAssumption, ConfigAssumption DEF PlaneAssumption, ConfigAssumption, CacheIds
  <2> QED
    BY <2>1, LinksOfList DEF LinkType
<1>2. 0 \in Bytes /\ 2 \in Bytes /\ 0 \in PortNumbers
  BY DEF Bytes, PortNumbers
<1> QED
  BY <1>1, <1>2 DEF Messages, Message, ADD_FLOW, CLEAR_CACHE, Adds, Circuit

(***************************************************************************)
(* The frames.                                                             *)
(***************************************************************************)
(* A broadcast appends its message and changes nothing else in the inboxes. *)
LEMMA BroadcastFacts ==
  ASSUME inbox \in [Processes -> Seq(Messages)], NEW m \in Messages, Broadcast(m)
  PROVE  /\ inbox' \in [Processes -> Seq(Messages)]
         /\ \A p \in Processes : \A i \in 1 .. Len(inbox'[p]) :
                \/ i \in 1 .. Len(inbox[p]) /\ inbox'[p][i] = inbox[p][i]
                \/ inbox'[p][i] = m
<1>1. inbox' = [p \in Processes |-> Append(inbox[p], m)]
  BY DEF Broadcast
<1>2. ASSUME NEW p \in Processes
      PROVE  /\ Append(inbox[p], m) \in Seq(Messages)
             /\ \A i \in 1 .. Len(Append(inbox[p], m)) :
                \/ i \in 1 .. Len(inbox[p]) /\ Append(inbox[p], m)[i] = inbox[p][i]
                \/ Append(inbox[p], m)[i] = m
  <2>1. inbox[p] \in Seq(Messages)
    OBVIOUS
  <2> HIDE DEF Messages
  <2> QED
    BY <2>1
<1> QED
  BY <1>1, <1>2

(***************************************************************************)
(* The first state.                                                        *)
(***************************************************************************)
LEMMA InitInv == Init => Inv
<1> SUFFICES ASSUME Init PROVE Inv
  OBVIOUS
<1> USE PlaneAssumption DEF PlaneAssumption, Init
<1>1. ControllerOK
  <2>1. /\ list \in DOMAIN LinkLists /\ next \in 1 .. Len(Current)
        /\ transaction = {} /\ circuits = {}
    BY FirstList, ListsNotEmpty DEF Current
  <2>2. pc \in {"clear", "circuits"} /\ hurried = FALSE
    OBVIOUS
  <2> HIDE PlaneAssumption DEF PlaneAssumption, Init
  <2> QED
    BY <2>1, <2>2 DEF ControllerOK
<1>2. inbox \in [Processes -> Seq(Messages)]
  OBVIOUS
<1>3. PlaneOK
  <2>1. flows = [e \in Endpoints |-> [d \in Racks |-> IF <<e, d>> \in dirty THEN {0} ELSE {}]]
    OBVIOUS
  <2>2. crashed = {} /\ missed = {} /\ live = {}
    OBVIOUS
  <2> HIDE PlaneAssumption DEF PlaneAssumption, Init
  <2>3. {0} \in SUBSET PortNumbers
    BY DEF PortNumbers
  <2> QED
    BY <2>1, <2>2, <2>3 DEF PlaneOK
<1>4. TypeOK
  BY <1>1, <1>2, <1>3 DEF TypeOK
<1> QED
  BY <1>4 DEF Inv, StepsStart, TransactionIsList, ListCommitted, FirstInTime, AddsOfList,
              AddedOnCircuit

(***************************************************************************)
(* The controller.  None of its steps touches the mappings or the VMs.     *)
(***************************************************************************)
LEMMA PlaneStays ==
  ASSUME TypeOK, UNCHANGED <<config, plane, waiting>>
  PROVE  PlaneOK' /\ Racks' = Racks /\ waiting' = waiting
         /\ (waiting \in [Endpoints -> Seq(Racks)])'
         /\ (\A e \in Endpoints : Len(waiting[e]) <= CacheRingSize)'
BY DEF TypeOK, PlaneOK, config, plane, Racks

LEMMA AdvanceFacts ==
  ASSUME ControllerOK, NEW after \in {"circuits", "commit", "add", "idle"}, Advance(after),
         UNCHANGED list
  PROVE  /\ Current' = Current
         /\ next' \in 1 .. Len(Current)'
         /\ pc' \in {pc, after}
         /\ \/ next < Len(Current) /\ next' = next + 1 /\ pc' = pc
            \/ next = Len(Current) /\ next' = 1 /\ pc' = after
<1>1. Len(Current) \in Nat /\ Len(Current) > 0
  BY ListsNotEmpty DEF ControllerOK, Current
<1> QED
  BY <1>1 DEF ControllerOK, Advance, Current

(* A broadcast that adds nothing leaves the frames that add as they were.  *)
LEMMA NothingAdded ==
  ASSUME TypeOK, AddsOfList, NEW m \in Messages, Broadcast(m), ~Adds(m),
         UNCHANGED <<crashed, hurried>>, Current' = Current,
         pc \in {"add", "idle"} => pc' \in {"add", "idle"}
  PROVE  AddsOfList'
<1>1. \A n : OfCurrent(n)' = OfCurrent(n)
  BY DEF OfCurrent
<1>2. ASSUME ~hurried, NEW p \in Processes \ crashed, NEW i \in 1 .. Len(inbox'[p]),
             Adds(inbox'[p][i])
      PROVE  pc' \in {"add", "idle"} /\ OfCurrent(inbox'[p][i])
  <2>1. i \in 1 .. Len(inbox[p]) /\ inbox'[p][i] = inbox[p][i]
    BY <1>2, BroadcastFacts DEF TypeOK
  <2> QED
    BY <1>2, <2>1 DEF AddsOfList
<1>3. \A n : Adds(n)' = Adds(n)
  BY DEF Adds
<1> QED
  BY <1>1, <1>2, <1>3 DEF AddsOfList

LEMMA ResetKeepsInv == Inv /\ ResetCacheConfig => Inv'
<1> SUFFICES ASSUME Inv, ResetCacheConfig PROVE Inv'
  OBVIOUS
<1> USE DEF Inv, TypeOK
<1>0. pc = "clear" /\ UNCHANGED <<config, plane, waiting, list, transaction, circuits, hurried>>
  BY DEF ResetCacheConfig, plane, config
<1>1. Advance("circuits") /\ Current' = Current /\ next' \in 1 .. Len(Current)'
      /\ pc' \in {"clear", "circuits"} /\ (pc' = "circuits" => next' = 1)
  BY <1>0, AdvanceFacts DEF ResetCacheConfig
<1>2. ControllerOK'
  BY <1>0, <1>1 DEF ControllerOK
<1>3. PICK m \in Messages : Broadcast(m) /\ ~Adds(m)
  BY <1>0, LinkTypes DEF ResetCacheConfig, ControllerOK, Current
<1>4. inbox' \in [Processes -> Seq(Messages)]
  BY <1>3, BroadcastFacts
<1>5. TypeOK'
  BY <1>0, <1>2, <1>4, PlaneStays
<1>6. AddsOfList'
  BY <1>0, <1>1, <1>3, NothingAdded DEF plane
<1>7. StepsStart' /\ TransactionIsList' /\ ListCommitted' /\ FirstInTime'
  BY <1>0, <1>1 DEF StepsStart, TransactionIsList, ListCommitted, FirstInTime
<1>8. AddedOnCircuit'
  BY <1>0 DEF AddedOnCircuit, plane
<1> QED
  BY <1>5, <1>6, <1>7, <1>8

(* A link that shares a port with an earlier one is the same circuit, and  *)
(* in the transaction already.                                             *)
LEMMA SetDuplexKeepsInv == Inv /\ SetDuplexLink => Inv'
<1> SUFFICES ASSUME Inv, SetDuplexLink PROVE Inv'
  OBVIOUS
<1> USE DEF Inv, TypeOK
<1> DEFINE c == Circuit(Current[next])
<1>0. /\ pc = "circuits" /\ UNCHANGED <<config, plane, waiting, list, circuits, inbox, hurried>>
      /\ transaction' = IF c \cap UNION transaction = {} THEN transaction \cup {c} ELSE transaction
  BY DEF SetDuplexLink, plane, config
<1>1. /\ Current' = Current /\ next' \in 1 .. Len(Current)' /\ pc' \in {"circuits", "commit"}
      /\ \/ next' = next + 1 /\ pc' = "circuits"
         \/ next = Len(Current) /\ next' = 1 /\ pc' = "commit"
  BY <1>0, AdvanceFacts DEF SetDuplexLink
<1>2. /\ next \in 1 .. Len(Current) /\ list \in DOMAIN LinkLists
      /\ Current[next] \in Range(Current) /\ Range(Current) \subseteq Links
  BY LinksOfList DEF ControllerOK, Current, Links
<1>3. c \in transaction'
  <2>1. CASE c \cap UNION transaction # {}
    <3>1. PICK d \in transaction : c \cap d # {}
      BY <2>1
    <3>2. PICK l \in Range(Current) : d = Circuit(l)
      BY <1>0, <3>1 DEF TransactionIsList
    <3>3. c = d
      BY <1>2, <3>1, <3>2, CircuitsDisjoint DEF Current
    <3> QED
      BY <1>0, <2>1, <3>1, <3>3
  <2> QED
    BY <1>0, <2>1
<1>4. transaction' \subseteq {Circuit(l) : l \in Range(Current)} /\ transaction \subseteq transaction'
  BY <1>0, <1>2 DEF TransactionIsList
<1>5. ControllerOK'
  BY <1>0, <1>1, <1>2, <1>4 DEF ControllerOK
<1>6. TypeOK'
  BY <1>0, <1>5, PlaneStays
<1>7. TransactionIsList'
  <2>1. \A i \in 1 .. next : Circuit(Current[i]) \in transaction'
    BY <1>0, <1>2, <1>3, <1>4 DEF TransactionIsList
  <2> HIDE DEF c
  <2> QED
    BY <1>1, <1>2, <1>4, <2>1 DEF TransactionIsList
<1>8. StepsStart' /\ ListCommitted' /\ FirstInTime'
  BY <1>0, <1>1 DEF StepsStart, ListCommitted, FirstInTime
<1>9. AddsOfList' /\ AddedOnCircuit'
  BY <1>0 DEF AddsOfList, AddedOnCircuit, plane
<1> QED
  BY <1>6, <1>7, <1>8, <1>9

LEMMA CommitKeepsInv == Inv /\ Commit => Inv'
<1> SUFFICES ASSUME Inv, Commit PROVE Inv'
  OBVIOUS
<1> USE DEF Inv, TypeOK, Commit
<1>1. pc = "commit" /\ pc' \in {"add", "idle"} /\ next = 1 /\ next' = 1 /\ Current' = Current
      /\ UNCHANGED <<list, inbox, crashed, hurried>>
  BY DEF StepsStart, Current
<1>2. /\ circuits' = {c \in circuits : c \cap UNION transaction = {}} \cup transaction
      /\ transaction' = {} /\ live' = {}
  OBVIOUS
<1>3. PlaneOK' /\ waiting' = waiting /\ Racks' = Racks
  BY DEF PlaneOK, config, Racks
<1> HIDE DEF Commit
<1>4. ControllerOK'
  BY <1>1, <1>2 DEF ControllerOK
<1>5. TypeOK'
  BY <1>1, <1>3, <1>4
<1>6. StepsStart' /\ TransactionIsList' /\ ListCommitted' /\ FirstInTime'
  BY <1>1, <1>2 DEF StepsStart, TransactionIsList, ListCommitted, FirstInTime
<1>7. AddsOfList' /\ AddedOnCircuit'
  BY <1>1, <1>2 DEF AddsOfList, AddedOnCircuit
<1> QED
  BY <1>5, <1>6, <1>7

LEMMA FailKeepsInv == Inv /\ CommitFails => Inv'
<1> SUFFICES ASSUME Inv, CommitFails PROVE Inv'
  OBVIOUS
<1> USE DEF Inv, TypeOK
<1>1. /\ pc = "commit" /\ pc' = "failed" /\ Current' = Current
      /\ UNCHANGED <<config, plane, waiting, list, next, transaction, circuits, inbox, hurried>>
  BY DEF CommitFails, Current, plane, config
<1>2. TypeOK'
  BY <1>1, PlaneStays DEF ControllerOK
<1> QED
  BY <1>1, <1>2 DEF StepsStart, TransactionIsList, ListCommitted, FirstInTime, AddsOfList,
                    AddedOnCircuit, plane

LEMMA SetCacheKeepsInv == Inv /\ SetCacheConfig => Inv'
<1> SUFFICES ASSUME Inv, SetCacheConfig PROVE Inv'
  OBVIOUS
<1> USE DEF Inv, TypeOK
<1>0. /\ pc = "add" /\ UNCHANGED <<config, plane, waiting, list, transaction, circuits, hurried>>
      /\ next \in 1 .. Len(Current)
  BY DEF SetCacheConfig, plane, config, ControllerOK
<1>1. Current' = Current /\ next' \in 1 .. Len(Current)'
      /\ pc' \in {"add", "idle"} /\ (pc' = "idle" => next' = 1)
  BY <1>0, AdvanceFacts DEF SetCacheConfig
<1>2. ControllerOK'
  BY <1>0, <1>1 DEF ControllerOK
<1>3. PICK m \in Messages : Broadcast(m) /\ OfCurrent(m)
  <2>1. LET l == Current[next]
            m == Message(ADD_FLOW, l.src, l.cache, l.dst, l.port)
        IN  m \in Messages /\ {<<m.tor, m.cache>>, <<m.rack, m.cache>>} = Circuit(l)
    BY <1>0, LinkTypes DEF ControllerOK, Current
  <2> QED
    BY <1>0, <2>1 DEF SetCacheConfig, OfCurrent
<1>4. inbox' \in [Processes -> Seq(Messages)]
  BY <1>3, BroadcastFacts
<1>5. TypeOK'
  BY <1>0, <1>2, <1>4, PlaneStays
<1>6. AddsOfList'
  <2>1. \A n : OfCurrent(n) => OfCurrent(n)'
    BY <1>1 DEF OfCurrent
  <2>2. hurried' = hurried /\ crashed' = crashed
    BY <1>0 DEF plane
  <2>3. ASSUME ~hurried, NEW p \in Processes \ crashed, NEW i \in 1 .. Len(inbox'[p]),
               Adds(inbox'[p][i])
        PROVE  OfCurrent(inbox'[p][i])
    <3>1. CASE i \in 1 .. Len(inbox[p]) /\ inbox'[p][i] = inbox[p][i]
      BY <2>3, <3>1 DEF AddsOfList
    <3>2. CASE inbox'[p][i] = m
      BY <1>3, <3>2
    <3> QED
      BY <1>3, <3>1, <3>2, BroadcastFacts
  <2>4. \A n : Adds(n)' = Adds(n)
    BY DEF Adds
  <2> QED
    BY <1>1, <2>1, <2>2, <2>3, <2>4 DEF AddsOfList
<1>7. StepsStart' /\ TransactionIsList' /\ ListCommitted' /\ FirstInTime'
  BY <1>0, <1>1 DEF StepsStart, TransactionIsList, ListCommitted, FirstInTime
<1>8. AddedOnCircuit'
  BY <1>0 DEF AddedOnCircuit, plane
<1> QED
  BY <1>5, <1>6, <1>7, <1>8

LEMMA NextListKeepsInv == Inv /\ NextList => Inv'
<1> SUFFICES ASSUME Inv, NextList PROVE Inv'
  OBVIOUS
<1> USE DEF Inv, TypeOK, NextList
<1>1. /\ pc = "idle" /\ pc' \in {"clear", "circuits"} /\ next = 1 /\ next' = 1
      /\ list' = list + 1 /\ list < Len(LinkLists) /\ missed' = {}
      /\ UNCHANGED <<config, transaction, circuits, inbox, flows, crashed, live, waiting>>
      /\ hurried \in BOOLEAN
      /\ hurried' = (hurried \/ \E p \in Processes \ crashed : inbox[p] # <<>>)
  BY DEF StepsStart, ControllerOK
<1> HIDE DEF NextList
<1>2. list' \in DOMAIN LinkLists
  BY <1>1, FirstList DEF ControllerOK
<1>3. ControllerOK'
  BY <1>1, <1>2, ListsNotEmpty DEF ControllerOK, Current
<1>4. PlaneOK' /\ Racks' = Racks
  BY <1>1 DEF PlaneOK, config, Racks
<1>5. TypeOK'
  BY <1>1, <1>3, <1>4
<1>6. StepsStart' /\ TransactionIsList' /\ ListCommitted' /\ FirstInTime'
  BY <1>1, FirstList DEF StepsStart, TransactionIsList, ListCommitted, FirstInTime, ControllerOK
<1>7. AddsOfList' /\ AddedOnCircuit'
  <2>1. ~hurried' => ~hurried /\ \A p \in Processes \ crashed : Len(inbox[p]) = 0
    <3>1. ~hurried' => ~hurried /\ \A p \in Processes \ crashed : inbox[p] = <<>>
      BY <1>1
    <3>2. Len(<<>>) = 0
      OBVIOUS
    <3> QED
      BY <3>1, <3>2
  <2>2. \A p \in Processes : Len(inbox[p]) = 0 => 1 .. Len(inbox[p]) = {}
    OBVIOUS
  <2>3. crashed' = crashed /\ inbox' = inbox /\ live' = live /\ circuits' = circuits
    BY <1>1
  <2> QED
    BY <1>1, <2>1, <2>2, <2>3 DEF AddsOfList, AddedOnCircuit
<1> QED
  BY <1>5, <1>6, <1>7

LEMMA HandKeepsInv == Inv /\ SendByHand => Inv'
<1> SUFFICES ASSUME Inv, SendByHand PROVE Inv'
  OBVIOUS
<1> USE DEF Inv, TypeOK, SendByHand
<1>1. /\ UNCHANGED <<config, pc, list, next, transaction, circuits, hurried>>
      /\ UNCHANGED <<flows, crashed, live, waiting>>
      /\ missed' = Processes /\ Current' = Current
  BY DEF Current
<1>2. PICK m \in Messages : Broadcast(m) /\ ~Adds(m)
  BY HandTypes
<1> HIDE DEF SendByHand
<1>3. inbox' \in [Processes -> Seq(Messages)]
  BY <1>2, BroadcastFacts
<1>4. ControllerOK' /\ PlaneOK' /\ Racks' = Racks
  BY <1>1 DEF ControllerOK, PlaneOK, config, Racks
<1>5. TypeOK'
  BY <1>1, <1>3, <1>4
<1>6. AddsOfList'
  BY <1>1, <1>2, NothingAdded
<1>7. StepsStart' /\ TransactionIsList' /\ ListCommitted' /\ FirstInTime' /\ AddedOnCircuit'
  BY <1>1 DEF StepsStart, TransactionIsList, ListCommitted, FirstInTime, AddedOnCircuit
<1> QED
  BY <1>5, <1>6, <1>7

(***************************************************************************)
(* The processes and the VMs.                                              *)
(***************************************************************************)
LEMMA DecodedIsPort == ASSUME NEW n \in PortNumbers PROVE DecodedPort(n) \in PortNumbers
<1> DEFINE cut(k) == k % 65536
           lower == n - 256
<1>1. \A k \in Int : cut(k) \in PortNumbers
  BY DEF PortNumbers
<1>2. lower \in Int
  BY DEF PortNumbers
<1> HIDE DEF lower, cut
<1>3. cut(lower) \in PortNumbers
  BY <1>1, <1>2
<1> QED
  BY <1>3 DEF DecodedPort, lower, cut

LEMMA AfterIsPorts ==
  ASSUME NEW m \in Messages, NEW set \in SUBSET PortNumbers
  PROVE  After(m, set) \in SUBSET PortNumbers
BY DecodedIsPort DEF After, Messages

(* A served frame names an endpoint and a rack, and what it adds lies on a *)
(* circuit when it is of the current list.                                 *)
LEMMA FrameKeepsPlane ==
  ASSUME Inv, UNCHANGED <<tor, circuits, hurried>>,
         NEW p \in Processes \ crashed, NEW m \in Messages, ProcessCplaneFrame(p, m),
         ~hurried /\ Adds(m) => pc \in {"add", "idle"} /\ OfCurrent(m),
         missed' \subseteq Processes
  PROVE  PlaneOK' /\ AddedOnCircuit' /\ crashed \subseteq crashed'
<1> USE DEF Inv, TypeOK
<1>1. Racks' = Racks
  BY DEF Racks
<1>2. CASE ~Means(p, m)
  BY <1>1, <1>2 DEF ProcessCplaneFrame, PlaneOK, AddedOnCircuit
<1>3. CASE Means(p, m) /\ Null(m.cache, m.rack) /\ m.action <= CLEAR_CACHE
  BY <1>1, <1>3 DEF ProcessCplaneFrame, PlaneOK, AddedOnCircuit
<1>4. CASE Means(p, m) /\ ~(Null(m.cache, m.rack) /\ m.action <= CLEAR_CACHE)
  <2>1. m.tor \in Tors /\ m.cache \in CacheIds /\ m.rack \in Racks
    BY <1>4 DEF Means
  <2>2. /\ flows' = [flows EXCEPT ![<<m.tor, m.cache>>][m.rack] = After(m, @)]
        /\ live' = live \cup {<<m.tor, m.cache, m.rack>> : a \in {m.action} \cap {ADD_FLOW}}
        /\ crashed' = crashed
    BY <1>4 DEF ProcessCplaneFrame
  <2>3. <<m.tor, m.cache>> \in Endpoints
    BY <2>1 DEF Endpoints
  <2>4. After(m, flows[<<m.tor, m.cache>>][m.rack]) \in SUBSET PortNumbers
    BY <2>1, <2>3, AfterIsPorts DEF PlaneOK
  <2>5. flows' \in [Endpoints -> [Racks -> SUBSET PortNumbers]]
    BY <2>1, <2>2, <2>3, <2>4 DEF PlaneOK
  <2>6. live' \subseteq Tors \X CacheIds \X Racks
    BY <2>1, <2>2 DEF PlaneOK
  <2>7. PlaneOK'
    BY <1>1, <2>2, <2>5, <2>6 DEF PlaneOK
  <2>8. ~hurried /\ Adds(m) => {<<m.tor, m.cache>>, <<m.rack, m.cache>>} \in circuits
    BY DEF ListCommitted, OfCurrent
  <2>9. AddedOnCircuit'
    BY <2>2, <2>8 DEF AddedOnCircuit, Adds
  <2> QED
    BY <2>2, <2>7, <2>9
<1> QED
  BY <1>2, <1>3, <1>4

LEMMA SyncKeepsInv == ASSUME NEW p \in Processes PROVE Inv /\ SyncThread(p) => Inv'
<1> SUFFICES ASSUME Inv, SyncThread(p) PROVE Inv'
  OBVIOUS
<1> USE DEF Inv, TypeOK
<1>0. p \notin crashed /\ UNCHANGED <<config, controller, waiting>>
  BY DEF SyncThread
<1>1. PICK n \in 1 .. Len(inbox[p]), served \in BOOLEAN :
        /\ inbox' = [inbox EXCEPT ![p] = SubSeq(@, n + 1, Len(@))]
        /\ IF served THEN ProcessCplaneFrame(p, Head(inbox[p])) ELSE UNCHANGED <<flows, crashed, live>>
        /\ missed' = IF served /\ n = 1 THEN missed ELSE missed \cup {p}
  BY DEF SyncThread
<1>2. /\ inbox[p] \in Seq(Messages) /\ Len(inbox[p]) \in Nat /\ Len(inbox[p]) > 0
      /\ Head(inbox[p]) \in Messages /\ Head(inbox[p]) = inbox[p][1]
  <2>1. inbox[p] \in Seq(Messages) /\ Len(inbox[p]) \in Nat
    OBVIOUS
  <2>2. Len(inbox[p]) > 0
    BY <1>1, <2>1
  <2> QED
    BY <2>1, <2>2
<1>3. /\ SubSeq(inbox[p], n + 1, Len(inbox[p])) \in Seq(Messages)
      /\ Len(SubSeq(inbox[p], n + 1, Len(inbox[p]))) = Len(inbox[p]) - n
      /\ \A i \in 1 .. Len(inbox[p]) - n :
            SubSeq(inbox[p], n + 1, Len(inbox[p]))[i] = inbox[p][n + i]
  BY <1>1, <1>2, SubSeqProperties
<1>4. inbox' \in [Processes -> Seq(Messages)]
  BY <1>1, <1>3
<1>5. Current' = Current /\ UNCHANGED <<pc, list, next, transaction, circuits, tor, hurried>>
  BY <1>0 DEF Current, controller, config
<1>6. missed' \subseteq Processes
  BY <1>1 DEF PlaneOK
<1>7. PlaneOK' /\ AddedOnCircuit' /\ crashed \subseteq crashed'
  <2>1. CASE served
    <3>1. ~hurried /\ Adds(Head(inbox[p])) => pc \in {"add", "idle"} /\ OfCurrent(Head(inbox[p]))
      BY <1>0, <1>2 DEF AddsOfList
    <3> QED
      BY <1>0, <1>1, <1>2, <1>5, <1>6, <2>1, <3>1, FrameKeepsPlane
  <2>2. CASE ~served
    BY <1>1, <1>5, <1>6, <2>2 DEF PlaneOK, AddedOnCircuit, Racks
  <2> QED
    BY <2>1, <2>2
<1>8. TypeOK'
  BY <1>0, <1>4, <1>5, <1>7 DEF ControllerOK, Racks
<1>9. AddsOfList'
  <2>1. \A m : OfCurrent(m)' = OfCurrent(m) /\ Adds(m)' = Adds(m)
    BY <1>5 DEF OfCurrent, Adds
  <2>2. ASSUME ~hurried, NEW q \in Processes \ crashed', NEW i \in 1 .. Len(inbox'[q]),
               Adds(inbox'[q][i])
        PROVE  pc \in {"add", "idle"} /\ OfCurrent(inbox'[q][i])
    <3>1. CASE q = p
      <4>1. /\ i \in 1 .. Len(inbox[p]) - n
            /\ inbox'[q][i] = inbox[p][n + i] /\ n + i \in 1 .. Len(inbox[p])
        <5>1. inbox'[q] = SubSeq(inbox[p], n + 1, Len(inbox[p]))
          BY <1>1, <3>1
        <5> HIDE DEF Inv, TypeOK
        <5>2. i \in 1 .. Len(inbox[p]) - n
          BY <1>3, <2>2, <5>1
        <5>3. inbox'[q][i] = inbox[p][n + i]
          BY <1>3, <5>1, <5>2
        <5>4. n \in Nat /\ i \in Nat /\ Len(inbox[p]) \in Nat
          BY <1>2, <5>2
        <5>5. n + i \in 1 .. Len(inbox[p])
          BY <5>2, <5>4
        <5> QED
          BY <5>2, <5>3, <5>5
      <4> QED
        BY <1>0, <2>2, <4>1 DEF AddsOfList
    <3>2. CASE q # p
      <4>1. inbox'[q] = inbox[q] /\ q \notin crashed
        BY <1>1, <1>7, <3>2
      <4> QED
        BY <2>2, <4>1 DEF AddsOfList
    <3> QED
      BY <3>1, <3>2
  <2> QED
    BY <1>5, <2>1, <2>2 DEF AddsOfList
<1>10. StepsStart' /\ TransactionIsList' /\ ListCommitted' /\ FirstInTime'
  BY <1>5 DEF StepsStart, TransactionIsList, ListCommitted, FirstInTime
<1> QED
  BY <1>7, <1>8, <1>9, <1>10

(* Packets change the rings, and a null mapping ends the process.          *)
LEMMA PacketsKeepInv ==
  ASSUME Inv, UNCHANGED <<config, controller, inbox, flows, missed, live>>,
         crashed \subseteq crashed', crashed' \subseteq Processes,
         waiting' \in [Endpoints -> Seq(Racks)],
         \A e \in Endpoints : Len(waiting'[e]) <= CacheRingSize
  PROVE  Inv'
<1> USE DEF Inv, TypeOK
<1>1. Current' = Current /\ Racks' = Racks
      /\ UNCHANGED <<pc, list, next, transaction, circuits, hurried, inbox, flows, missed, live>>
  BY DEF Current, Racks, controller, config
<1>2. TypeOK'
  BY <1>1 DEF ControllerOK, PlaneOK
<1>3. AddsOfList'
  BY <1>1 DEF AddsOfList, OfCurrent, Adds
<1> QED
  BY <1>1, <1>2, <1>3 DEF StepsStart, TransactionIsList, ListCommitted, FirstInTime,
                          AddedOnCircuit

LEMMA VmKeepsInv ==
  ASSUME NEW t \in Tors, NEW d \in Racks, NEW n \in Ports
  PROVE  Inv /\ VmSends(t, d, n) => Inv'
<1> SUFFICES ASSUME Inv, VmSends(t, d, n) PROVE Inv'
  OBVIOUS
<1> DEFINE e == <<t, CacheOf(t, d, n)>>
<1>1. Process[t] \in Processes /\ CacheRingSize \in Nat
  BY PlaneAssumption DEF PlaneAssumption
<1>2. /\ CacheOf(t, d, n) \in CacheIds
      /\ \/ crashed' = crashed \cup {Process[t]} /\ UNCHANGED waiting
         \/ /\ Len(waiting[e]) < CacheRingSize
            /\ waiting' = [waiting EXCEPT ![e] = Append(@, d)] /\ UNCHANGED crashed
      /\ UNCHANGED <<config, controller, inbox, flows, missed, live>>
  BY DEF VmSends
<1>3. e \in Endpoints
  BY <1>2 DEF Endpoints
<1> HIDE DEF e
<1>4. waiting[e] \in Seq(Racks) /\ waiting \in [Endpoints -> Seq(Racks)]
      /\ (\A f \in Endpoints : Len(waiting[f]) <= CacheRingSize) /\ crashed \subseteq Processes
  BY <1>3 DEF Inv, TypeOK, PlaneOK
<1>5. Append(waiting[e], d) \in Seq(Racks) /\ Len(Append(waiting[e], d)) = Len(waiting[e]) + 1
      /\ Len(waiting[e]) \in Nat
  BY <1>4
<1>6. /\ waiting' \in [Endpoints -> Seq(Racks)]
      /\ \A f \in Endpoints : Len(waiting'[f]) <= CacheRingSize
  <2>1. CASE UNCHANGED waiting
    BY <1>4, <2>1
  <2>2. CASE /\ Len(waiting[e]) < CacheRingSize
             /\ waiting' = [waiting EXCEPT ![e] = Append(waiting[e], d)]
    <3>1. waiting' \in [Endpoints -> Seq(Racks)]
      BY <1>4, <1>5, <2>2
    <3>2. ASSUME NEW f \in Endpoints PROVE Len(waiting'[f]) <= CacheRingSize
      <4>1. CASE f = e
        <5>1. waiting'[f] = Append(waiting[e], d)
          BY <1>4, <2>2, <4>1
        <5> QED
          BY <1>1, <1>5, <2>2, <5>1
      <4>2. CASE f # e
        BY <1>4, <2>2, <4>2
      <4> QED
        BY <4>1, <4>2
    <3> QED
      BY <3>1, <3>2
  <2> QED
    BY <1>2, <2>1, <2>2
<1>7. crashed \subseteq crashed' /\ crashed' \subseteq Processes
  BY <1>1, <1>2, <1>4
<1> QED
  BY <1>2, <1>6, <1>7, PacketsKeepInv

LEMMA SendKeepsInv == ASSUME NEW e \in Endpoints PROVE Inv /\ SendOnCache(e) => Inv'
<1> SUFFICES ASSUME Inv, SendOnCache(e) PROVE Inv'
  OBVIOUS
<1>1. PICK n \in 1 .. Len(waiting[e]) :
        waiting' = [waiting EXCEPT ![e] = SubSeq(@, n + 1, Len(@))]
  BY DEF SendOnCache
<1>2. /\ waiting \in [Endpoints -> Seq(Racks)] /\ waiting[e] \in Seq(Racks)
      /\ Len(waiting[e]) \in Nat /\ CacheRingSize \in Nat
      /\ (\A f \in Endpoints : Len(waiting[f]) <= CacheRingSize)
      /\ crashed \subseteq Processes
      /\ UNCHANGED <<config, controller, inbox, plane>>
  BY PlaneAssumption DEF PlaneAssumption, Inv, TypeOK, PlaneOK, SendOnCache
<1>3. /\ SubSeq(waiting[e], n + 1, Len(waiting[e])) \in Seq(Racks)
      /\ Len(SubSeq(waiting[e], n + 1, Len(waiting[e]))) = Len(waiting[e]) - n
  BY <1>1, <1>2, SubSeqProperties
<1>4. /\ waiting' \in [Endpoints -> Seq(Racks)]
      /\ \A f \in Endpoints : Len(waiting'[f]) <= CacheRingSize
  BY <1>1, <1>2, <1>3
<1> QED
  BY <1>2, <1>4, PacketsKeepInv DEF plane

LEMMA InvStutters == Inv /\ UNCHANGED vars => Inv'
<1> SUFFICES ASSUME Inv, UNCHANGED vars PROVE Inv'
  OBVIOUS
<1>1. UNCHANGED <<config, controller, inbox, flows, missed, live, crashed, waiting>>
  BY DEF vars, plane
<1> QED
  BY <1>1, PacketsKeepInv DEF Inv, TypeOK, PlaneOK

(***************************************************************************)
(* The theorems.                                                           *)
(***************************************************************************)
THEOREM Invariant == Spec => []Inv
<1>1. Inv /\ [Next]_vars => Inv'
  BY ResetKeepsInv, SetDuplexKeepsInv, CommitKeepsInv, FailKeepsInv, SetCacheKeepsInv,
     NextListKeepsInv, HandKeepsInv, SyncKeepsInv, VmKeepsInv, SendKeepsInv, InvStutters
     DEF Next, Controller
<1> QED
  BY InitInv, <1>1, PTL DEF Spec

(* Inboxes hold frames, mappings ports, and rings as many racks as fit.    *)
THEOREM TypeCorrect == Spec => []TypeOK
BY Invariant, PTL DEF Inv

(* No flow is added to a cache link that has no circuit to its rack,       *)
(* whatever frames get lost or are sent by hand, as long as no list        *)
(* overtakes frames of the one before (scheduled_change.py:37).            *)
THEOREM Added == Spec => []AddedOnCircuit
BY Invariant, PTL DEF Inv

-----------------------------------------------------------------------------
(***************************************************************************)
(* With the first list every flow of a mapping without garbage is live,    *)
(* and nothing waits that no flow has sent there.                          *)
(***************************************************************************)
Clean(e, d) == <<e, d>> \notin dirty

FirstUse == list = 1

FlowsAreLive ==
    FirstUse => \A e \in Endpoints, d \in Racks :
                    Clean(e, d) /\ flows[e][d] # {} => <<e[1], e[2], d>> \in live

WaitingIsLive ==
    FirstUse => \A e \in Endpoints : \A i \in 1 .. Len(waiting[e]) :
                    Clean(e, waiting[e][i]) => <<e[1], e[2], waiting[e][i]>> \in live

(* The circuits are committed once, before the first frame that adds.      *)
NothingLiveBefore == FirstUse /\ pc \notin {"add", "idle"} => live = {}

Reach == FlowsAreLive /\ WaitingIsLive /\ NothingLiveBefore

LEMMA InitReach == Init => Reach
<1> SUFFICES ASSUME Init PROVE Reach
  OBVIOUS
<1>1. /\ flows = [e \in Endpoints |-> [d \in Racks |-> IF <<e, d>> \in dirty THEN {0} ELSE {}]]
      /\ waiting = [e \in Endpoints |-> <<>>] /\ live = {}
  BY DEF Init
<1>2. FlowsAreLive /\ NothingLiveBefore
  BY <1>1 DEF FlowsAreLive, NothingLiveBefore, FirstUse, Clean
<1>3. \A e \in Endpoints : Len(waiting[e]) = 0
  BY <1>1
<1>4. WaitingIsLive
  BY <1>3 DEF WaitingIsLive
<1> QED
  BY <1>2, <1>4 DEF Reach

(* A step of the controller or a frame on its way: the next list is no     *)
(* longer the first, and the commit finds nothing live.                    *)
LEMMA ControllerReach ==
  ASSUME Inv, Reach, Controller \/ SendByHand
  PROVE  Reach'
<1>1. UNCHANGED <<config, flows, waiting>>
  BY DEF Controller, ResetCacheConfig, SetDuplexLink, Commit, CommitFails, SetCacheConfig, NextList,
         SendByHand, plane
<1>2. Racks' = Racks /\ dirty' = dirty
  BY <1>1 DEF Racks, config
<1>3. list \in Nat /\ list > 0
  BY FirstList DEF Inv, TypeOK, ControllerOK
<1>4. FirstUse' => FirstUse /\ ~NextList
  BY <1>2, <1>3 DEF FirstUse, Controller, ResetCacheConfig, SetDuplexLink, Commit, CommitFails,
                    SetCacheConfig, NextList, SendByHand
<1>5. FirstUse' => live' = live
  BY <1>4 DEF Controller, ResetCacheConfig, SetDuplexLink, Commit, CommitFails, SetCacheConfig,
              SendByHand, plane, Reach, NothingLiveBefore
<1>6. FirstUse' /\ pc' \notin {"add", "idle"} => pc \notin {"add", "idle"}
  <2>1. ResetCacheConfig \/ SetDuplexLink \/ Commit \/ CommitFails => pc \notin {"add", "idle"}
    BY DEF ResetCacheConfig, SetDuplexLink, Commit, CommitFails
  <2>2. SetCacheConfig => pc' \in {"add", "idle"}
    BY DEF SetCacheConfig, Advance
  <2>3. SendByHand => pc' = pc
    BY DEF SendByHand
  <2> QED
    BY <1>4, <2>1, <2>2, <2>3 DEF Controller
<1>7. FlowsAreLive' /\ WaitingIsLive'
  BY <1>1, <1>2, <1>4, <1>5 DEF Reach, FlowsAreLive, WaitingIsLive, Clean
<1>8. NothingLiveBefore'
  BY <1>4, <1>5, <1>6 DEF Reach, NothingLiveBefore
<1> QED
  BY <1>7, <1>8 DEF Reach

(* A frame that leaves a flow where there was none is one that adds.       *)
LEMMA SyncReach ==
  ASSUME Inv, Reach, NEW p \in Processes, SyncThread(p)
  PROVE  Reach'
<1>1. PICK n \in 1 .. Len(inbox[p]), served \in BOOLEAN :
        IF served THEN ProcessCplaneFrame(p, Head(inbox[p])) ELSE UNCHANGED <<flows, crashed, live>>
  BY DEF SyncThread
<1>2. UNCHANGED <<pc, list, dirty, waiting, Racks>> /\ p \notin crashed
  BY DEF SyncThread, config, controller, Racks
<1> DEFINE m == Head(inbox[p])
<1>3. inbox[p] \in Seq(Messages) /\ m = inbox[p][1] /\ 1 \in 1 .. Len(inbox[p])
  <2>1. inbox[p] \in Seq(Messages) /\ Len(inbox[p]) \in Nat
    BY DEF Inv, TypeOK
  <2> QED
    BY <1>1, <2>1
<1>4. FirstUse /\ Adds(m) => pc \in {"add", "idle"}
  BY <1>2, <1>3 DEF Inv, AddsOfList, FirstInTime, FirstUse
<1> HIDE DEF m
<1>5. CASE UNCHANGED <<flows, live>>
  BY <1>2, <1>5 DEF Reach, FlowsAreLive, WaitingIsLive, NothingLiveBefore, FirstUse, Clean
<1>6. CASE /\ m.tor \in Tors /\ m.cache \in CacheIds /\ m.rack \in Racks
           /\ flows' = [flows EXCEPT ![<<m.tor, m.cache>>][m.rack] = After(m, @)]
           /\ live' = live \cup {<<m.tor, m.cache, m.rack>> : a \in {m.action} \cap {ADD_FLOW}}
  <2> DEFINE f == <<m.tor, m.cache>>
  <2>1. /\ f \in Endpoints /\ f[1] = m.tor /\ f[2] = m.cache
        /\ flows \in [Endpoints -> [Racks -> SUBSET PortNumbers]]
    BY <1>6 DEF Endpoints, Inv, TypeOK, PlaneOK
  <2>2. live \subseteq live' /\ (Adds(m) => <<m.tor, m.cache, m.rack>> \in live')
    BY <1>6 DEF Adds
  <2>3. ~Adds(m) => /\ live' = live
                    /\ After(m, flows[f][m.rack]) \subseteq flows[f][m.rack]
    <3>1. \A set : ~Adds(m) => After(m, set) \subseteq set
      BY DEF Adds, After, ADD_FLOW, REMOVE_FLOW, CLEAR_CACHE
    <3> QED
      BY <1>6, <3>1 DEF Adds
  <2>4. FlowsAreLive'
    <3>1. SUFFICES ASSUME FirstUse, NEW e \in Endpoints, NEW d \in Racks, Clean(e, d),
                          flows'[e][d] # {}
                   PROVE  <<e[1], e[2], d>> \in live'
      BY <1>2 DEF FlowsAreLive, FirstUse, Clean
    <3>2. CASE e = f /\ d = m.rack
      <4>1. flows'[e][d] = After(m, flows[f][m.rack])
        BY <1>6, <2>1, <3>2
      <4>2. CASE Adds(m)
        BY <2>1, <2>2, <3>2, <4>2
      <4>3. CASE ~Adds(m)
        BY <2>3, <3>1, <3>2, <4>1, <4>3 DEF Reach, FlowsAreLive
      <4> QED
        BY <4>2, <4>3
    <3>3. CASE ~(e = f /\ d = m.rack)
      <4>1. flows'[e][d] = flows[e][d]
        BY <1>6, <2>1, <3>3
      <4> QED
        BY <2>2, <3>1, <4>1 DEF Reach, FlowsAreLive
    <3> QED
      BY <3>2, <3>3
  <2>5. WaitingIsLive'
    BY <1>2, <2>2 DEF Reach, WaitingIsLive, FirstUse, Clean
  <2>6. NothingLiveBefore'
    BY <1>2, <1>4, <2>3 DEF Reach, NothingLiveBefore, FirstUse
  <2> QED
    BY <2>4, <2>5, <2>6 DEF Reach
<1> QED
  BY <1>1, <1>5, <1>6 DEF ProcessCplaneFrame, Means, m

(* get_dst_qid picks a cache link whose mapping is null or takes the flow. *)
LEMMA CacheTakes ==
  ASSUME NEW t \in Tors, NEW d \in Racks, NEW n \in Ports, CacheOf(t, d, n) \in CacheIds,
         ~Null(CacheOf(t, d, n), d)
  PROVE  Takes(t, CacheOf(t, d, n), d, n)
<1> DEFINE taken == {c \in CacheIds : Null(c, d) \/ Takes(t, c, d, n)}
<1>1. NumCaches \notin CacheIds /\ CacheIds \subseteq Nat
  BY ConfigAssumption DEF CacheIds
<1>2. taken # {} /\ taken \in SUBSET Nat
  BY <1>1 DEF CacheOf
<1>3. CacheOf(t, d, n) = CHOOSE c \in taken : \A b \in taken : c <= b
  BY <1>2 DEF CacheOf
<1>4. \E c \in taken : \A b \in taken : c <= b
  <2> HIDE DEF taken
  <2> QED
    BY <1>2, Least
<1>5. CacheOf(t, d, n) \in taken
  <2> HIDE DEF taken
  <2> QED
    BY <1>3, <1>4
<1> QED
  BY <1>5

LEMMA VmReach ==
  ASSUME Inv, Reach, NEW t \in Tors, NEW d \in Racks, NEW n \in Ports, VmSends(t, d, n)
  PROVE  Reach'
<1> DEFINE c == CacheOf(t, d, n)
           e == <<t, c>>
<1>1. /\ c \in CacheIds
      /\ UNCHANGED <<pc, list, dirty, tor, flows, live>>
      /\ UNCHANGED waiting \/ (~Null(c, d) /\ waiting' = [waiting EXCEPT ![e] = Append(@, d)])
  BY DEF VmSends, config, controller
<1>2. UNCHANGED Racks
  BY <1>1 DEF Racks
<1>3. FlowsAreLive' /\ NothingLiveBefore'
  BY <1>1, <1>2 DEF Reach, FlowsAreLive, NothingLiveBefore, FirstUse, Clean
<1>4. WaitingIsLive'
  <2>1. CASE UNCHANGED waiting
    BY <1>1, <2>1 DEF Reach, WaitingIsLive, FirstUse, Clean
  <2>2. CASE ~Null(c, d) /\ waiting' = [waiting EXCEPT ![e] = Append(@, d)]
    <3>1. e \in Endpoints /\ e[1] = t /\ e[2] = c /\ waiting \in [Endpoints -> Seq(Racks)]
      BY <1>1 DEF Endpoints, Inv, TypeOK
    <3>2. flows[e][d] # {}
      <4>1. Takes(t, c, d, n)
        <5> USE <1>1, <2>2
        <5> QED
          BY CacheTakes
      <4> QED
        BY <4>1 DEF Takes
    <3> HIDE DEF e, c
    <3>3. FirstUse /\ Clean(e, d) => <<e[1], e[2], d>> \in live
      BY <3>1, <3>2 DEF Reach, FlowsAreLive
    <3>4. SUFFICES ASSUME FirstUse, NEW f \in Endpoints, NEW i \in 1 .. Len(waiting'[f]),
                          Clean(f, waiting'[f][i])
                   PROVE  <<f[1], f[2], waiting'[f][i]>> \in live
      BY <1>1 DEF WaitingIsLive, FirstUse, Clean
    <3>5. CASE f # e
      BY <2>2, <3>1, <3>4, <3>5 DEF Reach, WaitingIsLive
    <3>6. CASE f = e
      <4>1. waiting[e] \in Seq(Racks) /\ waiting'[f] = Append(waiting[e], d)
        BY <2>2, <3>1, <3>6
      <4>2. (i \in 1 .. Len(waiting[e]) /\ waiting'[f][i] = waiting[e][i]) \/ waiting'[f][i] = d
        BY <3>4, <4>1
      <4> QED
        BY <3>1, <3>3, <3>4, <3>6, <4>2 DEF Reach, WaitingIsLive
    <3> QED
      BY <3>5, <3>6
  <2> QED
    BY <1>1, <2>1, <2>2
<1> QED
  BY <1>3, <1>4 DEF Reach

LEMMA SendReach ==
  ASSUME Inv, Reach, NEW e \in Endpoints, SendOnCache(e)
  PROVE  Reach'
<1>1. PICK n \in 1 .. Len(waiting[e]) :
        waiting' = [waiting EXCEPT ![e] = SubSeq(@, n + 1, Len(@))]
  BY DEF SendOnCache
<1>2. UNCHANGED <<pc, list, dirty, tor, flows, live>>
  BY DEF SendOnCache, config, controller, plane
<1>3. UNCHANGED Racks
  BY <1>2 DEF Racks
<1>4. FlowsAreLive' /\ NothingLiveBefore'
  BY <1>2, <1>3 DEF Reach, FlowsAreLive, NothingLiveBefore, FirstUse, Clean
<1>5. /\ waiting \in [Endpoints -> Seq(Racks)] /\ waiting[e] \in Seq(Racks)
      /\ Len(waiting[e]) \in Nat
  BY DEF Inv, TypeOK
<1> DEFINE rest == SubSeq(waiting[e], n + 1, Len(waiting[e]))
<1>6. Len(rest) = Len(waiting[e]) - n /\ \A i \in 1 .. Len(waiting[e]) - n : rest[i] = waiting[e][n + i]
  BY <1>1, <1>5, SubSeqProperties
<1>7. waiting'[e] = rest /\ \A f \in Endpoints \ {e} : waiting'[f] = waiting[f]
  BY <1>1, <1>5
<1> HIDE DEF rest
<1>8. WaitingIsLive'
  <2>1. SUFFICES ASSUME FirstUse, NEW f \in Endpoints, NEW i \in 1 .. Len(waiting'[f]),
                        Clean(f, waiting'[f][i])
                 PROVE  <<f[1], f[2], waiting'[f][i]>> \in live
    BY <1>2 DEF WaitingIsLive, FirstUse, Clean
  <2>2. CASE f # e
    BY <1>7, <2>1, <2>2 DEF Reach, WaitingIsLive
  <2>3. CASE f = e
    <3>1. n + i \in 1 .. Len(waiting[e]) /\ waiting'[f][i] = waiting[e][n + i]
      BY <1>1, <1>5, <1>6, <1>7, <2>1, <2>3
    <3> QED
      BY <2>1, <2>3, <3>1 DEF Reach, WaitingIsLive
  <2> QED
    BY <2>2, <2>3
<1> QED
  BY <1>4, <1>8 DEF Reach

LEMMA NextReach == Inv /\ Reach /\ [Next]_vars => Reach'
<1> SUFFICES ASSUME Inv, Reach, [Next]_vars PROVE Reach'
  OBVIOUS
<1>1. CASE UNCHANGED vars
  <2>1. UNCHANGED <<pc, list, dirty, tor, flows, live, waiting>>
    BY <1>1 DEF vars, config, controller, plane
  <2> QED
    BY <2>1 DEF Reach, FlowsAreLive, WaitingIsLive, NothingLiveBefore, FirstUse, Clean,
                   Racks
<1>2. CASE \E t \in Tors, d \in Racks, n \in Ports : VmSends(t, d, n)
  BY <1>2, VmReach
<1>3. CASE \E e \in Endpoints : SendOnCache(e)
  BY <1>3, SendReach
<1>4. CASE \E p \in Processes : SyncThread(p)
  BY <1>4, SyncReach
<1> QED
  BY <1>1, <1>2, <1>3, <1>4, ControllerReach DEF Next

(* With the first list, a packet that waits for a cache link has a circuit *)
(* to its rack (main.c:519-544, cache_controller.py:78-106), unless malloc *)
(* left garbage in the mapping of that link and rack.                      *)
THEOREM FirstListReaches == Spec => []PacketsReachRack
<1>1. Inv /\ Reach => PacketsReachRack
  <2> SUFFICES ASSUME Inv, Reach, FirstUse, NEW e \in Endpoints, NEW i \in DOMAIN waiting[e],
                      Clean(e, waiting[e][i])
               PROVE  {e, <<waiting[e][i], e[2]>>} \in circuits
    BY DEF PacketsReachRack, FirstUse, Clean
  <2>1. waiting[e] \in Seq(Racks)
    BY DEF Inv, TypeOK
  <2>2. i \in 1 .. Len(waiting[e])
    BY <2>1
  <2>3. <<e[1], e[2], waiting[e][i]>> \in live
    BY <2>2 DEF Reach, WaitingIsLive
  <2>4. {<<e[1], e[2]>>, <<waiting[e][i], e[2]>>} \in circuits
    BY <2>3 DEF Inv, FirstInTime, FirstUse, AddedOnCircuit
  <2>5. e = <<e[1], e[2]>>
    BY DEF Endpoints
  <2> QED
    BY <2>4, <2>5
<1>2. Spec => []Reach
  <2>1. Spec => []Inv
    BY Invariant
  <2> QED
    BY <2>1, InitReach, NextReach, PTL DEF Spec
<1> QED
  BY Invariant, <1>1, <1>2, PTL

-----------------------------------------------------------------------------
(***************************************************************************)
(* What config.c makes of a file.                                          *)
(***************************************************************************)
Keys == {"num_racks", "rotors", "cache"}

Mappings == {Fresh.mappings} \cup {[c \in CacheIds |-> 0 .. n - 1] : n \in Nat}
TorType  == [racks : Nat \ {0}, rotors : Nat, mappings : Mappings]

(* The function behind the FoldLeft of extract_rotors, and that behind the *)
(* one of process_object.                                                  *)
RotorFold(t) ==
    CHOOSE iter : iter = [s \in SUBSET (DOMAIN NumMatchings) |->
        IF s = {} THEN t ELSE AddRotor(iter[s \ {Max(s)}], NumMatchings[Max(s)])]

FieldFold(keys) ==
    CHOOSE iter : iter = [s \in SUBSET (DOMAIN keys) |->
        IF s = {} THEN Fresh ELSE ReadField(iter[s \ {Max(s)}], keys[Max(s)])]

LEMMA RotorFoldIs == ASSUME NEW t PROVE ExtractRotors(t) = RotorFold(t)[DOMAIN NumMatchings]
BY DEF ExtractRotors, FoldLeft, MapThenFoldSet, RotorFold

LEMMA FieldFoldIs == ASSUME NEW keys PROVE Configured(keys) = FieldFold(keys)[DOMAIN keys]
BY DEF Configured, FoldLeft, MapThenFoldSet, FieldFold

LEMMA MatchingsAre ==
  /\ Len(NumMatchings) \in Nat /\ DOMAIN NumMatchings = 1 .. Len(NumMatchings)
  /\ \A i \in 1 .. Len(NumMatchings) : NumMatchings[i] \in Nat
BY ConfigAssumption DEF ConfigAssumption

LEMMA AddRotorIs ==
  ASSUME NEW t \in TorType, NEW n \in Nat
  PROVE  /\ AddRotor(t, n) \in TorType /\ AddRotor(t, n).mappings = t.mappings
         /\ AddRotor(t, n).racks = IF n + 1 > t.racks THEN n + 1 ELSE t.racks
<1> DEFINE racks == IF n + 1 > t.racks THEN n + 1 ELSE t.racks
<1>1. /\ t = [racks |-> t.racks, rotors |-> t.rotors, mappings |-> t.mappings]
      /\ t.racks \in Nat \ {0} /\ t.rotors \in Nat /\ t.mappings \in Mappings
  BY DEF TorType
<1>2. AddRotor(t, n) = [racks |-> racks, rotors |-> t.rotors + 1, mappings |-> t.mappings]
  <2>1. AddRotor(t, n) = [t EXCEPT !.rotors = t.rotors + 1, !.racks = racks]
    BY DEF AddRotor
  <2> HIDE DEF racks
  <2> QED
    BY <1>1, <2>1
<1>3. racks \in Nat \ {0} /\ t.rotors + 1 \in Nat
  BY <1>1
<1> HIDE DEF racks
<1>4. AddRotor(t, n) \in TorType
  BY <1>1, <1>2, <1>3 DEF TorType
<1> QED
  BY <1>2, <1>4 DEF racks

(* One rotor after the other, in the order of the array. *)
LEMMA RotorSteps ==
  ASSUME NEW t \in TorType
  PROVE  /\ RotorFold(t)[{}] = t
         /\ \A k \in 1 .. Len(NumMatchings) :
                RotorFold(t)[1 .. k] = AddRotor(RotorFold(t)[1 .. k - 1], NumMatchings[k])
<1> DEFINE n == Len(NumMatchings)
           step == [x \in (1 .. n) \X TorType |-> AddRotor(x[2], NumMatchings[x[1]])]
           Is(g) == g = [s \in SUBSET (DOMAIN NumMatchings) |->
                IF s = {} THEN t ELSE AddRotor(g[s \ {Max(s)}], NumMatchings[Max(s)])]
<1>1. n \in Nat /\ DOMAIN NumMatchings = 1 .. n
  BY MatchingsAre
<1>2. step \in [(1 .. n) \X TorType -> TorType]
  BY MatchingsAre, AddRotorIs
<1>3. PICK g \in [SUBSET (1 .. n) -> TorType] : FoldsOver(g, step, t, SUBSET (1 .. n))
  <2> HIDE DEF n, step
  <2> QED
    BY <1>1, <1>2, FoldExists
<1>4. Is(g)
  <2>1. ASSUME NEW s \in SUBSET (1 .. n), s # {}
        PROVE  g[s] = AddRotor(g[s \ {Max(s)}], NumMatchings[Max(s)])
    <3>1. Max(s) \in s /\ s \ {Max(s)} \in SUBSET (1 .. n)
      BY <1>1, <2>1, MaxIn
    <3>2. Max(s) \in 1 .. n /\ g[s \ {Max(s)}] \in TorType
      BY <1>3, <3>1
    <3>3. g[s] = step[<<Max(s), g[s \ {Max(s)}]>>]
      BY <1>3, <2>1 DEF FoldsOver
    <3> QED
      BY <3>2, <3>3
  <2>2. g[{}] = t
    BY <1>3 DEF FoldsOver
  <2> HIDE DEF n
  <2>3. g = [s \in SUBSET (1 .. n) |-> g[s]]
    BY <1>3
  <2> QED
    BY <1>1, <2>1, <2>2, <2>3
<1>5. Is(RotorFold(t))
  <2> HIDE DEF Is
  <2>1. RotorFold(t) = CHOOSE g2 : Is(g2)
    BY DEF RotorFold, Is
  <2> QED
    BY <1>4, <2>1
<1>6. \A s \in SUBSET (1 .. n) : RotorFold(t)[s] =
        IF s = {} THEN t ELSE AddRotor(RotorFold(t)[s \ {Max(s)}], NumMatchings[Max(s)])
  <2> HIDE DEF n
  <2> QED
    BY <1>1, <1>5
<1>7. ASSUME NEW k \in 1 .. n
      PROVE  RotorFold(t)[1 .. k] = AddRotor(RotorFold(t)[1 .. k - 1], NumMatchings[k])
  <2>1. 1 .. k \in SUBSET (1 .. n) /\ 1 .. k # {}
    BY <1>1
  <2>2. Max(1 .. k) = k /\ (1 .. k) \ {k} = 1 .. k - 1
    BY <1>1, MaxOfPrefix
  <2> QED
    BY <1>6, <2>1, <2>2
<1> QED
  BY <1>6, <1>7

(* The racks known after the rotors are those known before, or as many as  *)
(* the largest rotor connects.                                             *)
LEMMA RotorsKnow ==
  ASSUME NEW t \in TorType
  PROVE  LET r == ExtractRotors(t)
         IN  /\ r \in TorType /\ r.mappings = t.mappings /\ r.racks >= t.racks
             /\ \A i \in 1 .. Len(NumMatchings) : r.racks > NumMatchings[i]
             /\ \/ r.racks = t.racks
                \/ \E i \in 1 .. Len(NumMatchings) : r.racks = NumMatchings[i] + 1
<1> DEFINE n == Len(NumMatchings)
           At(k) == RotorFold(t)[1 .. k]
           B == {k \in Nat : k <= n =>
                    /\ At(k) \in TorType /\ At(k).mappings = t.mappings /\ At(k).racks >= t.racks
                    /\ \A i \in 1 .. k : At(k).racks > NumMatchings[i]
                    /\ \/ At(k).racks = t.racks
                       \/ \E i \in 1 .. k : At(k).racks = NumMatchings[i] + 1}
<1>1. n \in Nat /\ ExtractRotors(t) = At(n)
  BY MatchingsAre, RotorFoldIs
<1>2. 0 \in B
  <2>1. 1 .. 0 = {} /\ At(0) = t /\ t.racks \in Nat
    BY RotorSteps DEF TorType
  <2> HIDE DEF At
  <2> QED
    BY <2>1
<1>3. ASSUME NEW k \in Nat, k \in B PROVE k + 1 \in B
  <2>1. SUFFICES ASSUME k + 1 <= n PROVE k + 1 \in B
    OBVIOUS
  <2>2. k + 1 \in 1 .. n /\ (k + 1) - 1 = k /\ k <= n
    BY <1>1, <2>1
  <2>3. At(k + 1) = AddRotor(At(k), NumMatchings[k + 1]) /\ NumMatchings[k + 1] \in Nat
    BY <2>2, RotorSteps, MatchingsAre
  <2> HIDE DEF At, n
  <2>4. /\ At(k) \in TorType /\ At(k).mappings = t.mappings /\ At(k).racks >= t.racks
        /\ \A i \in 1 .. k : At(k).racks > NumMatchings[i]
        /\ \/ At(k).racks = t.racks
           \/ \E i \in 1 .. k : At(k).racks = NumMatchings[i] + 1
    BY <1>3, <2>2
  <2>5. /\ At(k + 1) \in TorType /\ At(k + 1).mappings = t.mappings
        /\ At(k + 1).racks = IF NumMatchings[k + 1] + 1 > At(k).racks THEN NumMatchings[k + 1] + 1
                             ELSE At(k).racks
    BY <2>3, <2>4, AddRotorIs
  <2>6. At(k).racks \in Nat /\ t.racks \in Nat /\ \A i \in 1 .. k + 1 : NumMatchings[i] \in Nat
    <3>1. \A i \in 1 .. k + 1 : i \in 1 .. n
      BY <1>1, <2>1
    <3> QED
      BY <2>4, <3>1, MatchingsAre DEF TorType, n
  <2>7. \A i \in 1 .. k + 1 : i \in 1 .. k \/ i = k + 1
    OBVIOUS
  <2>8. At(k + 1).racks >= t.racks /\ \A i \in 1 .. k + 1 : At(k + 1).racks > NumMatchings[i]
    BY <2>3, <2>4, <2>5, <2>6, <2>7
  <2>9. \/ At(k + 1).racks = t.racks
        \/ \E i \in 1 .. k + 1 : At(k + 1).racks = NumMatchings[i] + 1
    BY <2>4, <2>5
  <2> QED
    BY <2>5, <2>8, <2>9
<1> HIDE DEF B
<1>4. n \in B
  BY <1>1, <1>2, <1>3, Induction
<1> QED
  BY <1>1, <1>4 DEF B

LEMMA FreshIs == Fresh \in TorType /\ Fresh.racks = 1
BY DEF Fresh, TorType, Mappings

LEMMA RacksField ==
  ASSUME NEW t \in TorType
  PROVE  LET r == ReadField(t, "num_racks")
         IN  r \in TorType /\ r.mappings = t.mappings /\ r.racks = NumRacks
<1>1. /\ t = [racks |-> t.racks, rotors |-> t.rotors, mappings |-> t.mappings]
      /\ t.rotors \in Nat /\ t.mappings \in Mappings /\ NumRacks \in Nat \ {0}
  BY ConfigAssumption DEF TorType, ConfigAssumption
<1>2. ReadField(t, "num_racks") =
        [racks |-> NumRacks, rotors |-> t.rotors, mappings |-> t.mappings]
  BY <1>1 DEF ReadField, SetNumRacks
<1>3. [racks |-> NumRacks, rotors |-> t.rotors, mappings |-> t.mappings] \in TorType
  BY <1>1 DEF TorType
<1> QED
  BY <1>2, <1>3

LEMMA CacheField ==
  ASSUME NEW t \in TorType
  PROVE  LET r == ReadField(t, "cache")
         IN  /\ r \in TorType /\ r.racks = t.racks
             /\ \A c \in CacheIds : r.mappings[c] = 0 .. t.racks - 1
<1> DEFINE known == [c \in CacheIds |-> 0 .. t.racks - 1]
<1>1. /\ t = [racks |-> t.racks, rotors |-> t.rotors, mappings |-> t.mappings]
      /\ t.rotors \in Nat /\ t.racks \in Nat \ {0}
  BY DEF TorType
<1>2. known \in Mappings
  BY <1>1 DEF Mappings
<1>3. ReadField(t, "cache") = [t EXCEPT !.mappings = known]
  BY DEF ReadField, ExtractCaches
<1>4. \A c \in CacheIds : known[c] = 0 .. t.racks - 1
  OBVIOUS
<1> HIDE DEF known
<1>5. ReadField(t, "cache") = [racks |-> t.racks, rotors |-> t.rotors, mappings |-> known]
  BY <1>1, <1>3
<1>6. [racks |-> t.racks, rotors |-> t.rotors, mappings |-> known] \in TorType
  BY <1>1, <1>2 DEF TorType
<1> QED
  BY <1>4, <1>5, <1>6

LEMMA RotorsField == ASSUME NEW t PROVE ReadField(t, "rotors") = ExtractRotors(t)
BY DEF ReadField

LEMMA FieldIsTor ==
  ASSUME NEW t \in TorType, NEW key \in Keys
  PROVE  ReadField(t, key) \in TorType
BY RacksField, CacheField, RotorsField, RotorsKnow DEF Keys

(* The three fields, in the order of the file.                             *)
LEMMA OrdersAre ==
  ASSUME NEW keys \in KeyOrders
  PROVE  /\ DOMAIN keys = 1 .. 3 /\ \A i \in 1 .. 3 : keys[i] \in Keys
         /\ keys[1] # keys[2] /\ keys[1] # keys[3] /\ keys[2] # keys[3]
<1>1. IsFiniteSet(Keys) /\ Cardinality(Keys) = 3
  <2>1. IsFiniteSet({"num_racks"}) /\ Cardinality({"num_racks"}) = 1
    BY FS_Singleton
  <2> DEFINE two == {"num_racks"} \cup {"rotors"}
  <2>2. IsFiniteSet(two) /\ Cardinality(two) = 2
    BY <2>1, FS_AddElement
  <2>3. IsFiniteSet(two \cup {"cache"}) /\ Cardinality(two \cup {"cache"}) = 3
    BY <2>2, FS_AddElement
  <2>4. Keys = two \cup {"cache"}
    BY DEF Keys
  <2> QED
    BY <2>3, <2>4
<1>2. KeyOrders = {f \in [1 .. 3 -> Keys] : \A i, j \in 1 .. 3 : i # j => f[i] # f[j]}
  BY <1>1 DEF KeyOrders, SetToSeqs, Keys
<1> QED
  BY <1>2

LEMMA FieldSteps ==
  ASSUME NEW keys \in KeyOrders
  PROVE  Configured(keys) = ReadField(ReadField(ReadField(Fresh, keys[1]), keys[2]), keys[3])
<1> DEFINE step == [x \in (1 .. 3) \X TorType |-> ReadField(x[2], keys[x[1]])]
           Is(g) == g = [s \in SUBSET (DOMAIN keys) |->
                IF s = {} THEN Fresh ELSE ReadField(g[s \ {Max(s)}], keys[Max(s)])]
<1>1. DOMAIN keys = 1 .. 3 /\ \A i \in 1 .. 3 : keys[i] \in Keys
  BY OrdersAre
<1>2. step \in [(1 .. 3) \X TorType -> TorType]
  BY <1>1, FieldIsTor
<1>3. PICK g \in [SUBSET (1 .. 3) -> TorType] : FoldsOver(g, step, Fresh, SUBSET (1 .. 3))
  <2> HIDE DEF step
  <2> QED
    BY <1>2, FreshIs, FoldExists
<1>4. Is(g)
  <2>1. ASSUME NEW s \in SUBSET (1 .. 3), s # {}
        PROVE  g[s] = ReadField(g[s \ {Max(s)}], keys[Max(s)])
    <3>1. Max(s) \in s /\ s \ {Max(s)} \in SUBSET (1 .. 3)
      BY <2>1, MaxIn
    <3>2. Max(s) \in 1 .. 3 /\ g[s \ {Max(s)}] \in TorType
      BY <1>3, <3>1
    <3>3. g[s] = step[<<Max(s), g[s \ {Max(s)}]>>]
      BY <1>3, <2>1 DEF FoldsOver
    <3> QED
      BY <3>2, <3>3
  <2>2. g[{}] = Fresh
    BY <1>3 DEF FoldsOver
  <2>3. g = [s \in SUBSET (1 .. 3) |-> g[s]]
    BY <1>3
  <2> QED
    BY <1>1, <2>1, <2>2, <2>3
<1>5. Is(FieldFold(keys))
  <2> HIDE DEF Is
  <2>1. FieldFold(keys) = CHOOSE g2 : Is(g2)
    BY DEF FieldFold, Is
  <2> QED
    BY <1>4, <2>1
<1> DEFINE F(s) == FieldFold(keys)[s]
<1>6. \A s \in SUBSET (1 .. 3) : F(s) =
        IF s = {} THEN Fresh ELSE ReadField(F(s \ {Max(s)}), keys[Max(s)])
  BY <1>1, <1>5
<1> HIDE DEF Is, step
<1>7. ASSUME NEW k \in 1 .. 3 PROVE F(1 .. k) = ReadField(F(1 .. k - 1), keys[k])
  <2>1. 1 .. k \in SUBSET (1 .. 3) /\ 1 .. k # {}
    OBVIOUS
  <2>2. Max(1 .. k) = k /\ (1 .. k) \ {k} = 1 .. k - 1
    BY MaxOfPrefix
  <2> QED
    BY <1>6, <2>1, <2>2
<1>8. F({}) = Fresh /\ 1 .. 0 = {}
  <2>1. {} \in SUBSET (1 .. 3)
    OBVIOUS
  <2>2. F({}) = Fresh
    BY <1>6, <2>1, Zenon
  <2> QED
    BY <2>2
<1> HIDE DEF F
<1>9. F(1 .. 1) = ReadField(Fresh, keys[1]) /\ F(1 .. 2) = ReadField(F(1 .. 1), keys[2])
      /\ F(1 .. 3) = ReadField(F(1 .. 2), keys[3])
  <2>1. 1 - 1 = 0 /\ 2 - 1 = 1 /\ 3 - 1 = 2
    OBVIOUS
  <2> QED
    BY <1>7, <1>8, <2>1
<1>10. Configured(keys) = F(1 .. 3)
  BY <1>1, FieldFoldIs DEF F
<1> QED
  BY <1>9, <1>10

(* The field num_racks and the rotors speak of the same racks.             *)
FileAgrees ==
    /\ \A i \in 1 .. Len(NumMatchings) : NumMatchings[i] < NumRacks
    /\ NumRacks = 1 \/ \E i \in 1 .. Len(NumMatchings) : NumMatchings[i] + 1 = NumRacks

(* Every rack of the network is known in the end, and when the cache links *)
(* are not read first every mapping has memory.                            *)
LEMMA ConfiguredIs ==
  ASSUME NEW keys \in KeyOrders
  PROVE  LET t == Configured(keys)
         IN  /\ t.racks \in Nat /\ t.racks >= NumRacks
             /\ FileAgrees /\ keys[1] # "cache" =>
                    \A c \in CacheIds, d \in 0 .. t.racks - 1 : d \in t.mappings[c]
<1> DEFINE t1 == ReadField(Fresh, keys[1])
           t2 == ReadField(t1, keys[2])
           t3 == ReadField(t2, keys[3])
<1>1. Configured(keys) = t3
  BY FieldSteps
<1>2. /\ keys[1] \in Keys /\ keys[2] \in Keys /\ keys[3] \in Keys
      /\ keys[1] # keys[2] /\ keys[1] # keys[3] /\ keys[2] # keys[3]
  BY OrdersAre
<1>3. t1 \in TorType /\ t2 \in TorType /\ t3 \in TorType
  BY <1>2, FreshIs, FieldIsTor
<1>4. NumRacks \in Nat \ {0} /\ \A i \in 1 .. Len(NumMatchings) : NumMatchings[i] \in Nat
  BY ConfigAssumption, MatchingsAre DEF ConfigAssumption
<1>5. \A t \in TorType : t.racks \in Nat
  BY DEF TorType
<1> DEFINE All(t) == \A c \in CacheIds : t.mappings[c] = 0 .. t.racks - 1
<1>6. \A t \in TorType :
        /\ ReadField(t, "num_racks").racks = NumRacks
        /\ ReadField(t, "num_racks").mappings = t.mappings
        /\ ReadField(t, "cache").racks = t.racks /\ All(ReadField(t, "cache"))
        /\ ReadField(t, "rotors").racks >= t.racks
        /\ ReadField(t, "rotors").mappings = t.mappings
  BY RacksField, CacheField, RotorsField, RotorsKnow
<1>7. FileAgrees => \A t \in TorType :
        /\ t.racks = NumRacks => ReadField(t, "rotors").racks = NumRacks
        /\ t.racks = 1 => ReadField(t, "rotors").racks = NumRacks
  <2> SUFFICES ASSUME FileAgrees, NEW t \in TorType, t.racks = NumRacks \/ t.racks = 1
               PROVE  ReadField(t, "rotors").racks = NumRacks
    OBVIOUS
  <2> DEFINE r == ReadField(t, "rotors").racks
  <2>1. /\ r \in Nat /\ r >= t.racks /\ t.racks \in Nat
        /\ \A i \in 1 .. Len(NumMatchings) : r > NumMatchings[i]
        /\ r = t.racks \/ \E i \in 1 .. Len(NumMatchings) : r = NumMatchings[i] + 1
    BY RotorsField, RotorsKnow DEF TorType
  <2> HIDE DEF r
  <2>2. r <= NumRacks
    BY <1>4, <2>1 DEF FileAgrees
  <2>3. r >= NumRacks
    BY <1>4, <2>1 DEF FileAgrees
  <2>4. r = NumRacks
    BY <1>4, <2>1, <2>2, <2>3
  <2> QED
    BY <2>4 DEF r
<1>8. t3.racks \in Nat /\ t3.racks >= NumRacks
  <2>1. t2.racks \in Nat /\ t3.racks \in Nat /\ t1.racks \in Nat
    BY <1>3, <1>5
  <2>2. CASE keys[3] = "num_racks"
    BY <1>3, <1>4, <1>6, <2>1, <2>2
  <2>3. CASE keys[2] = "num_racks"
    <3>1. t2.racks = NumRacks /\ keys[3] \in {"rotors", "cache"}
      BY <1>2, <1>3, <1>6, <2>3 DEF Keys
    <3>2. t3.racks >= t2.racks
      BY <1>3, <1>6, <2>1, <3>1
    <3> QED
      BY <2>1, <3>1, <3>2
  <2>4. CASE keys[1] = "num_racks"
    <3>1. /\ t1.racks = NumRacks /\ keys[2] \in {"rotors", "cache"}
          /\ keys[3] \in {"rotors", "cache"}
      BY <1>2, <1>6, <2>4, FreshIs DEF Keys
    <3>2. t2.racks >= t1.racks
      BY <1>3, <1>6, <2>1, <3>1
    <3>3. t3.racks >= t2.racks
      BY <1>3, <1>6, <2>1, <3>1
    <3> QED
      BY <1>4, <2>1, <3>1, <3>2, <3>3
  <2> QED
    BY <1>2, <2>2, <2>3, <2>4 DEF Keys
<1>9. ASSUME FileAgrees, keys[1] # "cache" PROVE All(t3)
  <2>1. CASE keys[3] = "cache"
    BY <1>3, <1>6, <2>1
  <2>2. CASE keys[1] = "num_racks" /\ keys[2] = "cache" /\ keys[3] = "rotors"
    <3>1. t1.racks = NumRacks
      BY <1>6, <2>2, FreshIs
    <3>2. t2.racks = NumRacks /\ All(t2)
      BY <1>3, <1>6, <2>2, <3>1
    <3>3. t3.racks = NumRacks /\ t3.mappings = t2.mappings
      BY <1>3, <1>6, <1>7, <1>9, <2>2, <3>2
    <3> QED
      BY <3>2, <3>3
  <2>3. CASE keys[1] = "rotors" /\ keys[2] = "cache" /\ keys[3] = "num_racks"
    <3>1. t1.racks = NumRacks
      BY <1>7, <1>9, <2>3, FreshIs
    <3>2. t2.racks = NumRacks /\ All(t2)
      BY <1>3, <1>6, <2>3, <3>1
    <3>3. t3.racks = NumRacks /\ t3.mappings = t2.mappings
      BY <1>3, <1>6, <2>3
    <3> QED
      BY <3>2, <3>3
  <2> QED
    BY <1>2, <1>9, <2>1, <2>2, <2>3 DEF Keys
<1> HIDE DEF t3
<1> QED
  BY <1>1, <1>8, <1>9

(* The files a run starts from. *)
TorKnown ==
    /\ tor.racks \in Nat /\ tor.racks >= NumRacks
    /\ FileAgrees /\ ~cacheFirst => \A c \in CacheIds, d \in Racks : ~Null(c, d)

LEMMA InitTorKnown == Init => TorKnown
<1> SUFFICES ASSUME Init PROVE TorKnown
  OBVIOUS
<1>1. PICK keys \in KeyOrders : tor = Configured(keys) /\ cacheFirst = (keys[1] = "cache")
  BY DEF Init
<1> QED
  BY <1>1, ConfiguredIs DEF TorKnown, Racks, Null

LEMMA ConfigStays ==
  ASSUME [Next]_vars
  PROVE  UNCHANGED config
BY DEF Next, vars, Controller, ResetCacheConfig, SetDuplexLink, Commit, CommitFails, SetCacheConfig,
       NextList, SendByHand, SyncThread, VmSends, SendOnCache

LEMMA NextTorKnown == TorKnown /\ [Next]_vars => TorKnown'
BY ConfigStays DEF TorKnown, config, Racks, Null

(* A process crashes at a null mapping, and there is none.                 *)
LEMMA NextNotCrashed == TorKnown /\ FileAgrees /\ NoNullMapping /\ [Next]_vars => NoNullMapping'
<1> SUFFICES ASSUME TorKnown, FileAgrees, NoNullMapping, [Next]_vars, ~cacheFirst'
             PROVE  crashed' = {}
  BY DEF NoNullMapping
<1>1. ~cacheFirst /\ crashed = {}
  BY ConfigStays DEF config, NoNullMapping
<1>2. \A c \in CacheIds, d \in Racks : ~Null(c, d)
  BY <1>1 DEF TorKnown
<1>3. ASSUME NEW p \in Processes, SyncThread(p) PROVE crashed' = crashed
  BY <1>2, <1>3 DEF SyncThread, ProcessCplaneFrame, Means
<1>4. ASSUME NEW t \in Tors, NEW d \in Racks, NEW n \in Ports, VmSends(t, d, n)
      PROVE  crashed' = crashed
  BY <1>2, <1>4 DEF VmSends
<1>5. Controller \/ SendByHand \/ (\E e \in Endpoints : SendOnCache(e)) \/ UNCHANGED vars
        => crashed' = crashed
  BY DEF Controller, ResetCacheConfig, SetDuplexLink, Commit, CommitFails, SetCacheConfig, NextList,
         SendByHand, SendOnCache, plane, vars
<1> QED
  BY <1>1, <1>3, <1>4, <1>5 DEF Next

(* When the file names the racks, or the rotors, before the cache links,   *)
(* and both speak of the same racks, no frame and no packet follows a null *)
(* mapping (config.c:189-238), whatever order the file has otherwise.      *)
THEOREM NoneCrashes == FileAgrees => (Spec => []NoNullMapping)
<1> SUFFICES ASSUME FileAgrees PROVE Spec => []NoNullMapping
  OBVIOUS
<1>1. Init => NoNullMapping
  BY DEF Init, NoNullMapping
<1>2. Init => TorKnown /\ NoNullMapping
  BY <1>1, InitTorKnown
<1>3. TorKnown /\ NoNullMapping /\ [Next]_vars => (TorKnown /\ NoNullMapping)'
  BY NextTorKnown, NextNotCrashed
<1> QED
  BY <1>2, <1>3, PTL DEF Spec

-----------------------------------------------------------------------------
(***************************************************************************)
(* The frames of a list, with the simple controller.                       *)
(***************************************************************************)
(* The links of the list whose frames that add are sent.                   *)
Sent == IF pc = "idle" THEN 1 .. Len(Current) ELSE IF pc = "add" THEN 1 .. next - 1 ELSE {}

AddMessage(l) == Message(ADD_FLOW, l.src, l.cache, l.dst, l.port)

(* From the k-th frame of p on there are only frames that add.             *)
AddsFrom(p, k) == \A j \in k .. Len(inbox[p]) : Adds(inbox[p][j])

(* The frame is on its way, or served, and no frame that clears is behind. *)
UnderWay(l) ==
    LET p == Process[l.src]
    IN  \/ \E k \in 1 .. Len(inbox[p]) : inbox[p][k] = AddMessage(l) /\ AddsFrom(p, k)
        \/ l.port \in flows[<<l.src, l.cache>>][l.dst] /\ AddsFrom(p, 1)

Delivered ==
    simple => \A i \in Sent :
        Process[Current[i].src] \notin crashed \cup missed /\ Current[i].port % 256 < 128
            => UnderWay(Current[i])

LEMMA SentAre ==
  ASSUME Inv, NEW i \in Sent
  PROVE  /\ i \in 1 .. Len(Current) /\ Current[i] \in LinkType
         /\ Process[Current[i].src] \in Processes
         /\ pc \in {"add", "idle"}
<1>1. list \in DOMAIN LinkLists /\ next \in 1 .. Len(Current) /\ Len(Current) \in Nat
  BY ListsNotEmpty DEF Inv, TypeOK, ControllerOK, Current
<1>2. i \in 1 .. Len(Current) /\ pc \in {"add", "idle"}
  BY <1>1 DEF Sent
<1>3. Current[i] \in LinkType
  BY <1>1, <1>2, LinksOfList DEF Current
<1> QED
  BY <1>2, <1>3, PlaneAssumption DEF PlaneAssumption, LinkType

(* What is under way stays so while the frames and the mappings stay.      *)
LEMMA UnderWayStays ==
  ASSUME NEW l, UnderWay(l), inbox'[Process[l.src]] = inbox[Process[l.src]],
         flows'[<<l.src, l.cache>>] = flows[<<l.src, l.cache>>]
  PROVE  UnderWay(l)'
BY DEF UnderWay, AddsFrom, Adds, AddMessage

LEMMA NothingSent ==
  ASSUME Inv, ResetCacheConfig \/ SetDuplexLink \/ Commit \/ CommitFails \/ NextList
  PROVE  Delivered'
<1>1. CASE pc' \notin {"add", "idle"}
  BY <1>1 DEF Delivered, Sent
<1>2. CASE Commit
  <2>1. next' = 1 /\ (pc' = IF simple THEN "add" ELSE "idle") /\ simple' = simple
    BY <1>2 DEF Commit, config, Inv, StepsStart
  <2>2. simple => Sent' = {}
    BY <2>1 DEF Sent
  <2> QED
    BY <2>1, <2>2 DEF Delivered
<1>3. ~Commit => pc' \notin {"add", "idle"}
  BY DEF ResetCacheConfig, SetDuplexLink, CommitFails, NextList, Advance
<1> QED
  BY <1>1, <1>2, <1>3

LEMMA SetCacheDelivers ==
  ASSUME Inv, Delivered, SetCacheConfig
  PROVE  Delivered'
<1> DEFINE new == AddMessage(Current[next])
<1>1. /\ pc = "add" /\ UNCHANGED <<simple, list, flows, crashed, missed>>
      /\ Broadcast(new) /\ Advance("idle")
  BY DEF SetCacheConfig, config, plane, AddMessage
<1>2. /\ inbox \in [Processes -> Seq(Messages)] /\ Current' = Current
      /\ next \in 1 .. Len(Current) /\ Len(Current) \in Nat
  BY <1>1, ListsNotEmpty DEF Inv, TypeOK, ControllerOK, Current
<1>3. ASSUME NEW i \in Sent' PROVE i \in Sent \/ i = next
  BY <1>1, <1>2, <1>3 DEF Sent, Advance
<1>4. Adds(new) /\ new \in Messages
  <2>1. new \in Messages
    BY <1>2, LinkTypes DEF Inv, TypeOK, ControllerOK, Current, AddMessage
  <2> QED
    BY <2>1 DEF Adds, AddMessage, Message
<1> HIDE DEF new
<1>5. ASSUME NEW p \in Processes
      PROVE  /\ Len(inbox'[p]) = Len(inbox[p]) + 1 /\ Len(inbox[p]) \in Nat
             /\ inbox'[p][Len(inbox[p]) + 1] = new
             /\ \A j \in 1 .. Len(inbox[p]) : inbox'[p][j] = inbox[p][j]
             /\ \A k \in 1 .. Len(inbox[p]) + 1 : AddsFrom(p, k) => AddsFrom(p, k)'
  <2>1. inbox'[p] = Append(inbox[p], new) /\ inbox[p] \in Seq(Messages)
    BY <1>1, <1>2 DEF Broadcast
  <2> HIDE DEF Messages
  <2>2. /\ Len(inbox'[p]) = Len(inbox[p]) + 1 /\ Len(inbox[p]) \in Nat
        /\ inbox'[p][Len(inbox[p]) + 1] = new
        /\ \A j \in 1 .. Len(inbox[p]) : inbox'[p][j] = inbox[p][j]
    BY <1>4, <2>1
  <2>3. ASSUME NEW k \in 1 .. Len(inbox[p]) + 1, AddsFrom(p, k),
               NEW j \in k .. Len(inbox'[p])
        PROVE  Adds(inbox'[p][j])
    <3>1. CASE j = Len(inbox[p]) + 1
      BY <1>4, <2>2, <3>1
    <3>2. CASE j # Len(inbox[p]) + 1
      <4>1. j \in k .. Len(inbox[p]) /\ inbox'[p][j] = inbox[p][j]
        BY <2>2, <3>2
      <4> QED
        BY <2>3, <4>1 DEF AddsFrom
    <3> QED
      BY <3>1, <3>2
  <2> QED
    BY <2>2, <2>3 DEF AddsFrom, Adds
<1>6. ASSUME simple', NEW i \in Sent', NEW l, l = Current[i],
             Process[l.src] \notin crashed' \cup missed', l.port % 256 < 128
      PROVE  UnderWay(l)'
  <2> DEFINE p == Process[l.src]
  <2>1. CASE i = next
    <3>1. p \in Processes /\ new = AddMessage(l)
      <4>1. l \in LinkType
        BY <1>2, <1>6, <2>1, LinksOfList DEF Current, Inv, TypeOK, ControllerOK
      <4> QED
        BY <1>6, <2>1, <4>1, PlaneAssumption DEF PlaneAssumption, LinkType, new
    <3> PICK k : k = Len(inbox[p]) + 1
      OBVIOUS
    <3> PICK q : q = p
      OBVIOUS
    <3>2. k \in 1 .. Len(inbox'[p]) /\ inbox'[p][k] = AddMessage(l) /\ AddsFrom(p, k)
      BY <1>5, <3>1 DEF AddsFrom
    <3>3. AddsFrom(q, k)'
      <4>1. q \in Processes /\ k \in 1 .. Len(inbox[q]) + 1 /\ AddsFrom(q, k)
        BY <1>5, <3>1, <3>2
      <4> QED
        BY <1>5, <4>1
    <3> QED
      BY <3>2, <3>3 DEF UnderWay, AddMessage
  <2>2. CASE i \in Sent
    <3>1. p \in Processes
      BY <1>6, <2>2, SentAre
    <3>2. UnderWay(l)
      BY <1>1, <1>6, <2>2 DEF Delivered
    <3>3. CASE \E k \in 1 .. Len(inbox[p]) : inbox[p][k] = AddMessage(l) /\ AddsFrom(p, k)
      <4>1. PICK k \in 1 .. Len(inbox[p]) : inbox[p][k] = AddMessage(l) /\ AddsFrom(p, k)
        BY <3>3
      <4>2. k \in 1 .. Len(inbox'[p]) /\ inbox'[p][k] = AddMessage(l) /\ AddsFrom(p, k)'
        BY <1>5, <3>1, <4>1
      <4> QED
        BY <4>2 DEF UnderWay, AddMessage
    <3>4. CASE l.port \in flows[<<l.src, l.cache>>][l.dst] /\ AddsFrom(p, 1)
      <4>1. AddsFrom(p, 1)'
        BY <1>5, <3>1, <3>4
      <4> QED
        BY <1>1, <3>4, <4>1 DEF UnderWay
    <3> QED
      BY <3>2, <3>3, <3>4 DEF UnderWay
  <2> QED
    BY <1>3, <1>6, <2>1, <2>2
<1> QED
  BY <1>2, <1>6 DEF Delivered

(* Another process serves a frame: it is not about this link.              *)
LEMMA ElsewhereServed ==
  ASSUME Inv, NEW q \in Processes, SyncThread(q), NEW l \in LinkType, Process[l.src] # q,
         UnderWay(l)
  PROVE  UnderWay(l)'
<1> DEFINE p == Process[l.src]
           e == <<l.src, l.cache>>
<1>1. PICK n \in 1 .. Len(inbox[q]), served \in BOOLEAN :
        /\ inbox' = [inbox EXCEPT ![q] = SubSeq(@, n + 1, Len(@))]
        /\ IF served THEN ProcessCplaneFrame(q, Head(inbox[q])) ELSE UNCHANGED <<flows, crashed, live>>
  BY DEF SyncThread
<1>2. p \in Processes /\ e \in Endpoints /\ inbox \in [Processes -> Seq(Messages)]
      /\ flows \in [Endpoints -> [Racks -> SUBSET PortNumbers]]
  BY PlaneAssumption DEF PlaneAssumption, LinkType, Endpoints, Inv, TypeOK, PlaneOK
<1>3. inbox'[p] = inbox[p]
  BY <1>1, <1>2
<1>4. flows'[e] = flows[e]
  <2> DEFINE m == Head(inbox[q])
  <2> HIDE DEF m
  <2>1. CASE Means(q, m) /\ flows' = [flows EXCEPT ![<<m.tor, m.cache>>][m.rack] = After(m, @)]
    <3>1. <<m.tor, m.cache>> # e
      BY <2>1 DEF Means
    <3> QED
      BY <1>2, <2>1, <3>1
  <2>2. CASE flows' = flows
    BY <2>2
  <2> QED
    BY <1>1, <2>1, <2>2 DEF ProcessCplaneFrame, m
<1> QED
  BY <1>3, <1>4, UnderWayStays

(* The process of the ToR serves its first frame. *)
LEMMA HereServed ==
  ASSUME Inv, TorKnown, NEW l \in LinkType, NEW p, p = Process[l.src],
         p \notin crashed', l.port % 256 < 128,
         Len(inbox[p]) > 0, ProcessCplaneFrame(p, Head(inbox[p])),
         inbox' = [inbox EXCEPT ![p] = SubSeq(@, 2, Len(@))],
         UnderWay(l)
  PROVE  UnderWay(l)'
<1> DEFINE e == <<l.src, l.cache>>
           m == Head(inbox[p])
<1>1. /\ p \in Processes /\ e \in Endpoints /\ inbox \in [Processes -> Seq(Messages)]
      /\ flows \in [Endpoints -> [Racks -> SUBSET PortNumbers]]
      /\ l.src \in Tors /\ l.cache \in CacheIds /\ l.dst \in Racks
  <2>1. l.dst \in Racks
    <3>1. l.dst \in 0 .. NumRacks - 1 /\ NumRacks \in Nat
      BY PlaneAssumption, ConfigAssumption DEF PlaneAssumption, ConfigAssumption, LinkType
    <3> QED
      BY <3>1 DEF TorKnown, Racks
  <2> QED
    BY <2>1, PlaneAssumption DEF PlaneAssumption, LinkType, Endpoints, Inv, TypeOK, PlaneOK
<1>2. /\ inbox[p] \in Seq(Messages) /\ Len(inbox[p]) \in Nat /\ m = inbox[p][1]
      /\ Len(inbox'[p]) = Len(inbox[p]) - 1
      /\ \A i \in 1 .. Len(inbox[p]) - 1 : inbox'[p][i] = inbox[p][i + 1]
  <2>1. inbox[p] \in Seq(Messages) /\ Len(inbox[p]) \in Nat
    BY <1>1
  <2>2. inbox'[p] = SubSeq(inbox[p], 2, Len(inbox[p]))
    BY <1>1
  <2>3. /\ Len(SubSeq(inbox[p], 2, Len(inbox[p]))) = Len(inbox[p]) - 1
        /\ \A i \in 1 .. Len(inbox[p]) - 1 :
                SubSeq(inbox[p], 2, Len(inbox[p]))[i] = inbox[p][i + 1]
    BY <2>1, SubSeqProperties
  <2> QED
    BY <2>1, <2>2, <2>3
<1> HIDE DEF m
<1>3. ASSUME NEW k \in 2 .. Len(inbox[p]), AddsFrom(p, k)
      PROVE  AddsFrom(p, k - 1)'
  <2> SUFFICES ASSUME NEW j \in (k - 1) .. Len(inbox'[p]) PROVE Adds(inbox'[p][j])
    BY DEF AddsFrom, Adds
  <2>1. j \in 1 .. Len(inbox[p]) - 1 /\ j + 1 \in k .. Len(inbox[p])
    BY <1>2
  <2> QED
    BY <1>2, <1>3, <2>1 DEF AddsFrom
<1>4. AddsFrom(p, 1) => AddsFrom(p, 1)' /\ Adds(m)
  <2> SUFFICES ASSUME AddsFrom(p, 1) PROVE AddsFrom(p, 1)' /\ Adds(m)
    OBVIOUS
  <2>1. Adds(m)
    BY <1>2 DEF AddsFrom
  <2>2. \A j \in 1 .. Len(inbox'[p]) : Adds(inbox'[p][j])
    <3> SUFFICES ASSUME NEW j \in 1 .. Len(inbox'[p]) PROVE Adds(inbox'[p][j])
      OBVIOUS
    <3>1. j \in 1 .. Len(inbox[p]) - 1 /\ j + 1 \in 1 .. Len(inbox[p])
      BY <1>2
    <3> QED
      BY <1>2, <3>1 DEF AddsFrom
  <2> QED
    BY <2>1, <2>2 DEF AddsFrom, Adds
<1>5. /\ Adds(m) => flows[e][l.dst] \subseteq flows'[e][l.dst]
      /\ m = AddMessage(l) => l.port \in flows'[e][l.dst]
  <2>1. m = AddMessage(l) =>
            /\ m.action = ADD_FLOW /\ m.tor = l.src /\ m.cache = l.cache /\ m.rack = l.dst
            /\ m.port = l.port
    BY DEF AddMessage, Message
  <2>2. m = AddMessage(l) => Means(p, m)
    BY <1>1, <2>1 DEF Means
  <2>3. CASE Adds(m) /\ flows' = [flows EXCEPT ![<<m.tor, m.cache>>][m.rack] = After(m, @)]
    <3>1. \A set : After(m, set) = set \cup {DecodedPort(m.port)}
      <4>1. m.action = ADD_FLOW
        BY <2>3 DEF Adds
      <4> QED
        BY <4>1 DEF After, ADD_FLOW, REMOVE_FLOW, CLEAR_CACHE
    <3>2. DecodedPort(l.port) = l.port
      BY DEF DecodedPort, LinkType, PortNumbers
    <3>3. CASE <<m.tor, m.cache>> = e /\ m.rack = l.dst
      <4>1. flows'[e][l.dst] = After(m, flows[e][l.dst])
        BY <1>1, <2>3, <3>3
      <4> QED
        BY <2>1, <3>1, <3>2, <4>1
    <3>4. CASE ~(<<m.tor, m.cache>> = e /\ m.rack = l.dst)
      <4>1. flows'[e][l.dst] = flows[e][l.dst]
        BY <1>1, <2>3, <3>4
      <4> QED
        BY <2>1, <3>4, <4>1
    <3> QED
      BY <3>3, <3>4
  <2>4. CASE flows' = flows /\ ~Means(p, m)
    BY <2>2, <2>4
  <2>5. CASE ~Adds(m)
    BY <2>1, <2>5 DEF Adds
  <2> QED
    BY <2>3, <2>4, <2>5 DEF ProcessCplaneFrame, m, Adds, CLEAR_CACHE, ADD_FLOW
<1>6. CASE l.port \in flows[e][l.dst] /\ AddsFrom(p, 1)
  BY <1>4, <1>5, <1>6 DEF UnderWay
<1>7. CASE \E k \in 1 .. Len(inbox[p]) : inbox[p][k] = AddMessage(l) /\ AddsFrom(p, k)
  <2>1. PICK k \in 1 .. Len(inbox[p]) : inbox[p][k] = AddMessage(l) /\ AddsFrom(p, k)
    BY <1>7
  <2>2. CASE k = 1
    BY <1>2, <1>4, <1>5, <2>1, <2>2 DEF UnderWay
  <2>3. CASE k # 1
    <3>1. k \in 2 .. Len(inbox[p]) /\ k - 1 \in 1 .. Len(inbox[p]) - 1 /\ (k - 1) + 1 = k
      BY <1>2, <2>3
    <3>2. AddsFrom(p, k - 1)' /\ k - 1 \in 1 .. Len(inbox'[p]) /\ inbox'[p][k - 1] = AddMessage(l)
      BY <1>2, <1>3, <2>1, <3>1
    <3> QED
      BY <3>2 DEF UnderWay, AddMessage
  <2> QED
    BY <2>2, <2>3
<1> QED
  BY <1>6, <1>7 DEF UnderWay

LEMMA SyncDelivers ==
  ASSUME Inv, TorKnown, Delivered, NEW q \in Processes, SyncThread(q)
  PROVE  Delivered'
<1>1. PICK n \in 1 .. Len(inbox[q]), served \in BOOLEAN :
        /\ inbox' = [inbox EXCEPT ![q] = SubSeq(@, n + 1, Len(@))]
        /\ IF served THEN ProcessCplaneFrame(q, Head(inbox[q])) ELSE UNCHANGED <<flows, crashed, live>>
        /\ missed' = IF served /\ n = 1 THEN missed ELSE missed \cup {q}
  BY DEF SyncThread
<1>2. UNCHANGED <<simple, pc, list, next>> /\ Sent' = Sent /\ Current' = Current
  BY DEF SyncThread, config, controller, Sent, Current
<1>3. crashed \subseteq crashed' /\ missed \subseteq missed'
  BY <1>1 DEF ProcessCplaneFrame
<1> SUFFICES ASSUME simple, NEW i \in Sent, NEW l, l = Current[i],
                    Process[l.src] \notin crashed' \cup missed', l.port % 256 < 128
             PROVE  UnderWay(l)'
  BY <1>2 DEF Delivered
<1>4. UnderWay(l) /\ l \in LinkType
  BY <1>3, SentAre DEF Delivered
<1>5. CASE Process[l.src] # q
  BY <1>4, <1>5, ElsewhereServed
<1>6. CASE Process[l.src] = q
  <2>1. served /\ n = 1
    BY <1>1, <1>6
  <2>2. Len(inbox[q]) > 0 /\ inbox' = [inbox EXCEPT ![q] = SubSeq(@, 2, Len(@))]
        /\ ProcessCplaneFrame(q, Head(inbox[q]))
    <3>1. Len(inbox[q]) \in Nat
      BY DEF Inv, TypeOK
    <3> QED
      BY <1>1, <2>1, <3>1
  <2> QED
    BY <1>4, <1>6, <2>2, HereServed
<1> QED
  BY <1>5, <1>6

(* A frame by hand, and packets. *)
LEMMA OthersDeliver ==
  ASSUME Inv, Delivered,
         \/ SendByHand
         \/ UNCHANGED <<simple, pc, list, next, inbox, flows, missed>> /\ crashed \subseteq crashed'
  PROVE  Delivered'
<1>1. CASE SendByHand
  <2>1. Sent' = Sent /\ Current' = Current /\ missed' = Processes
    BY <1>1 DEF SendByHand, Sent, Current
  <2> QED
    BY <2>1, SentAre DEF Delivered
<1>2. CASE UNCHANGED <<simple, pc, list, next, inbox, flows, missed>> /\ crashed \subseteq crashed'
  <2>1. Sent' = Sent /\ Current' = Current
    BY <1>2 DEF Sent, Current
  <2>2. \A l : UnderWay(l) => UnderWay(l)'
    BY <1>2, UnderWayStays
  <2> QED
    BY <1>2, <2>1, <2>2 DEF Delivered
<1> QED
  BY <1>1, <1>2

LEMMA NextDelivered == Inv /\ TorKnown /\ Delivered /\ [Next]_vars => Delivered'
<1> SUFFICES ASSUME Inv, TorKnown, Delivered, [Next]_vars PROVE Delivered'
  OBVIOUS
<1>1. CASE Controller
  BY <1>1, NothingSent, SetCacheDelivers DEF Controller
<1>2. CASE \E p \in Processes : SyncThread(p)
  BY <1>2, SyncDelivers
<1>3. CASE SendByHand
  BY <1>3, OthersDeliver
<1>4. CASE \/ \E t \in Tors, d \in Racks, n \in Ports : VmSends(t, d, n)
           \/ \E e \in Endpoints : SendOnCache(e)
           \/ UNCHANGED vars
  <2>1. UNCHANGED <<simple, pc, list, next, inbox, flows, missed>> /\ crashed \subseteq crashed'
    BY <1>4 DEF VmSends, SendOnCache, vars, config, controller, plane
  <2> QED
    BY <2>1, OthersDeliver
<1> QED
  BY <1>1, <1>2, <1>3, <1>4 DEF Next

(* A ToR that missed no frame of a list has all its flows once no frame is *)
(* left: reconfigure_links sends every frame that clears before the first  *)
(* that adds (cache_controller.py:78-106), for all lists of links.         *)
THEOREM Installed == Spec => []LastListInstalled
<1>1. Init => Delivered
  BY DEF Init, Delivered, Sent
<1>2. Inv /\ Delivered => LastListInstalled
  <2> SUFFICES ASSUME Inv, Delivered, pc = "idle", simple, NEW l \in Range(Current),
                      Process[l.src] \notin crashed \cup missed, inbox[Process[l.src]] = <<>>,
                      l.port % 256 < 128
               PROVE  l.port \in flows[<<l.src, l.cache>>][l.dst]
    BY DEF LastListInstalled
  <2>1. PICK i \in 1 .. Len(Current) : l = Current[i]
    BY ListsNotEmpty DEF Range, Inv, TypeOK, ControllerOK, Current
  <2>2. UnderWay(l)
    BY <2>1 DEF Delivered, Sent
  <2>3. Len(inbox[Process[l.src]]) = 0
    OBVIOUS
  <2> QED
    BY <2>2, <2>3 DEF UnderWay
<1>3. Spec => [](Inv /\ TorKnown /\ Delivered)
  <2>1. Spec => []Inv
    BY Invariant
  <2>2. Spec => []TorKnown
    BY InitTorKnown, NextTorKnown, PTL DEF Spec
  <2> QED
    BY <1>1, <2>1, <2>2, NextDelivered, PTL DEF Spec
<1> QED
  BY <1>2, <1>3, PTL

=============================================================================
