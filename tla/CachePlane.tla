------------------------------ MODULE CachePlane ------------------------------
(***************************************************************************)
(* The control plane of the cache links: the controller (da-controller/src)*)
(* sets circuits of the optical switch and tells every ToR, by single UDP  *)
(* messages without answer, which flows of which destination use a cache   *)
(* link; the sync lcore of each process (process_cplane_frame) writes the  *)
(* flow mappings, which the tx lcores read for every packet (get_dst_qid). *)
(*                                                                         *)
(* A flow is its transport port, 0 stands for all_flows_to_cache.  A cache *)
(* link is an endpoint <<ToR, cache id>>.  ToR ids are rack numbers.       *)
(* External: the optical switch, the network and the VMs.                  *)
(***************************************************************************)
EXTENDS TorConfig, FiniteSets

CONSTANTS Tors,          \* the racks with a ToR
          Processes, Process,   \* Process[t]: the program that emulates ToR t
          LinkLists,     \* link_list of the controller: one or two lists
          Ports,         \* ports the VMs send to
          CacheRingSize, \* RING_SIZE
          Garbage,       \* sets of mappings that malloc may leave non-zero
          ByHand         \* messages sent with single_send_cp_message.py

ADD_FLOW == 0
REMOVE_FLOW == 1
CLEAR_CACHE == 2

Bytes       == 0 .. 255
PortNumbers == {n \in Nat : n < 65536}

Links     == UNION {Range(LinkLists[k]) : k \in DOMAIN LinkLists}
Endpoints == Tors \X CacheIds
LinkType  == [src : Tors, cache : CacheIds, dst : Tors, port : PortNumbers]
Message(action, tor, cache, rack, port) ==
    [action |-> action, tor |-> tor, cache |-> cache, rack |-> rack, port |-> port]

(* The two ends of a link, joined by a duplex circuit. *)
Circuit(link) == {<<link.src, link.cache>>, <<link.dst, link.cache>>}

(* The circuits of a list are disjoint: a port is in one of them.          *)
ASSUME PlaneAssumption ==
    /\ Tors \subseteq 0 .. NumRacks - 1 /\ Process \in [Tors -> Processes]
    /\ LinkLists \in Seq(Seq(LinkType) \ {<<>>}) \ {<<>>}
    /\ \A l \in Links : l.src # l.dst
    /\ \A k \in DOMAIN LinkLists : \A l, m \in Range(LinkLists[k]) :
            Circuit(l) = Circuit(m) \/ Circuit(l) \cap Circuit(m) = {}
    /\ ByHand \subseteq [action : Bytes, tor : Bytes, cache : Bytes, rack : Bytes, port : PortNumbers]
    /\ \A m \in ByHand : m.action # ADD_FLOW
    /\ CacheRingSize \in Nat

VARIABLES
    cacheFirst, tor,          \* the field cache came first; what the fields left
    dirty,                    \* mappings that malloc left non-zero
    simple,                   \* ctr_type is "simple", not "only_ocs"
    pc, list, next,           \* the controller: step, list, link
    transaction, circuits,    \* pending_transaction; the switch
    inbox,                    \* frames in the sync port of each process
    flows,                    \* flow_mapping, per endpoint and rack
    waiting,                  \* cache rings, per endpoint: destinations
    crashed,                  \* processes that followed a null mapping
    missed,                   \* lost a frame of this list, or was told by hand
    byHand,                   \* bound: one message by hand
    hurried,                  \* history: a list overtook frames of the one before
    live                      \* flows added since the last commit

config     == <<cacheFirst, tor, dirty, simple>>
controller == <<pc, list, next, transaction, circuits, byHand, hurried>>
plane      == <<flows, crashed, missed, live>>
vars       == <<config, controller, inbox, plane, waiting>>

Racks == 0 .. tor.racks - 1

-----------------------------------------------------------------------------
(* extract_caches leaves every mapping as malloc gave it; in one with      *)
(* garbage all_flows_to_cache is set, as any value but 0 sets it.          *)
Init ==
    /\ \E order \in KeyOrders :
            tor = Configured(order) /\ cacheFirst = (order[1] = "cache")
    /\ dirty \in Garbage
    /\ simple \in BOOLEAN
    /\ pc = IF simple THEN "clear" ELSE "circuits"
    /\ list = 1 /\ next = 1
    /\ transaction = {} /\ circuits = {}
    /\ inbox = [p \in Processes |-> <<>>]
    /\ flows = [e \in Endpoints |-> [d \in Racks |-> IF <<e, d>> \in dirty THEN {0} ELSE {}]]
    /\ waiting = [e \in Endpoints |-> <<>>]
    /\ crashed = {} /\ missed = {} /\ byHand = FALSE /\ hurried = FALSE /\ live = {}

-----------------------------------------------------------------------------
(* The controller, reconfigure_links. *)

Current == LinkLists[list]

(* The messages reach every process: they are Ethernet broadcasts. *)
Broadcast(m) == inbox' = [p \in Processes |-> Append(inbox[p], m)]

(* The next link of the list, or the first one of the step after.          *)
Advance(after) ==
    IF next < Len(Current) THEN next' = next + 1 /\ UNCHANGED pc
    ELSE next' = 1 /\ pc' = after

ResetCacheConfig ==
    /\ pc = "clear"
    /\ Broadcast(Message(CLEAR_CACHE, Current[next].src, 0, 0, 0))
    /\ Advance("circuits")
    /\ UNCHANGED <<config, list, transaction, circuits, byHand, hurried, plane, waiting>>

(* set_duplex_link_between_tors: a port is used once in a transaction.     *)
SetDuplexLink ==
    LET c == Circuit(Current[next])
    IN  /\ pc = "circuits"
        /\ transaction' = IF c \cap UNION transaction = {} THEN transaction \cup {c}
                          ELSE transaction
        /\ Advance("commit")
        /\ UNCHANGED <<config, list, circuits, byHand, hurried, inbox, plane, waiting>>

(* The switch drops the circuits whose ports the new ones take.            *)
Commit ==
    /\ pc = "commit"
    /\ circuits' = {c \in circuits : c \cap UNION transaction = {}} \cup transaction
    /\ transaction' = {}
    /\ live' = {}
    /\ pc' = IF simple THEN "add" ELSE "idle"
    /\ UNCHANGED <<config, list, next, byHand, hurried, inbox, flows, crashed, missed,
                   waiting>>

(* Fault: the exception is caught, and the flows are added all the same.   *)
CommitFailsUnnoticed ==
    /\ pc = "commit"
    /\ pc' = IF simple THEN "add" ELSE "idle"
    /\ UNCHANGED <<config, list, next, transaction, circuits, byHand, hurried, inbox, plane, waiting>>

(* edit_config raises: the controller ends here. *)
CommitFails ==
    /\ pc = "commit"
    /\ pc' = "failed"
    /\ UNCHANGED <<config, list, next, transaction, circuits, byHand, hurried, inbox, plane, waiting>>

(* Fault: the old flows are cleared once the new one is in. *)
AddThenClear ==
    LET l == Current[next]
        both == <<Message(ADD_FLOW, l.src, l.cache, l.dst, l.port),
                  Message(CLEAR_CACHE, l.src, 0, 0, 0)>>
    IN  /\ pc = "add"
        /\ inbox' = [p \in Processes |-> inbox[p] \o both]
        /\ Advance("idle")
        /\ UNCHANGED <<config, list, transaction, circuits, byHand, hurried, plane, waiting>>

SetCacheConfig ==
    LET l == Current[next]
    IN  /\ pc = "add"
        /\ Broadcast(Message(ADD_FLOW, l.src, l.cache, l.dst, l.port))
        /\ Advance("idle")
        /\ UNCHANGED <<config, list, transaction, circuits, byHand, hurried, plane, waiting>>

(* The sleep is over and there is a second list.  Nothing tells the        *)
(* controller whether the frames of the first one are through.             *)
NextList ==
    /\ pc = "idle"
    /\ list < Len(LinkLists)
    /\ list' = list + 1
    /\ pc' = IF simple THEN "clear" ELSE "circuits"
    /\ missed' = {}
    /\ hurried' = (hurried \/ \E p \in Processes \ crashed : inbox[p] # <<>>)
    /\ UNCHANGED <<config, next, transaction, circuits, byHand, inbox, flows, crashed, live, waiting>>

(* Single frames sent by hand, also such that nobody can use.              *)
SendByHand ==
    /\ ~byHand
    /\ byHand' = TRUE
    /\ \E m \in ByHand : Broadcast(m)
    /\ missed' = Processes
    /\ UNCHANGED <<config, pc, list, next, transaction, circuits, hurried, flows, crashed, live, waiting>>

-----------------------------------------------------------------------------
(* The sync lcore of process p: process_cplane_frame. *)

(* Fault: ids that are too high by one get through. *)
MeansLoosely(p, m) ==
    /\ m.tor \in Tors /\ Process[m.tor] = p
    /\ m.cache < NumCaches
    /\ m.rack <= tor.racks

(* The frame names a ToR of p, one of its caches and one of its racks.     *)
Means(p, m) ==
    /\ m.tor \in Tors /\ Process[m.tor] = p
    /\ m.cache \in CacheIds
    /\ m.rack \in Racks

(* Fault: the sum is not cut to 16 bits. *)
SignedPort(port) ==
    (IF port % 256 >= 128 THEN port - 256 ELSE port)
        - (IF port >= 32768 THEN 65536 ELSE 0)

(* The port is put together from two signed characters: a low byte above   *)
(* 127 counts as negative.                                                 *)
DecodedPort(port) ==
    IF port % 256 >= 128 THEN (port - 256) % 65536 ELSE port

After(m, set) ==
    CASE m.action = ADD_FLOW    -> set \cup {DecodedPort(m.port)}
      [] m.action = REMOVE_FLOW -> set \ {DecodedPort(m.port)}
      [] m.action = CLEAR_CACHE -> {}
      [] OTHER                  -> set

Null(c, d) == d \notin tor.mappings[c]

ProcessCplaneFrame(p, m) ==
    IF ~Means(p, m) THEN UNCHANGED <<flows, crashed, live>>
    ELSE IF Null(m.cache, m.rack) /\ m.action <= CLEAR_CACHE
    THEN crashed' = crashed \cup {p} /\ UNCHANGED <<flows, live>>
    ELSE /\ flows' = [flows EXCEPT ![<<m.tor, m.cache>>][m.rack] = After(m, @)]
         /\ live' = live \cup {<<m.tor, m.cache, m.rack>> : a \in {m.action} \cap {ADD_FLOW}}
         /\ UNCHANGED crashed

(* sync_thread takes a burst of n frames, serves the first and forgets the *)
(* rest; when the first is a sync frame or not UDP, nothing is served.     *)
SyncThread(p) ==
    /\ p \notin crashed
    /\ \E n \in 1 .. Len(inbox[p]), served \in BOOLEAN :
        /\ inbox' = [inbox EXCEPT ![p] = SubSeq(@, n + 1, Len(@))]
        /\ IF served THEN ProcessCplaneFrame(p, Head(inbox[p]))
           ELSE UNCHANGED <<flows, crashed, live>>
        /\ missed' = IF served /\ n = 1 THEN missed ELSE missed \cup {p}
    /\ UNCHANGED <<config, controller, waiting>>

-----------------------------------------------------------------------------
(* Packets of the VMs. *)

(* Fault: the mapping of any rack counts. *)
TakesForAnyRack(t, c, d, port) == \E r \in Racks : flows[<<t, c>>][r] \cap {0, port} # {}

Takes(t, c, d, port) == flows[<<t, c>>][d] \cap {0, port} # {}

(* get_dst_qid: the first cache that takes the flow; NumCaches stands for  *)
(* the VOQ of the rack.  A null mapping is followed on the way.            *)
CacheOf(t, d, port) ==
    LET taken == {c \in CacheIds : Null(c, d) \/ Takes(t, c, d, port)}
    IN  IF taken = {} THEN NumCaches ELSE CHOOSE c \in taken : \A b \in taken : c <= b

Alive(t) == Process[t] \notin crashed

VmSends(t, d, port) ==
    LET c == CacheOf(t, d, port)
    IN  /\ Alive(t)
        /\ c \in CacheIds
        /\ IF Null(c, d)
           THEN crashed' = crashed \cup {Process[t]} /\ UNCHANGED waiting
           ELSE /\ Len(waiting[<<t, c>>]) < CacheRingSize
                /\ waiting' = [waiting EXCEPT ![<<t, c>>] = Append(@, d)]
                /\ UNCHANGED crashed
        /\ UNCHANGED <<config, controller, inbox, flows, missed, live>>

(* egress_stage2 sends a burst, whatever circuit there is.                 *)
SendOnCache(e) ==
    /\ Alive(e[1])
    /\ \E n \in 1 .. Len(waiting[e]) :
        waiting' = [waiting EXCEPT ![e] = SubSeq(@, n + 1, Len(@))]
    /\ UNCHANGED <<config, controller, inbox, plane>>

-----------------------------------------------------------------------------
Controller ==
    ResetCacheConfig \/ SetDuplexLink \/ Commit \/ CommitFails \/ SetCacheConfig \/ NextList

Next ==
    \/ Controller
    \/ SendByHand
    \/ \E p \in Processes : SyncThread(p)
    \/ \E t \in Tors, d \in Racks, port \in Ports : VmSends(t, d, port)
    \/ \E e \in Endpoints : SendOnCache(e)

Spec == Init /\ [][Next]_vars

-----------------------------------------------------------------------------
Messages == [action : Bytes, tor : Nat, cache : Nat, rack : Nat, port : PortNumbers]

ControllerOK ==
    /\ pc \in {"clear", "circuits", "commit", "add", "idle", "failed"}
    /\ list \in DOMAIN LinkLists /\ next \in 1 .. Len(Current)
    /\ transaction \subseteq {Circuit(l) : l \in Links} /\ hurried \in BOOLEAN
    /\ circuits \subseteq {Circuit(l) : l \in Links}

PlaneOK ==
    /\ flows \in [Endpoints -> [Racks -> SUBSET PortNumbers]]
    /\ crashed \subseteq Processes /\ missed \subseteq Processes
    /\ live \subseteq Tors \X CacheIds \X Racks

(* Ports stay ports when they are decoded, and the names in a frame are    *)
(* checked before a mapping is touched.                                    *)
TypeOK ==
    /\ ControllerOK
    /\ inbox \in [Processes -> Seq(Messages)]
    /\ PlaneOK
    /\ waiting \in [Endpoints -> Seq(Racks)]
    /\ \A e \in Endpoints : Len(waiting[e]) <= CacheRingSize

(* A flow added since the last commit lies on a circuit that reaches its   *)
(* rack, whatever messages were lost: the circuits come first.  It takes a *)
(* sleep (scheduled_change.py:37) that outlasts the frames of the list     *)
(* before: those overtaken by the second list are added all the same.      *)
AddedOnCircuit ==
    ~hurried => \A a \in live : {<<a[1], a[2]>>, <<a[3], a[2]>>} \in circuits

(* Once the controller is done with a list and no frame is left, a ToR     *)
(* that missed none has all its links of the list: the frames that clear   *)
(* do not undo the ones that add, even when frames of the list before were *)
(* still on their way.  Ports with a low byte above 127 are left out: they *)
(* are installed as another port.                                          *)
LastListInstalled ==
    pc = "idle" /\ simple =>
        \A l \in Range(Current) :
            LET p == Process[l.src]
            IN  p \notin crashed \cup missed /\ inbox[p] = <<>> /\ l.port % 256 < 128
                    => l.port \in flows[<<l.src, l.cache>>][l.dst]

(* With the first list a packet in a cache ring has a circuit to its rack, *)
(* unless malloc left garbage in the very mapping that sent it there: the  *)
(* garbage of one mapping spoils no other cache link and no other rack.    *)
PacketsReachRack ==
    list = 1 =>
        \A e \in Endpoints : \A i \in DOMAIN waiting[e] :
            <<e, waiting[e][i]>> \notin dirty => {e, <<waiting[e][i], e[2]>>} \in circuits

(* When the file names the racks, or the rotors, before the cache links,   *)
(* no frame and no packet follows a null mapping.                          *)
NoNullMapping ==
    ~cacheFirst => crashed = {}

=============================================================================
