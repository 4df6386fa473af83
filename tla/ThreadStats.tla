---------------------------- MODULE ThreadStats ----------------------------
(***************************************************************************)
(* The cycle statistics of one link of a ToR (end-host/docker/app/main.c): *)
(* tx2 adds up loops in collect_cycle_sample and, after enough of them,    *)
(* puts the sums into pairs of circular buffers; once a second the print   *)
(* thread drains them in print_thread_stats.  Nothing synchronises the     *)
(* two, and ringbuffer.c has no atomics.                                   *)
(*                                                                         *)
(* Pair 1 is (cycles, num) of the link, pair 2 one of its jump locations,  *)
(* (locations, cycle_locations); a ring is <<pair, 1>> or <<pair, 2>> in   *)
(* the order of the puts.  A step is one access to head, tail, full or a   *)
(* cell.  Sums are not modelled: a value is named by the flush that put    *)
(* it, and 0 is a calloc'ed cell.                                          *)
(***************************************************************************)
EXTENDS Integers, Sequences

CONSTANTS Max,            \* RING_SIZE_STATS: cells of a ring
          NumTempSamples, \* NUM_TEMP_CYCLE_SAMPLES: loops before a flush
          MaxFlushes      \* bound of the model

ASSUME StatsAssumption ==
    Max \in Nat \ {0} /\ NumTempSamples \in Nat /\ MaxFlushes \in Nat

Pairs == {1, 2}
Rings == Pairs \X {1, 2}
Cells == 0 .. Max - 1

VARIABLES
    cells, head, tail, full,                  \* circular_buf_t, per ring
    wpc, wring, temp, flushed,                \* collect_cycle_sample
    rpc, pair, turn, todo, value, added,      \* print_thread_stats
    overlap,   \* pairs written to while the current report reads them
    lapsed,    \* pairs whose report before this one was overlapped
    ever,      \* pairs of which some report was overlapped
    seen       \* flushes complete at the end of the report before, per pair

ring    == <<cells, head, tail, full>>
writer  == <<wpc, wring, temp, flushed>>
reader  == <<rpc, pair, turn, todo, value, added>>
history == <<overlap, lapsed, ever, seen>>
vars    == <<ring, writer, reader, history>>

Numbers == 0 .. MaxFlushes
Nothing == <<0, 0>>
Samples == {<<r, k>> : r \in Rings \cup {Nothing}, k \in Numbers}

TypeOK ==
    /\ cells \in [Rings -> [Cells -> Numbers]]
    /\ head \in [Rings -> Cells]
    /\ tail \in [Rings -> Cells]
    /\ full \in [Rings -> BOOLEAN]
    /\ wpc \in {"loop", "store", "tail", "head", "full"}
    /\ wring \in Rings
    /\ temp \in 0 .. NumTempSamples + 1
    /\ flushed \in Numbers
    /\ rpc \in {"sleep", "size", "get", "full", "tail", "end"}
    /\ pair \in Pairs
    /\ turn \in {1, 2}
    /\ todo \in 0 .. Max
    /\ value \in Samples
    /\ \A i \in {1, 2} : Len(added[i]) <= Max /\ added[i] \in Seq(Samples)
    /\ overlap \subseteq Pairs /\ lapsed \subseteq Pairs /\ ever \subseteq Pairs
    /\ seen \in [Pairs -> Numbers]

(* init_thread_statistics_queues; value is a local without initialiser.    *)
Init ==
    /\ cells = [r \in Rings |-> [c \in Cells |-> 0]]
    /\ head = [r \in Rings |-> 0]
    /\ tail = [r \in Rings |-> 0]
    /\ full = [r \in Rings |-> FALSE]
    /\ wpc = "loop" /\ wring = <<1, 1>> /\ temp = 0 /\ flushed = 0
    /\ rpc = "sleep" /\ pair = 1 /\ turn = 1 /\ todo = 0
    /\ value = <<Nothing, 0>> /\ added = <<<<>>, <<>>>>
    /\ overlap = {} /\ lapsed = {} /\ ever = {}
    /\ seen = [p \in Pairs |-> 0]

(* Fault: the index leaves the cells. *)
SuccessorUnwrapped(c) == c + 1

Successor(c) == (c + 1) % Max

-----------------------------------------------------------------------------
(* tx2.  A flush puts its two sums and then, for each location, two more.  *)

WriterAt(pc) == wpc = pc

(* The writer touches the rings of a pair under the eyes of the reader.    *)
Touch ==
    LET hit == IF rpc # "sleep" /\ pair = wring[1] THEN {pair} ELSE {}
    IN  overlap' = overlap \cup hit /\ ever' = ever \cup hit /\ UNCHANGED <<lapsed, seen>>

Collect ==
    /\ WriterAt("loop")
    /\ temp' = temp + 1
    /\ IF temp + 1 > NumTempSamples
       THEN /\ flushed < MaxFlushes
            /\ flushed' = flushed + 1 /\ wring' = <<1, 1>> /\ wpc' = "store"
       ELSE UNCHANGED <<flushed, wring, wpc>>
    /\ UNCHANGED <<ring, reader, history>>

StoreCell ==
    /\ WriterAt("store")
    /\ cells' = [cells EXCEPT ![wring][head[wring]] = flushed]
    /\ wpc' = "tail"
    /\ Touch
    /\ UNCHANGED <<head, tail, full, wring, temp, flushed, reader>>

(* Fault: a full ring keeps its oldest value.  *)
KeepOldest ==
    /\ WriterAt("tail")
    /\ wpc' = "head"
    /\ Touch
    /\ UNCHANGED <<ring, wring, temp, flushed, reader>>

(* advance_pointer gives up the oldest value of a full ring ... *)
GiveUpOldest ==
    /\ WriterAt("tail")
    /\ tail' = [tail EXCEPT ![wring] = IF full[wring] THEN Successor(@) ELSE @]
    /\ wpc' = "head"
    /\ Touch
    /\ UNCHANGED <<cells, head, full, wring, temp, flushed, reader>>

(* ... moves head ... *)
AdvanceHead ==
    /\ WriterAt("head")
    /\ head' = [head EXCEPT ![wring] = Successor(@)]
    /\ wpc' = "full"
    /\ Touch
    /\ UNCHANGED <<cells, tail, full, wring, temp, flushed, reader>>

(* The next put of the flush; the sums start again after the first pair.   *)
NextPut ==
    \/ wring[2] = 1 /\ wring' = <<wring[1], 2>> /\ wpc' = "store" /\ UNCHANGED temp
    \/ wring = <<1, 2>> /\ wring' = <<2, 1>> /\ wpc' = "store" /\ temp' = 0
    \/ wring = <<2, 2>> /\ wring' = <<1, 1>> /\ wpc' = "loop" /\ UNCHANGED temp

(* ... and compares the two only now. *)
MarkFull ==
    /\ WriterAt("full")
    /\ full' = [full EXCEPT ![wring] = head[wring] = tail[wring]]
    /\ NextPut
    /\ Touch
    /\ UNCHANGED <<cells, head, tail, flushed, reader>>

-----------------------------------------------------------------------------
(* The print thread.  The size of the first ring of a pair says how many   *)
(* values it takes out of both.                                            *)

(* Of a pair of locations the ring put last is read first (190-205).       *)
RingOf(p, n) == IF p = 2 THEN <<p, 3 - n>> ELSE <<p, n>>

(* Fault: the size of a ring that has wrapped is taken for its distance.   *)
SizeUnwrapped(r) ==
    IF full[r] THEN Max
    ELSE IF head[r] >= tail[r] THEN head[r] - tail[r] ELSE tail[r] - head[r] - 1

(* circular_buf_size *)
SizeOf(r) ==
    IF full[r] THEN Max
    ELSE IF head[r] >= tail[r] THEN head[r] - tail[r] ELSE Max + head[r] - tail[r]

Empty(r) == ~full[r] /\ head[r] = tail[r]

(* The writer is between the first and the last access of its two puts.    *)
MidPut(p) == wring[1] = p /\ (WriterAt("store") => wring[2] = 2) /\ ~WriterAt("loop")

WakeUp ==
    /\ rpc = "sleep"
    /\ rpc' = "size" /\ pair' = 1 /\ value' = <<Nothing, 0>>
    /\ overlap' = {}
    /\ UNCHANGED <<ring, writer, turn, todo, added, lapsed, ever, seen>>

ReadSize ==
    /\ rpc = "size"
    /\ todo' = SizeOf(<<pair, 1>>)
    /\ added' = <<<<>>, <<>>>>
    /\ turn' = 1
    /\ rpc' = IF todo' = 0 THEN "end" ELSE "get"
    /\ LET hit == IF MidPut(pair) THEN {pair} ELSE {}
       IN  overlap' = overlap \cup hit /\ ever' = ever \cup hit
    /\ UNCHANGED <<ring, writer, pair, value, lapsed, seen>>

(* The sum gets what the variable value holds now, whoever has set it.     *)
Add(v) ==
    /\ added' = [added EXCEPT ![turn] = Append(@, v)]
    /\ turn' = 3 - turn
    /\ todo' = IF turn = 2 THEN todo - 1 ELSE todo
    /\ rpc' = IF todo' = 0 THEN "end" ELSE "get"

GetNone ==
    /\ rpc = "get"
    /\ Empty(RingOf(pair, turn))
    /\ Add(value)
    /\ UNCHANGED <<ring, writer, pair, value, history>>

GetCell ==
    LET r == RingOf(pair, turn)
    IN  /\ rpc = "get"
        /\ ~Empty(r)
        /\ value' = <<r, cells[r][tail[r]]>>
        /\ rpc' = "full"
        /\ UNCHANGED <<ring, writer, pair, turn, todo, added, history>>

(* retreat_pointer *)
ClearFull ==
    /\ rpc = "full"
    /\ full' = [full EXCEPT ![RingOf(pair, turn)] = FALSE]
    /\ rpc' = "tail"
    /\ UNCHANGED <<cells, head, tail, writer, pair, turn, todo, value, added, history>>

RetreatTail ==
    /\ rpc = "tail"
    /\ tail' = [tail EXCEPT ![RingOf(pair, turn)] = Successor(@)]
    /\ Add(value)
    /\ UNCHANGED <<cells, head, full, writer, pair, value, history>>

(* Flushes whose values for pair p are all in the rings.                   *)
Flushed(p) == IF ~WriterAt("loop") /\ wring[1] <= p THEN flushed - 1 ELSE flushed

EndPair ==
    /\ rpc = "end"
    /\ rpc' = IF pair = 1 THEN "size" ELSE "sleep"
    /\ pair' = 3 - pair
    /\ lapsed' = (lapsed \ {pair}) \cup (overlap \cap {pair})
    /\ seen' = [seen EXCEPT ![pair] = Flushed(pair)]
    /\ added' = <<<<>>, <<>>>> /\ turn' = 1
    /\ UNCHANGED <<ring, writer, todo, value, overlap, ever>>

-----------------------------------------------------------------------------
WriterStep == Collect \/ StoreCell \/ GiveUpOldest \/ AdvanceHead \/ MarkFull
ReaderStep ==
    WakeUp \/ ReadSize \/ GetNone \/ GetCell \/ ClearFull \/ RetreatTail \/ EndPair

Next == WriterStep \/ ReaderStep

Spec == Init /\ [][Next]_vars

-----------------------------------------------------------------------------
(* What get n of every round of a report of pair p has to return: the      *)
(* flushes since the report before, without those a full ring gave up.     *)
Due(p, n) ==
    LET new   == Flushed(p) - seen[p]
        count == IF new < Max THEN new ELSE Max
    IN  [i \in 1 .. count |-> <<RingOf(p, n), Flushed(p) - count + i>>]

Exact(n) == added[n] = Due(pair, n)

(* "Prints number of cycles per link and in total since the last call"     *)
(* (main.c:148): as long as no report ever overlapped a flush of the pair, *)
(* both sums are over exactly the flushes since the last report, every     *)
(* cycle count beside the count it belongs to.                             *)
ReportExact == rpc = "end" /\ pair \notin ever => Exact(1) /\ Exact(2)

(* Whatever races did before, one undisturbed report mends the ring that   *)
(* gives the size: the report after it is exact again for that ring.       *)
SizedRingRecovers ==
    rpc = "end" /\ pair \notin overlap \cup lapsed
        => Exact(IF pair = 1 THEN 1 ELSE 2)

=============================================================================
