-------------------------- MODULE ThreadStatsProofs --------------------------
(***************************************************************************)
(* What the print thread reports, for every size of the rings, every       *)
(* number of loops between two flushes and every number of flushes.        *)
(*                                                                         *)
(* Neither property is inductive.  HeadIsPuts and CellsHold say what the   *)
(* writer alone makes of a ring.  Good says what a ring holds while no     *)
(* race has touched it, and Draining how a report that no flush overlaps   *)
(* empties a ring whatever state a race has left it in.                    *)
(***************************************************************************)
EXTENDS ThreadStats, TLAPS

(***************************************************************************)
(* The types, and how far a report is.                                     *)
(***************************************************************************)
Reporting(p) == pair = p /\ rpc \in {"get", "full", "tail", "end"}

AddedOK ==
    /\ added \in [{1, 2} -> Seq(Samples)]
    /\ Len(added[1]) = Len(added[2]) + (turn - 1)
    /\ Len(added[2]) + todo <= Max
    /\ rpc \in {"sleep", "size"} => Len(added[2]) = 0 /\ turn = 1 /\ todo = 0
    /\ rpc \in {"get", "full", "tail"} => todo > 0
    /\ rpc = "end" => todo = 0 /\ turn = 1

PcsOK ==
    /\ wpc = "loop" => wring = <<1, 1>>
    /\ wpc # "loop" => flushed > 0
    /\ wpc = "loop" \/ wring[1] = 2 => temp <= NumTempSamples
    /\ rpc = "sleep" => pair = 1

TypeInv == TypeOK /\ AddedOK /\ PcsOK

(***************************************************************************)
(* The writer.                                                             *)
(***************************************************************************)
At(k) == k % Max

(* The place of a ring in the order of the puts.                           *)
Order(r) == 2 * r[1] + r[2]

(* Puts into r whose head has moved, and those whose cell is written.      *)
Puts(r) ==
    IF wpc = "loop" \/ Order(r) < Order(wring) \/ (r = wring /\ wpc = "full") THEN flushed
    ELSE flushed - 1

Stored(r) == IF r = wring /\ wpc \in {"tail", "head"} THEN flushed ELSE Puts(r)

HeadIsPuts == \A r \in Rings : head[r] = At(Puts(r))

CellsHold ==
    \A r \in Rings : \A k \in 1 .. Stored(r) :
        k > Stored(r) - Max => cells[r][At(k - 1)] = k

WriterInv == HeadIsPuts /\ CellsHold

(***************************************************************************)
(* The reports.                                                            *)
(***************************************************************************)
(* A report that no flush has overlapped sees no put half done.            *)
Undisturbed ==
    /\ \A p \in Pairs : Reporting(p) /\ p \notin overlap => ~MidPut(p)
    /\ overlap \subseteq ever /\ lapsed \subseteq ever
    /\ \A p \in Pairs : seen[p] <= Flushed(p)

(* The ring that gives the size is RingOf(p, SizedTurn(p)), and so many    *)
(* gets of it are left.                                                    *)
SizedTurn(p) == IF p = 1 THEN 1 ELSE 2
GetsLeft(p) == IF p = 1 /\ turn = 2 THEN todo - 1 ELSE todo

Distance(h, t) == IF h >= t THEN h - t ELSE Max + h - t

DrainingOf(p) ==
    LET r == <<p, 1>>
        now == turn = SizedTurn(p)
    IN  IF now /\ rpc = "tail"
        THEN ~full[r] /\ Distance(head[r], Successor(tail[r])) <= GetsLeft(p) - 1
        ELSE /\ full[r] => GetsLeft(p) = Max
             /\ ~full[r] => Distance(head[r], tail[r]) <= GetsLeft(p)
             /\ now /\ rpc = "full" => ~Empty(r)

Draining == \A p \in Pairs : Reporting(p) /\ p \notin overlap => DrainingOf(p)

(***************************************************************************)
(* A ring that no race has touched.                                        *)
(***************************************************************************)
Lesser(a, b) == IF a < b THEN a ELSE b

(* The turn in which r is read.                                            *)
TurnOf(r) == IF r[1] = 2 THEN 3 - r[2] ELSE r[2]

Count(p) == Lesser(Flushed(p) - seen[p], Max)
Taken(r) == IF Reporting(r[1]) THEN Len(added[TurnOf(r)]) ELSE 0
Kept(r)  == Lesser(Puts(r) - seen[r[1]], Max) - Taken(r)

Reading(r, at) == Reporting(r[1]) /\ turn = TurnOf(r) /\ rpc = at

IndicesGood(r) ==
    LET n == IF r = wring /\ wpc = "head" /\ Kept(r) = Max THEN Max - 1 ELSE Kept(r)
    IN  /\ Kept(r) >= 0
        /\ tail[r] = At(Puts(r) - n)
        /\ ~(r = wring /\ wpc = "full") => full[r] = (Kept(r) = Max /\ ~Reading(r, "tail"))

ReportGood(r) ==
    Reporting(r[1]) =>
        /\ Len(added[TurnOf(r)]) <= Count(r[1])
        /\ \A i \in 1 .. Len(added[TurnOf(r)]) :
                added[TurnOf(r)][i] = <<r, Flushed(r[1]) - Count(r[1]) + i>>
        /\ Reading(r, "full") \/ Reading(r, "tail")
                => value = <<r, Puts(r) - Kept(r) + 1>>
        /\ r[2] = 1 => todo = Count(r[1]) - Len(added[2])

Good(r) == IndicesGood(r) /\ ReportGood(r)

(* Both rings of a pair of which no report was overlapped, and the one     *)
(* that gives the size when neither this report nor the last one was.      *)
Sound(r) ==
    \/ r[1] \notin ever
    \/ r[2] = 1 /\ r[1] \notin lapsed /\ (Reporting(r[1]) => r[1] \notin overlap)

SoundIsGood == \A r \in Rings : Sound(r) => Good(r)

Inv == TypeInv /\ WriterInv /\ Undisturbed /\ Draining /\ SoundIsGood

-----------------------------------------------------------------------------
(***************************************************************************)
(* Remainders.                                                             *)
(***************************************************************************)
LEMMA Divided ==
  ASSUME NEW k \in Nat
  PROVE  /\ k \div Max \in Nat /\ At(k) \in 0 .. Max - 1
         /\ k = Max * (k \div Max) + At(k)
<1> USE StatsAssumption DEF StatsAssumption, At
<1>1. k \div Max \in Nat /\ k % Max \in 0 .. Max - 1
  OBVIOUS
<1>2. k = Max * (k \div Max) + (k % Max)
  BY Z3
<1> QED
  BY <1>1, <1>2

LEMMA Remainder ==
  ASSUME NEW q \in Nat, NEW c \in 0 .. Max - 1
  PROVE  At(Max * q + c) = c
BY StatsAssumption DEF StatsAssumption, At

(* Up to one lap further on. *)
LEMMA AtPlus ==
  ASSUME NEW k \in Nat, NEW n \in 0 .. Max
  PROVE  At(k + n) = IF At(k) + n < Max THEN At(k) + n ELSE At(k) + n - Max
<1> USE StatsAssumption DEF StatsAssumption
<1> DEFINE q == k \div Max
           c == At(k)
<1>1. q \in Nat /\ c \in 0 .. Max - 1 /\ k = Max * q + c
  BY Divided
<1> HIDE DEF q, c
<1>2. CASE c + n < Max
  <2>1. k + n = Max * q + (c + n) /\ c + n \in 0 .. Max - 1
    BY <1>1, <1>2
  <2> QED
    BY <1>1, <1>2, <2>1, Remainder DEF c
<1>3. CASE ~(c + n < Max)
  <2>1. k + n = Max * (q + 1) + (c + n - Max) /\ c + n - Max \in 0 .. Max - 1 /\ q + 1 \in Nat
    BY <1>1, <1>3
  <2> QED
    BY <1>3, <2>1, Remainder DEF c
<1> QED
  BY <1>2, <1>3

LEMMA AtCell == ASSUME NEW k \in Nat PROVE At(k) \in Cells
BY Divided DEF Cells

LEMMA SuccessorIs ==
  ASSUME NEW c \in Cells
  PROVE  /\ Successor(c) = IF c + 1 < Max THEN c + 1 ELSE 0
         /\ Successor(c) \in Cells
<1> USE StatsAssumption DEF StatsAssumption, Cells
<1>1. CASE c + 1 < Max
  <2>1. At(Max * 0 + (c + 1)) = c + 1
    BY <1>1, Remainder
  <2> QED
    BY <1>1, <2>1 DEF Successor, At
<1>2. CASE ~(c + 1 < Max)
  <2>1. c + 1 = Max * 1 + 0 /\ At(Max * 1 + 0) = 0
    BY <1>2, Remainder
  <2> QED
    BY <1>2, <2>1 DEF Successor, At
<1> QED
  BY <1>1, <1>2

LEMMA SuccessorAt ==
  ASSUME NEW k \in Nat
  PROVE  Successor(At(k)) = At(k + 1)
<1> USE StatsAssumption DEF StatsAssumption
<1>1. At(k) \in Cells /\ At(k) \in 0 .. Max - 1
  BY AtCell, Divided
<1>2. At(k + 1) = IF At(k) + 1 < Max THEN At(k) + 1 ELSE At(k) + 1 - Max
  BY AtPlus
<1> QED
  BY <1>1, <1>2, SuccessorIs

(* Cells less than a lap apart are different, and a lap apart the same.    *)
LEMMA AtDistance ==
  ASSUME NEW k \in Nat, NEW n \in 0 .. Max
  PROVE  /\ n = Max => At(k + n) = At(k)
         /\ n < Max => Distance(At(k + n), At(k)) = n
         /\ n > 0 /\ n < Max => At(k + n) # At(k)
<1> USE StatsAssumption DEF StatsAssumption
<1>1. At(k) \in 0 .. Max - 1
  BY Divided
<1>2. At(k + n) = IF At(k) + n < Max THEN At(k) + n ELSE At(k) + n - Max
  BY AtPlus
<1> QED
  BY <1>1, <1>2 DEF Distance

-----------------------------------------------------------------------------
(***************************************************************************)
(* Type correctness.                                                       *)
(***************************************************************************)
LEMMA RingFacts ==
  /\ \A r \in Rings : r = <<r[1], r[2]>> /\ r[1] \in Pairs /\ r[2] \in {1, 2}
  /\ \A p \in Pairs, n \in {1, 2} : <<p, n>> \in Rings
  /\ \A p \in Pairs, n \in {1, 2} : RingOf(p, n) \in Rings /\ RingOf(p, n)[1] = p
  /\ \A p \in Pairs, n \in {1, 2}, r \in Rings :
        RingOf(p, n) = r <=> r[1] = p /\ TurnOf(r) = n
  /\ \A r \in Rings : TurnOf(r) \in {1, 2}
BY DEF Rings, Pairs, RingOf, TurnOf

LEMMA SampleFacts ==
  /\ \A r \in Rings, k \in Numbers : <<r, k>> \in Samples
  /\ <<Nothing, 0>> \in Samples
BY StatsAssumption DEF Samples, Numbers, StatsAssumption

LEMMA SizeIs ==
  ASSUME TypeInv, NEW r \in Rings
  PROVE  /\ SizeOf(r) \in 0 .. Max
         /\ SizeOf(r) = IF full[r] THEN Max ELSE Distance(head[r], tail[r])
         /\ Empty(r) <=> SizeOf(r) = 0
<1>1. head[r] \in Cells /\ tail[r] \in Cells /\ full[r] \in BOOLEAN
  BY DEF TypeInv, TypeOK
<1> QED
  BY <1>1, StatsAssumption DEF StatsAssumption, SizeOf, Distance, Empty, Cells

LEMMA TwoOf == ASSUME NEW S, NEW a \in S, NEW b \in S PROVE <<a, b>> \in [{1, 2} -> S]
OBVIOUS

LEMMA NoneAdded ==
  ASSUME NEW a, a = <<<<>>, <<>>>>
  PROVE  /\ a \in [{1, 2} -> Seq(Samples)] /\ Len(a[1]) = 0 /\ Len(a[2]) = 0
         /\ \A i \in {1, 2} : Len(a[i]) <= Max /\ a[i] \in Seq(Samples)
<1>1. <<>> \in Seq(Samples) /\ Len(<<>>) = 0
  OBVIOUS
<1>2. a[1] = <<>> /\ a[2] = <<>>
  OBVIOUS
<1>3. a \in [{1, 2} -> Seq(Samples)]
  BY <1>1, TwoOf, Zenon
<1> QED
  BY <1>1, <1>2, <1>3, StatsAssumption DEF StatsAssumption

LEMMA InitTypeInv == Init => TypeInv
<1> SUFFICES ASSUME Init PROVE TypeInv
  OBVIOUS
<1> USE StatsAssumption DEF StatsAssumption, Init
<1>1. 0 \in Cells /\ 0 \in Numbers /\ <<1, 1>> \in Rings
  BY RingFacts DEF Cells, Numbers, Pairs
<1>2. /\ added \in [{1, 2} -> Seq(Samples)] /\ Len(added[1]) = 0 /\ Len(added[2]) = 0
      /\ \A i \in {1, 2} : Len(added[i]) <= Max /\ added[i] \in Seq(Samples)
  BY NoneAdded
<1>3. TypeOK
  BY <1>1, <1>2, SampleFacts DEF TypeOK, Pairs
<1> QED
  BY <1>2, <1>3 DEF TypeInv, AddedOK, PcsOK

(* What the reader sees of a step of the writer. *)
LEMMA WriterEffects ==
  ASSUME TypeInv, WriterStep
  PROVE  /\ UNCHANGED reader
         /\ lapsed' = lapsed /\ seen' = seen
         /\ overlap \subseteq overlap' /\ overlap' \subseteq Pairs
         /\ ever \subseteq ever' /\ ever' \subseteq Pairs
BY DEF WriterStep, Collect, StoreCell, GiveUpOldest, AdvanceHead, MarkFull, Touch, history,
       TypeInv, TypeOK

LEMMA WriterTypeInv == TypeInv /\ WriterStep => TypeInv'
<1> SUFFICES ASSUME TypeInv, WriterStep PROVE TypeInv'
  OBVIOUS
<1>0. /\ cells \in [Rings -> [Cells -> Numbers]]
      /\ head \in [Rings -> Cells] /\ tail \in [Rings -> Cells] /\ full \in [Rings -> BOOLEAN]
      /\ wpc \in {"loop", "store", "tail", "head", "full"} /\ wring \in Rings
      /\ temp \in 0 .. NumTempSamples + 1 /\ flushed \in Numbers
      /\ wpc = "loop" => wring = <<1, 1>>
      /\ wpc # "loop" => flushed > 0
      /\ wpc = "loop" \/ wring[1] = 2 => temp <= NumTempSamples
  BY DEF TypeInv, TypeOK, PcsOK
<1>1. <<1, 1>> \in Rings /\ <<1, 2>> \in Rings /\ <<2, 1>> \in Rings /\ <<2, 2>> \in Rings
  BY RingFacts DEF Pairs
<1>2. /\ cells' \in [Rings -> [Cells -> Numbers]]
      /\ head' \in [Rings -> Cells] /\ tail' \in [Rings -> Cells] /\ full' \in [Rings -> BOOLEAN]
      /\ wpc' \in {"loop", "store", "tail", "head", "full"} /\ wring' \in Rings
      /\ temp' \in 0 .. NumTempSamples + 1 /\ flushed' \in Numbers
      /\ wpc' = "loop" => wring' = <<1, 1>>
      /\ wpc' # "loop" => flushed' > 0
      /\ wpc' = "loop" \/ wring'[1] = 2 => temp' <= NumTempSamples
  <2>1. CASE Collect
    BY <1>0, <1>1, <2>1, StatsAssumption DEF StatsAssumption, Collect, WriterAt, ring, Numbers
  <2>2. CASE StoreCell
    BY <1>0, <2>2 DEF StoreCell, WriterAt
  <2>3. CASE GiveUpOldest
    BY <1>0, <2>3, SuccessorIs DEF GiveUpOldest, WriterAt
  <2>4. CASE AdvanceHead
    BY <1>0, <2>4, SuccessorIs DEF AdvanceHead, WriterAt
  <2>5. CASE MarkFull
    <3>1. full' \in [Rings -> BOOLEAN] /\ UNCHANGED <<cells, head, tail, flushed>> /\ NextPut /\ wpc = "full"
      BY <1>0, <2>5 DEF MarkFull, WriterAt
    <3>2. wring = <<wring[1], wring[2]>> /\ wring[1] \in Pairs
      BY <1>0, RingFacts
    <3>3. wring' \in Rings
      BY <3>1, <3>2, <1>1, RingFacts DEF NextPut
    <3>4. /\ wpc' \in {"store", "loop"} /\ (wpc' = "loop" => wring' = <<1, 1>>)
          /\ temp' \in 0 .. NumTempSamples + 1
          /\ wpc' = "loop" \/ wring'[1] = 2 => temp' <= NumTempSamples
      BY <3>1, <1>0, StatsAssumption DEF NextPut, StatsAssumption
    <3> QED
      BY <1>0, <3>1, <3>3, <3>4
  <2> QED
    BY <2>1, <2>2, <2>3, <2>4, <2>5 DEF WriterStep
<1>3. UNCHANGED <<rpc, pair, turn, todo, value, added>>
  BY WriterEffects DEF reader
<1> QED
  BY <1>2, <1>3, WriterEffects DEF TypeInv, TypeOK, AddedOK, PcsOK

(* A sample is added in a turn: what it leaves of the report.              *)
LEMMA AddKeeps ==
  ASSUME TypeInv, rpc \in {"get", "tail"}, NEW v \in Samples, Add(v)
  PROVE  /\ AddedOK' /\ rpc' \in {"get", "end"}
         /\ \A i \in {1, 2} : Len(added'[i]) <= Max /\ added'[i] \in Seq(Samples)
         /\ turn' \in {1, 2} /\ todo' \in 0 .. Max
         /\ added'[turn] = Append(added[turn], v) /\ added'[3 - turn] = added[3 - turn]
         /\ Len(added'[turn]) = Len(added[turn]) + 1
<1>1. /\ added \in [{1, 2} -> Seq(Samples)] /\ turn \in {1, 2} /\ todo \in 0 .. Max /\ todo > 0
      /\ Len(added[1]) = Len(added[2]) + (turn - 1) /\ Len(added[2]) + todo <= Max
      /\ Len(added[1]) \in Nat /\ Len(added[2]) \in Nat
  BY DEF TypeInv, TypeOK, AddedOK
<1>2. /\ added' = [added EXCEPT ![turn] = Append(@, v)]
      /\ turn' = 3 - turn /\ todo' = (IF turn = 2 THEN todo - 1 ELSE todo)
      /\ rpc' = IF todo' = 0 THEN "end" ELSE "get"
  BY DEF Add
<1>3. Append(added[turn], v) \in Seq(Samples) /\ Len(Append(added[turn], v)) = Len(added[turn]) + 1
  BY <1>1
<1>4. /\ added' \in [{1, 2} -> Seq(Samples)]
      /\ added'[turn] = Append(added[turn], v) /\ added'[3 - turn] = added[3 - turn]
  BY <1>1, <1>2, <1>3
<1>5. CASE turn = 1
  BY <1>1, <1>2, <1>3, <1>4, <1>5, StatsAssumption DEF AddedOK, StatsAssumption
<1>6. CASE turn = 2
  BY <1>1, <1>2, <1>3, <1>4, <1>6, StatsAssumption DEF AddedOK, StatsAssumption
<1> QED
  BY <1>1, <1>5, <1>6

(* What the writer sees of a step of the reader. *)
LEMMA ReaderEffects ==
  ASSUME TypeInv, ReaderStep
  PROVE  /\ UNCHANGED <<cells, head, writer>>
         /\ tail' \in [Rings -> Cells] /\ full' \in [Rings -> BOOLEAN]
         /\ \A r \in Rings : r # RingOf(pair, turn) => tail'[r] = tail[r] /\ full'[r] = full[r]
<1>1. RingOf(pair, turn) \in Rings /\ tail \in [Rings -> Cells] /\ full \in [Rings -> BOOLEAN]
  BY RingFacts DEF TypeInv, TypeOK
<1> QED
  BY <1>1, SuccessorIs DEF ReaderStep, WakeUp, ReadSize, GetNone, GetCell, ClearFull, RetreatTail,
                           EndPair, ring

LEMMA ReaderTypeInv == TypeInv /\ ReaderStep => TypeInv'
<1> SUFFICES ASSUME TypeInv, ReaderStep PROVE TypeInv'
  OBVIOUS
<1>0. /\ rpc \in {"sleep", "size", "get", "full", "tail", "end"} /\ pair \in Pairs
      /\ turn \in {1, 2} /\ todo \in 0 .. Max /\ value \in Samples
      /\ overlap \subseteq Pairs /\ lapsed \subseteq Pairs /\ ever \subseteq Pairs
      /\ seen \in [Pairs -> Numbers]
      /\ added \in [{1, 2} -> Seq(Samples)]
      /\ \A i \in {1, 2} : Len(added[i]) <= Max
      /\ rpc = "sleep" => pair = 1
      /\ flushed \in Numbers /\ (wpc # "loop" => flushed > 0)
  BY DEF TypeInv, TypeOK, PcsOK, AddedOK
<1>1. /\ UNCHANGED <<cells, head, wpc, wring, temp, flushed>>
      /\ tail' \in [Rings -> Cells] /\ full' \in [Rings -> BOOLEAN]
  BY ReaderEffects DEF writer
<1>2. SUFFICES /\ rpc' \in {"sleep", "size", "get", "full", "tail", "end"} /\ pair' \in Pairs
               /\ turn' \in {1, 2} /\ todo' \in 0 .. Max /\ value' \in Samples
               /\ overlap' \subseteq Pairs /\ lapsed' \subseteq Pairs /\ ever' \subseteq Pairs
               /\ seen' \in [Pairs -> Numbers]
               /\ \A i \in {1, 2} : Len(added'[i]) <= Max /\ added'[i] \in Seq(Samples)
               /\ AddedOK' /\ (rpc' = "sleep" => pair' = 1)
  BY <1>1 DEF TypeInv, TypeOK, PcsOK
<1> DEFINE Empties == <<<<>>, <<>>>>
<1>e. /\ Empties \in [{1, 2} -> Seq(Samples)] /\ Len(Empties[1]) = 0 /\ Len(Empties[2]) = 0
      /\ \A i \in {1, 2} : Len(Empties[i]) <= Max /\ Empties[i] \in Seq(Samples)
  BY NoneAdded
<1>3. CASE WakeUp
  BY <1>0, <1>3, SampleFacts DEF WakeUp, Pairs, TypeInv, AddedOK
<1>4. CASE ReadSize
  <2>1. <<pair, 1>> \in Rings
    BY <1>0, RingFacts
  <2>2. /\ todo' = SizeOf(<<pair, 1>>) /\ added' = Empties /\ turn' = 1
        /\ rpc' = (IF todo' = 0 THEN "end" ELSE "get")
        /\ overlap' \subseteq Pairs /\ ever' \subseteq Pairs /\ UNCHANGED <<pair, value, lapsed, seen>>
    BY <1>0, <1>4 DEF ReadSize
  <2>3. todo' \in 0 .. Max
    BY <2>1, <2>2, SizeIs
  <2> HIDE DEF Empties
  <2> QED
    BY <1>0, <1>e, <2>2, <2>3 DEF AddedOK
<1>5. CASE GetNone
  BY <1>0, <1>5, AddKeeps DEF GetNone, history
<1>6. CASE GetCell
  <2> DEFINE r == RingOf(pair, turn)
  <2>1. r \in Rings /\ cells[r][tail[r]] \in Numbers
    BY <1>0, RingFacts DEF TypeInv, TypeOK
  <2>2. /\ value' = <<r, cells[r][tail[r]]>> /\ rpc = "get" /\ rpc' = "full"
        /\ UNCHANGED <<pair, turn, todo, added, overlap, lapsed, ever, seen>>
    BY <1>6 DEF GetCell, history
  <2> HIDE DEF r
  <2>3. value' \in Samples
    BY <2>1, <2>2, SampleFacts
  <2> QED
    BY <1>0, <2>2, <2>3 DEF TypeInv, AddedOK
<1>7. CASE ClearFull
  BY <1>0, <1>7 DEF ClearFull, history, TypeInv, AddedOK
<1>8. CASE RetreatTail
  BY <1>0, <1>8, AddKeeps DEF RetreatTail, history
<1>9. CASE EndPair
  <2>1. /\ rpc = "end" /\ rpc' = (IF pair = 1 THEN "size" ELSE "sleep") /\ pair' = 3 - pair
        /\ lapsed' = (lapsed \ {pair}) \cup (overlap \cap {pair})
        /\ seen' = [seen EXCEPT ![pair] = Flushed(pair)]
        /\ added' = Empties /\ turn' = 1 /\ UNCHANGED <<todo, value, overlap, ever>>
    BY <1>9 DEF EndPair
  <2>2. Flushed(pair) \in Numbers
    BY <1>0, StatsAssumption DEF StatsAssumption, Flushed, Numbers, WriterAt
  <2>3. todo = 0
    BY <2>1 DEF TypeInv, AddedOK
  <2> HIDE DEF Empties
  <2> QED
    BY <1>0, <1>e, <2>1, <2>2, <2>3 DEF AddedOK, Pairs
<1> QED
  BY <1>3, <1>4, <1>5, <1>6, <1>7, <1>8, <1>9 DEF ReaderStep

LEMMA StutterUnchanged ==
  ASSUME UNCHANGED vars
  PROVE  UNCHANGED <<cells, head, tail, full, wpc, wring, temp, flushed, rpc, pair, turn, todo,
                     value, added, overlap, lapsed, ever, seen>>
BY DEF vars, ring, writer, reader, history

LEMMA NextTypeInv == TypeInv /\ [Next]_vars => TypeInv'
<1>1. TypeInv /\ UNCHANGED vars => TypeInv'
  BY StutterUnchanged DEF TypeInv, TypeOK, AddedOK, PcsOK
<1> QED
  BY <1>1, WriterTypeInv, ReaderTypeInv DEF Next

(* Indices stay within the cells and a report takes at most as many values *)
(* out of a ring as it has cells, whatever the two threads do to it.       *)
THEOREM TypeCorrect == Spec => []TypeOK
<1>1. TypeInv => TypeOK
  BY DEF TypeInv
<1> QED
  BY InitTypeInv, NextTypeInv, <1>1, PTL DEF Spec

-----------------------------------------------------------------------------
(***************************************************************************)
(* What the writer makes of a ring.                                        *)
(***************************************************************************)
(* A pair that is not being put to has had all its puts.                   *)
LEMMA PutsAre ==
  ASSUME TypeInv, NEW r \in Rings
  PROVE  /\ Puts(r) \in Nat /\ Flushed(r[1]) \in Nat /\ Flushed(r[1]) <= Puts(r)
         /\ ~MidPut(r[1]) => Puts(r) = Flushed(r[1]) /\ Stored(r) = Puts(r)
         /\ Stored(r) \in {Puts(r), Puts(r) + 1}
         /\ r = wring /\ wpc \in {"store", "tail", "head"} => Puts(r) = flushed - 1
         /\ r = wring /\ wpc \in {"tail", "head"} => Stored(r) = flushed
         /\ r = wring /\ wpc \in {"full"} => Puts(r) = flushed /\ Stored(r) = flushed
<1>1. /\ wpc \in {"loop", "store", "tail", "head", "full"} /\ wring \in Rings /\ flushed \in Nat
      /\ (wpc = "loop" => wring = <<1, 1>>) /\ (wpc # "loop" => flushed > 0)
  BY StatsAssumption DEF StatsAssumption, TypeInv, TypeOK, PcsOK, Numbers
<1>2. /\ r = <<r[1], r[2]>> /\ r[1] \in {1, 2} /\ r[2] \in {1, 2}
      /\ wring = <<wring[1], wring[2]>> /\ wring[1] \in {1, 2} /\ wring[2] \in {1, 2}
  BY <1>1, RingFacts DEF Pairs
<1>3. r = wring <=> r[1] = wring[1] /\ r[2] = wring[2]
  BY <1>2
<1> QED
  BY <1>1, <1>2, <1>3 DEF Puts, Stored, Flushed, MidPut, Order, WriterAt

LEMMA PutsStep ==
  ASSUME TypeInv, WriterStep, NEW r \in Rings
  PROVE  /\ Puts(r)' = IF wpc = "head" /\ r = wring THEN Puts(r) + 1 ELSE Puts(r)
         /\ Stored(r)' = IF wpc = "store" /\ r = wring THEN Stored(r) + 1 ELSE Stored(r)
         /\ r[1] # wring[1] \/ wpc = "loop" => Flushed(r[1])' = Flushed(r[1])
         /\ Flushed(r[1]) <= Flushed(r[1])'
<1>1. /\ wpc \in {"loop", "store", "tail", "head", "full"} /\ wring \in Rings /\ flushed \in Nat
      /\ (wpc = "loop" => wring = <<1, 1>>)
  BY StatsAssumption DEF StatsAssumption, TypeInv, TypeOK, PcsOK, Numbers
<1>2. /\ r = <<r[1], r[2]>> /\ r[1] \in {1, 2} /\ r[2] \in {1, 2}
      /\ wring = <<wring[1], wring[2]>> /\ wring[1] \in {1, 2} /\ wring[2] \in {1, 2}
  BY <1>1, RingFacts DEF Pairs
<1>3. r = wring <=> r[1] = wring[1] /\ r[2] = wring[2]
  BY <1>2
<1> USE DEF Puts, Stored, Flushed, Order, WriterAt
<1>4. CASE Collect
  BY <1>1, <1>2, <1>3, <1>4 DEF Collect
<1>5. CASE StoreCell
  BY <1>1, <1>2, <1>3, <1>5 DEF StoreCell
<1>6. CASE GiveUpOldest
  BY <1>1, <1>2, <1>3, <1>6 DEF GiveUpOldest
<1>7. CASE AdvanceHead
  BY <1>1, <1>2, <1>3, <1>7 DEF AdvanceHead
<1>8. CASE MarkFull
  <2>1. /\ wpc = "full" /\ flushed' = flushed
        /\ \/ wring[2] = 1 /\ wring' = <<wring[1], 2>> /\ wpc' = "store"
           \/ wring = <<1, 2>> /\ wring' = <<2, 1>> /\ wpc' = "store"
           \/ wring = <<2, 2>> /\ wring' = <<1, 1>> /\ wpc' = "loop"
    BY <1>8 DEF MarkFull, NextPut
  <2>2. /\ wring'[1] \in {1, 2} /\ wring'[2] \in {1, 2} /\ wring' = <<wring'[1], wring'[2]>>
        /\ r = wring' <=> r[1] = wring'[1] /\ r[2] = wring'[2]
    BY <1>2, <2>1
  <2> QED
    BY <1>1, <1>2, <1>3, <2>1, <2>2
<1> QED
  BY <1>4, <1>5, <1>6, <1>7, <1>8 DEF WriterStep

LEMMA InitWriterInv == Init => WriterInv
<1> SUFFICES ASSUME Init PROVE WriterInv
  OBVIOUS
<1>1. \A r \in Rings : Puts(r) = 0 /\ Stored(r) = 0 /\ head[r] = 0
  BY DEF Init, Puts, Stored
<1>2. At(0) = 0
  BY StatsAssumption, Remainder DEF StatsAssumption, At
<1> QED
  BY <1>1, <1>2 DEF WriterInv, HeadIsPuts, CellsHold

LEMMA WriterKeepsHead == TypeInv /\ WriterInv /\ WriterStep => HeadIsPuts'
<1> SUFFICES ASSUME TypeInv, WriterInv, WriterStep, NEW r \in Rings PROVE head'[r] = At(Puts(r))'
  BY DEF HeadIsPuts
<1>1. head[r] = At(Puts(r)) /\ Puts(r) \in Nat /\ head \in [Rings -> Cells] /\ wring \in Rings
  BY PutsAre DEF WriterInv, HeadIsPuts, TypeInv, TypeOK
<1>2. At(Puts(r))' = At(Puts(r)')
  BY DEF At
<1>3. CASE AdvanceHead
  <2>1. head' = [head EXCEPT ![wring] = Successor(@)] /\ wpc = "head"
    BY <1>3 DEF AdvanceHead, WriterAt
  <2> QED
    BY <1>1, <1>2, <2>1, PutsStep, SuccessorAt
<1>4. CASE ~AdvanceHead
  <2>1. head' = head /\ wpc # "head"
    BY <1>4 DEF WriterStep, Collect, StoreCell, GiveUpOldest, MarkFull, ring, WriterAt
  <2> QED
    BY <1>1, <1>2, <2>1, PutsStep
<1> QED
  BY <1>3, <1>4

(* A put goes to the cell of the value a whole lap ago.                    *)
LEMMA WriterKeepsCells == TypeInv /\ WriterInv /\ WriterStep => CellsHold'
<1> SUFFICES ASSUME TypeInv, WriterInv, WriterStep, NEW r \in Rings,
                    NEW k \in 1 .. Stored(r)', k > Stored(r)' - Max
             PROVE  cells'[r][At(k - 1)] = k
  BY DEF CellsHold, At
<1> USE StatsAssumption DEF StatsAssumption
<1>0. /\ cells \in [Rings -> [Cells -> Numbers]] /\ wring \in Rings /\ head[wring] \in Cells
      /\ flushed \in Nat
  BY DEF TypeInv, TypeOK, Numbers
<1>a. Stored(r) \in Nat /\ (r = wring /\ wpc = "store" => flushed > 0)
  BY PutsAre DEF TypeInv, PcsOK
<1>b. Stored(r)' \in Nat
  BY <1>a, PutsStep
<1>c. \A i \in 1 .. Stored(r) : i > Stored(r) - Max => cells[r][At(i - 1)] = i
  BY DEF WriterInv, CellsHold
<1>1. k \in Nat /\ k > 0 /\ k <= Stored(r)'
  BY <1>b
<1>2. CASE StoreCell /\ r = wring
  <2>1. /\ cells' = [cells EXCEPT ![wring][head[wring]] = flushed] /\ wpc = "store"
        /\ head[r] = At(flushed - 1) /\ Stored(r) = flushed - 1 /\ flushed - 1 \in Nat
        /\ Stored(r)' = flushed
    <3>1. cells' = [cells EXCEPT ![wring][head[wring]] = flushed] /\ wpc = "store"
      BY <1>2 DEF StoreCell, WriterAt
    <3>2. Puts(r) = flushed - 1 /\ Stored(r) = Puts(r) /\ Stored(r)' = Stored(r) + 1
      BY <1>2, <3>1, PutsAre, PutsStep DEF Stored
    <3>3. head[r] = At(Puts(r))
      BY DEF WriterInv, HeadIsPuts
    <3> QED
      BY <1>0, <1>a, <1>2, <3>1, <3>2, <3>3
  <2>2. k - 1 \in Nat /\ At(k - 1) \in Cells
    BY <1>1, AtCell
  <2>3. CASE k = flushed
    BY <1>0, <1>2, <2>1, <2>2, <2>3
  <2>4. CASE k # flushed
    <3>1. flushed - k \in 0 .. Max /\ flushed - k > 0 /\ flushed - k < Max /\ k \in 1 .. Stored(r)
      BY <1>0, <1>1, <2>1, <2>4
    <3>2. (k - 1) + (flushed - k) = flushed - 1
      BY <1>0, <1>1, <2>1
    <3>3. At(flushed - 1) # At(k - 1)
      BY <2>2, <3>1, <3>2, AtDistance
    <3>4. cells[r][At(k - 1)] = k
      BY <1>0, <1>c, <2>1, <3>1
    <3> QED
      BY <1>0, <1>2, <2>1, <2>2, <3>3, <3>4
  <2> QED
    BY <2>3, <2>4
<1>3. CASE ~(StoreCell /\ r = wring)
  <2>1. cells'[r] = cells[r] /\ ~(wpc = "store" /\ r = wring)
    BY <1>0, <1>3 DEF WriterStep, Collect, StoreCell, GiveUpOldest, AdvanceHead, MarkFull, ring, WriterAt
  <2>2. Stored(r)' = Stored(r)
    BY <2>1, PutsStep
  <2> QED
    BY <1>1, <1>c, <2>1, <2>2
<1> QED
  BY <1>2, <1>3

(* A step of the reader changes nothing the writer counts by.              *)
LEMMA PutsStay ==
  ASSUME UNCHANGED writer
  PROVE  /\ \A r : Puts(r)' = Puts(r) /\ Stored(r)' = Stored(r)
         /\ \A p : Flushed(p)' = Flushed(p) /\ MidPut(p)' = MidPut(p)
BY DEF writer, Puts, Stored, Flushed, MidPut, Order, WriterAt

LEMMA WriterInvStays == WriterInv /\ UNCHANGED <<cells, head, writer>> => WriterInv'
BY PutsStay DEF WriterInv, HeadIsPuts, CellsHold, At

LEMMA NextWriterInv == TypeInv /\ WriterInv /\ [Next]_vars => WriterInv'
<1>1. TypeInv /\ WriterInv /\ WriterStep => WriterInv'
  BY WriterKeepsHead, WriterKeepsCells DEF WriterInv
<1>2. UNCHANGED vars => UNCHANGED <<cells, head, writer>>
  BY DEF vars, ring
<1> QED
  BY <1>1, <1>2, ReaderEffects, WriterInvStays DEF Next

-----------------------------------------------------------------------------
(***************************************************************************)
(* A report and the flushes beside it.                                     *)
(***************************************************************************)
(* The rings of a pair that tx2 is not putting to stay as they are.        *)
LEMMA OtherRings ==
  ASSUME TypeInv, WriterStep, NEW r \in Rings, r[1] # wring[1] \/ wpc = "loop"
  PROVE  /\ cells'[r] = cells[r] /\ head'[r] = head[r] /\ tail'[r] = tail[r] /\ full'[r] = full[r]
         /\ Puts(r)' = Puts(r) /\ Flushed(r[1])' = Flushed(r[1])
         /\ ~(r = wring /\ wpc \in {"tail", "head", "full"})
         /\ ~(r = wring' /\ wpc' \in {"tail", "head", "full"})
         /\ ~MidPut(r[1])'
         /\ r[1] \in overlap' <=> r[1] \in overlap
         /\ r[1] \in ever' <=> r[1] \in ever
<1>1. /\ wpc \in {"loop", "store", "tail", "head", "full"} /\ wring \in Rings
      /\ cells \in [Rings -> [Cells -> Numbers]] /\ tail \in [Rings -> Cells]
      /\ head \in [Rings -> Cells] /\ full \in [Rings -> BOOLEAN]
      /\ wpc = "loop" => wring = <<1, 1>>
  BY DEF TypeInv, TypeOK, PcsOK
<1>2. r # wring \/ wpc = "loop"
  OBVIOUS
<1>3. Puts(r)' = Puts(r) /\ Flushed(r[1])' = Flushed(r[1])
  BY <1>2, PutsStep
<1> SUFFICES /\ cells'[r] = cells[r] /\ head'[r] = head[r] /\ tail'[r] = tail[r] /\ full'[r] = full[r]
             /\ ~(r = wring' /\ wpc' \in {"tail", "head", "full"})
             /\ ~MidPut(r[1])'
             /\ r[1] \in overlap' <=> r[1] \in overlap
             /\ r[1] \in ever' <=> r[1] \in ever
  BY <1>1, <1>2, <1>3
<1>4. CASE Collect
  BY <1>1, <1>4 DEF Collect, ring, history, MidPut, WriterAt
<1>5. CASE StoreCell
  BY <1>1, <1>5 DEF StoreCell, Touch, MidPut, WriterAt
<1>6. CASE GiveUpOldest
  BY <1>1, <1>6 DEF GiveUpOldest, Touch, MidPut, WriterAt
<1>7. CASE AdvanceHead
  BY <1>1, <1>7 DEF AdvanceHead, Touch, MidPut, WriterAt
<1>8. CASE MarkFull
  BY <1>1, <1>8 DEF MarkFull, NextPut, Touch, MidPut, WriterAt
<1> QED
  BY <1>4, <1>5, <1>6, <1>7, <1>8 DEF WriterStep

(* To put to the pair of a report is to overlap it.                        *)
LEMMA PutsOverlap ==
  ASSUME TypeInv, WriterStep, wpc # "loop", rpc # "sleep", pair = wring[1]
  PROVE  pair \in overlap' /\ pair \in ever'
BY DEF WriterStep, Collect, StoreCell, GiveUpOldest, AdvanceHead, MarkFull, Touch, WriterAt

LEMMA InitUndisturbed == Init => Undisturbed
BY DEF Init, Undisturbed, Reporting, Flushed, WriterAt, Pairs

LEMMA WriterUndisturbed == TypeInv /\ Undisturbed /\ WriterStep => Undisturbed'
<1> SUFFICES ASSUME TypeInv, Undisturbed, WriterStep PROVE Undisturbed'
  OBVIOUS
<1>1. ASSUME NEW p \in Pairs, Reporting(p)', p \notin overlap'
      PROVE  ~MidPut(p)'
  <2>1. Reporting(p) /\ pair = p /\ rpc # "sleep"
    BY <1>1, WriterEffects DEF Reporting, reader
  <2>2. p # wring[1] \/ wpc = "loop"
    BY <1>1, <2>1, PutsOverlap
  <2> DEFINE r == <<p, 1>>
  <2>3. r \in Rings /\ r[1] = p
    BY RingFacts
  <2> QED
    BY <2>2, <2>3, OtherRings
<1>2. overlap' \subseteq ever' /\ lapsed' \subseteq ever'
  <2>1. overlap \subseteq ever /\ lapsed \subseteq ever
    BY DEF Undisturbed
  <2> QED
    BY <2>1 DEF WriterStep, Collect, StoreCell, GiveUpOldest, AdvanceHead, MarkFull, Touch, history
<1>3. ASSUME NEW p \in Pairs PROVE seen'[p] <= Flushed(p)'
  <2> DEFINE r == <<p, 1>>
  <2>1. r \in Rings /\ r[1] = p
    BY RingFacts
  <2>2. Flushed(p) <= Flushed(p)' /\ Flushed(p) \in Nat
    BY <2>1, PutsStep, PutsAre
  <2>3. Flushed(p)' \in Int
    BY WriterTypeInv, StatsAssumption DEF TypeInv, TypeOK, Numbers, StatsAssumption, Flushed
  <2>4. seen[p] \in Nat /\ seen'[p] = seen[p] /\ seen[p] <= Flushed(p)
    BY WriterEffects, StatsAssumption DEF TypeInv, TypeOK, Numbers, StatsAssumption, Undisturbed
  <2> QED
    BY <2>2, <2>3, <2>4
<1> QED
  BY <1>1, <1>2, <1>3 DEF Undisturbed

LEMMA ReaderUndisturbed == TypeInv /\ Undisturbed /\ ReaderStep => Undisturbed'
<1> SUFFICES ASSUME TypeInv, Undisturbed, ReaderStep PROVE Undisturbed'
  OBVIOUS
<1>1. \A p \in Pairs : MidPut(p)' = MidPut(p) /\ Flushed(p)' = Flushed(p)
  BY ReaderEffects, PutsStay
<1>2. /\ \A p \in Pairs : Reporting(p) /\ p \notin overlap => ~MidPut(p)
      /\ overlap \subseteq ever /\ lapsed \subseteq ever
      /\ \A p \in Pairs : seen[p] <= Flushed(p)
  BY DEF Undisturbed
<1>3. /\ pair \in Pairs /\ seen \in [Pairs -> Numbers] /\ (pair = 1 \/ pair = 2)
      /\ \A p \in Pairs : Flushed(p) \in Nat
      /\ rpc \in {"sleep", "size", "get", "full", "tail", "end"}
  <2>1. \A p \in Pairs : <<p, 1>> \in Rings /\ <<p, 1>>[1] = p
    BY RingFacts
  <2> QED
    BY <2>1, PutsAre DEF TypeInv, TypeOK, Pairs
<1>4. CASE WakeUp
  BY <1>1, <1>2, <1>4 DEF WakeUp, Undisturbed, Reporting
<1>5. CASE ReadSize
  BY <1>1, <1>2, <1>5 DEF ReadSize, Undisturbed, Reporting
<1>6. CASE GetNone \/ GetCell \/ ClearFull \/ RetreatTail
  <2>1. UNCHANGED <<pair, overlap, lapsed, ever, seen>> /\ rpc \in {"get", "full", "tail"}
    BY <1>6 DEF GetNone, GetCell, ClearFull, RetreatTail, history
  <2> QED
    BY <1>1, <1>2, <2>1 DEF Undisturbed, Reporting
<1>7. CASE EndPair
  <2>1. /\ rpc' \in {"size", "sleep"} /\ lapsed' \subseteq lapsed \cup overlap
        /\ seen' = [seen EXCEPT ![pair] = Flushed(pair)] /\ UNCHANGED <<overlap, ever>>
    BY <1>7 DEF EndPair
  <2>2. \A p \in Pairs : seen'[p] <= Flushed(p)'
    BY <1>1, <1>2, <1>3, <2>1
  <2> QED
    BY <1>2, <2>1, <2>2 DEF Undisturbed, Reporting
<1> QED
  BY <1>4, <1>5, <1>6, <1>7 DEF ReaderStep

LEMMA NextUndisturbed == TypeInv /\ Undisturbed /\ [Next]_vars => Undisturbed'
<1>1. Undisturbed /\ UNCHANGED vars => Undisturbed'
  BY StutterUnchanged, PutsStay DEF Undisturbed, Reporting, writer, vars, history, reader
<1> QED
  BY <1>1, WriterUndisturbed, ReaderUndisturbed DEF Next

-----------------------------------------------------------------------------
(***************************************************************************)
(* A report that no flush overlaps empties the ring that gave the size.    *)
(***************************************************************************)
LEMMA Distances ==
  ASSUME NEW h \in Cells, NEW t \in Cells
  PROVE  /\ Distance(h, t) \in 0 .. Max - 1
         /\ Distance(h, t) = 0 <=> h = t
         /\ Distance(h, Successor(t)) \in 0 .. Max - 1
         /\ h # t => Distance(h, Successor(t)) = Distance(h, t) - 1
<1>1. Successor(t) = (IF t + 1 < Max THEN t + 1 ELSE 0) /\ Successor(t) \in Cells
  BY SuccessorIs
<1> QED
  BY <1>1, StatsAssumption DEF StatsAssumption, Cells, Distance

LEMMA GetsAre ==
  ASSUME TypeInv
  PROVE  /\ GetsLeft(pair) \in Int /\ GetsLeft(pair) <= Max
         /\ rpc \in {"get", "full", "tail"} /\ turn = SizedTurn(pair) => GetsLeft(pair) > 0
         /\ rpc = "end" => GetsLeft(pair) = 0
         /\ RingOf(pair, turn) = <<pair, 1>> <=> turn = SizedTurn(pair)
<1>1. /\ pair = 1 \/ pair = 2
      /\ turn = 1 \/ turn = 2
      /\ todo \in Nat /\ todo <= Max
      /\ (rpc \in {"get", "full", "tail"} => todo > 0) /\ (rpc = "end" => todo = 0 /\ turn = 1)
  BY StatsAssumption DEF StatsAssumption, TypeInv, TypeOK, AddedOK, Pairs
<1>2. RingOf(pair, turn) = <<pair, 1>> <=> turn = SizedTurn(pair)
  BY <1>1 DEF RingOf, SizedTurn
<1> QED
  BY <1>1, <1>2, StatsAssumption DEF StatsAssumption, GetsLeft, SizedTurn

LEMMA GetsStep ==
  ASSUME TypeInv, NEW v, Add(v), pair' = pair
  PROVE  /\ GetsLeft(pair)' = IF turn = SizedTurn(pair) THEN GetsLeft(pair) - 1 ELSE GetsLeft(pair)
         /\ rpc' \in {"get", "end"}
BY DEF TypeInv, TypeOK, GetsLeft, SizedTurn, Pairs, Add

LEMMA WriterDraining == TypeInv /\ Draining /\ WriterStep => Draining'
<1> SUFFICES ASSUME TypeInv, Draining, WriterStep,
                    NEW p \in Pairs, Reporting(p)', p \notin overlap'
             PROVE  DrainingOf(p)'
  BY DEF Draining
<1> DEFINE r == <<p, 1>>
<1>1. UNCHANGED <<rpc, pair, turn, todo>> /\ overlap \subseteq overlap'
  BY WriterEffects DEF reader
<1>2. Reporting(p) /\ p \notin overlap /\ pair = p /\ rpc # "sleep"
  BY <1>1 DEF Reporting
<1>3. p # wring[1] \/ wpc = "loop"
  BY <1>2, PutsOverlap
<1>4. r \in Rings /\ r[1] = p
  BY RingFacts
<1>5. head'[r] = head[r] /\ tail'[r] = tail[r] /\ full'[r] = full[r]
  BY <1>3, <1>4, OtherRings
<1>6. DrainingOf(p)
  BY <1>2 DEF Draining
<1> QED
  BY <1>1, <1>5, <1>6 DEF DrainingOf, GetsLeft, SizedTurn, Empty

LEMMA ReaderDraining == TypeInv /\ Draining /\ ReaderStep => Draining'
<1> SUFFICES ASSUME TypeInv, Draining, ReaderStep,
                    NEW p \in Pairs, Reporting(p)', p \notin overlap'
             PROVE  DrainingOf(p)'
  BY DEF Draining
<1> DEFINE r == <<p, 1>>
           now == turn = SizedTurn(p)
<1> USE StatsAssumption DEF StatsAssumption
<1>1. /\ pair \in Pairs /\ turn \in {1, 2} /\ todo \in 0 .. Max
      /\ head[r] \in Cells /\ tail[r] \in Cells /\ full[r] \in BOOLEAN /\ r \in Rings
      /\ tail \in [Rings -> Cells] /\ full \in [Rings -> BOOLEAN]
      /\ SizeOf(r) \in 0 .. Max /\ SizeOf(r) = IF full[r] THEN Max ELSE Distance(head[r], tail[r])
  <2>1. r \in Rings
    BY RingFacts
  <2> QED
    BY <2>1, SizeIs DEF TypeInv, TypeOK
<1>2. head' = head /\ (r # RingOf(pair, turn) => tail'[r] = tail[r] /\ full'[r] = full[r])
  BY <1>1, ReaderEffects
<1>3. Distance(head[r], tail[r]) \in 0 .. Max - 1
  BY <1>1, Distances
<1>4. CASE ReadSize
  <2>1. /\ p = pair /\ todo' = SizeOf(r) /\ turn' = 1 /\ rpc' \in {"get", "end"}
        /\ UNCHANGED <<head, tail, full>>
    BY <1>4 DEF ReadSize, Reporting, ring
  <2> HIDE DEF r
  <2>2. GetsLeft(p)' = SizeOf(r)
    BY <2>1 DEF GetsLeft
  <2> QED
    BY <1>1, <1>3, <2>1, <2>2 DEF DrainingOf, r
<1>5. ASSUME GetNone \/ GetCell \/ ClearFull \/ RetreatTail
      PROVE  pair = p /\ p \notin overlap /\ Reporting(p) /\ DrainingOf(p)
  BY <1>5 DEF GetNone, GetCell, ClearFull, RetreatTail, history, Reporting, Draining
<1>6. CASE GetNone \/ RetreatTail
  <2>1. /\ pair = p /\ DrainingOf(p) /\ pair' = pair /\ (\E v : Add(v))
        /\ (rpc = "get" /\ UNCHANGED <<tail, full>> /\ Empty(RingOf(pair, turn)))
             \/ (rpc = "tail" /\ tail' = [tail EXCEPT ![RingOf(pair, turn)] = Successor(@)]
                  /\ UNCHANGED full)
    BY <1>5, <1>6 DEF GetNone, RetreatTail, ring, history
  <2>2. /\ GetsLeft(p)' = (IF now THEN GetsLeft(p) - 1 ELSE GetsLeft(p)) /\ rpc' \in {"get", "end"}
        /\ GetsLeft(p) \in Int /\ (now => GetsLeft(p) > 0) /\ (RingOf(p, turn) = r <=> now)
    BY <2>1, GetsStep, GetsAre
  <2>3. CASE ~now
    <3>1. tail'[r] = tail[r] /\ full'[r] = full[r] /\ head'[r] = head[r]
      BY <1>1, <1>2, <2>1, <2>2, <2>3
    <3> QED
      BY <2>1, <2>2, <2>3, <3>1 DEF DrainingOf
  <2>4. CASE now /\ rpc = "get"
    <3>1. UNCHANGED <<head, tail, full>> /\ ~full[r] /\ head[r] = tail[r]
      BY <1>2, <2>1, <2>2, <2>4 DEF Empty
    <3>2. Distance(head[r], tail[r]) = 0
      BY <1>1, <3>1, Distances
    <3> QED
      BY <2>2, <2>4, <3>1, <3>2 DEF DrainingOf
  <2>5. CASE now /\ rpc = "tail"
    <3>1. tail'[r] = Successor(tail[r]) /\ full' = full /\ head' = head
      BY <1>1, <1>2, <2>1, <2>2, <2>5
    <3>2. ~full[r] /\ Distance(head[r], Successor(tail[r])) <= GetsLeft(p) - 1
      BY <2>1, <2>5 DEF DrainingOf
    <3> QED
      BY <2>2, <2>5, <3>1, <3>2 DEF DrainingOf
  <2> QED
    BY <2>1, <2>3, <2>4, <2>5
<1>7. CASE GetCell
  <2>1. /\ pair = p /\ DrainingOf(p) /\ rpc = "get" /\ rpc' = "full" /\ ~Empty(RingOf(p, turn))
        /\ UNCHANGED <<head, tail, full, turn, todo>>
    BY <1>5, <1>7 DEF GetCell, ring
  <2>2. RingOf(p, turn) = r <=> now
    BY <2>1, GetsAre
  <2> QED
    BY <2>1, <2>2 DEF DrainingOf, GetsLeft, SizedTurn, Empty
<1>8. CASE ClearFull
  <2>1. /\ pair = p /\ DrainingOf(p) /\ rpc = "full" /\ rpc' = "tail"
        /\ full' = [full EXCEPT ![RingOf(p, turn)] = FALSE]
        /\ UNCHANGED <<head, tail, turn, todo>>
    BY <1>5, <1>8 DEF ClearFull
  <2>2. (RingOf(p, turn) = r <=> now) /\ GetsLeft(p)' = GetsLeft(p) /\ GetsLeft(p) \in Int
    BY <2>1, GetsAre DEF GetsLeft
  <2>3. CASE ~now
    <3>1. full'[r] = full[r]
      BY <1>1, <1>2, <2>1, <2>2, <2>3
    <3> QED
      BY <2>1, <2>2, <2>3, <3>1 DEF DrainingOf
  <2>4. CASE now
    <3>1. ~full'[r]
      BY <1>1, <2>1, <2>2, <2>4
    <3>2. /\ full[r] => GetsLeft(p) = Max
          /\ ~full[r] => Distance(head[r], tail[r]) <= GetsLeft(p) /\ head[r] # tail[r]
      BY <2>1, <2>4 DEF DrainingOf, Empty
    <3>3. Distance(head[r], Successor(tail[r])) <= GetsLeft(p) - 1
      BY <1>1, <1>3, <2>2, <3>2, Distances
    <3> QED
      BY <2>1, <2>2, <2>4, <3>1, <3>3 DEF DrainingOf
  <2> QED
    BY <2>3, <2>4
<1>9. ~WakeUp /\ ~EndPair
  BY DEF WakeUp, EndPair, Reporting
<1> QED
  BY <1>4, <1>6, <1>7, <1>8, <1>9 DEF ReaderStep

LEMMA NextDraining == TypeInv /\ Draining /\ [Next]_vars => Draining'
<1>1. Draining /\ UNCHANGED vars => Draining'
  BY StutterUnchanged DEF Draining, Reporting, DrainingOf, GetsLeft, SizedTurn, Empty
<1> QED
  BY <1>1, WriterDraining, ReaderDraining DEF Next

LEMMA InitDraining == Init => Draining
BY DEF Init, Draining, Reporting

(* At the end the ring is empty and not marked full.                       *)
LEMMA Drained ==
  ASSUME TypeInv, Draining, rpc = "end", pair \notin overlap
  PROVE  ~full[<<pair, 1>>] /\ head[<<pair, 1>>] = tail[<<pair, 1>>]
<1> USE StatsAssumption DEF StatsAssumption
<1>1. DrainingOf(pair) /\ GetsLeft(pair) = 0
  BY GetsAre DEF Draining, Reporting, TypeInv, TypeOK
<1>2. head[<<pair, 1>>] \in Cells /\ tail[<<pair, 1>>] \in Cells
  BY RingFacts DEF TypeInv, TypeOK
<1>3. ~full[<<pair, 1>>] /\ Distance(head[<<pair, 1>>], tail[<<pair, 1>>]) <= 0
  BY <1>1 DEF DrainingOf
<1> QED
  BY <1>2, <1>3, Distances

-----------------------------------------------------------------------------
(***************************************************************************)
(* What a ring holds while no race has touched it: the puts of tx2.        *)
(***************************************************************************)
LEMMA CountsAre ==
  ASSUME TypeInv, Undisturbed, NEW r \in Rings
  PROVE  /\ Puts(r) \in Nat /\ Flushed(r[1]) \in Nat /\ seen[r[1]] \in Nat
         /\ seen[r[1]] <= Flushed(r[1]) /\ Flushed(r[1]) <= Puts(r)
         /\ Lesser(Puts(r) - seen[r[1]], Max) \in 0 .. Max
         /\ Count(r[1]) \in 0 .. Max /\ Count(r[1]) <= Flushed(r[1])
         /\ Taken(r) \in Nat /\ Len(added[TurnOf(r)]) \in Nat
         /\ Kept(r) \in Int /\ Kept(r) <= Max /\ Kept(r) <= Puts(r) - seen[r[1]]
<1> USE StatsAssumption DEF StatsAssumption
<1>1. r[1] \in Pairs /\ TurnOf(r) \in {1, 2}
  BY RingFacts
<1>2. /\ Puts(r) \in Nat /\ Flushed(r[1]) \in Nat /\ seen[r[1]] \in Nat
      /\ seen[r[1]] <= Flushed(r[1]) /\ Flushed(r[1]) <= Puts(r)
  BY <1>1, PutsAre DEF Undisturbed, TypeInv, TypeOK, Numbers
<1>3. Len(added[TurnOf(r)]) \in Nat
  BY <1>1 DEF TypeInv, AddedOK
<1>4. Taken(r) \in Nat
  BY <1>3 DEF Taken
<1> QED
  BY <1>2, <1>3, <1>4 DEF Lesser, Count, Kept

(* The report of a sound ring has as many gets left as the ring has values *)
(* it has to give.                                                         *)
LEMMA SoundReport ==
  ASSUME TypeInv, Undisturbed, SoundIsGood, NEW r \in Rings, Sound(r), Reporting(r[1])
  PROVE  /\ ~MidPut(r[1]) /\ Good(r)
         /\ Puts(r) = Flushed(r[1]) /\ Stored(r) = Puts(r)
         /\ todo = Count(r[1]) - Len(added[2])
         /\ Kept(r) = Count(r[1]) - Len(added[TurnOf(r)])
         /\ Kept(r) \in 0 .. Max
         /\ rpc \in {"get", "full", "tail"} /\ turn = TurnOf(r) => Kept(r) > 0
         /\ rpc = "end" => /\ Kept(r) = 0
                           /\ Len(added[1]) = Count(r[1]) /\ Len(added[2]) = Count(r[1])
<1> DEFINE p == r[1]
           first == <<p, 1>>
<1>1. p \in Pairs /\ first \in Rings /\ first[1] = p /\ first[2] = 1 /\ TurnOf(r) \in {1, 2}
  BY RingFacts
<1>2. p \notin overlap
  BY DEF Sound, Undisturbed
<1>3. ~MidPut(p) /\ Puts(r) = Flushed(p) /\ Stored(r) = Puts(r)
  BY <1>1, <1>2, PutsAre DEF Undisturbed
<1>4. Sound(first)
  BY <1>1 DEF Sound
<1>5. Good(r) /\ Good(first)
  BY <1>1, <1>4 DEF SoundIsGood
<1>6. todo = Count(p) - Len(added[2])
  BY <1>1, <1>5 DEF Good, ReportGood
<1>7. Kept(r) = Count(p) - Len(added[TurnOf(r)])
  BY <1>3 DEF Kept, Taken, Count
<1>8. Kept(r) \in 0 .. Max
  BY <1>5, CountsAre, StatsAssumption DEF Good, IndicesGood, StatsAssumption
<1>9. /\ Len(added[1]) \in Nat /\ Len(added[2]) \in Nat /\ Count(p) \in Nat
      /\ Len(added[1]) = Len(added[2]) + (turn - 1) /\ turn \in {1, 2}
      /\ rpc \in {"get", "full", "tail"} => todo > 0
      /\ rpc = "end" => todo = 0 /\ turn = 1
  <2>1. Count(p) \in Nat
    BY CountsAre
  <2>2. /\ added \in [{1, 2} -> Seq(Samples)] /\ Len(added[1]) = Len(added[2]) + (turn - 1)
        /\ turn \in {1, 2}
        /\ rpc \in {"get", "full", "tail"} => todo > 0
        /\ rpc = "end" => todo = 0 /\ turn = 1
    BY DEF TypeInv, TypeOK, AddedOK
  <2> QED
    BY <2>1, <2>2
<1>10. rpc \in {"get", "full", "tail"} /\ turn = TurnOf(r) => Kept(r) > 0
  BY <1>1, <1>6, <1>7, <1>9
<1>11. rpc = "end" => Kept(r) = 0 /\ Len(added[1]) = Count(p) /\ Len(added[2]) = Count(p)
  BY <1>1, <1>6, <1>7, <1>9
<1> QED
  BY <1>3, <1>5, <1>6, <1>7, <1>8, <1>10, <1>11

LEMMA InitSoundIsGood == Init => SoundIsGood
<1> SUFFICES ASSUME Init, NEW r \in Rings PROVE Good(r)
  BY DEF SoundIsGood
<1> USE StatsAssumption DEF StatsAssumption
<1>1. /\ Puts(r) = 0 /\ seen[r[1]] = 0 /\ tail[r] = 0 /\ full[r] = FALSE
      /\ rpc = "sleep" /\ wpc = "loop" /\ ~Reporting(r[1])
  BY RingFacts DEF Init, Puts, Reporting
<1>2. Kept(r) = 0
  BY <1>1 DEF Kept, Taken, Lesser
<1>3. At(0) = 0
  BY Remainder DEF At
<1>4. ReportGood(r)
  BY <1>1 DEF ReportGood
<1>5. tail[r] = At(Puts(r) - Kept(r)) /\ Kept(r) >= 0 /\ Kept(r) # Max
  BY <1>1, <1>2, <1>3
<1> QED
  BY <1>1, <1>4, <1>5 DEF Good, IndicesGood

(* The writer elsewhere. *)
LEMMA WriterElsewhere ==
  ASSUME TypeInv, Undisturbed, SoundIsGood, WriterStep, NEW r \in Rings, Sound(r)',
         r[1] # wring[1] \/ wpc = "loop"
  PROVE  Good(r)'
<1>1. /\ UNCHANGED <<rpc, pair, turn, todo, value, added>>
      /\ lapsed' = lapsed /\ seen' = seen
  BY WriterEffects DEF reader
<1>2. /\ tail'[r] = tail[r] /\ full'[r] = full[r]
      /\ Puts(r)' = Puts(r) /\ Flushed(r[1])' = Flushed(r[1])
      /\ ~(r = wring /\ wpc \in {"tail", "head", "full"})
      /\ ~(r = wring' /\ wpc' \in {"tail", "head", "full"})
      /\ r[1] \in overlap' <=> r[1] \in overlap
      /\ r[1] \in ever' <=> r[1] \in ever
  BY OtherRings
<1>3. Good(r)
  BY <1>1, <1>2 DEF Sound, SoundIsGood, Reporting
<1>4. Kept(r)' = Kept(r) /\ Count(r[1])' = Count(r[1])
  BY <1>1, <1>2 DEF Kept, Taken, Count, Reporting, TurnOf, Lesser
<1>5. IndicesGood(r)'
  BY <1>1, <1>2, <1>3, <1>4 DEF Good, IndicesGood, Reading, Reporting, TurnOf, At
<1>6. ReportGood(r)'
  BY <1>1, <1>2, <1>3, <1>4 DEF Good, ReportGood, Reading, Reporting, TurnOf
<1> QED
  BY <1>5, <1>6 DEF Good

(* A put into the pair: nothing but full marks when it takes the oldest.   *)
LEMMA WriterHere ==
  ASSUME TypeInv, WriterInv, Undisturbed, SoundIsGood, WriterStep, NEW r \in Rings, Sound(r)',
         r[1] = wring[1], wpc # "loop"
  PROVE  Good(r)'
<1> USE StatsAssumption DEF StatsAssumption
<1>1. /\ UNCHANGED <<rpc, pair, turn, todo, value, added>>
      /\ lapsed' = lapsed /\ seen' = seen /\ overlap \subseteq overlap' /\ ever \subseteq ever'
  BY WriterEffects DEF reader
<1>2. ~Reporting(r[1]) /\ ~Reporting(r[1])'
  BY <1>1, PutsOverlap DEF Sound, Reporting
<1>3. Good(r)
  BY <1>1, <1>2 DEF Sound, SoundIsGood
<1> DEFINE d == Puts(r) - seen[r[1]]
<1>4. /\ Kept(r) = Lesser(d, Max) /\ Kept(r)' = Lesser(Puts(r)' - seen[r[1]], Max)
      /\ ReportGood(r)' /\ (\A at : ~Reading(r, at) /\ ~Reading(r, at)')
  <2>1. Lesser(d, Max) \in 0 .. Max /\ TurnOf(r)' = TurnOf(r)
    BY CountsAre DEF TurnOf
  <2>2. Taken(r) = 0 /\ Taken(r)' = 0
    BY <1>2 DEF Taken
  <2>3. Lesser(Puts(r)' - seen[r[1]], Max) \in Int
    BY CountsAre, PutsStep DEF Lesser
  <2> QED
    BY <1>1, <1>2, <2>1, <2>2, <2>3 DEF Kept, ReportGood, Reading, Lesser
<1> DEFINE n == IF r = wring /\ wpc = "head" /\ Kept(r) = Max THEN Max - 1 ELSE Kept(r)
<1>5. /\ tail[r] = At(Puts(r) - n)
      /\ ~(r = wring /\ wpc = "full") => full[r] = (Kept(r) = Max)
  BY <1>3, <1>4 DEF Good, IndicesGood
<1>6. /\ Puts(r) \in Nat /\ d \in Nat /\ Kept(r) \in 0 .. Max /\ Kept(r) <= Puts(r)
      /\ r = wring /\ wpc = "full" => d > 0
      /\ r \in Rings /\ wring \in Rings /\ tail \in [Rings -> Cells] /\ full \in [Rings -> BOOLEAN]
  <2>1. d \in Nat /\ Puts(r) \in Nat /\ seen[r[1]] \in Nat /\ seen[r[1]] <= Flushed(r[1])
    BY CountsAre
  <2>2. Kept(r) \in 0 .. Max /\ Kept(r) <= Puts(r)
    BY <1>4, <2>1 DEF Lesser
  <2>3. r = wring /\ wpc = "full" => Puts(r) = flushed /\ Flushed(r[1]) = flushed - 1
    <3>1. wring[1] \in {1, 2} /\ flushed \in Nat
      BY RingFacts DEF TypeInv, TypeOK, Numbers, Pairs
    <3> QED
      BY <3>1, PutsAre DEF Flushed, WriterAt
  <2>4. flushed \in Nat /\ wring \in Rings /\ tail \in [Rings -> Cells] /\ full \in [Rings -> BOOLEAN]
    BY DEF TypeInv, TypeOK, Numbers
  <2> QED
    BY <2>1, <2>2, <2>3, <2>4
<1> SUFFICES IndicesGood(r)'
  BY <1>4 DEF Good
<1> HIDE DEF n, d
<1>7. CASE StoreCell
  <2>1. UNCHANGED <<tail, full, wring>> /\ wpc = "store" /\ wpc' = "tail" /\ Puts(r)' = Puts(r)
    BY <1>7, PutsStep DEF StoreCell, WriterAt
  <2>2. Kept(r)' = Kept(r) /\ n = Kept(r)
    BY <1>4, <2>1 DEF n, d
  <2> QED
    BY <1>4, <1>5, <1>6, <2>1, <2>2 DEF IndicesGood, At
<1>8. CASE GiveUpOldest
  <2>1. /\ tail' = [tail EXCEPT ![wring] = IF full[wring] THEN Successor(@) ELSE @]
        /\ UNCHANGED <<full, wring>> /\ wpc = "tail" /\ wpc' = "head" /\ Puts(r)' = Puts(r)
    BY <1>8, PutsStep DEF GiveUpOldest, WriterAt
  <2>2. Kept(r)' = Kept(r) /\ n = Kept(r) /\ full[r] = (Kept(r) = Max)
    BY <1>4, <1>5, <2>1 DEF n, d
  <2>3. CASE r = wring /\ Kept(r) = Max
    <3>1. tail'[r] = Successor(At(Puts(r) - Max))
      BY <1>5, <1>6, <2>1, <2>2, <2>3
    <3>2. Puts(r) - Max \in Nat /\ (Puts(r) - Max) + 1 = Puts(r) - (Max - 1)
      BY <1>6, <2>3
    <3>3. tail'[r] = At(Puts(r) - (Max - 1))
      BY <3>1, <3>2, SuccessorAt
    <3> QED
      BY <1>4, <1>6, <2>1, <2>2, <2>3, <3>3 DEF IndicesGood, At
  <2>4. CASE ~(r = wring /\ Kept(r) = Max)
    <3>1. tail'[r] = At(Puts(r) - Kept(r))
      BY <1>5, <1>6, <2>1, <2>2, <2>4
    <3> QED
      BY <1>4, <1>6, <2>1, <2>2, <2>4, <3>1 DEF IndicesGood, At
  <2> QED
    BY <2>3, <2>4
<1>9. CASE AdvanceHead
  <2>1. UNCHANGED <<tail, full, wring>> /\ wpc = "head" /\ wpc' = "full"
    BY <1>9 DEF AdvanceHead, WriterAt
  <2>2. CASE r = wring
    <3>1. Puts(r)' = Puts(r) + 1
      BY <2>1, <2>2, PutsStep
    <3>2. /\ Kept(r)' = IF Kept(r) = Max THEN Max ELSE Kept(r) + 1
          /\ Kept(r)' >= 0 /\ Puts(r)' - Kept(r)' = Puts(r) - n
      <4>1. n = IF Kept(r) = Max THEN Max - 1 ELSE Kept(r)
        BY <2>1, <2>2 DEF n
      <4>2. /\ Kept(r) = IF d < Max THEN d ELSE Max
            /\ Kept(r)' = IF d + 1 < Max THEN d + 1 ELSE Max
        <5>1. seen[r[1]] \in Nat /\ Puts(r) + 1 - seen[r[1]] = d + 1
          BY <1>6, CountsAre DEF d
        <5> QED
          BY <1>4, <1>6, <3>1, <5>1 DEF Lesser
      <4> QED
        BY <1>6, <3>1, <4>1, <4>2
    <3> QED
      BY <1>4, <1>5, <2>1, <2>2, <3>2 DEF IndicesGood, At
  <2>3. CASE r # wring
    <3>1. Puts(r)' = Puts(r) /\ Kept(r)' = Kept(r) /\ n = Kept(r)
      BY <1>4, <2>1, <2>3, PutsStep DEF n, d
    <3> QED
      BY <1>4, <1>5, <1>6, <2>1, <2>3, <3>1 DEF IndicesGood, At
  <2> QED
    BY <2>2, <2>3
<1>10. CASE MarkFull
  <2>1. /\ full' = [full EXCEPT ![wring] = head[wring] = tail[wring]] /\ UNCHANGED <<head, tail>>
        /\ wpc = "full" /\ wpc' \in {"store", "loop"} /\ Puts(r)' = Puts(r)
    BY <1>10, PutsStep DEF MarkFull, NextPut, WriterAt
  <2>2. Kept(r)' = Kept(r) /\ n = Kept(r)
    BY <1>4, <2>1 DEF n, d
  <2>3. full'[r] = (Kept(r) = Max)
    <3>1. CASE r = wring
      <4>1. Kept(r) > 0 /\ Puts(r) - Kept(r) \in Nat
        BY <1>4, <1>6, <2>1, <3>1 DEF Lesser
      <4>2. head[r] = At((Puts(r) - Kept(r)) + Kept(r)) /\ tail[r] = At(Puts(r) - Kept(r))
        BY <1>5, <1>6, <2>2 DEF WriterInv, HeadIsPuts
      <4>3. (head[r] = tail[r]) = (Kept(r) = Max)
        BY <1>6, <4>1, <4>2, AtDistance
      <4> QED
        BY <1>6, <2>1, <3>1, <4>3
    <3>2. CASE r # wring
      BY <1>5, <1>6, <2>1, <3>2
    <3> QED
      BY <3>1, <3>2
  <2> QED
    BY <1>4, <1>5, <1>6, <2>1, <2>2, <2>3 DEF IndicesGood, At
<1>11. ~Collect
  BY DEF Collect, WriterAt
<1> QED
  BY <1>7, <1>8, <1>9, <1>10, <1>11 DEF WriterStep

LEMMA WriterSound ==
  TypeInv /\ WriterInv /\ Undisturbed /\ SoundIsGood /\ WriterStep => SoundIsGood'
BY WriterElsewhere, WriterHere DEF SoundIsGood

(* The rings of the pair that is not being reported.                       *)
LEMMA ReaderElsewhere ==
  ASSUME NEW r \in Rings, Good(r), UNCHANGED <<writer, tail[r], full[r], seen[r[1]]>>,
         ~Reporting(r[1]), ~Reporting(r[1])'
  PROVE  Good(r)'
<1>1. /\ Puts(r)' = Puts(r) /\ UNCHANGED <<wpc, wring>>
      /\ \A at : ~Reading(r, at) /\ ~Reading(r, at)'
  BY PutsStay DEF writer, Reading
<1>2. Taken(r) = 0 /\ Taken(r)' = 0
  BY DEF Taken
<1>3. Kept(r)' = Kept(r)
  BY <1>1, <1>2 DEF Kept, Lesser
<1>4. IndicesGood(r)'
  BY <1>1, <1>3 DEF Good, IndicesGood, At
<1> QED
  BY <1>4 DEF Good, ReportGood

(* A size read beside no put is that of the values put since the report    *)
(* before.                                                                 *)
LEMMA SizeSound ==
  ASSUME TypeInv, WriterInv, Undisturbed, ReadSize, NEW r \in Rings, Sound(r)', r[1] = pair, Good(r)
  PROVE  Good(r)'
<1> USE StatsAssumption DEF StatsAssumption
<1> DEFINE p == r[1]
           c == Count(p)
<1>1. /\ rpc = "size" /\ todo' = SizeOf(<<p, 1>>) /\ added' = <<<<>>, <<>>>> /\ turn' = 1
      /\ rpc' \in {"get", "end"} /\ UNCHANGED <<writer, head, tail, full, pair, lapsed, seen>>
      /\ MidPut(p) => p \in overlap' /\ p \in ever'
  BY DEF ReadSize, ring
<1>2. Reporting(p)' /\ ~Reporting(p)
  BY <1>1 DEF Reporting
<1>3. ~MidPut(p)
  BY <1>1, <1>2 DEF Sound
<1>4. Puts(r) = Flushed(p) /\ Puts(r)' = Puts(r) /\ Flushed(p)' = Flushed(p) /\ c' = c
  BY <1>1, <1>3, PutsAre, PutsStay DEF Count, Lesser
<1>5. Len(added'[1]) = 0 /\ Len(added'[2]) = 0 /\ TurnOf(r) \in {1, 2} /\ TurnOf(r)' = TurnOf(r)
  BY <1>1, RingFacts, NoneAdded DEF TurnOf
<1>6. c \in 0 .. Max /\ Puts(r) \in Nat /\ c <= Puts(r)
  BY <1>4, CountsAre
<1>7. Kept(r) = c /\ Kept(r)' = c
  <2>1. Taken(r) = 0 /\ Taken(r)' = 0
    BY <1>2, <1>5 DEF Taken
  <2>2. Lesser(Puts(r) - seen[p], Max) = c /\ Lesser(Puts(r)' - seen'[p], Max) = c
    BY <1>1, <1>4 DEF Count, Lesser
  <2> QED
    BY <1>6, <2>1, <2>2 DEF Kept
<1>8. ~(r = wring /\ wpc \in {"head", "full"})
  BY <1>3 DEF MidPut, WriterAt
<1>9. tail[r] = At(Puts(r) - c) /\ full[r] = (c = Max)
  BY <1>1, <1>7, <1>8 DEF Good, IndicesGood, Reading
<1> HIDE DEF c
<1>10. IndicesGood(r)'
  BY <1>1, <1>4, <1>6, <1>7, <1>8, <1>9 DEF IndicesGood, Reading, At, writer
<1>11. ASSUME r[2] = 1 PROVE todo' = c
  <2>1. r = <<p, 1>>
    BY <1>11, RingFacts
  <2>2. todo' = IF full[r] THEN Max ELSE Distance(head[r], tail[r])
    BY <1>1, <2>1, SizeIs
  <2>3. head[r] = At((Puts(r) - c) + c) /\ Puts(r) - c \in Nat
    BY <1>6 DEF WriterInv, HeadIsPuts
  <2> QED
    <3>1. c < Max => Distance(head[r], tail[r]) = c
      BY <1>6, <1>9, <2>3, AtDistance
    <3>2. CASE c = Max
      BY <1>9, <2>2, <3>2
    <3>3. CASE c # Max
      <4>1. c < Max
        BY <1>6, <3>3
      <4>2. ~full[r]
        BY <1>9, <3>3, Zenon
      <4> QED
        BY <2>2, <3>1, <4>1, <4>2
    <3> QED
      BY <3>2, <3>3
<1>12. ReportGood(r)'
  <2>1. Len(added'[TurnOf(r)]) = 0 /\ 0 <= c /\ c - Len(added'[2]) = c
    BY <1>5, <1>6
  <2> QED
    <3>1. Count(r[1])' = c
      BY <1>4 DEF c
    <3>2. rpc' \notin {"full", "tail"}
      BY <1>1
    <3>3. ~Reading(r, "full")' /\ ~Reading(r, "tail")'
      BY <3>2 DEF Reading
    <3>4. Len(added[TurnOf(r)])' = 0
      BY <2>1
    <3> QED
      BY <1>11, <2>1, <3>1, <3>3, <3>4 DEF ReportGood
<1> QED
  BY <1>10, <1>12 DEF Good

(* A get of the other ring of the pair. *)
LEMMA GetElsewhere ==
  ASSUME TypeInv, Undisturbed, SoundIsGood, NEW r \in Rings, Sound(r),
         GetNone \/ GetCell \/ ClearFull \/ RetreatTail, pair = r[1], turn # TurnOf(r)
  PROVE  Good(r)'
<1> DEFINE p == r[1]
           n == TurnOf(r)
<1>1. r # RingOf(pair, turn) /\ n \in {1, 2} /\ turn \in {1, 2} /\ n = 3 - turn /\ TurnOf(r)' = n
  BY RingFacts DEF TypeInv, TypeOK, TurnOf
<1>2. tail'[r] = tail[r] /\ full'[r] = full[r] /\ UNCHANGED writer
  BY <1>1, ReaderEffects DEF ReaderStep
<1>3. /\ pair' = pair /\ seen' = seen /\ rpc \in {"get", "full", "tail"}
      /\ Reporting(p) /\ Reporting(p)' /\ (\A at \in {"full", "tail"} : ~Reading(r, at)')
      /\ added'[n] = added[n] /\ todo' + Len(added'[2]) = todo + Len(added[2])
      /\ Len(added'[2]) \in Nat /\ todo' \in Nat
  <2>1. /\ added \in [{1, 2} -> Seq(Samples)] /\ value \in Samples /\ todo \in Nat
        /\ Len(added[2]) \in Nat
    BY StatsAssumption DEF TypeInv, TypeOK, AddedOK, StatsAssumption
  <2>2. CASE GetCell \/ ClearFull
    <3>1. /\ UNCHANGED <<pair, seen, turn, added, todo>>
          /\ rpc \in {"get", "full", "tail"} /\ rpc' \in {"get", "full", "tail"}
      BY <2>2 DEF GetCell, ClearFull, history
    <3> QED
      BY <1>1, <2>1, <3>1 DEF Reporting, Reading
  <2>3. CASE GetNone \/ RetreatTail
    <3>1. Add(value) /\ UNCHANGED <<pair, seen>> /\ rpc \in {"get", "tail"}
      BY <2>3 DEF GetNone, RetreatTail, history
    <3>2. /\ rpc' \in {"get", "end"} /\ added'[3 - turn] = added[3 - turn]
          /\ Len(added'[turn]) = Len(added[turn]) + 1 /\ todo' \in 0 .. Max
      BY <2>1, <3>1, AddKeeps
    <3>3. todo' = IF turn = 2 THEN todo - 1 ELSE todo
      BY <3>1 DEF Add
    <3>4. CASE turn = 1
      BY <1>1, <2>1, <3>1, <3>2, <3>3, <3>4 DEF Reporting, Reading
    <3>5. CASE turn = 2
      <4>1. n = 1 /\ 3 - turn = 1 /\ added'[1] = added[1] /\ Len(added'[2]) = Len(added[2]) + 1
        BY <1>1, <3>2, <3>5
      <4>2. turn' = 1 /\ todo' = todo - 1
        BY <3>1, <3>3, <3>5 DEF Add
      <4> QED
        BY <1>1, <2>1, <3>1, <3>2, <4>1, <4>2 DEF Reporting, Reading
    <3> QED
      BY <1>1, <3>4, <3>5
  <2> QED
    BY <2>2, <2>3
<1>4. Good(r) /\ todo = Count(p) - Len(added[2]) /\ (\A at : ~Reading(r, at))
  BY <1>3, SoundReport DEF Reading
<1>5. /\ Puts(r)' = Puts(r) /\ Count(p)' = Count(p) /\ Flushed(p)' = Flushed(p)
      /\ Count(p) \in Nat /\ Len(added[2]) \in Nat /\ todo \in Nat
  <2>1. Count(p) \in Nat /\ Len(added[2]) \in Nat /\ todo \in Nat
    BY CountsAre, StatsAssumption DEF TypeInv, TypeOK, AddedOK, StatsAssumption
  <2> QED
    BY <1>2, <1>3, <2>1, PutsStay DEF Count, Lesser
<1>6. Kept(r)' = Kept(r)
  BY <1>1, <1>3, <1>5 DEF Kept, Taken, Lesser
<1>7. IndicesGood(r)'
  BY <1>2, <1>3, <1>4, <1>5, <1>6 DEF Good, IndicesGood, At, writer
<1>8. todo' = Count(p) - Len(added'[2])
  BY <1>3, <1>4, <1>5
<1>9. ReportGood(r)'
  BY <1>1, <1>3, <1>4, <1>5, <1>6, <1>8 DEF Good, ReportGood
<1> QED
  BY <1>7, <1>9 DEF Good

(* A get of the ring itself, from looking at it to moving its tail.        *)
LEMMA GetHere ==
  ASSUME TypeInv, WriterInv, Undisturbed, SoundIsGood, NEW r \in Rings, Sound(r),
         GetNone \/ GetCell \/ ClearFull \/ RetreatTail, pair = r[1], turn = TurnOf(r)
  PROVE  Good(r)'
<1> USE StatsAssumption DEF StatsAssumption
<1> DEFINE p == r[1]
           n == TurnOf(r)
           c == Count(p)
<1>1. /\ RingOf(pair, turn) = r /\ n \in {1, 2} /\ TurnOf(r)' = n /\ p \in Pairs
      /\ tail \in [Rings -> Cells] /\ full \in [Rings -> BOOLEAN] /\ value \in Samples
      /\ added \in [{1, 2} -> Seq(Samples)] /\ todo \in Nat
  BY RingFacts DEF TypeInv, TypeOK, AddedOK, TurnOf
<1>2. /\ pair' = pair /\ UNCHANGED <<cells, head, seen, writer>>
      /\ rpc \in {"get", "full", "tail"} /\ Reporting(p) /\ Reporting(p)'
  <2>1. ReaderStep
    BY DEF ReaderStep
  <2>2. UNCHANGED <<cells, head, writer>>
    BY <2>1, ReaderEffects
  <2> QED
    BY <2>2 DEF GetNone, GetCell, ClearFull, RetreatTail, Reporting, Add, history
<1>3. /\ ~MidPut(p) /\ Good(r) /\ Puts(r) = Flushed(p) /\ Stored(r) = Puts(r)
      /\ Kept(r) = c - Len(added[n]) /\ Kept(r) \in 0 .. Max /\ Kept(r) > 0
      /\ todo = c - Len(added[2])
  BY <1>2, SoundReport
<1>4. /\ Puts(r) \in Nat /\ c \in 0 .. Max /\ c <= Puts(r) /\ Len(added[n]) \in Nat
      /\ Len(added[2]) \in Nat /\ Puts(r) - Kept(r) \in Nat
  <2>1. /\ Puts(r) \in Nat /\ c \in 0 .. Max /\ c <= Puts(r) /\ Len(added[n]) \in Nat
        /\ Len(added[2]) \in Nat
    BY <1>1, <1>3, CountsAre
  <2> QED
    BY <1>3, <2>1
<1>5. /\ Puts(r)' = Puts(r) /\ Flushed(p)' = Flushed(p) /\ c' = c
      /\ wpc' = wpc /\ wring' = wring /\ ~(r = wring /\ wpc \in {"head", "full"})
  <2>1. Puts(r)' = Puts(r) /\ Flushed(p)' = Flushed(p)
    BY <1>2, PutsStay
  <2>2. ~(r = wring /\ wpc \in {"head", "full"})
    BY <1>3 DEF MidPut, WriterAt
  <2> QED
    BY <1>2, <2>1, <2>2 DEF Count, Lesser, writer
<1>6. /\ tail[r] = At(Puts(r) - Kept(r))
      /\ full[r] = (Kept(r) = Max /\ ~Reading(r, "tail"))
  BY <1>3, <1>5 DEF Good, IndicesGood
<1>7. /\ \A i \in 1 .. Len(added[n]) : added[n][i] = <<r, Flushed(p) - c + i>>
      /\ Reading(r, "full") \/ Reading(r, "tail") => value = <<r, Puts(r) - Kept(r) + 1>>
  BY <1>2, <1>3 DEF Good, ReportGood
<1>8. Kept(r)' = c - Len(added'[n])
  BY <1>1, <1>2, <1>3, <1>5 DEF Kept, Taken, Count
<1>9. \A at : (Reading(r, at) <=> rpc = at) /\ (Reading(r, at)' <=> turn' = n /\ rpc' = at)
  BY <1>1, <1>2 DEF Reading
<1> HIDE DEF c
<1>10. ~GetNone
  <2> SUFFICES ASSUME rpc = "get", Empty(r) PROVE FALSE
    BY <1>1 DEF GetNone
  <2>1. ~full[r] /\ head[r] = tail[r]
    BY DEF Empty
  <2>2. Kept(r) # Max
    BY <1>6, <1>9, <2>1
  <2>3. head[r] = At((Puts(r) - Kept(r)) + Kept(r))
    <3>1. head[r] = At(Puts(r))
      BY DEF WriterInv, HeadIsPuts
    <3>2. Puts(r) \in Int /\ Kept(r) \in Int
      BY <1>3, <1>4
    <3>3. (Puts(r) - Kept(r)) + Kept(r) = Puts(r)
      BY <3>2
    <3> QED
      BY <3>1, <3>3
  <2> QED
    BY <1>3, <1>4, <1>6, <2>1, <2>2, <2>3, AtDistance
<1>11. CASE GetCell
  <2>1. /\ rpc = "get" /\ rpc' = "full" /\ value' = <<r, cells[r][tail[r]]>>
        /\ UNCHANGED <<tail, full, turn, todo, added>>
    BY <1>1, <1>11 DEF GetCell, ring
  <2>2. Kept(r)' = Kept(r)
    BY <1>3, <1>8, <2>1
  <2>3. cells[r][tail[r]] = Puts(r) - Kept(r) + 1
    <3> DEFINE k == Puts(r) - Kept(r) + 1
    <3>1. k \in 1 .. Stored(r) /\ k > Stored(r) - Max /\ k - 1 = Puts(r) - Kept(r)
      BY <1>3, <1>4
    <3> QED
      BY <1>6, <3>1 DEF WriterInv, CellsHold
  <2>4. IndicesGood(r)'
    BY <1>3, <1>5, <1>6, <1>9, <2>1, <2>2 DEF IndicesGood, At
  <2>5. ReportGood(r)'
    <3>1. Len(added[n]) <= c
      BY <1>3, <1>4
    <3> QED
      BY <1>1, <1>3, <1>5, <1>7, <2>1, <2>2, <2>3, <3>1 DEF ReportGood, c
  <2> QED
    BY <2>4, <2>5 DEF Good
<1>12. CASE ClearFull
  <2>1. /\ rpc = "full" /\ rpc' = "tail" /\ full' = [full EXCEPT ![r] = FALSE]
        /\ UNCHANGED <<tail, value, turn, todo, added>>
    BY <1>1, <1>12 DEF ClearFull
  <2>2. Kept(r)' = Kept(r)
    BY <1>3, <1>8, <2>1
  <2>3. full'[r] = FALSE /\ Reading(r, "tail")' /\ Reading(r, "full")
    BY <1>1, <1>9, <2>1
  <2>4. IndicesGood(r)'
    <3>1. full'[r] = (Kept(r)' = Max /\ ~Reading(r, "tail")')
      BY <2>3, Zenon
    <3>2. tail'[r] = At(Puts(r)' - Kept(r)') /\ Kept(r)' >= 0
      BY <1>3, <1>5, <1>6, <2>1, <2>2
    <3> QED
      BY <1>5, <3>1, <3>2 DEF IndicesGood, At
  <2>5. ReportGood(r)'
    <3>1. Len(added[n]) <= c
      BY <1>3, <1>4
    <3> QED
      BY <1>1, <1>3, <1>5, <1>7, <2>1, <2>2, <2>3, <3>1 DEF ReportGood, c
  <2> QED
    BY <2>4, <2>5 DEF Good
<1>13. CASE RetreatTail
  <2>1. /\ rpc = "tail" /\ tail' = [tail EXCEPT ![r] = Successor(@)] /\ full' = full
        /\ value' = value /\ Add(value)
    BY <1>1, <1>13 DEF RetreatTail
  <2>2. /\ rpc' \in {"get", "end"} /\ added'[n] = Append(added[n], value)
        /\ Len(added'[n]) = Len(added[n]) + 1 /\ added'[3 - n] = added[3 - n]
        /\ todo' = IF n = 2 THEN todo - 1 ELSE todo
    <3>1. todo' = IF turn = 2 THEN todo - 1 ELSE todo
      BY <2>1 DEF Add
    <3> QED
      BY <1>1, <2>1, <3>1, AddKeeps
  <2>3. Kept(r)' = Kept(r) - 1
    BY <1>3, <1>4, <1>8, <2>2
  <2>4. tail'[r] = At(Puts(r) - (Kept(r) - 1))
    <3>1. tail'[r] = Successor(At(Puts(r) - Kept(r)))
      BY <1>1, <1>6, <2>1
    <3>2. (Puts(r) - Kept(r)) + 1 = Puts(r) - (Kept(r) - 1)
      BY <1>3, <1>4
    <3> QED
      BY <1>4, <3>1, <3>2, SuccessorAt
  <2>5. full'[r] = FALSE /\ Kept(r) - 1 # Max
    <3>1. Reading(r, "tail")
      BY <1>9, <2>1
    <3>2. full[r] = FALSE
      BY <1>6, <3>1, Zenon
    <3> QED
      BY <1>3, <2>1, <3>2
  <2>6. IndicesGood(r)'
    <3>1. full'[r] = (Kept(r)' = Max /\ ~Reading(r, "tail")')
      BY <2>3, <2>5, Zenon
    <3>2. tail'[r] = At(Puts(r)' - Kept(r)') /\ Kept(r)' >= 0
      BY <1>3, <1>5, <2>3, <2>4
    <3> QED
      BY <1>5, <3>1, <3>2 DEF IndicesGood, At
  <2>7. added'[n][Len(added[n]) + 1] = <<r, Flushed(p) - c + (Len(added[n]) + 1)>>
    <3>1. value = <<r, Puts(r) - Kept(r) + 1>>
      BY <1>7, <1>9, <2>1
    <3>2. Puts(r) - Kept(r) + 1 = Flushed(p) - c + (Len(added[n]) + 1)
      BY <1>3, <1>4
    <3>3. added'[n][Len(added[n]) + 1] = value
      BY <1>1, <2>2
    <3> QED
      BY <3>1, <3>2, <3>3
  <2>8. \A i \in 1 .. Len(added'[n]) : added'[n][i] = <<r, Flushed(p) - c + i>>
    <3> SUFFICES ASSUME NEW i \in 1 .. Len(added[n]) + 1
                 PROVE  added'[n][i] = <<r, Flushed(p) - c + i>>
      BY <2>2
    <3>1. CASE i = Len(added[n]) + 1
      BY <2>7, <3>1
    <3>2. CASE i # Len(added[n]) + 1
      <4>1. i \in 1 .. Len(added[n])
        BY <1>4, <3>2
      <4>2. added'[n][i] = added[n][i]
        BY <1>1, <2>2, <4>1
      <4> QED
        BY <1>7, <4>1, <4>2
    <3> QED
      BY <3>1, <3>2
  <2>9. Len(added'[n]) <= c /\ todo' = c - Len(added'[2])
    <3>1. Len(added'[n]) <= c
      BY <1>3, <1>4, <2>2
    <3>2. CASE n = 2
      <4>1. todo' = todo - 1 /\ Len(added'[2]) = Len(added[2]) + 1
        BY <2>2, <3>2
      <4> QED
        BY <1>3, <1>4, <3>1, <4>1
    <3>3. CASE n = 1
      <4>1. todo' = todo /\ added'[2] = added[2]
        BY <2>2, <3>3
      <4> QED
        BY <1>3, <3>1, <4>1
    <3> QED
      BY <1>1, <3>1, <3>2, <3>3
  <2>10. ReportGood(r)'
    <3>1. ~Reading(r, "full")' /\ ~Reading(r, "tail")'
      BY <1>9, <2>2
    <3>2. Count(r[1])' = c
      BY <1>5 DEF c
    <3> QED
      BY <1>1, <1>5, <2>8, <2>9, <3>1, <3>2 DEF ReportGood
  <2> QED
    BY <2>6, <2>10 DEF Good
<1> QED
  BY <1>10, <1>11, <1>12, <1>13

(* A report that ends beside no put has taken everything.                  *)
LEMMA EndSound ==
  ASSUME TypeInv, WriterInv, Undisturbed, Draining, SoundIsGood, EndPair,
         NEW r \in Rings, Sound(r)', r[1] = pair
  PROVE  Good(r)'
<1> USE StatsAssumption DEF StatsAssumption
<1> DEFINE p == r[1]
<1>1. /\ rpc = "end" /\ rpc' \in {"size", "sleep"} /\ seen' = [seen EXCEPT ![pair] = Flushed(pair)]
      /\ lapsed' = (lapsed \ {pair}) \cup (overlap \cap {pair})
      /\ UNCHANGED <<cells, head, tail, full, writer, overlap, ever>>
      /\ p \in Pairs /\ seen \in [Pairs -> Numbers]
  BY RingFacts DEF EndPair, ring, TypeInv, TypeOK
<1>2. Reporting(p) /\ ~Reporting(p)'
  BY <1>1 DEF Reporting
<1>3. p \notin overlap /\ (r[2] = 1 \/ p \notin ever)
  BY <1>1 DEF Sound, Undisturbed
<1>4. ~MidPut(p) /\ Puts(r) = Flushed(p) /\ Puts(r) \in Nat /\ Puts(r)' = Puts(r)
  BY <1>1, <1>2, <1>3, PutsAre, PutsStay DEF Undisturbed
<1>5. ~(r = wring /\ wpc \in {"head", "full"}) /\ wpc' = wpc /\ wring' = wring
  BY <1>1, <1>4 DEF MidPut, WriterAt, writer
<1>6. tail[r] = At(Puts(r)) /\ full[r] = FALSE
  <2>1. CASE r[2] = 1
    <3>1. r = <<pair, 1>>
      BY <2>1, RingFacts
    <3>2. ~full[r] /\ head[r] = tail[r] /\ full[r] \in BOOLEAN
      BY <1>1, <1>3, <3>1, Drained DEF TypeInv, TypeOK
    <3> QED
      BY <3>2 DEF WriterInv, HeadIsPuts
  <2>2. CASE p \notin ever
    <3>1. Sound(r)
      BY <2>2 DEF Sound
    <3>2. Kept(r) = 0 /\ Good(r)
      BY <1>1, <1>2, <3>1, SoundReport
    <3>3. Puts(r) - 0 = Puts(r) /\ Kept(r) # Max
      BY <1>4, <3>2
    <3> QED
      BY <1>5, <3>2, <3>3 DEF Good, IndicesGood
  <2> QED
    BY <1>3, <2>1, <2>2
<1>7. Kept(r)' = 0
  <2>1. seen'[p] = Puts(r)' /\ Puts(r)' \in Nat /\ Taken(r)' = 0
    BY <1>1, <1>2, <1>4 DEF Taken
  <2> QED
    BY <2>1 DEF Kept, Lesser
<1>8. Puts(r)' - 0 = Puts(r) /\ Kept(r)' # Max /\ 0 <= 0
  BY <1>4, <1>7
<1>9. IndicesGood(r)'
  BY <1>1, <1>5, <1>6, <1>7, <1>8 DEF IndicesGood, At
<1> QED
  BY <1>2, <1>9 DEF Good, ReportGood

LEMMA ReaderSound ==
  TypeInv /\ WriterInv /\ Undisturbed /\ Draining /\ SoundIsGood /\ ReaderStep => SoundIsGood'
<1> SUFFICES ASSUME TypeInv, WriterInv, Undisturbed, Draining, SoundIsGood, ReaderStep,
                    NEW r \in Rings, Sound(r)'
             PROVE  Good(r)'
  BY DEF SoundIsGood
<1>1. /\ UNCHANGED writer /\ pair \in Pairs /\ turn \in {1, 2}
      /\ RingOf(pair, turn) = r <=> r[1] = pair /\ TurnOf(r) = turn
  BY ReaderEffects, RingFacts DEF TypeInv, TypeOK
<1>2. CASE WakeUp
  <2>1. Sound(r) /\ UNCHANGED <<tail, full, seen>> /\ ~Reporting(r[1]) /\ ~Reporting(r[1])'
    BY <1>2 DEF WakeUp, Sound, Reporting, ring
  <2> QED
    BY <1>1, <2>1, ReaderElsewhere DEF SoundIsGood
<1>3. CASE ReadSize
  <2>1. Sound(r) /\ UNCHANGED <<tail, full, seen>> /\ ~Reporting(r[1])
    BY <1>3 DEF ReadSize, Sound, Reporting, ring
  <2>2. CASE r[1] = pair
    BY <1>3, <2>1, <2>2, SizeSound DEF SoundIsGood
  <2>3. CASE r[1] # pair
    <3>1. ~Reporting(r[1])'
      BY <1>3, <2>3 DEF ReadSize, Reporting
    <3> QED
      BY <1>1, <2>1, <3>1, ReaderElsewhere DEF SoundIsGood
  <2> QED
    BY <2>2, <2>3
<1>4. CASE GetNone \/ GetCell \/ ClearFull \/ RetreatTail
  <2>1. /\ UNCHANGED <<pair, overlap, lapsed, ever, seen>>
        /\ rpc \in {"get", "full", "tail"} /\ rpc' \in {"get", "full", "tail", "end"}
    BY <1>4 DEF GetNone, GetCell, ClearFull, RetreatTail, Add, history
  <2>2. Sound(r)
    BY <2>1 DEF Sound, Reporting
  <2>3. CASE r[1] # pair
    <3>1. tail'[r] = tail[r] /\ full'[r] = full[r] /\ ~Reporting(r[1]) /\ ~Reporting(r[1])'
      BY <1>1, <2>1, <2>3, ReaderEffects DEF Reporting
    <3> QED
      BY <1>1, <2>1, <2>2, <3>1, ReaderElsewhere DEF SoundIsGood
  <2>4. CASE r[1] = pair
    BY <1>4, <2>2, <2>4, GetElsewhere, GetHere
  <2> QED
    BY <2>3, <2>4
<1>5. CASE EndPair
  <2>1. CASE r[1] = pair
    BY <1>5, <2>1, EndSound
  <2>2. CASE r[1] # pair
    <3>1. /\ UNCHANGED <<tail, full, overlap, ever>> /\ seen'[r[1]] = seen[r[1]]
          /\ r[1] \in lapsed' <=> r[1] \in lapsed
          /\ ~Reporting(r[1]) /\ ~Reporting(r[1])'
      BY <1>5, <2>2, RingFacts DEF EndPair, Reporting, ring, TypeInv, TypeOK
    <3>2. Sound(r)
      BY <3>1 DEF Sound
    <3> QED
      BY <1>1, <3>1, <3>2, ReaderElsewhere DEF SoundIsGood
  <2> QED
    BY <2>1, <2>2
<1> QED
  BY <1>2, <1>3, <1>4, <1>5 DEF ReaderStep

LEMMA StutterSound == SoundIsGood /\ UNCHANGED vars => SoundIsGood'
<1> SUFFICES ASSUME SoundIsGood, UNCHANGED vars, NEW r \in Rings, Sound(r)'
             PROVE  Good(r)'
  BY DEF SoundIsGood
<1>1. UNCHANGED <<cells, head, tail, full, wpc, wring, temp, flushed, rpc, pair, turn, todo,
                  value, added, overlap, lapsed, ever, seen, writer>>
  BY StutterUnchanged DEF writer
<1>2. Puts(r)' = Puts(r) /\ Flushed(r[1])' = Flushed(r[1]) /\ TurnOf(r)' = TurnOf(r)
  BY <1>1, PutsStay DEF TurnOf
<1>3. Good(r)
  BY <1>1 DEF Sound, Reporting, SoundIsGood
<1>4. Kept(r)' = Kept(r) /\ Count(r[1])' = Count(r[1])
  BY <1>1, <1>2 DEF Kept, Taken, Count, Reporting, Lesser
<1> QED
  BY <1>1, <1>2, <1>3, <1>4 DEF Good, IndicesGood, ReportGood, Reading, Reporting, At

-----------------------------------------------------------------------------
(***************************************************************************)
(* The reports.                                                            *)
(***************************************************************************)
LEMMA Invariant == Spec => []Inv
<1>1. Init => Inv
  BY InitTypeInv, InitWriterInv, InitUndisturbed, InitDraining, InitSoundIsGood DEF Inv
<1>2. Inv /\ [Next]_vars => Inv'
  BY NextTypeInv, NextWriterInv, NextUndisturbed, NextDraining, WriterSound, ReaderSound,
     StutterSound DEF Inv, Next
<1> QED
  BY <1>1, <1>2, PTL DEF Spec

LEMMA SoundIsExact ==
  ASSUME Inv, NEW n \in {1, 2}, rpc = "end", Sound(RingOf(pair, n))
  PROVE  Exact(n)
<1> DEFINE r == RingOf(pair, n)
           p == pair
<1>1. r \in Rings /\ r[1] = p /\ TurnOf(r) = n /\ p \in Pairs
  BY RingFacts DEF Inv, TypeInv, TypeOK
<1>2. Reporting(p)
  BY <1>1 DEF Reporting
<1>3. Good(r) /\ Len(added[1]) = Count(p) /\ Len(added[2]) = Count(p)
  BY <1>1, <1>2, SoundReport DEF Inv
<1>4. \A i \in 1 .. Count(p) : added[n][i] = <<r, Flushed(p) - Count(p) + i>>
  BY <1>1, <1>2, <1>3 DEF Good, ReportGood
<1>5. added[n] = [i \in 1 .. Count(p) |-> added[n][i]]
  <2>1. added[n] \in Seq(Samples) /\ Len(added[n]) = Count(p)
    BY <1>3 DEF Inv, TypeInv, AddedOK
  <2> QED
    BY <2>1
<1>6. Due(p, n) = [i \in 1 .. Count(p) |-> <<r, Flushed(p) - Count(p) + i>>]
  BY DEF Due, Count, Lesser
<1> HIDE DEF r
<1> QED
  BY <1>4, <1>5, <1>6 DEF Exact

(* As long as no report of a pair of rings has ever overlapped a flush of  *)
(* it, print_thread_stats adds up exactly the samples of the flushes since *)
(* the report before, oldest first, both sums over the same flushes.       *)
THEOREM Reports == Spec => []ReportExact
<1>1. Inv => ReportExact
  BY RingFacts, SoundIsExact DEF ReportExact, Sound, Inv, TypeInv, TypeOK
<1> QED
  BY <1>1, Invariant, PTL

(* Whatever the races did before, after one report that no flush overlaps  *)
(* the ring that gives the size of the report gives exact sums again.      *)
THEOREM Recovers == Spec => []SizedRingRecovers
<1>1. Inv => SizedRingRecovers
  <2> SUFFICES ASSUME Inv, rpc = "end", pair \notin overlap \cup lapsed
               PROVE  Exact(IF pair = 1 THEN 1 ELSE 2)
    BY DEF SizedRingRecovers
  <2> DEFINE n == IF pair = 1 THEN 1 ELSE 2
  <2>1. n \in {1, 2} /\ RingOf(pair, n) = <<pair, 1>>
    BY DEF RingOf, Inv, TypeInv, TypeOK, Pairs
  <2> QED
    BY <2>1, SoundIsExact DEF Sound
<1> QED
  BY <1>1, Invariant, PTL

=============================================================================
