------------------------ MODULE CircularBufferProofs ------------------------
(***************************************************************************)
(* The ring buffer implements the bounded log, for every number of cells   *)
(* and every set of samples.                                               *)
(***************************************************************************)
EXTENDS CircularBuffer, Sequences, SequenceTheorems, TLAPS

Inv == TypeOK /\ FullMeansMet

(* The cell of the i-th value of a ring whose oldest value is in cell t. *)
Place(t, i) == (t + i - 1) % Max

LEMMA SuccessorIs ==
    ASSUME NEW c \in Cells
    PROVE  /\ Successor(c) = IF c + 1 = Max THEN 0 ELSE c + 1
           /\ Successor(c) \in Cells
<1> USE MaxAssumption
<1>1. c \in Nat /\ c + 1 <= Max
  BY DEF Cells
<1>2. CASE c + 1 = Max
  BY <1>1, <1>2 DEF Successor, Cells
<1>3. CASE c + 1 < Max
  <2>1. (c + 1) % Max = c + 1
    BY <1>1, <1>3
  <2>2. QED BY <2>1, <1>1, <1>3 DEF Successor, Cells
<1>4. QED BY <1>1, <1>2, <1>3

(* One lap of the ring. *)
LEMMA PlaceIs ==
    ASSUME NEW t \in Cells, NEW i \in 1 .. Max
    PROVE  /\ Place(t, i) = IF t + i <= Max THEN t + i - 1 ELSE t + i - 1 - Max
           /\ Place(t, i) \in Cells
<1> USE MaxAssumption
<1>1. t \in Nat /\ t < Max /\ i \in Nat /\ i >= 1 /\ i <= Max
  BY DEF Cells
<1>2. CASE t + i <= Max
  <2>1. (t + i - 1) % Max = t + i - 1
    BY <1>1, <1>2
  <2>2. QED BY <2>1, <1>1, <1>2 DEF Place, Cells
<1>3. CASE ~(t + i <= Max)
  <2>1. (t + i - 1) % Max = t + i - 1 - Max
    BY <1>1, <1>3
  <2>2. QED BY <2>1, <1>1, <1>3 DEF Place, Cells
<1>4. QED BY <1>2, <1>3

(* Giving up the oldest value moves every other one up by one place. *)
LEMMA Shift ==
    ASSUME NEW t \in Cells, NEW i \in 1 .. Max - 1
    PROVE  Place(Successor(t), i) = Place(t, i + 1)
<1> USE MaxAssumption
<1>1. t \in Nat /\ t < Max /\ i \in 1 .. Max /\ i + 1 \in 1 .. Max
  BY DEF Cells
<1>2. Successor(t) \in Cells /\ Successor(t) = IF t + 1 = Max THEN 0 ELSE t + 1
  BY SuccessorIs
<1>3. Place(Successor(t), i) = IF Successor(t) + i <= Max THEN Successor(t) + i - 1
                               ELSE Successor(t) + i - 1 - Max
  BY <1>1, <1>2, PlaceIs
<1>4. Place(t, i + 1) = IF t + (i + 1) <= Max THEN t + (i + 1) - 1
                        ELSE t + (i + 1) - 1 - Max
  BY <1>1, PlaceIs
<1>5. QED BY <1>1, <1>2, <1>3, <1>4

(* What advance_pointer and retreat_pointer do to the three indices. *)
LEMMA AdvanceKeeps ==
    ASSUME Inv, AdvancePointer
    PROVE  head' \in Cells /\ tail' \in Cells /\ full' \in BOOLEAN /\ FullMeansMet'
<1>1. Successor(head) \in Cells /\ Successor(tail) \in Cells
  BY SuccessorIs DEF Inv, TypeOK
<1>2. QED BY <1>1 DEF Inv, TypeOK, AdvancePointer, FullMeansMet

LEMMA RetreatKeeps ==
    ASSUME Inv, RetreatPointer
    PROVE  tail' \in Cells /\ full' \in BOOLEAN /\ FullMeansMet'
<1>1. Successor(tail) \in Cells
  BY SuccessorIs DEF Inv, TypeOK
<1>2. QED BY <1>1 DEF Inv, TypeOK, RetreatPointer, FullMeansMet

LEMMA FirstCell == 0 \in Cells
BY MaxAssumption DEF Cells

LEMMA InvInit == Init => Inv
BY FirstCell DEF Init, Inv, TypeOK, FullMeansMet

LEMMA InvNext == Inv /\ [Next]_vars => Inv'
<1> SUFFICES ASSUME Inv, [Next]_vars PROVE Inv'
  OBVIOUS
<1>1. ASSUME NEW v \in Values, Put(v) PROVE Inv'
  BY <1>1, AdvanceKeeps DEF Inv, TypeOK, Put
<1>2. ASSUME NEW v \in Values, Put2Stores(v) PROVE Inv'
  BY <1>2, AdvanceKeeps DEF Inv, TypeOK, Put2Stores
<1>3. ASSUME NEW v \in Values, Put2Refuses(v) PROVE Inv'
  BY <1>3 DEF Inv, TypeOK, FullMeansMet, Put2Refuses
<1>4. CASE GetOldest
  <2>1. data' \in Values
    BY <1>4 DEF Inv, TypeOK, GetOldest
  <2>2. QED BY <1>4, <2>1, RetreatKeeps DEF Inv, TypeOK, GetOldest
<1>5. CASE GetNone
  BY <1>5 DEF Inv, TypeOK, FullMeansMet, GetNone
<1>6. CASE Reset
  BY <1>6, FirstCell DEF Inv, TypeOK, FullMeansMet, Reset
<1>7. CASE UNCHANGED vars
  BY <1>7 DEF Inv, TypeOK, FullMeansMet, vars
<1>8. QED BY <1>1, <1>2, <1>3, <1>4, <1>5, <1>6, <1>7 DEF Next

(* The indices stay inside the ring and the full flag says what the        *)
(* indices say, whatever calls are made in whatever order.                 *)
THEOREM FullRing == Spec => [](TypeOK /\ FullMeansMet)
<1>1. Spec => []Inv
  BY InvInit, InvNext, PTL DEF Spec
<1>2. QED BY <1>1, PTL DEF Inv

(* head and tail stay indices of cells: ringbuffer.c never reads or writes *)
(* past buffer.                                                            *)
THEOREM TypeCorrect == Spec => []TypeOK
BY FullRing, PTL

-----------------------------------------------------------------------------
(* circular_buf_size counts the values between the two indices, and the   *)
(* next value goes where none of the values is that stays.                 *)
SizeFacts ==
    /\ Size \in 0 .. Max
    /\ full <=> Size = Max
    /\ Empty <=> Size = 0
    /\ ~full => head = Place(tail, Size + 1)
    /\ ~full => \A i \in 1 .. Size : Place(tail, i) # head
    /\ full  => \A i \in 2 .. Max : Place(tail, i) # head

LEMMA SizeIs == Inv => SizeFacts
<1> USE MaxAssumption
<1> SUFFICES ASSUME Inv PROVE SizeFacts
  OBVIOUS
<1>1. /\ head \in Nat /\ head < Max
      /\ tail \in Nat /\ tail < Max
      /\ tail \in Cells /\ head \in Cells
      /\ full \in BOOLEAN /\ (full => head = tail)
  BY DEF Inv, TypeOK, FullMeansMet, Cells
<1>2. /\ Size \in 0 .. Max
      /\ full <=> Size = Max
      /\ Empty <=> Size = 0
  BY <1>1 DEF Size, Empty
<1>3. ASSUME ~full PROVE head = Place(tail, Size + 1)
  <2>1. Size + 1 \in 1 .. Max
    BY <1>2, <1>3
  <2>2. Place(tail, Size + 1) = IF tail + (Size + 1) <= Max THEN tail + (Size + 1) - 1
                                ELSE tail + (Size + 1) - 1 - Max
    BY <1>1, <2>1, PlaceIs
  <2>3. QED BY <1>1, <1>3, <2>2 DEF Size
<1>4. ASSUME ~full, NEW i \in 1 .. Size PROVE Place(tail, i) # head
  <2>1. i \in 1 .. Max
    BY <1>2
  <2>2. Place(tail, i) = IF tail + i <= Max THEN tail + i - 1 ELSE tail + i - 1 - Max
    BY <1>1, <2>1, PlaceIs
  <2>3. QED BY <1>1, <1>4, <2>1, <2>2 DEF Size
<1>5. ASSUME full, NEW i \in 2 .. Max PROVE Place(tail, i) # head
  <2>1. i \in 1 .. Max
    OBVIOUS
  <2>2. Place(tail, i) = IF tail + i <= Max THEN tail + i - 1 ELSE tail + i - 1 - Max
    BY <1>1, <2>1, PlaceIs
  <2>3. QED BY <1>1, <1>5, <2>1, <2>2
<1>6. QED BY <1>2, <1>3, <1>4, <1>5 DEF SizeFacts

(* Contents is a sequence: what the properties of Log are about.          *)
ContentsFacts ==
    /\ Contents \in Seq(Values)
    /\ Len(Contents) = Size
    /\ \A i \in 1 .. Size : Contents[i] = buffer[Place(tail, i)]

LEMMA ContentsIs == Inv => ContentsFacts
<1> SUFFICES ASSUME Inv PROVE ContentsFacts
  OBVIOUS
<1>1. Size \in 0 .. Max /\ Size \in Nat
  BY SizeIs, MaxAssumption DEF SizeFacts
<1>2. Contents = [i \in 1 .. Size |-> buffer[Place(tail, i)]]
  BY DEF Contents, Place
<1>3. ASSUME NEW i \in 1 .. Size PROVE buffer[Place(tail, i)] \in Values
  <2>1. i \in 1 .. Max
    BY <1>1, MaxAssumption
  <2>2. Place(tail, i) \in Cells
    BY <2>1, PlaceIs DEF Inv, TypeOK
  <2>3. QED BY <2>2 DEF Inv, TypeOK
<1>4. Contents \in [1 .. Size -> Values]
  BY <1>2, <1>3
<1>5. Contents \in Seq(Values)
  BY <1>1, <1>4, SeqDef
<1>6. Len(Contents) = Size
  BY <1>1, <1>4, <1>5, LenProperties
<1>7. QED BY <1>2, <1>5, <1>6 DEF ContentsFacts

LEMMA FactsNow  == Inv => SizeFacts /\ ContentsFacts
BY SizeIs, ContentsIs

LEMMA FactsNext == Inv' => (SizeFacts /\ ContentsFacts)'
BY FactsNow, PTL

-----------------------------------------------------------------------------
(* A value goes into a ring with room: it is appended.                     *)
LEMMA AppendStep ==
    ASSUME Inv, Inv', NEW v \in Values,
           ~full, buffer' = [buffer EXCEPT ![head] = v], AdvancePointer
    PROVE  Contents' = Append(Contents, v) /\ Len(Contents) < Max
<1> USE MaxAssumption
<1>1. SizeFacts /\ ContentsFacts /\ (SizeFacts /\ ContentsFacts)'
  BY FactsNow, FactsNext
<1>2. /\ tail' = tail /\ tail \in Cells /\ head \in Cells
      /\ buffer \in [Cells -> Values] /\ head' = Successor(head)
      /\ head' = IF head + 1 = Max THEN 0 ELSE head + 1
      /\ full' <=> head' = tail
  BY SuccessorIs DEF Inv, TypeOK, AdvancePointer
<1>3. Size' = Size + 1 /\ Size < Max /\ Size \in Nat
  BY <1>2 DEF Size, Cells
<1>4. /\ Append(Contents, v) \in Seq(Values)
      /\ Len(Append(Contents, v)) = Size + 1
      /\ \A i \in 1 .. Size : Append(Contents, v)[i] = Contents[i]
      /\ Append(Contents, v)[Size + 1] = v
  BY <1>1, AppendProperties DEF ContentsFacts
<1>5. ASSUME NEW i \in 1 .. Size + 1 PROVE Contents'[i] = Append(Contents, v)[i]
  <2>1. Contents'[i] = buffer'[Place(tail, i)]
    BY <1>1, <1>2, <1>3 DEF ContentsFacts
  <2>2. CASE i = Size + 1
    BY <1>1, <1>2, <1>4, <2>1, <2>2 DEF SizeFacts
  <2>3. CASE i \in 1 .. Size
    <3>1. Place(tail, i) \in Cells /\ Place(tail, i) # head
      BY <1>1, <1>2, <1>3, <2>3, PlaceIs DEF SizeFacts
    <3>2. buffer'[Place(tail, i)] = buffer[Place(tail, i)]
      BY <1>2, <3>1
    <3>3. QED BY <1>1, <1>4, <2>1, <2>3, <3>2 DEF ContentsFacts
  <2>4. i = Size + 1 \/ i \in 1 .. Size
    BY <1>3
  <2>5. QED BY <2>2, <2>3, <2>4
<1>6. Contents' \in Seq(Values) /\ Len(Contents') = Size + 1
  BY <1>1, <1>3 DEF ContentsFacts
<1>7. Contents' = Append(Contents, v)
  BY <1>4, <1>5, <1>6, SeqEqual
<1>8. QED BY <1>1, <1>3, <1>7 DEF ContentsFacts

(* A value is taken out: it was the head and the tail is left.             *)
LEMMA TailStep ==
    ASSUME Inv, Inv', ~Empty, UNCHANGED <<buffer, head>>, RetreatPointer
    PROVE  Contents' = Tail(Contents) /\ Contents # <<>> /\ buffer[tail] = Head(Contents)
<1> USE MaxAssumption
<1>1. SizeFacts /\ ContentsFacts /\ (SizeFacts /\ ContentsFacts)'
  BY FactsNow, FactsNext
<1>2. /\ tail' = Successor(tail) /\ tail \in Cells /\ head \in Cells /\ ~full'
      /\ tail' = IF tail + 1 = Max THEN 0 ELSE tail + 1
      /\ head' = head /\ buffer' = buffer /\ (full => head = tail)
  BY SuccessorIs DEF Inv, TypeOK, FullMeansMet, RetreatPointer
<1>3. Size' = Size - 1 /\ Size \in 1 .. Max
  BY <1>1, <1>2 DEF Size, Cells, Empty
<1>4. Contents \in Seq(Values) /\ Len(Contents) = Size /\ Contents # <<>>
  BY <1>1, <1>3, EmptySeq DEF ContentsFacts
<1>5. /\ Tail(Contents) \in Seq(Values)
      /\ Len(Tail(Contents)) = Size - 1
      /\ \A i \in 1 .. Size - 1 : Tail(Contents)[i] = Contents[i + 1]
  BY <1>4, HeadTailProperties
<1>6. ASSUME NEW i \in 1 .. Size - 1 PROVE Contents'[i] = Tail(Contents)[i]
  <2>1. i + 1 \in 1 .. Size /\ i \in 1 .. Max - 1
    BY <1>3
  <2>2. Contents'[i] = buffer[Place(tail', i)]
    BY <1>1, <1>2, <1>3 DEF ContentsFacts
  <2>3. Place(tail', i) = Place(tail, i + 1)
    BY <1>2, <2>1, Shift
  <2>4. Contents[i + 1] = buffer[Place(tail, i + 1)]
    BY <1>1, <2>1 DEF ContentsFacts
  <2>5. QED BY <1>5, <2>2, <2>3, <2>4
<1>7. Contents' \in Seq(Values) /\ Len(Contents') = Size - 1
  BY <1>1, <1>3 DEF ContentsFacts
<1>8. Contents' = Tail(Contents)
  BY <1>5, <1>6, <1>7, SeqEqual
<1>9. buffer[tail] = Head(Contents)
  <2>1. 1 \in 1 .. Size /\ 1 \in 1 .. Max
    BY <1>3
  <2>2. Contents[1] = buffer[Place(tail, 1)]
    BY <1>1, <2>1 DEF ContentsFacts
  <2>3. Place(tail, 1) = tail
    BY <1>2, <2>1, PlaceIs DEF Cells
  <2>4. Head(Contents) = Contents[1]
    BY <1>4
  <2>5. QED BY <2>2, <2>3, <2>4
<1>10. QED BY <1>4, <1>8, <1>9

(* A value goes into a full ring: the oldest one is given up for it.       *)
LEMMA OverwriteStep ==
    ASSUME Inv, Inv', NEW v \in Values,
           full, buffer' = [buffer EXCEPT ![head] = v], AdvancePointer
    PROVE  Contents' = Append(Tail(Contents), v) /\ Len(Contents) = Max
<1> USE MaxAssumption
<1>1. SizeFacts /\ ContentsFacts /\ (SizeFacts /\ ContentsFacts)'
  BY FactsNow, FactsNext
<1>2. /\ tail' = Successor(tail) /\ tail \in Cells /\ head = tail /\ full'
      /\ buffer \in [Cells -> Values] /\ head' = tail'
  BY DEF Inv, TypeOK, FullMeansMet, AdvancePointer
<1>3. Size = Max /\ Size' = Max
  BY <1>1, <1>2 DEF SizeFacts
<1>4. Contents \in Seq(Values) /\ Len(Contents) = Max /\ Contents # <<>>
  BY <1>1, <1>3, EmptySeq DEF ContentsFacts
<1>5. /\ Tail(Contents) \in Seq(Values)
      /\ Len(Tail(Contents)) = Max - 1
      /\ \A i \in 1 .. Max - 1 : Tail(Contents)[i] = Contents[i + 1]
  BY <1>4, HeadTailProperties
<1> DEFINE moved == Append(Tail(Contents), v)
<1>6. /\ moved \in Seq(Values)
      /\ Len(moved) = Max
      /\ \A i \in 1 .. Max - 1 : moved[i] = Contents[i + 1]
      /\ moved[Max] = v
  BY <1>5, AppendProperties
<1> HIDE DEF moved
<1>7. ASSUME NEW i \in 1 .. Max PROVE Contents'[i] = moved[i]
  <2>1. Contents'[i] = buffer'[Place(tail', i)]
    BY <1>1, <1>3 DEF ContentsFacts
  <2>2. CASE i = Max
    <3>1. Place(tail', Max) = head
      <4>1. Successor(tail) \in Cells /\ Max \in 1 .. Max
            /\ Successor(tail) = IF tail + 1 = Max THEN 0 ELSE tail + 1
        BY <1>2, SuccessorIs
      <4>2. Place(tail', Max) = IF tail' + Max <= Max THEN tail' + Max - 1
                                ELSE tail' + Max - 1 - Max
        BY <1>2, <4>1, PlaceIs
      <4>3. QED BY <1>2, <4>1, <4>2 DEF Cells
    <3>2. QED BY <1>2, <1>6, <2>1, <2>2, <3>1
  <2>3. CASE i \in 1 .. Max - 1
    <3>1. i + 1 \in 2 .. Max /\ i + 1 \in 1 .. Max
      BY <2>3
    <3>2. Place(tail', i) = Place(tail, i + 1)
      BY <1>2, <2>3, Shift
    <3>3. Place(tail, i + 1) \in Cells
      BY <1>2, <3>1, PlaceIs
    <3>4. Place(tail, i + 1) # head
      BY <1>1, <3>1 DEF SizeFacts
    <3>5. buffer'[Place(tail, i + 1)] = buffer[Place(tail, i + 1)]
      BY <3>3, <3>4, <1>2
    <3>6. Contents[i + 1] = buffer[Place(tail, i + 1)]
      BY <1>1, <1>3, <3>1 DEF ContentsFacts
    <3>7. QED BY <1>6, <2>1, <2>3, <3>2, <3>5, <3>6
  <2>4. i = Max \/ i \in 1 .. Max - 1
    OBVIOUS
  <2>5. QED BY <2>2, <2>3, <2>4
<1>8. Contents' \in Seq(Values) /\ Len(Contents') = Max
  BY <1>1, <1>3 DEF ContentsFacts
<1>9. Contents' = moved
  BY <1>6, <1>7, <1>8, SeqEqual
<1>10. QED BY <1>4, <1>9 DEF moved

-----------------------------------------------------------------------------
LEMMA EmptyLog == Inv => (Empty <=> Contents = <<>>)
<1> SUFFICES ASSUME Inv PROVE Empty <=> Contents = <<>>
  OBVIOUS
<1>1. Contents \in Seq(Values) /\ Len(Contents) = Size /\ (Empty <=> Size = 0)
  BY FactsNow DEF SizeFacts, ContentsFacts
<1>2. QED BY <1>1, EmptySeq

LEMMA EmptyLogNext == Inv' => (Empty <=> Contents = <<>>)'
BY EmptyLog, PTL

LEMMA LogInit == Init => Log!Init
<1> SUFFICES ASSUME Init PROVE Log!Init
  OBVIOUS
<1>1. Empty
  BY DEF Init, Empty
<1>2. Contents = <<>>
  BY <1>1, InvInit, EmptyLog
<1>3. QED BY <1>2 DEF Init, Log!Init

LEMMA LogNext ==
    Inv /\ Inv' /\ [Next]_vars => [Log!Next]_<<Contents, data, r>>
<1> SUFFICES ASSUME Inv, Inv', [Next]_vars
             PROVE  [Log!Next]_<<Contents, data, r>>
  OBVIOUS
<1>1. ASSUME NEW v \in Values, Put(v) PROVE Log!Put(v)
  <2>1. CASE full
    BY <1>1, <2>1, OverwriteStep DEF Put, Log!Put
  <2>2. CASE ~full
    <3>1. Contents' = Append(Contents, v) /\ Len(Contents) < Max
      BY <1>1, <2>2, AppendStep DEF Put
    <3>2. Len(Contents) # Max
      BY <3>1, MaxAssumption, FactsNow DEF SizeFacts, ContentsFacts
    <3>3. QED BY <1>1, <3>1, <3>2 DEF Put, Log!Put
  <2>3. QED BY <2>1, <2>2
<1>2. ASSUME NEW v \in Values, Put2Stores(v) PROVE Log!Put2Stores(v)
  BY <1>2, AppendStep DEF Put2Stores, Log!Put2Stores
<1>3. ASSUME NEW v \in Values, Put2Refuses(v) PROVE Log!Put2Refuses(v)
  <2>1. Len(Contents) = Max
    BY <1>3, FactsNow DEF Put2Refuses, SizeFacts, ContentsFacts
  <2>2. Contents' = Contents
    BY <1>3 DEF Put2Refuses, Contents, Size
  <2>3. QED BY <1>3, <2>1, <2>2 DEF Put2Refuses, Log!Put2Refuses
<1>4. CASE GetOldest
  <2>1. Contents' = Tail(Contents) /\ Contents # <<>> /\ buffer[tail] = Head(Contents)
    BY <1>4, TailStep DEF GetOldest
  <2>2. Log!GetOldest
    BY <1>4, <2>1 DEF GetOldest, Log!GetOldest
  <2>3. QED BY <2>2 DEF Log!Next
<1>5. CASE GetNone
  <2>1. Contents = <<>>
    BY <1>5, EmptyLog DEF GetNone
  <2>2. Contents' = Contents
    BY <1>5 DEF GetNone, Contents, Size
  <2>3. Log!GetNone
    BY <1>5, <2>1, <2>2 DEF GetNone, Log!GetNone
  <2>4. QED BY <2>3 DEF Log!Next
<1>6. CASE Reset
  <2>1. Empty'
    BY <1>6 DEF Reset, Empty
  <2>2. Contents' = <<>>
    BY <2>1, EmptyLogNext
  <2>3. Log!Reset
    BY <1>6, <2>2 DEF Reset, Log!Reset
  <2>4. QED BY <2>3 DEF Log!Next
<1>7. CASE UNCHANGED vars
  BY <1>7 DEF vars, Contents, Size
<1>8. QED BY <1>1, <1>2, <1>3, <1>4, <1>5, <1>6, <1>7 DEF Next, Log!Next

(* The ring buffer is a bounded log: every sample comes out once, in the   *)
(* order it was put in, unless a later one pushed it out (ringbuffer.c,    *)
(* 24-149).                                                                *)
THEOREM IsBoundedLog == Spec => LogSpec
<1>1. Inv /\ Inv' /\ [Next]_vars => [Log!Next]_<<Contents, data, r>>
  BY LogNext
<1>2. Spec => []Inv
  BY InvInit, InvNext, PTL DEF Spec
<1>3. QED BY <1>1, <1>2, LogInit, PTL DEF Spec, LogSpec, Log!Spec

=============================================================================
