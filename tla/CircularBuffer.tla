--------------------------- MODULE CircularBuffer ---------------------------
(***************************************************************************)
(* The ring of samples of end-host/docker/app/ringbuffer.c, used by one    *)
(* thread at a time: head is the next cell to write, tail the oldest value *)
(* and full tells a full ring from an empty one when the two meet.         *)
(***************************************************************************)
EXTENDS Integers

CONSTANTS Values,   \* samples
          Max       \* max: number of cells

ASSUME MaxAssumption == Max \in Nat \ {0}

VARIABLES buffer, head, tail, full,
          data, r   \* where get stores the value, and what a call returned

vars  == <<buffer, head, tail, full, data, r>>
Cells == 0 .. Max - 1

TypeOK ==
    /\ buffer \in [Cells -> Values]
    /\ head \in Cells
    /\ tail \in Cells
    /\ full \in BOOLEAN
    /\ data \in Values
    /\ r \in {0, -1}

(* circular_buf_init takes over the cells as its caller allocated them. *)
Init ==
    /\ buffer \in [Cells -> Values]
    /\ head = 0 /\ tail = 0 /\ full = FALSE
    /\ data \in Values
    /\ r = 0

Empty == ~full /\ head = tail

(* circular_buf_size *)
Size ==
    IF full THEN Max
    ELSE IF head >= tail THEN head - tail ELSE Max + head - tail

(* Fault: the index leaves the cells. *)
SuccessorUnwrapped(cell) == cell + 1

Successor(cell) == (cell + 1) % Max

(* Fault: the oldest value is not given up. *)
AdvanceHeadOnly ==
    /\ head' = Successor(head)
    /\ full' = (head' = tail)
    /\ UNCHANGED tail

(* advance_pointer *)
AdvancePointer ==
    /\ tail' = IF full THEN Successor(tail) ELSE tail
    /\ head' = Successor(head)
    /\ full' = (head' = tail')

(* Fault: a full ring stays full. *)
RetreatTailOnly ==
    /\ tail' = Successor(tail)
    /\ UNCHANGED full

(* retreat_pointer *)
RetreatPointer ==
    /\ full' = FALSE
    /\ tail' = Successor(tail)

(* circular_buf_put *)
Put(v) ==
    /\ buffer' = [buffer EXCEPT ![head] = v]
    /\ AdvancePointer
    /\ UNCHANGED <<data, r>>

(* circular_buf_put2 *)
Put2Stores(v) ==
    /\ ~full
    /\ buffer' = [buffer EXCEPT ![head] = v]
    /\ AdvancePointer
    /\ r' = 0
    /\ UNCHANGED data

Put2Refuses(v) ==
    /\ full
    /\ r' = -1
    /\ UNCHANGED <<buffer, head, tail, full, data>>

(* circular_buf_get *)
GetOldest ==
    /\ ~Empty
    /\ data' = buffer[tail]
    /\ RetreatPointer
    /\ r' = 0
    /\ UNCHANGED <<buffer, head>>

GetNone ==
    /\ Empty
    /\ r' = -1
    /\ UNCHANGED <<buffer, head, tail, full, data>>

(* circular_buf_reset *)
Reset ==
    /\ head' = 0 /\ tail' = 0 /\ full' = FALSE
    /\ UNCHANGED <<buffer, data, r>>

Next ==
    \/ \E v \in Values : Put(v) \/ Put2Stores(v) \/ Put2Refuses(v)
    \/ GetOldest \/ GetNone
    \/ Reset

Spec == Init /\ [][Next]_vars

-----------------------------------------------------------------------------
(* A ring marked full has no free cell: head has caught up with tail.  A   *)
(* full flag that outlives this makes size report values that are not      *)
(* there (84-97).                                                          *)
FullMeansMet == full => head = tail

(* The values held, from the oldest on. *)
Contents == [i \in 1 .. Size |-> buffer[(tail + i - 1) % Max]]

Log == INSTANCE BoundedLog WITH log <- Contents, Capacity <- Max

(* The ring is a bounded log: values come out once, in the order they were *)
(* put in, a full ring gives up the oldest one and an empty one gives      *)
(* nothing (24-45, 109-149).                                               *)
LogSpec == Log!Spec

=============================================================================
