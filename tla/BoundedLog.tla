----------------------------- MODULE BoundedLog -----------------------------
(***************************************************************************)
(* What a statistics buffer (ringbuffer.h) promises its one user: a log of *)
(* at most Capacity values, oldest first.  circular_buf_put never refuses  *)
(* a value and gives up the oldest one instead; circular_buf_put2 refuses. *)
(***************************************************************************)
EXTENDS Sequences, Integers

CONSTANTS Values, Capacity

VARIABLES log,    \* the values held, oldest first
          data,   \* where circular_buf_get stores the value for its caller
          r       \* the value returned last

Init == log = <<>> /\ data \in Values /\ r = 0

Put(v) ==
    /\ log' = Append(IF Len(log) = Capacity THEN Tail(log) ELSE log, v)
    /\ UNCHANGED <<data, r>>

Put2Stores(v)  == Len(log) < Capacity /\ log' = Append(log, v) /\ r' = 0 /\ UNCHANGED data
Put2Refuses(v) == Len(log) = Capacity /\ r' = -1 /\ UNCHANGED <<log, data>>

GetOldest == log # <<>> /\ data' = Head(log) /\ log' = Tail(log) /\ r' = 0
GetNone   == log = <<>> /\ r' = -1 /\ UNCHANGED <<log, data>>

Reset == log' = <<>> /\ UNCHANGED <<data, r>>

Next ==
    \/ \E v \in Values : Put(v) \/ Put2Stores(v) \/ Put2Refuses(v)
    \/ GetOldest \/ GetNone
    \/ Reset

Spec == Init /\ [][Next]_<<log, data, r>>

=============================================================================
