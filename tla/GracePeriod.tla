----------------------------- MODULE GracePeriod -----------------------------
(***************************************************************************)
(* What the removal flags of destroy_device promise for the tx lcores      *)
(* (main.c:1728-1731): a device that is withdrawn is taken up by nobody    *)
(* any more, and its memory is reclaimed when the last lcore that was      *)
(* using it has left.                                                      *)
(***************************************************************************)
CONSTANTS Tors, Blocks, None

VARIABLES phase,   \* of a block: "free", "offered" or "withdrawn"
          using    \* the block a tx lcore uses, or None

Init ==
    /\ phase = [b \in Blocks |-> "free"]
    /\ using = [t \in Tors |-> None]

Move(b, from, to) == phase[b] = from /\ phase' = [phase EXCEPT ![b] = to]

Offer(b)    == Move(b, "free", "offered") /\ UNCHANGED using
Withdraw(b) == Move(b, "offered", "withdrawn") /\ UNCHANGED using
Reclaim(b)  ==
    /\ \A t \in Tors : using[t] # b
    /\ Move(b, "withdrawn", "free")
    /\ UNCHANGED using

TakeUp(t, b) ==
    /\ phase[b] = "offered"
    /\ using' = [using EXCEPT ![t] = b]
    /\ UNCHANGED phase
Leave(t) == using' = [using EXCEPT ![t] = None] /\ UNCHANGED phase

Next ==
    \/ \E b \in Blocks : Offer(b) \/ Withdraw(b) \/ Reclaim(b)
    \/ \E t \in Tors : Leave(t) \/ \E b \in Blocks : TakeUp(t, b)

Spec == Init /\ [][Next]_<<phase, using>>

=============================================================================
