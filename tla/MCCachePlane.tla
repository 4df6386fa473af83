----------------------------- MODULE MCCachePlane -----------------------------
(***************************************************************************)
(* Three racks, two cache links each; one process emulates ToR 0 and ToR   *)
(* 1, the other one ToR 2.  The first list is of the form the automation   *)
(* uses: every circuit with both directions.  The second one moves ToR 0   *)
(* and gives ToR 2 two links, one of them with a port that is decoded      *)
(* wrongly.                                                                *)
(***************************************************************************)
EXTENDS CachePlane, TLC

Link(src, cache, dst, port) == [src |-> src, cache |-> cache, dst |-> dst, port |-> port]

TwoProcesses == 0 :> "p" @@ 1 :> "p" @@ 2 :> "q"
TwoRotorsOfTwo == <<2, 2>>
TwoLists ==
    <<<<Link(0, 0, 1, 0), Link(1, 0, 0, 60000)>>,
      <<Link(2, 0, 0, 60000), Link(2, 1, 1, 60128)>>>>

(* A flow removed, an unknown action, a rack that is too high. *)
ThreeByHand ==
    {Message(1, 1, 0, 0, 60000), Message(3, 0, 0, 1, 0), Message(2, 0, 0, 3, 0)}

(* Zeroed memory, or one mapping with garbage: on a cache link of the      *)
(* first list, for the rack it does not lead to.                           *)
OneDirty == {{}, {<<<<1, 0>>, 2>>}}

=============================================================================
