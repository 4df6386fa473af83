-------------------------- MODULE MCBudgetHandover --------------------------
(***************************************************************************)
(* Small instances of BudgetHandover.  Three racks; the process emulates   *)
(* ToR 2 (and ToR 1), so that the connected queue may be queue 0.          *)
(***************************************************************************)
EXTENDS BudgetHandover, TLC

(* The shift matchings of three racks: VLAN 2 connects a rack to the next  *)
(* one, VLAN 3 to the one after.                                           *)
OneTorSelf  == 0 :> 2
OneTorQid   == 0 :> (0 :> (2 :> 0 @@ 3 :> 1))
OneTorTwoRotorsQid == 0 :> (0 :> (2 :> 0 @@ 3 :> 1) @@ 1 :> (2 :> 1 @@ 3 :> 0))
TwoTorsSelf == 0 :> 2 @@ 1 :> 1
TwoTorsQid  == 0 :> (0 :> (2 :> 0 @@ 3 :> 1)) @@ 1 :> (0 :> (2 :> 2 @@ 3 :> 0))
TwoTorsTwoRotorsQid ==
    0 :> (0 :> (2 :> 0 @@ 3 :> 1) @@ 1 :> (2 :> 1 @@ 3 :> 0)) @@
    1 :> (0 :> (2 :> 2 @@ 3 :> 0) @@ 1 :> (2 :> 0 @@ 3 :> 2))

=============================================================================
