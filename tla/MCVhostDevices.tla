--------------------------- MODULE MCVhostDevices ---------------------------
(* VhostDevices for TLC: the blocks of memory are interchangeable.  Only   *)
(* the runs without a liveness property use the symmetry.                  *)
EXTENDS VhostDevices, TLC

BlockSymmetry == Permutations(Blocks)

=============================================================================
