------------------------------ MODULE TorConfig ------------------------------
(***************************************************************************)
(* What end-host/docker/app/config.c makes of the JSON object of a ToR.    *)
(* Its fields are read in the order of the file, and what one of them      *)
(* leaves depends on what the earlier ones have set.                       *)
(***************************************************************************)
EXTENDS Integers, Sequences, SequencesExt

CONSTANTS NumRacks,      \* value of the field num_racks
          NumMatchings,  \* field rotors: how many matchings each rotor has
          NumCaches      \* field cache: number of cache links

ASSUME ConfigAssumption ==
    NumRacks \in Nat \ {0} /\ NumCaches \in Nat /\ NumMatchings \in Seq(Nat)

CacheIds == 0 .. NumCaches - 1

(* process_array: racks is nb_dst_racks, rotors num_rotors; mappings[c] is *)
(* the set of racks whose flow_mapping of cache c has memory.              *)
Fresh == [racks |-> 1, rotors |-> 0, mappings |-> [c \in {} |-> {}]]

SetNumRacks(tor) == [tor EXCEPT !.racks = NumRacks]

(* A rotor with n matchings connects n + 1 racks.                          *)
AddRotor(tor, n) ==
    [tor EXCEPT !.rotors = @ + 1, !.racks = IF n + 1 > @ THEN n + 1 ELSE @]

ExtractRotors(tor) == FoldLeft(AddRotor, tor, NumMatchings)

(* Every rack known so far gets its memory. *)
ExtractCaches(tor) ==
    [tor EXCEPT !.mappings = [c \in CacheIds |-> 0 .. tor.racks - 1]]

ReadField(tor, key) ==
    CASE key = "num_racks" -> SetNumRacks(tor)
      [] key = "rotors"    -> ExtractRotors(tor)
      [] key = "cache"     -> ExtractCaches(tor)

(* process_object, for the fields in the order keys. *)
Configured(keys) == FoldLeft(ReadField, Fresh, keys)

(* The orders a file may have them in. *)
KeyOrders == SetToSeqs({"num_racks", "rotors", "cache"})

=============================================================================
