---------------------------- MODULE MCHLCClocks ----------------------------
(* Small instances of HLCClocks. *)
EXTENDS HLCClocks, TLC

NodeSymmetry == Permutations(Node)
=============================================================================
