--------------------------- MODULE MCInterfaceData -------------------------
(* Instances of InterfaceData for TLC. *)
EXTENDS InterfaceData, TLC

Symmetry == Permutations(Key)
=============================================================================
