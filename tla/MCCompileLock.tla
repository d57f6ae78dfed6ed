--------------------------- MODULE MCCompileLock ---------------------------
(* Instances of CompileLock for TLC. *)
EXTENDS CompileLock, TLC

Both == <<"pic", "old">>
OnlyOld == <<"old">>

Symmetry == Permutations(Proc)
=============================================================================
