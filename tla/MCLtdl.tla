------------------------------- MODULE MCLtdl -------------------------------
(* Instances of Ltdl for TLC. *)
EXTENDS Ltdl, TLC

CONSTANTS a, b, c, preopen, dlopen

\* a needs b then c, b needs c
Dag == (a :> <<b, c>>) @@ (b :> <<c>>) @@ (c :> <<>>)
\* a needs b
Pair == (a :> <<b>>) @@ (b :> <<>>)

OneLoader == <<dlopen>>

Symmetry == Permutations(Handle)
=============================================================================
