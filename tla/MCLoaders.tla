----------------------------- MODULE MCLoaders ------------------------------
(* Two names of one library and a name, too long for Windows, of another.  *)
EXTENDS Loaders, TLC

CONSTANTS a, link, b, LibA, LibB, s

MCFileOf == (a :> LibA) @@ (link :> LibA) @@ (b :> LibB)
MCDefines == (LibA :> {s}) @@ (LibB :> {<<LibB, s>>}) @@ (Program :> {})
=============================================================================
