------------------------------ MODULE MCParts -------------------------------
(***************************************************************************)
(* The smaller parts of libtool in one run: the pure algorithms, and three *)
(* places where runs of the libtool script meet in the file system.  They  *)
(* have nothing in common; a behaviour is about one of them, and what the  *)
(* others begin with stays as it is.                                       *)
(***************************************************************************)
EXTENDS MCAlgorithms, ScriptParts

CONSTANTS p1, p2, p3, a1, a2, a3, a4

VARIABLE part

Runs == {p1, p2, p3}
WrapperRuns == {p1, p2}
Archives == {a1, a2, a3, a4}
\* Two archives of one base name, one that has the name the second is given, and
\* one with two objects of one name.
Names == (a1 :> <<"a">>) @@ (a2 :> <<"a">>) @@ (a3 :> <<1, "a">>) @@ (a4 :> <<"b">>)
Objects == (a1 :> <<"x", "y">>) @@ (a2 :> <<"x">>) @@ (a3 :> <<"x">>) @@ (a4 :> <<"x", "x">>)
Given == (p1 :> <<a1, a2, a3>>) @@ (p2 :> <<a2, a1>>) @@ (p3 :> <<a4>>)

wrapperVars == <<mv_replaces, overlap, build, wrapper, program, file, runs, script, kills>>
extractVars == <<lockfile, unpacking, at, extracted_archives, extracted_serial, xdir, files, result>>
relinkVars == <<realname, realnameU, realnameT, installed, la, installing, installs, interrupted>>
allvars == <<vars, size, part, wrapperVars, extractVars, relinkVars>>
Only(p) == part = p

PartsInit ==
    /\ part \in {"algorithms", "wrapper", "extract", "relink"}
    /\ IF Only("algorithms") THEN MCInit
       ELSE /\ size = 0 /\ version_type = "linux" /\ given = "version-info"
            /\ numbers = <<0, 0, 0>> /\ releases = <<>>
    /\ W!Init /\ ((mv_replaces /\ overlap) \/ Only("wrapper"))
    /\ X!Init /\ R!Init

PartsNext ==
    /\ UNCHANGED <<part, size>>
    /\ \/ Only("algorithms") /\ Next /\ UNCHANGED <<wrapperVars, extractVars, relinkVars>>
       \/ Only("wrapper") /\ W!Next /\ UNCHANGED <<vars, extractVars, relinkVars>>
       \/ Only("extract") /\ X!Next /\ UNCHANGED <<vars, wrapperVars, relinkVars>>
       \/ Only("relink") /\ R!Next /\ UNCHANGED <<vars, wrapperVars, extractVars>>

\* The runs that unpack are scheduled; nothing is assumed about the others.
PartsSpec == PartsInit /\ [][PartsNext]_allvars
             /\ \A p \in Run : WF_allvars(Only("extract") /\ X!Step(p) /\ UNCHANGED <<vars, part, size, wrapperVars, relinkVars>>)

-----------------------------------------------------------------------------
\* Every run that unpacks archives ends, unless one is killed.
AllEnd == Only("extract") => X!AllEnd
=============================================================================
