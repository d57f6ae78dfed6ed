------------------------------ MODULE Wrapper -------------------------------
(***************************************************************************)
(* The wrapper script of a program that is linked with libraries not yet   *)
(* installed, with fast_install (build-aux/ltmain.in, func_emit_wrapper):  *)
(* its runs relink the program lt-<name> if it is missing, and execute it; *)
(* mode link may build the program and its wrapper anew.                   *)
(*                                                                         *)
(* The script also means to relink a program that is older than <name>,    *)
(* but has ls compare it with lt-<name> beside the wrapper, a file nothing *)
(* makes: whichever program is there is taken.                             *)
(*                                                                         *)
(* A file is [build, whole]: the build whose objects are in it, and        *)
(* whether it was linked to the end.                                       *)
(***************************************************************************)
EXTENDS Naturals

CONSTANTS
    Run,            \* the process numbers of runs of the wrapper
    NoFile,
    MaxBuilds, MaxKills   \* bounds

VARIABLES
    mv_replaces,    \* whether mv can replace a program that is there
    overlap,        \* whether mode link may run while the wrapper does
    build,      \* the number of the build whose objects are there
    wrapper,    \* whether the wrapper is there
    program,    \* lt-<name>
    file,       \* of each run, <$$>-lt-<name>
    pc,         \* where each run is
    script,     \* the build whose wrapper each run reads
    kills       \* how many runs were killed

vars == <<mv_replaces, overlap, build, wrapper, program, file, pc, script, kills>>

Goto(p, label) == pc' = [pc EXCEPT ![p] = label]
Linked(whole) == [build |-> build, whole |-> whole]

\* A run begins; a process number may be that of a run that has ended.
StartRun(p) ==
    /\ pc[p] = "ended" /\ wrapper
    /\ script' = [script EXCEPT ![p] = build]
    /\ Goto(p, "look")
    /\ UNCHANGED <<mv_replaces, overlap, build, wrapper, program, file, kills>>

\* The program is the only file of the two that ls finds, if it is there.
Look(p) ==
    /\ pc[p] = "look"
    /\ Goto(p, IF program # NoFile THEN "test" ELSE "clean")
    /\ UNCHANGED <<mv_replaces, overlap, build, wrapper, program, file, script, kills>>

\* A file that a killed run of the same number left is removed.
Clean(p) ==
    /\ pc[p] = "clean"
    /\ file' = [file EXCEPT ![p] = NoFile]
    /\ Goto(p, "link")
    /\ UNCHANGED <<mv_replaces, overlap, build, wrapper, program, script, kills>>

\* Faulty variant: the program is linked in its place.
LinkInPlace(p) ==
    /\ pc[p] = "link"
    /\ file' = [file EXCEPT ![p] = Linked(FALSE)]
    /\ program' = Linked(FALSE)
    /\ Goto(p, "linking")
    /\ UNCHANGED <<mv_replaces, overlap, build, wrapper, script, kills>>

\* The linker reads the objects and begins to write.
Link(p) ==
    /\ pc[p] = "link"
    /\ file' = [file EXCEPT ![p] = Linked(FALSE)]
    /\ Goto(p, "linking")
    /\ UNCHANGED <<mv_replaces, overlap, build, wrapper, program, script, kills>>

LinkEnds(p) ==
    /\ pc[p] = "linking"
    /\ file' = [file EXCEPT ![p] = [@ EXCEPT !.whole = TRUE]]
    /\ Goto(p, "move")
    /\ UNCHANGED <<mv_replaces, overlap, build, wrapper, program, script, kills>>

LinkFails(p) ==
    /\ pc[p] = "linking"
    /\ file' = [file EXCEPT ![p] = NoFile]
    /\ Goto(p, "ended")
    /\ UNCHANGED <<mv_replaces, overlap, build, wrapper, program, script, kills>>

\* mv to the program's name; where it cannot replace the program, that is
\* removed first.
Move(p) ==
    /\ pc[p] = "move"
    /\ IF mv_replaces \/ program = NoFile
       THEN /\ program' = file[p]
            /\ file' = [file EXCEPT ![p] = NoFile]
            /\ Goto(p, "test")
       ELSE /\ program' = NoFile
            /\ Goto(p, "move again")
            /\ UNCHANGED file
    /\ UNCHANGED <<mv_replaces, overlap, build, wrapper, script, kills>>

\* The second mv is the last; what is left is removed.
MoveAgain(p) ==
    /\ pc[p] = "move again"
    /\ program' = IF program = NoFile THEN file[p] ELSE program
    /\ file' = [file EXCEPT ![p] = NoFile]
    /\ Goto(p, "test")
    /\ UNCHANGED <<mv_replaces, overlap, build, wrapper, script, kills>>

\* "does not exist"
Test(p) ==
    /\ pc[p] = "test"
    /\ Goto(p, IF program # NoFile THEN "exec" ELSE "missing")
    /\ UNCHANGED <<mv_replaces, overlap, build, wrapper, program, file, script, kills>>

\* "cannot exec", or the process is the program from now on.
Exec(p) ==
    /\ pc[p] = "exec"
    /\ Goto(p, IF program # NoFile THEN "ended" ELSE "missing")
    /\ UNCHANGED <<mv_replaces, overlap, build, wrapper, program, file, script, kills>>

Missing(p) ==
    /\ pc[p] = "missing"
    /\ Goto(p, "ended")
    /\ UNCHANGED <<mv_replaces, overlap, build, wrapper, program, file, script, kills>>

Kill(p) ==
    /\ pc[p] \notin {"ended", "missing"} /\ kills < MaxKills
    /\ kills' = kills + 1
    /\ Goto(p, "ended")
    /\ UNCHANGED <<mv_replaces, overlap, build, wrapper, program, file, script>>

Quiet == \A p \in Run : pc[p] = "ended"

\* There are new objects; mode link removes the wrapper and the program ...
Rebuild ==
    /\ wrapper /\ build < MaxBuilds /\ (overlap \/ Quiet)
    /\ build' = build + 1
    /\ wrapper' = FALSE /\ program' = NoFile
    /\ UNCHANGED <<mv_replaces, overlap, file, pc, script, kills>>

\* ... and writes the wrapper when it has linked <name>.
WriteWrapper ==
    /\ ~wrapper
    /\ wrapper' = TRUE
    /\ UNCHANGED <<mv_replaces, overlap, build, program, file, pc, script, kills>>

Init ==
    /\ mv_replaces \in BOOLEAN /\ overlap \in BOOLEAN
    /\ build = 1 /\ wrapper = FALSE /\ program = NoFile
    /\ file = [p \in Run |-> NoFile] /\ pc = [p \in Run |-> "ended"]
    /\ script = [p \in Run |-> 0] /\ kills = 0

Next ==
    \/ \E p \in Run : \/ StartRun(p) \/ Look(p) \/ Clean(p) \/ Link(p) \/ LinkEnds(p)
                      \/ LinkFails(p) \/ Move(p) \/ MoveAgain(p) \/ Test(p) \/ Exec(p)
                      \/ Missing(p) \/ Kill(p)
    \/ Rebuild \/ WriteWrapper

Spec == Init /\ [][Next]_vars

-----------------------------------------------------------------------------
\* The types; a run that ended has no file of its own, unless it was killed.
TypeOK ==
    LET File == [build : 1..MaxBuilds, whole : BOOLEAN] IN
    /\ mv_replaces \in BOOLEAN /\ overlap \in BOOLEAN /\ wrapper \in BOOLEAN
    /\ program \in File \cup {NoFile}
    /\ file \in [Run -> File \cup {NoFile}] /\ script \in [Run -> 0..MaxBuilds]
    /\ kills = 0 => \A p \in Run : pc[p] = "ended" => file[p] = NoFile

\* What a run may execute was linked to the end, whichever runs relink it at
\* once, fail or are killed: it is linked under a name of the run's own and moved.
OnlyWholePrograms == program # NoFile => program.whole

\* As long as mode link waits for the runs of the wrapper, the program they
\* execute has the objects of this build, though they take any that is there and
\* find the files of killed runs.
ProgramCurrent ==
    ~overlap /\ wrapper /\ program # NoFile => program.build = build

\* Where mv replaces files, no run finds the program gone, unless the program
\* was built anew since the run began.
ProgramThere ==
    mv_replaces => \A p \in Run : pc[p] = "missing" => script[p] < build

\* A run of the wrapper executes a whole and current program.
ProgramsRight == TypeOK /\ OnlyWholePrograms /\ ProgramCurrent /\ ProgramThere
=============================================================================
