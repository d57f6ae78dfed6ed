---------------------------- MODULE CompileLock ----------------------------
(***************************************************************************)
(* `libtool --mode=compile' with a compiler that cannot combine -c and -o  *)
(* (func_mode_compile of build-aux/ltmain.in).  Every compilation of a     *)
(* foo.c, in whatever directory, then writes foo.o in the current          *)
(* directory; libtool moves it where it belongs, and runs of a parallel    *)
(* make that share that temporary file exclude each other by a lock file.  *)
(*                                                                         *)
(* The processes share the files only.  Each shell command that touches a  *)
(* shared file is one step; a signal may come between any two.             *)
(***************************************************************************)
EXTENDS Naturals, Sequences

CONSTANTS
    Proc,       \* the runs of libtool; each stands for its own source file
    None,       \* no file
    Script,     \* a hard link to libtool itself
    Stale,      \* what an earlier build left
    NeedLocks,  \* need_locks: "yes", or "warn" where there are no hard links
    Objects,    \* the objects to build, in order: "pic", "old" or both
    InPlace,    \* the runs whose non-PIC object is itself called output_obj
    Faults      \* which signals come: "trap", "late", "kill"

ASSUME ProcAssumption ==
    /\ None \notin Proc \cup {Script, Stale}
    /\ Script \notin Proc /\ Stale \notin Proc
ASSUME ModeAssumption ==
    /\ NeedLocks \in {"yes", "warn"}
    /\ Objects \in {<<"pic">>, <<"old">>, <<"pic", "old">>}
    /\ InPlace \subseteq Proc
    /\ Faults \subseteq {"trap", "late", "kill"}

VARIABLES
    lock,   \* the lock file: None, or its contents
    temp,   \* output_obj: None, or the source it was compiled from
    out,    \* the objects and the .lo file of each run
    turn,   \* which of Objects the run is at
    pc

vars == <<lock, temp, out, turn, pc>>

Kind == {Objects[k] : k \in 1..Len(Objects)} \cup {"lo"}
NoFiles == [k \in Kind |-> None]

\* The trap is set in these; "locked" is before it.
Armed == {"compile", "check", "move", "lo", "unlock"}
Critical == {"locked"} \cup Armed

Ended == {"done", "failed", "interrupted", "killed"}
Label == {"start", "claim", "exiting", "failing"} \cup Critical \cup Ended

TypeOK ==
    /\ lock \in Proc \cup {None, Script}
    /\ temp \in Proc \cup {None, Stale}
    /\ out \in [Proc -> [Kind -> Proc \cup {None, Stale}]]
    /\ turn \in [Proc -> 1..Len(Objects)]
    /\ pc \in [Proc -> Label]

Goto(p, l) == pc' = [pc EXCEPT ![p] = l]

(***************************************************************************)
(* $RM $removelist                                                         *)
(***************************************************************************)
\* "outs": the objects and the .lo file of p.
Remove(p, files) ==
    /\ lock' = IF "lock" \in files THEN None ELSE lock
    /\ temp' = IF \/ "temp" \in files
                  \/ "outs" \in files /\ p \in InPlace /\ "old" \in Kind
               THEN None ELSE temp
    /\ out' = IF "outs" \in files THEN [out EXCEPT ![p] = NoFiles] ELSE out

Leftover == {"outs"} \cup IF NeedLocks = "warn" THEN {"temp"} ELSE {}
\* Faulty variant: the lock file only.
removelistLock == {"lock"}
removelist == Leftover \cup {"lock"}

Fail(p) == Remove(p, removelist) /\ Goto(p, "failing") /\ UNCHANGED turn

(***************************************************************************)
(* Taking the lock.                                                        *)
(***************************************************************************)
\* Faulty variant: the link replaces one that is there (ln -f).
AcquireForced(p) ==
    /\ NeedLocks = "yes" /\ pc[p] = "start"
    /\ lock' = Script
    /\ Goto(p, "locked")
    /\ UNCHANGED <<temp, out, turn>>

\* until ln "$progpath" "$lockfile"
Acquire(p) ==
    /\ NeedLocks = "yes" /\ pc[p] = "start"
    /\ lock = None
    /\ lock' = Script
    /\ Goto(p, "locked")
    /\ UNCHANGED <<temp, out, turn>>

\* Faulty variant: leaves the leftover files where they are.
RefuseKeeps(p) ==
    /\ NeedLocks = "warn" /\ pc[p] = "start"
    /\ lock # None
    /\ Goto(p, "failed")
    /\ UNCHANGED <<lock, temp, out, turn>>

\* test -f "$lockfile": someone compiles such a file; give up.
Refuse(p) ==
    /\ NeedLocks = "warn" /\ pc[p] = "start"
    /\ lock # None
    /\ Remove(p, {"outs"})
    /\ Goto(p, "failed")
    /\ UNCHANGED turn

SeeFree(p) ==
    /\ NeedLocks = "warn" /\ pc[p] = "start"
    /\ lock = None
    /\ Goto(p, "claim")
    /\ UNCHANGED <<lock, temp, out, turn>>

\* $ECHO "$srcfile" > "$lockfile"
Claim(p) ==
    /\ pc[p] = "claim"
    /\ lock' = p
    /\ Goto(p, "locked")
    /\ UNCHANGED <<temp, out, turn>>

\* Delete any leftover objects, then set the trap.
Clean(p) ==
    /\ pc[p] = "locked"
    /\ Remove(p, Leftover)
    /\ Goto(p, "compile")
    /\ UNCHANGED turn

(***************************************************************************)
(* The critical section.                                                   *)
(***************************************************************************)
\* Faulty variant: the lock is released before the object is moved.
CompileUnlocks(p) ==
    /\ pc[p] = "compile"
    /\ temp' = p /\ lock' = None
    /\ Goto(p, IF NeedLocks = "warn" THEN "check" ELSE "move")
    /\ UNCHANGED <<out, turn>>

Compile(p) ==
    /\ pc[p] = "compile"
    /\ temp' = p
    /\ Goto(p, IF NeedLocks = "warn" THEN "check" ELSE "move")
    /\ UNCHANGED <<lock, out, turn>>

CompileFails(p) == pc[p] = "compile" /\ Fail(p)

\* Without hard links: does the lock still name this source file?
Check(p) ==
    /\ pc[p] = "check"
    /\ IF lock = p THEN Goto(p, "move") /\ UNCHANGED <<lock, temp, out, turn>>
                   ELSE Fail(p)

\* Faulty variant: one object too many.
NextObjectPast(p) ==
    IF turn[p] <= Len(Objects)
    THEN turn' = [turn EXCEPT ![p] = @ + 1] /\ Goto(p, "compile")
    ELSE UNCHANGED turn /\ Goto(p, "lo")

NextObject(p) ==
    IF turn[p] < Len(Objects)
    THEN turn' = [turn EXCEPT ![p] = @ + 1] /\ Goto(p, "compile")
    ELSE UNCHANGED turn /\ Goto(p, "lo")

AtHome(p) == Objects[turn[p]] = "old" /\ p \in InPlace

\* $MV "$output_obj" to where the object belongs; it may fail for other reasons
\* than that the object is gone.
Move(p) ==
    /\ pc[p] = "move"
    /\ \/ /\ AtHome(p)
          /\ NextObject(p)
          /\ UNCHANGED <<lock, temp, out>>
       \/ /\ ~AtHome(p) /\ temp # None
          /\ out' = [out EXCEPT ![p][Objects[turn[p]]] = temp]
          /\ temp' = None
          /\ NextObject(p)
          /\ UNCHANGED lock
       \/ ~AtHome(p) /\ Fail(p)

\* func_write_libtool_object
WriteObject(p) ==
    /\ pc[p] = "lo"
    /\ out' = [out EXCEPT ![p].lo = p]
    /\ Goto(p, "unlock")
    /\ UNCHANGED <<lock, temp, turn>>

\* Faulty variant: does not remove the lock file.
UnlockForgets(p) ==
    /\ pc[p] = "unlock"
    /\ Goto(p, "exiting")
    /\ UNCHANGED <<lock, temp, out, turn>>

\* removelist=$lockfile; $RM "$lockfile"
Unlock(p) ==
    /\ pc[p] = "unlock"
    /\ lock' = None
    /\ Goto(p, "exiting")
    /\ UNCHANGED <<temp, out, turn>>

Exit(p) ==
    /\ pc[p] \in {"exiting", "failing"}
    /\ Goto(p, IF pc[p] = "exiting" THEN "done" ELSE "failed")
    /\ UNCHANGED <<lock, temp, out, turn>>

(***************************************************************************)
(* Signals.                                                                *)
(***************************************************************************)
\* The trap runs while the process holds the lock.
Trap(p) == "trap" \in Faults /\ pc[p] \in Armed /\ Fail(p)

\* ... or between the two commands of Unlock.
UnlockTrap(p) ==
    /\ "trap" \in Faults /\ pc[p] = "unlock"
    /\ lock' = None
    /\ Goto(p, "interrupted")
    /\ UNCHANGED <<temp, out, turn>>

\* The trap runs after the process removed the lock file, before it exits.
LateTrap(p) ==
    /\ "late" \in Faults /\ pc[p] \in {"exiting", "failing"}
    /\ Remove(p, IF pc[p] = "exiting" THEN {"lock"} ELSE removelist)
    /\ Goto(p, IF pc[p] = "exiting" THEN "interrupted" ELSE "failed")
    /\ UNCHANGED turn

\* SIGKILL, or a signal before the trap is set: nothing is cleaned up.
Kill(p) ==
    /\ "kill" \in Faults /\ pc[p] \notin Ended
    /\ Goto(p, "killed")
    /\ UNCHANGED <<lock, temp, out, turn>>

(***************************************************************************)
(* The specification.                                                      *)
(***************************************************************************)
Init ==
    /\ lock = None
    /\ temp \in {None, Stale}
    /\ out = [p \in Proc |-> [k \in Kind |-> Stale]]
    /\ turn = [p \in Proc |-> 1]
    /\ pc = [p \in Proc |-> "start"]

Run(p) ==
    \/ Acquire(p) \/ Refuse(p) \/ SeeFree(p) \/ Claim(p) \/ Clean(p)
    \/ Compile(p) \/ CompileFails(p) \/ Check(p) \/ Move(p)
    \/ WriteObject(p) \/ Unlock(p) \/ Exit(p)

Next == \E p \in Proc : Run(p) \/ Trap(p) \/ UnlockTrap(p) \/ LateTrap(p) \/ Kill(p)

\* Each process is scheduled; a waiting one tries again every two seconds.
Spec == Init /\ [][Next]_vars /\ \A p \in Proc : WF_vars(Run(p))

(***************************************************************************)
(* Properties.                                                             *)
(***************************************************************************)
\* Two runs are never both between taking and releasing the lock (the "critical
\* section" of func_mode_compile's comments).
MutualExclusion ==
    \A p, q \in Proc : pc[p] \in Critical /\ pc[q] \in Critical => p = q

Object(p, k) == IF k = "old" /\ p \in InPlace THEN temp ELSE out[p][k]

\* A .lo file that a run wrote describes objects that are there and were
\* compiled from that run's source, at any time and whatever else is run or
\* interrupted: a link that finds the .lo links the right code.
LoMeansObjects ==
    \A p \in Proc : out[p].lo = p => \A k \in Kind \ {"lo"} : Object(p, k) = p

\* A run that fails leaves no object and no .lo file: make runs it again.
FailedLeavesNothing ==
    \A p \in Proc : pc[p] = "failed" => out[p] = NoFiles

\* The lock file exists only while some run is between taking and releasing it,
\* or one was killed there: no run waits or is refused for a lock file that was
\* forgotten.
LockOwned ==
    lock # None => \E p \in Proc : pc[p] \in Critical \cup {"killed"}

\* A run that failed left no file of its own; and a run that ended in whatever
\* way, unless it was killed, left no lock.
NothingLeft == FailedLeavesNothing /\ LockOwned

\* Every run ends, the waiting ones too, unless one is killed.
AllEnd == (\A p \in Proc : <>(pc[p] \in Ended)) \/ <>(\E p \in Proc : pc[p] = "killed")
=============================================================================
