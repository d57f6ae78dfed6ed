-------------------------- MODULE ExtractArchives ---------------------------
(***************************************************************************)
(* Unpacking archives into a library or an archive (build-aux/ltmain.in,   *)
(* func_extract_archives and func_extract_an_archive).  Several runs of    *)
(* libtool unpack the same archive at once, each below a directory of its  *)
(* own; where ar cannot stand that (darwin) they take a lock.              *)
(*                                                                         *)
(* A name is a sequence: a base name, or lt<serial>- before a name.  The   *)
(* archives of several architectures of darwin are left out.               *)
(***************************************************************************)
EXTENDS Naturals, Sequences, FiniteSets, SequencesExt

CONSTANTS
    Run,        \* runs of libtool
    oldlibs,    \* of each, the archives it unpacks, in this order
    Archive,
    Basename,   \* of each archive its name without directory
    Members,    \* of each archive the objects in it, in this order
    Locking     \* lock_old_archive_extraction

VARIABLES
    lockfile,   \* the archives whose lock file exists
    pc,         \* where each run is
    at,         \* how many archives it has begun with
    extracted_archives, extracted_serial,   \* the names it has used
    xdir,       \* the directory it unpacks into
    files,      \* below each run's directory: [dir, object, from]
    result      \* the names of the files each run found: [dir, object]

runVars == <<at, extracted_archives, extracted_serial, xdir>>
vars == <<lockfile, pc, runVars, files, result>>

oldlib(p) == oldlibs[p][at[p]]
Goto(p, label) == pc' = [pc EXCEPT ![p] = label]

\* Faulty variant: every archive is unpacked into a directory of its base name.
FreeNamePlain(base, taken, serial) == [name |-> base, serial |-> serial]

\* The base name, or the first lt<serial>-name that is not taken.
FreeName(base, taken, serial) ==
    IF base \notin taken THEN [name |-> base, serial |-> serial]
    ELSE LET free == {k \in (serial + 1)..(serial + 1 + Cardinality(taken)) : <<k>> \o base \notin taken}
             k == CHOOSE k \in free : \A j \in free : k <= j
         IN  [name |-> <<k>> \o base, serial |-> k]

\* The next archive: a name for its directory, which is made.
NextArchive(p) ==
    LET n == at[p] + 1
        chosen == FreeName(Basename[oldlibs[p][n]], extracted_archives[p], extracted_serial[p])
    IN
    /\ pc[p] = "next" /\ n <= Len(oldlibs[p])
    /\ at' = [at EXCEPT ![p] = n]
    /\ xdir' = [xdir EXCEPT ![p] = chosen.name]
    /\ extracted_archives' = [extracted_archives EXCEPT ![p] = @ \cup {chosen.name}]
    /\ extracted_serial' = [extracted_serial EXCEPT ![p] = chosen.serial]
    /\ Goto(p, "lock")
    /\ UNCHANGED <<lockfile, files, result>>

\* ln makes the lock file, unless it is there; then the run tries again.
Lock(p) ==
    /\ pc[p] = "lock"
    /\ IF Locking THEN /\ oldlib(p) \notin lockfile
                       /\ lockfile' = lockfile \cup {oldlib(p)}
                  ELSE UNCHANGED lockfile
    /\ Goto(p, "ar")
    /\ UNCHANGED <<runVars, files, result>>

\* A file that is there is written over.
Unpacked(p, objects) ==
    LET kept == {f \in files[p] : f.dir # xdir[p] \/ f.object \notin objects}
    IN  [files EXCEPT ![p] = kept \cup {[dir |-> xdir[p], object |-> o, from |-> oldlib(p)] : o \in objects}]

\* ar x, which may fail when it has unpacked some objects.
Unpack(p) ==
    /\ pc[p] = "ar"
    /\ \/ /\ files' = Unpacked(p, ToSet(Members[oldlib(p)]))
          /\ Goto(p, "unlock")
       \/ /\ \E some \in SUBSET ToSet(Members[oldlib(p)]) : files' = Unpacked(p, some)
          /\ Goto(p, "failing")
    /\ UNCHANGED <<lockfile, runVars, result>>

\* Faulty variant: a run that fails exits with its lock.
UnlockSuccessful(p) ==
    /\ pc[p] \in {"unlock", "failing"}
    /\ lockfile' = IF Locking /\ pc[p] = "unlock" THEN lockfile \ {oldlib(p)} ELSE lockfile
    /\ Goto(p, IF pc[p] = "unlock" THEN "check" ELSE "failed")
    /\ UNCHANGED <<runVars, files, result>>

Unlock(p) ==
    /\ pc[p] \in {"unlock", "failing"}
    /\ lockfile' = IF Locking THEN lockfile \ {oldlib(p)} ELSE lockfile
    /\ Goto(p, IF pc[p] = "unlock" THEN "check" ELSE "failed")
    /\ UNCHANGED <<runVars, files, result>>

\* find
Found(p) == {[dir |-> f.dir, object |-> f.object] : f \in {x \in files[p] : x.dir = xdir[p]}}

\* Two objects of one name in an archive are an error; else the run collects
\* what is in the directory.
Check(p) ==
    /\ pc[p] = "check"
    /\ IF IsInjective(Members[oldlib(p)])
       THEN /\ result' = [result EXCEPT ![p] = @ \cup Found(p)]
            /\ Goto(p, "next")
       ELSE /\ UNCHANGED result
            /\ Goto(p, "failed")
    /\ UNCHANGED <<lockfile, runVars, files>>

Finish(p) ==
    /\ pc[p] = "next" /\ at[p] = Len(oldlibs[p])
    /\ Goto(p, "done")
    /\ UNCHANGED <<lockfile, runVars, files, result>>

\* No trap is set.
Kill(p) ==
    /\ pc[p] \notin {"done", "failed", "killed"}
    /\ Goto(p, "killed")
    /\ UNCHANGED <<lockfile, runVars, files, result>>

Init ==
    /\ lockfile = {} /\ pc = [p \in Run |-> "next"] /\ at = [p \in Run |-> 0]
    /\ extracted_archives = [p \in Run |-> {}] /\ extracted_serial = [p \in Run |-> 0]
    /\ xdir = [p \in Run |-> <<>>]
    /\ files = [p \in Run |-> {}] /\ result = [p \in Run |-> {}]

Step(p) == NextArchive(p) \/ Lock(p) \/ Unpack(p) \/ Unlock(p) \/ Check(p) \/ Finish(p)
Next == \E p \in Run : Step(p) \/ Kill(p)

Fairness == \A p \in Run : WF_vars(Step(p))
Spec == Init /\ [][Next]_vars /\ Fairness

-----------------------------------------------------------------------------
\* The types; a lock file has a run that made it.
TypeOK ==
    /\ lockfile \subseteq Archive
    /\ \A p \in Run :
          /\ pc[p] \in {"next", "lock", "ar", "unlock", "failing", "check", "done", "failed", "killed"}
          /\ at[p] \in 0..Len(oldlibs[p]) /\ extracted_serial[p] \in Nat
          /\ \A f \in files[p] : f.dir \in extracted_archives[p] /\ f.from \in Archive

Unpacking(p) == pc[p] \in {"ar", "unlock", "failing"}

\* With the lock an archive is unpacked by one run at a time, though runs fail
\* and are killed (func_extract_an_archive).
OneUnpacks ==
    Locking => \A p, q \in Run :
        Unpacking(p) /\ Unpacking(q) /\ oldlib(p) = oldlib(q) => p = q

\* A run that succeeds has found every object of each of its archives: none was
\* written over by another archive of the same base name, nor by another object
\* of its name.
AllMembersFound ==
    \A p \in Run : pc[p] = "done" =>
        \A a \in ToSet(oldlibs[p]) :
            Cardinality({f \in files[p] : f.from = a /\ [dir |-> f.dir, object |-> f.object] \in result[p]})
                = Len(Members[a]) * Cardinality({i \in DOMAIN oldlibs[p] : oldlibs[p][i] = a})

\* Only a run that was killed leaves its lock file, for which others then wait
\* for ever.
LockGone ==
    \A a \in lockfile : \E p \in Run :
        at[p] > 0 /\ oldlib(p) = a /\ (Unpacking(p) \/ pc[p] = "killed")

\* Unless a run is killed, every run ends.
AllEnd == <>((\A p \in Run : pc[p] \in {"done", "failed"}) \/ \E p \in Run : pc[p] = "killed")

\* Archives are unpacked one at a time, completely, and their locks given back.
ArchivesRight == TypeOK /\ OneUnpacks /\ AllMembersFound /\ LockGone
=============================================================================
