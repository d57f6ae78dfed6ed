---------------------------- MODULE ScriptParts -----------------------------
(***************************************************************************)
(* Parts of the libtool script side by side: version numbers, programs     *)
(* that relink themselves, the extraction of archives, and relinking at    *)
(* installation.  They have nothing in common; each keeps its own files.   *)
(***************************************************************************)
EXTENDS VersionInfo

CONSTANTS
    Wrappers, NoFile, MaxBuilds, MaxKills,              \* of Wrapper
    Run, Archive, Basename, Members, oldlibs, Locking,  \* of ExtractArchives
    MaxInstalls                                         \* of Relink

VARIABLES
    mv_replaces, overlap, build, wrapper, program, file, script, kills, runs,
    lockfile, at, extracted_archives, extracted_serial, xdir, files, result, unpacking,
    realname, realnameU, realnameT, installed, la, installs, interrupted, installing

IsList(s) == Len(s) \in Nat /\ s = [i \in 1..Len(s) |-> s[i]]

ASSUME ScriptAssumption ==
    /\ MaxBuilds \in Nat \ {0} /\ MaxKills \in Nat /\ MaxInstalls \in Nat
    /\ NoFile \notin [build : 1..MaxBuilds, whole : BOOLEAN]
    /\ oldlibs \in [Run -> Seq(Archive)] /\ Locking \in BOOLEAN
    /\ Members = [a \in Archive |-> Members[a]] /\ Basename = [a \in Archive |-> Basename[a]]
    /\ \A a \in Archive : IsList(Members[a]) /\ IsList(Basename[a])

W == INSTANCE Wrapper WITH Run <- Wrappers, pc <- runs
X == INSTANCE ExtractArchives WITH pc <- unpacking
R == INSTANCE Relink WITH pc <- installing

\* What the wrapper scripts execute is a whole program, there and current.
ProgramsRight == W!ProgramsRight
\* Archives are unpacked by one run at a time, completely, and locks go.
ArchivesRight == X!ArchivesRight
\* An installation keeps the uninstalled library and installs the relinked one.
LibrariesRight == R!LibrariesRight
=============================================================================
