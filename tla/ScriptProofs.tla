---------------------------- MODULE ScriptProofs ----------------------------
(***************************************************************************)
(* Theorems about the parts of the libtool script, for any numbers of      *)
(* runs, builds, archives and releases: uninstalled programs that relink   *)
(* themselves (Wrapper), relinking at installation (Relink), extraction of *)
(* archives (ExtractArchives) and version numbers (VersionInfo).           *)
(***************************************************************************)
EXTENDS ScriptParts, SequenceTheorems, FiniteSetTheorems, TLAPS

(***************************************************************************)
(* Programs that relink themselves.                                        *)
(***************************************************************************)
WrapperLabel == {"ended", "look", "clean", "link", "linking", "move", "move again",
          "test", "exec", "missing"}
File == [build : 1..MaxBuilds, whole : BOOLEAN]

\* The types, also of the variables TypeOK says nothing about.
WrapperTypes ==
    /\ mv_replaces \in BOOLEAN /\ overlap \in BOOLEAN /\ wrapper \in BOOLEAN
    /\ build \in 1..MaxBuilds /\ kills \in Nat
    /\ program \in File \cup {NoFile}
    /\ file \in [Wrappers -> File \cup {NoFile}]
    /\ runs \in [Wrappers -> WrapperLabel]
    /\ script \in [Wrappers -> 0..MaxBuilds]

\* Only a killed run leaves its file.
EndsWithoutFile ==
    kills = 0 => \A p \in Wrappers :
        runs[p] \in {"ended", "look", "test", "exec", "missing"} => file[p] = NoFile

\* A run that links has a file, and it is whole when the run comes to move it.
FileThere ==
    \A p \in Wrappers :
        /\ runs[p] = "linking" => file[p] # NoFile
        /\ runs[p] \in {"move", "move again"} => file[p] # NoFile /\ file[p].whole

\* Where mode link waits, a run that links has the objects of this build,
\* and so has the program.
FileCurrent ==
    ~overlap => \A p \in Wrappers :
        /\ runs[p] # "ended" => wrapper
        /\ runs[p] \in {"linking", "move", "move again"} => file[p].build = build

ProgramOfBuild == ~overlap /\ program # NoFile => program.build = build

\* Where mv replaces, a run that saw the program finds it, or there is a new build.
SeesProgram ==
    mv_replaces => \A p \in Wrappers :
        /\ runs[p] # "move again"
        /\ runs[p] \in {"test", "exec"} => program # NoFile \/ script[p] < build
        /\ runs[p] = "missing" => script[p] < build

\* A run reads the wrapper of this build or of an earlier one.
ReadsEarlier == \A p \in Wrappers : script[p] <= build

\* The inductive invariant.
WrapperInv ==
    /\ WrapperTypes /\ EndsWithoutFile /\ FileThere /\ FileCurrent /\ ProgramOfBuild
    /\ SeesProgram /\ ReadsEarlier /\ W!OnlyWholePrograms

\* A file is not the value that stands for none.
Apart == NoFile \notin File

\* The invariant holds at the start.
LEMMA WrapperInitHolds ==
    ASSUME MaxBuilds \in Nat \ {0}, W!Init
    PROVE  WrapperInv
<1>1. WrapperTypes
  <2>1. /\ mv_replaces \in BOOLEAN /\ overlap \in BOOLEAN /\ wrapper \in BOOLEAN
        /\ program \in File \cup {NoFile} /\ file \in [Wrappers -> File \cup {NoFile}]
        /\ runs \in [Wrappers -> WrapperLabel]
    BY DEF W!Init, WrapperLabel
  <2>2. build = 1 /\ kills = 0 /\ script = [p \in Wrappers |-> 0]
    BY DEF W!Init
  <2>3. build \in 1..MaxBuilds /\ kills \in Nat /\ script \in [Wrappers -> 0..MaxBuilds]
    BY <2>2
  <2> QED
    BY <2>1, <2>3 DEF WrapperTypes
<1>2. EndsWithoutFile
  BY DEF EndsWithoutFile, W!Init
<1>3. FileThere
  BY DEF FileThere, W!Init
<1>4. FileCurrent
  BY DEF FileCurrent, W!Init
<1>5. ProgramOfBuild
  BY DEF ProgramOfBuild, W!Init
<1>6. SeesProgram
  BY DEF SeesProgram, W!Init
<1>7. ReadsEarlier
  <2>1. build = 1 /\ script = [p \in Wrappers |-> 0]
    BY DEF W!Init
  <2>2. \A p \in Wrappers : script[p] = 0
    BY <2>1
  <2>3. 0 <= build
    BY <2>1
  <2> QED
    BY <2>2, <2>3 DEF ReadsEarlier
<1>8. W!OnlyWholePrograms
  BY DEF W!OnlyWholePrograms, W!Init
<1> QED
  BY <1>1, <1>2, <1>3, <1>4, <1>5, <1>6, <1>7, <1>8 DEF WrapperInv

-----------------------------------------------------------------------------
\* No action breaks the invariant: a lemma for each.
LEMMA StartRunKeeps ==
    ASSUME Apart, MaxBuilds \in Nat \ {0}, WrapperInv, NEW p \in Wrappers, W!StartRun(p)
    PROVE  WrapperInv'
<1>1. WrapperTypes'
  <2>1. /\ mv_replaces' \in BOOLEAN /\ overlap' \in BOOLEAN /\ wrapper' \in BOOLEAN
        /\ program' \in File \cup {NoFile} /\ file' \in [Wrappers -> File \cup {NoFile}]
    BY DEF WrapperInv, WrapperTypes, W!StartRun
  <2>2. runs' \in [Wrappers -> WrapperLabel]
    BY DEF WrapperInv, WrapperTypes, W!StartRun, W!Goto, WrapperLabel
  <2>3. /\ build' \in 1..MaxBuilds /\ kills' \in Nat
        /\ script' \in [Wrappers -> 0..MaxBuilds]
    <3>1. /\ build \in 1..MaxBuilds /\ kills \in Nat /\ script \in [Wrappers -> 0..MaxBuilds]
          /\ build' = build /\ kills' = kills /\ script' = [script EXCEPT ![p] = build]
      BY DEF WrapperInv, WrapperTypes, W!StartRun
    <3> QED
      BY <3>1
  <2> QED
    BY <2>1, <2>2, <2>3 DEF WrapperTypes
<1>2. EndsWithoutFile'
  BY DEF WrapperInv, WrapperTypes, EndsWithoutFile, W!StartRun, W!Goto
<1>3. FileThere'
  BY DEF WrapperInv, WrapperTypes, FileThere, W!StartRun, W!Goto
<1>4. FileCurrent'
  BY DEF WrapperInv, WrapperTypes, FileCurrent, W!StartRun, W!Goto
<1>5. ProgramOfBuild'
  BY DEF WrapperInv, WrapperTypes, FileCurrent, ProgramOfBuild, W!StartRun, W!Goto
<1>6. SeesProgram'
  BY DEF WrapperInv, WrapperTypes, FileThere, ReadsEarlier, SeesProgram, W!StartRun, W!Goto
<1>7. ReadsEarlier'
  BY DEF WrapperInv, WrapperTypes, ReadsEarlier, W!StartRun, W!Goto
<1>8. W!OnlyWholePrograms'
  BY DEF WrapperInv, WrapperTypes, FileThere, W!OnlyWholePrograms, W!StartRun, W!Goto
<1> QED
  BY <1>1, <1>2, <1>3, <1>4, <1>5, <1>6, <1>7, <1>8 DEF WrapperInv

LEMMA LookKeeps ==
    ASSUME Apart, MaxBuilds \in Nat \ {0}, WrapperInv, NEW p \in Wrappers, W!Look(p)
    PROVE  WrapperInv'
  BY DEF WrapperInv, WrapperTypes, EndsWithoutFile, FileThere, FileCurrent, ProgramOfBuild,
         SeesProgram, ReadsEarlier, W!OnlyWholePrograms, File, WrapperLabel, W!Goto, W!Look

LEMMA CleanKeeps ==
    ASSUME Apart, MaxBuilds \in Nat \ {0}, WrapperInv, NEW p \in Wrappers, W!Clean(p)
    PROVE  WrapperInv'
  BY DEF WrapperInv, WrapperTypes, EndsWithoutFile, FileThere, FileCurrent, ProgramOfBuild,
         SeesProgram, ReadsEarlier, W!OnlyWholePrograms, File, WrapperLabel, W!Goto, W!Clean

LEMMA LinkKeeps ==
    ASSUME Apart, MaxBuilds \in Nat \ {0}, WrapperInv, NEW p \in Wrappers, W!Link(p)
    PROVE  WrapperInv'
<1>1. WrapperTypes'
  BY DEF WrapperInv, WrapperTypes, W!Link, W!Goto, W!Linked, File, WrapperLabel
<1>2. EndsWithoutFile'
  BY DEF WrapperInv, WrapperTypes, EndsWithoutFile, W!Link, W!Goto, W!Linked
<1>3. FileThere'
  <2>1. /\ file' = [file EXCEPT ![p] = W!Linked(FALSE)] /\ runs' = [runs EXCEPT ![p] = "linking"]
        /\ file \in [Wrappers -> File \cup {NoFile}] /\ runs \in [Wrappers -> WrapperLabel]
    BY DEF WrapperInv, WrapperTypes, W!Link, W!Goto
  <2>2. W!Linked(FALSE) # NoFile
    <3>1. build \in 1..MaxBuilds
      BY DEF WrapperInv, WrapperTypes
    <3>2. [build |-> build, whole |-> FALSE] \in File
      BY <3>1 DEF File
    <3> QED
      BY <3>2 DEF W!Linked, Apart
  <2> QED
    BY <2>1, <2>2 DEF WrapperInv, FileThere
<1>4. FileCurrent'
  BY DEF WrapperInv, WrapperTypes, FileCurrent, W!Link, W!Goto, W!Linked
<1>5. ProgramOfBuild'
  BY DEF WrapperInv, WrapperTypes, FileCurrent, ProgramOfBuild, W!Link, W!Goto, W!Linked
<1>6. SeesProgram'
  BY DEF WrapperInv, WrapperTypes, FileThere, ReadsEarlier, SeesProgram, W!Link, W!Goto, W!Linked
<1>7. ReadsEarlier'
  BY DEF WrapperInv, WrapperTypes, ReadsEarlier, W!Link, W!Goto, W!Linked
<1>8. W!OnlyWholePrograms'
  BY DEF WrapperInv, WrapperTypes, FileThere, W!OnlyWholePrograms, W!Link, W!Goto, W!Linked
<1> QED
  BY <1>1, <1>2, <1>3, <1>4, <1>5, <1>6, <1>7, <1>8 DEF WrapperInv

LEMMA LinkEndsKeeps ==
    ASSUME Apart, MaxBuilds \in Nat \ {0}, WrapperInv, NEW p \in Wrappers, W!LinkEnds(p)
    PROVE  WrapperInv'
  BY ZenonT(60) DEF WrapperInv, WrapperTypes, EndsWithoutFile, FileThere, FileCurrent, ProgramOfBuild,
         SeesProgram, ReadsEarlier, W!OnlyWholePrograms, File, WrapperLabel, W!Goto, Apart, W!LinkEnds

LEMMA LinkFailsKeeps ==
    ASSUME Apart, MaxBuilds \in Nat \ {0}, WrapperInv, NEW p \in Wrappers, W!LinkFails(p)
    PROVE  WrapperInv'
  BY DEF WrapperInv, WrapperTypes, EndsWithoutFile, FileThere, FileCurrent, ProgramOfBuild,
         SeesProgram, ReadsEarlier, W!OnlyWholePrograms, File, WrapperLabel, W!Goto, W!LinkFails

LEMMA MoveKeeps ==
    ASSUME Apart, MaxBuilds \in Nat \ {0}, WrapperInv, NEW p \in Wrappers, W!Move(p)
    PROVE  WrapperInv'
<1>1. WrapperTypes'
  BY ZenonT(60) DEF WrapperInv, WrapperTypes, W!Move, W!Goto, File, WrapperLabel
<1>2. EndsWithoutFile'
  BY DEF WrapperInv, WrapperTypes, EndsWithoutFile, W!Move, W!Goto
<1>3. FileThere'
  BY DEF WrapperInv, WrapperTypes, FileThere, W!Move, W!Goto
<1>4. FileCurrent'
  BY DEF WrapperInv, WrapperTypes, FileCurrent, W!Move, W!Goto
<1>5. ProgramOfBuild'
  BY DEF WrapperInv, WrapperTypes, FileCurrent, ProgramOfBuild, W!Move, W!Goto
<1>6. SeesProgram'
  BY DEF WrapperInv, WrapperTypes, FileThere, ReadsEarlier, SeesProgram, W!Move, W!Goto
<1>7. ReadsEarlier'
  BY DEF WrapperInv, WrapperTypes, ReadsEarlier, W!Move, W!Goto
<1>8. W!OnlyWholePrograms'
  BY DEF WrapperInv, WrapperTypes, FileThere, W!OnlyWholePrograms, W!Move, W!Goto
<1> QED
  BY <1>1, <1>2, <1>3, <1>4, <1>5, <1>6, <1>7, <1>8 DEF WrapperInv

LEMMA MoveAgainKeeps ==
    ASSUME Apart, MaxBuilds \in Nat \ {0}, WrapperInv, NEW p \in Wrappers, W!MoveAgain(p)
    PROVE  WrapperInv'
  BY DEF WrapperInv, WrapperTypes, EndsWithoutFile, FileThere, FileCurrent, ProgramOfBuild,
         SeesProgram, ReadsEarlier, W!OnlyWholePrograms, File, WrapperLabel, W!Goto, W!MoveAgain

LEMMA TestKeeps ==
    ASSUME Apart, MaxBuilds \in Nat \ {0}, WrapperInv, NEW p \in Wrappers, W!Test(p)
    PROVE  WrapperInv'
  BY DEF WrapperInv, WrapperTypes, EndsWithoutFile, FileThere, FileCurrent, ProgramOfBuild,
         SeesProgram, ReadsEarlier, W!OnlyWholePrograms, File, WrapperLabel, W!Goto, W!Test

LEMMA ExecKeeps ==
    ASSUME Apart, MaxBuilds \in Nat \ {0}, WrapperInv, NEW p \in Wrappers, W!Exec(p)
    PROVE  WrapperInv'
  BY DEF WrapperInv, WrapperTypes, EndsWithoutFile, FileThere, FileCurrent, ProgramOfBuild,
         SeesProgram, ReadsEarlier, W!OnlyWholePrograms, File, WrapperLabel, W!Goto, W!Exec

LEMMA MissingKeeps ==
    ASSUME Apart, MaxBuilds \in Nat \ {0}, WrapperInv, NEW p \in Wrappers, W!Missing(p)
    PROVE  WrapperInv'
  BY DEF WrapperInv, WrapperTypes, EndsWithoutFile, FileThere, FileCurrent, ProgramOfBuild,
         SeesProgram, ReadsEarlier, W!OnlyWholePrograms, File, WrapperLabel, W!Goto, W!Missing

LEMMA KillKeeps ==
    ASSUME Apart, MaxBuilds \in Nat \ {0}, WrapperInv, NEW p \in Wrappers, W!Kill(p)
    PROVE  WrapperInv'
<1>1. WrapperTypes'
  <2>1. /\ mv_replaces' \in BOOLEAN /\ overlap' \in BOOLEAN /\ wrapper' \in BOOLEAN
        /\ program' \in File \cup {NoFile} /\ file' \in [Wrappers -> File \cup {NoFile}]
    BY DEF WrapperInv, WrapperTypes, W!Kill
  <2>2. runs' \in [Wrappers -> WrapperLabel]
    BY DEF WrapperInv, WrapperTypes, W!Kill, W!Goto, WrapperLabel
  <2>3. /\ build' \in 1..MaxBuilds /\ kills' \in Nat
        /\ script' \in [Wrappers -> 0..MaxBuilds]
    <3>1. /\ build' \in 1..MaxBuilds /\ script' \in [Wrappers -> 0..MaxBuilds]
          /\ kills \in Nat /\ kills' = kills + 1
      BY DEF WrapperInv, WrapperTypes, W!Kill
    <3> QED
      BY <3>1
  <2> QED
    BY <2>1, <2>2, <2>3 DEF WrapperTypes
<1>2. EndsWithoutFile'
  BY DEF WrapperInv, WrapperTypes, EndsWithoutFile, W!Kill, W!Goto
<1>3. FileThere'
  BY DEF WrapperInv, WrapperTypes, FileThere, W!Kill, W!Goto
<1>4. FileCurrent'
  BY DEF WrapperInv, WrapperTypes, FileCurrent, W!Kill, W!Goto
<1>5. ProgramOfBuild'
  BY DEF WrapperInv, WrapperTypes, FileCurrent, ProgramOfBuild, W!Kill, W!Goto
<1>6. SeesProgram'
  BY DEF WrapperInv, WrapperTypes, FileThere, ReadsEarlier, SeesProgram, W!Kill, W!Goto
<1>7. ReadsEarlier'
  BY DEF WrapperInv, WrapperTypes, ReadsEarlier, W!Kill, W!Goto
<1>8. W!OnlyWholePrograms'
  BY DEF WrapperInv, WrapperTypes, FileThere, W!OnlyWholePrograms, W!Kill, W!Goto
<1> QED
  BY <1>1, <1>2, <1>3, <1>4, <1>5, <1>6, <1>7, <1>8 DEF WrapperInv

LEMMA RebuildKeeps ==
    ASSUME Apart, MaxBuilds \in Nat \ {0}, WrapperInv, W!Rebuild
    PROVE  WrapperInv'
<1>1. WrapperTypes'
  <2>1. /\ mv_replaces' \in BOOLEAN /\ overlap' \in BOOLEAN /\ wrapper' \in BOOLEAN
        /\ program' \in File \cup {NoFile} /\ file' \in [Wrappers -> File \cup {NoFile}]
    BY DEF WrapperInv, WrapperTypes, W!Rebuild
  <2>2. runs' \in [Wrappers -> WrapperLabel] /\ kills' \in Nat /\ script' \in [Wrappers -> 0..MaxBuilds]
    BY DEF WrapperInv, WrapperTypes, W!Rebuild
  <2>3. build' \in 1..MaxBuilds
    <3>1. build \in 1..MaxBuilds /\ build < MaxBuilds /\ build' = build + 1
      BY DEF WrapperInv, WrapperTypes, W!Rebuild
    <3> QED
      BY <3>1
  <2> QED
    BY <2>1, <2>2, <2>3 DEF WrapperTypes
<1>2. EndsWithoutFile'
  BY DEF WrapperInv, WrapperTypes, EndsWithoutFile, W!Rebuild
<1>3. FileThere'
  BY DEF WrapperInv, WrapperTypes, FileThere, W!Rebuild
<1>4. FileCurrent'
  BY DEF WrapperInv, WrapperTypes, FileCurrent, W!Rebuild, W!Quiet
<1>5. ProgramOfBuild'
  BY DEF WrapperInv, WrapperTypes, FileCurrent, ProgramOfBuild, W!Rebuild
<1>6. SeesProgram'
  <2>1. /\ mv_replaces' = mv_replaces /\ runs' = runs /\ script' = script
        /\ build' = build + 1 /\ build \in 1..MaxBuilds /\ script \in [Wrappers -> 0..MaxBuilds]
    BY DEF WrapperInv, WrapperTypes, W!Rebuild
  <2>2. \A p \in Wrappers : script'[p] < build'
    BY <2>1 DEF WrapperInv, ReadsEarlier
  <2>3. mv_replaces => \A p \in Wrappers : runs[p] # "move again"
    BY DEF WrapperInv, SeesProgram
  <2> QED
    BY <2>1, <2>2, <2>3, Zenon DEF SeesProgram
<1>7. ReadsEarlier'
  BY DEF WrapperInv, WrapperTypes, ReadsEarlier, W!Rebuild
<1>8. W!OnlyWholePrograms'
  BY DEF WrapperInv, WrapperTypes, FileThere, W!OnlyWholePrograms, W!Rebuild
<1> QED
  BY <1>1, <1>2, <1>3, <1>4, <1>5, <1>6, <1>7, <1>8 DEF WrapperInv

LEMMA WriteWrapperKeeps ==
    ASSUME Apart, MaxBuilds \in Nat \ {0}, WrapperInv, W!WriteWrapper
    PROVE  WrapperInv'
  BY DEF WrapperInv, WrapperTypes, EndsWithoutFile, FileThere, FileCurrent, ProgramOfBuild,
         SeesProgram, ReadsEarlier, W!OnlyWholePrograms, File, WrapperLabel, W!WriteWrapper

\* No step breaks the invariant.
LEMMA WrapperStepKeeps ==
    ASSUME Apart, MaxBuilds \in Nat \ {0}, WrapperInv, [W!Next]_W!vars
    PROVE  WrapperInv'
<1>1. CASE UNCHANGED W!vars
  BY <1>1 DEF W!vars, WrapperInv, WrapperTypes, EndsWithoutFile, FileThere, FileCurrent, ProgramOfBuild,
              SeesProgram, ReadsEarlier, W!OnlyWholePrograms
<1>2. ASSUME NEW p \in Wrappers,
             \/ W!StartRun(p) \/ W!Look(p) \/ W!Clean(p) \/ W!Link(p) \/ W!LinkEnds(p)
             \/ W!LinkFails(p) \/ W!Move(p) \/ W!MoveAgain(p) \/ W!Test(p) \/ W!Exec(p)
             \/ W!Missing(p) \/ W!Kill(p)
      PROVE  WrapperInv'
  BY <1>2, StartRunKeeps, LookKeeps, CleanKeeps, LinkKeeps, LinkEndsKeeps, LinkFailsKeeps,
     MoveKeeps, MoveAgainKeeps, TestKeeps, ExecKeeps, MissingKeeps, KillKeeps
<1>3. CASE W!Rebuild \/ W!WriteWrapper
  BY <1>3, RebuildKeeps, WriteWrapperKeeps
<1> QED
  BY <1>1, <1>2, <1>3 DEF W!Next

\* The properties are parts of the invariant.
LEMMA WrapperInvImplies ==
    ASSUME WrapperInv PROVE ProgramsRight
<1>1. W!TypeOK
  BY DEF W!TypeOK, WrapperInv, WrapperTypes, EndsWithoutFile, File
<1>2. W!ProgramCurrent
  BY DEF WrapperInv, ProgramOfBuild, W!ProgramCurrent
<1>3. W!ProgramThere
  BY DEF WrapperInv, SeesProgram, W!ProgramThere
<1> QED
  BY <1>1, <1>2, <1>3 DEF WrapperInv, ProgramsRight, W!ProgramsRight

\* Whatever a run of the wrapper executes was linked to the end, has the objects
\* of this build where mode link waits for such runs, and is there where mv
\* replaces files; whichever runs relink it at once, fail or are killed.
THEOREM ProgramsKept == W!Spec => []ProgramsRight
<1>1. Apart /\ MaxBuilds \in Nat \ {0}
  BY ScriptAssumption DEF Apart, File
<1>2. W!Init => WrapperInv
  BY <1>1, WrapperInitHolds
<1>3. WrapperInv /\ [W!Next]_W!vars => WrapperInv'
  BY <1>1, WrapperStepKeeps
<1>4. WrapperInv => ProgramsRight
  BY <1>1, WrapperInvImplies
<1> QED
  BY <1>2, <1>3, <1>4, PTL DEF W!Spec

(***************************************************************************)
(* Relinking when a library is installed.                                  *)
(***************************************************************************)
\* The types, also of where the installation is.
RelinkTypes ==
    /\ R!TypeOK
    /\ installing \in {"idle", "remove U", "backup", "link", "linking", "move T",
                       "restore", "install", "install la"}

\* What is moved to realnameT is the relinked library, and it stays there until
\* it is copied.
RelinkedMoves ==
    /\ installing = "move T" => realname = "relinked"
    /\ installing \in {"restore", "install"} => realnameT = "relinked"

\* The uninstalled library is in its place, or aside while mode relink links.
UninstalledSomewhere ==
    ~interrupted =>
        IF installing \in {"link", "linking", "move T", "restore"}
        THEN realnameU = "uninstalled" ELSE realname = "uninstalled"

RelinkInv == RelinkTypes /\ RelinkedMoves /\ UninstalledSomewhere /\ R!RelinkedInstalled

LEMMA RelinkInitHolds ==
    ASSUME MaxInstalls \in Nat, R!Init
    PROVE  RelinkInv
<1>1. 0 \in 0..MaxInstalls
  OBVIOUS
<1> QED
  BY <1>1, Zenon DEF R!Init, RelinkInv, RelinkTypes, R!TypeOK, RelinkedMoves, UninstalledSomewhere,
         R!RelinkedInstalled

LEMMA RelinkStepKeeps ==
    ASSUME MaxInstalls \in Nat, RelinkInv, [R!Next]_R!vars
    PROVE  RelinkInv'
<1> USE DEF RelinkInv, RelinkTypes, R!TypeOK, RelinkedMoves, UninstalledSomewhere,
            R!RelinkedInstalled, R!tree, R!dest
<1>1. CASE R!Begin
  <2>1. installs' \in 0..MaxInstalls
    <3>1. installs \in 0..MaxInstalls /\ installs < MaxInstalls /\ installs' = installs + 1
      BY <1>1, Zenon DEF R!Begin
    <3> QED
      BY ONLY <3>1, MaxInstalls \in Nat
  <2> QED
    BY <1>1, <2>1, Zenon DEF R!Begin
<1>2. CASE R!RemoveBackup
  BY <1>2 DEF R!RemoveBackup
<1>3. CASE R!Backup
  BY <1>3 DEF R!Backup
<1>4. CASE R!ExitUnrestored
  BY <1>4 DEF R!ExitUnrestored
<1>5. CASE R!Link
  BY <1>5 DEF R!Link
<1>6. CASE R!LinkEnds
  BY <1>6 DEF R!LinkEnds
<1>7. CASE R!LinkFails
  BY <1>7 DEF R!LinkFails
<1>8. CASE R!MoveNew
  BY <1>8 DEF R!MoveNew
<1>9. CASE R!Restore
  BY <1>9 DEF R!Restore
<1>10. CASE R!Install
  BY <1>10 DEF R!Install
<1>11. CASE R!InstallLa
  BY <1>11 DEF R!InstallLa
<1>12. CASE R!Interrupt
  BY <1>12 DEF R!Interrupt
<1>13. CASE UNCHANGED R!vars
  <2>1. /\ realname' = realname /\ realnameU' = realnameU /\ realnameT' = realnameT
        /\ installed' = installed /\ la' = la /\ installing' = installing
        /\ installs' = installs /\ interrupted' = interrupted
    BY ONLY <1>13 DEF R!vars, R!tree, R!dest
  <2>2. R!TypeOK' /\ R!RelinkedInstalled'
    BY <2>1
  <2>3. RelinkedMoves' /\ RelinkTypes'
    BY <2>1, <2>2
  <2>4. UninstalledSomewhere'
    BY <2>1
  <2> QED
    BY <2>2, <2>3, <2>4
<1> QED
  BY <1>1, <1>2, <1>3, <1>4, <1>5, <1>6, <1>7, <1>8, <1>9, <1>10, <1>11, <1>12, <1>13
  DEF R!Next

\* Whichever step of an installation fails or is interrupted, and however often it
\* is run again: what is installed is the relinked library, and between
\* installations the build tree has the uninstalled one, unless one was stopped
\* while it was moved away (func_mode_install, func_mode_link).
THEOREM RelinkedKept == R!Spec => []LibrariesRight
<1>1. R!Init => RelinkInv
  BY ScriptAssumption, RelinkInitHolds
<1>2. RelinkInv /\ [R!Next]_R!vars => RelinkInv'
  BY ScriptAssumption, RelinkStepKeeps
<1>3. RelinkInv => LibrariesRight
  BY DEF RelinkInv, RelinkTypes, UninstalledSomewhere, LibrariesRight, R!LibrariesRight,
         R!UninstalledKept
<1> QED
  BY <1>1, <1>2, <1>3, PTL DEF R!Spec

(***************************************************************************)
(* The extraction of archives.                                             *)
(***************************************************************************)
\* What names and objects are made of.
Text == UNION {{Basename[a][i] : i \in 1..Len(Basename[a])} : a \in Archive}
Object == UNION {{Members[a][i] : i \in 1..Len(Members[a])} : a \in Archive}

\* What func_extract_archives is given.
ArchivesGiven ==
    /\ oldlibs \in [Run -> Seq(Archive)]
    /\ Members \in [Archive -> Seq(Object)]
    /\ Basename \in [Archive -> Seq(Text)]
    /\ Locking \in BOOLEAN

LEMMA ArchivesTyped == ArchivesGiven
<1>1. ASSUME NEW a \in Archive
      PROVE  Members[a] \in Seq(Object) /\ Basename[a] \in Seq(Text)
  <2>1. IsList(Members[a]) /\ IsList(Basename[a])
    BY ScriptAssumption
  <2>2. ASSUME NEW s, NEW S, IsList(s), \A i \in 1..Len(s) : s[i] \in S
        PROVE  s \in Seq(S)
    <3>1. s \in [1..Len(s) -> S] /\ Len(s) \in Nat
      BY <2>2 DEF IsList
    <3> QED
      BY ONLY <3>1, SeqDef
  <2>3. \A i \in 1..Len(Members[a]) : Members[a][i] \in Object
    BY DEF Object
  <2>4. \A i \in 1..Len(Basename[a]) : Basename[a][i] \in Text
    BY DEF Text
  <2> QED
    BY ONLY <2>1, <2>2, <2>3, <2>4
<1>2. Members = [a \in Archive |-> Members[a]] /\ Basename = [a \in Archive |-> Basename[a]]
  BY ScriptAssumption
<1>3. Members \in [Archive -> Seq(Object)] /\ Basename \in [Archive -> Seq(Text)]
  BY ONLY <1>1, <1>2, Zenon
<1> QED
  BY <1>3, ScriptAssumption DEF ArchivesGiven

DirName == Seq(Text \cup Nat)
Unpacked == [dir : DirName, object : Object, from : Archive]
Found == [dir : DirName, object : Object]

Beginning == {"lock", "ar"}
Busy == Beginning \cup {"unlock", "failing", "check"}
Succeeding == Beginning \cup {"next", "unlock", "check", "done"}
Ended == {"done", "failed", "killed"}

\* How many archives are unpacked, and of how many the objects are collected.
Written(label, n) == IF label \in Beginning THEN n - 1 ELSE n
Collected(label, n) == IF label \in Busy THEN n - 1 ELSE n

Objects(p, i) == X!ToSet(Members[oldlibs[p][i]])

\* d is the directory of each archive: every file of every archive unpacked so far
\* is there, in its archive's own directory, and nothing else.
Dirs(p, d, label, n, ea, x, fs, rs) ==
    /\ d \in [1..n -> ea] /\ \A i, j \in 1..n : d[i] = d[j] => i = j
    /\ n >= 1 => x = d[n]
    /\ \A f : f \in fs <=>
          \E i \in 1..Written(label, n) : \E o \in Objects(p, i) :
              f = [dir |-> d[i], object |-> o, from |-> oldlibs[p][i]]
    /\ \A r : r \in rs <=>
          \E i \in 1..Collected(label, n) : \E o \in Objects(p, i) :
              r = [dir |-> d[i], object |-> o]
    /\ \A i \in 1..Collected(label, n) : X!IsInjective(Members[oldlibs[p][i]])

\* A run has a name for each archive it began with, and unless something failed
\* it has the files of each.
Right(p, label, n, ea, es, x, fs, rs) ==
    /\ label \in Busy \cup Ended \cup {"next"}
    /\ n \in 0..Len(oldlibs[p]) /\ (label \in Busy => n >= 1)
    /\ es \in Nat /\ ea \subseteq DirName /\ IsFiniteSet(ea) /\ (n >= 1 => x \in ea)
    /\ fs \subseteq Unpacked /\ \A f \in fs : f.dir \in ea
    /\ label = "done" => n = Len(oldlibs[p])
    /\ label \in Succeeding => \E d : Dirs(p, d, label, n, ea, x, fs, rs)

RunRight(p) == Right(p, unpacking[p], at[p], extracted_archives[p], extracted_serial[p],
                     xdir[p], files[p], result[p])

Domains ==
    /\ unpacking = [p \in Run |-> unpacking[p]] /\ at = [p \in Run |-> at[p]]
    /\ extracted_archives = [p \in Run |-> extracted_archives[p]]
    /\ extracted_serial = [p \in Run |-> extracted_serial[p]]
    /\ xdir = [p \in Run |-> xdir[p]] /\ files = [p \in Run |-> files[p]]
    /\ result = [p \in Run |-> result[p]]

\* A run that unpacks has the lock, if there are locks.
LockHeld ==
    /\ lockfile \subseteq (IF Locking THEN Archive ELSE {})
    /\ Locking => \A p \in Run : X!Unpacking(p) => X!oldlib(p) \in lockfile

ExtractInv ==
    /\ Domains /\ \A p \in Run : RunRight(p)
    /\ LockHeld /\ X!OneUnpacks /\ X!LockGone

-----------------------------------------------------------------------------
\* The two names of the number of elements.
LEMMA CardSame ==
    ASSUME NEW S PROVE X!Cardinality(S) = Cardinality(S)
  BY Zenon DEF X!Cardinality, Cardinality

\* A set of numbers has a least one.
LEMMA LeastNat ==
    ASSUME NEW T, T \subseteq Nat, T # {}
    PROVE  \E x \in T : \A y \in T : x <= y
<1> DEFINE B == OpToRel(<, Nat)
<1>1. IsWellFoundedOn(B, Nat)
  BY NatLessThanWellFounded
<1>2. \A x, y \in Nat : x < y => <<x, y>> \in B
  BY DEF OpToRel
<1> HIDE DEF B
<1>3. PICK x \in T : \A y \in T : ~(<<y, x>> \in B)
  BY <1>1, WFMin
<1>4. ASSUME NEW y \in T PROVE x <= y
  <2>1. y \in Nat /\ x \in Nat
    OBVIOUS
  <2>2. ~(y < x)
    BY <1>2, <1>3, <2>1
  <2> QED
    BY <2>1, <2>2
<1> QED
  BY <1>4

\* Of the names tried one is free (func_extract_archives tries one after another).
LEMMA NameFree ==
    ASSUME NEW base \in Seq(Text), NEW taken, IsFiniteSet(taken), NEW serial \in Nat
    PROVE  /\ X!FreeName(base, taken, serial).name \in DirName \ taken
           /\ X!FreeName(base, taken, serial).serial \in Nat
<1>1. CASE base \notin taken
  <2>1. X!FreeName(base, taken, serial) = [name |-> base, serial |-> serial]
    BY <1>1 DEF X!FreeName
  <2>2. base \in DirName
    BY DEF DirName
  <2> QED
    BY <1>1, <2>1, <2>2
<1>2. CASE base \in taken
  <2> DEFINE n == X!Cardinality(taken)
             I == (serial + 1)..(serial + 1 + n)
             free == {k \in I : <<k>> \o base \notin taken}
             k0 == CHOOSE k \in free : \A j \in free : k <= j
  <2>1. n \in Nat /\ n = Cardinality(taken)
    BY FS_CardinalityType, CardSame
  <2> HIDE DEF n
  <2>2. IsFiniteSet(I) /\ Cardinality(I) = n + 1 /\ I \subseteq Nat
    <3>1. serial + 1 \in Int /\ serial + 1 + n \in Int
      BY <2>1
    <3>2. /\ IsFiniteSet(I)
          /\ Cardinality(I) = IF serial + 1 > serial + 1 + n THEN 0
                              ELSE (serial + 1 + n) - (serial + 1) + 1
      BY <3>1, FS_Interval
    <3> HIDE DEF I
    <3>3. Cardinality(I) = n + 1
      BY <3>2, <2>1
    <3>4. I \subseteq Nat
      BY <2>1 DEF I
    <3> QED
      BY <3>2, <3>3, <3>4
  <2>3. \A k \in Nat : <<k>> \o base \in DirName /\ (<<k>> \o base)[1] = k
    BY DEF DirName
  <2>4. free # {}
    <3>1. SUFFICES ASSUME free = {} PROVE FALSE
      OBVIOUS
    <3> DEFINE g == [k \in I |-> <<k>> \o base]
    <3>2. g \in [I -> taken]
      BY <3>1
    <3>3. PICK x \in I, y \in I : x # y /\ g[x] = g[y]
      <4>1. Cardinality(taken) < Cardinality(I)
        BY <2>1, <2>2
      <4> HIDE DEF I, g
      <4> QED
        BY <3>2, <4>1, <2>2, FS_PigeonHole
    <3>4. (<<x>> \o base)[1] = (<<y>> \o base)[1] /\ x \in Nat /\ y \in Nat
      BY <3>3, <2>2
    <3> QED
      BY <3>4, <3>3, <2>3
  <2>5. free \subseteq Nat
    BY <2>2
  <2>6. k0 \in free
    <3> HIDE DEF free
    <3>1. \E k \in free : \A j \in free : k <= j
      BY <2>4, <2>5, LeastNat
    <3> QED
      BY <3>1
  <2>7. X!FreeName(base, taken, serial) = [name |-> <<k0>> \o base, serial |-> k0]
    BY <1>2, Zenon DEF X!FreeName, n
  <2> HIDE DEF k0
  <2>8. k0 \in Nat /\ <<k0>> \o base \notin taken /\ <<k0>> \o base \in DirName
    BY <2>6, <2>5, <2>3
  <2> QED
    BY <2>7, <2>8
<1> QED
  BY <1>1, <1>2

\* The objects of the archive a run comes to.
LEMMA ArchiveGiven ==
    ASSUME ArchivesGiven, NEW p \in Run, NEW i \in 1..Len(oldlibs[p])
    PROVE  /\ oldlibs[p][i] \in Archive /\ Basename[oldlibs[p][i]] \in Seq(Text)
           /\ Objects(p, i) \subseteq Object
<1>1. oldlibs[p] \in Seq(Archive)
  BY DEF ArchivesGiven
<1>2. oldlibs[p][i] \in Archive
  BY <1>1
<1>3. Members[oldlibs[p][i]] \in Seq(Object) /\ Basename[oldlibs[p][i]] \in Seq(Text)
  BY <1>2 DEF ArchivesGiven
<1> QED
  BY <1>2, <1>3 DEF Objects, X!ToSet

\* NextArchive: the run has a directory of its own for one archive more.
LEMMA NextArchiveRight ==
    ASSUME ArchivesGiven, NEW p \in Run, NEW n, NEW ea, NEW es, NEW x, NEW fs, NEW rs,
           Right(p, "next", n, ea, es, x, fs, rs), n + 1 <= Len(oldlibs[p]),
           NEW c, c = X!FreeName(Basename[oldlibs[p][n + 1]], ea, es)
    PROVE  Right(p, "lock", n + 1, ea \cup {c.name}, c.serial, c.name, fs, rs)
<1>1. /\ n \in Nat /\ Len(oldlibs[p]) \in Nat
      /\ es \in Nat /\ ea \subseteq DirName /\ IsFiniteSet(ea) /\ fs \subseteq Unpacked
      /\ \A f \in fs : f.dir \in ea
  BY DEF Right, ArchivesGiven
<1>2. n + 1 \in 1..Len(oldlibs[p])
  BY <1>1
<1>3. c.name \in DirName /\ c.name \notin ea /\ c.serial \in Nat
  BY <1>1, <1>2, ArchiveGiven, NameFree
<1>4. IsFiniteSet(ea \cup {c.name})
  BY <1>1, FS_AddElement
<1>5. PICK d : Dirs(p, d, "next", n, ea, x, fs, rs)
  BY DEF Right, Succeeding
<1> DEFINE m == n + 1
           b == [i \in 1..m |-> IF i = m THEN c.name ELSE d[i]]
<1>6. d \in [1..n -> ea] /\ \A i, j \in 1..n : d[i] = d[j] => i = j
  BY <1>5 DEF Dirs
<1>7. /\ b \in [1..m -> ea \cup {c.name}] /\ b[m] = c.name /\ m \in Nat /\ m >= 1
      /\ \A i \in 1..n : b[i] = d[i] /\ i \in 1..m
  BY <1>1, <1>6
<1>8. Written("next", n) = n /\ Collected("next", n) = n
  BY DEF Written, Collected, Beginning, Busy
<1>9. Written("lock", m) = n /\ Collected("lock", m) = n
  BY <1>1 DEF Written, Collected, Beginning, Busy
<1>10. \A i, j \in 1..m : b[i] = b[j] => i = j
  <2>1. \A i \in 1..m : i = m \/ i \in 1..n
    BY <1>1
  <2>2. \A i \in 1..n : b[i] \in ea
    BY <1>6, <1>7
  <2> HIDE DEF b, m
  <2> QED
    BY <2>1, <2>2, <1>3, <1>6, <1>7
<1>11. Dirs(p, b, "lock", m, ea \cup {c.name}, c.name, fs, rs)
  <2> HIDE DEF b, m
  <2>1. /\ \A f : f \in fs <=> \E i \in 1..n : \E o \in Objects(p, i) :
              f = [dir |-> b[i], object |-> o, from |-> oldlibs[p][i]]
        /\ \A r : r \in rs <=> \E i \in 1..n : \E o \in Objects(p, i) :
              r = [dir |-> b[i], object |-> o]
    BY <1>5, <1>7, <1>8 DEF Dirs
  <2>2. \A i \in 1..n : X!IsInjective(Members[oldlibs[p][i]])
    BY <1>5, <1>8 DEF Dirs
  <2> QED
    BY <2>1, <2>2, <1>7, <1>9, <1>10 DEF Dirs
<1> HIDE DEF b, m
<1>12. m \in 0..Len(oldlibs[p]) /\ m >= 1 /\ m = n + 1
  BY <1>1, <1>2 DEF m
<1>13. "lock" \in Busy /\ "lock" # "done"
  BY DEF Busy, Beginning
<1>14. /\ ea \cup {c.name} \subseteq DirName /\ c.name \in ea \cup {c.name}
       /\ \A f \in fs : f.dir \in ea \cup {c.name}
  BY <1>1, <1>3
<1>15. Right(p, "lock", m, ea \cup {c.name}, c.serial, c.name, fs, rs)
  BY <1>1, <1>3, <1>4, <1>11, <1>12, <1>13, <1>14 DEF Right
<1> QED
  BY <1>12, <1>15

\* The files of a run after it unpacked objects of its archive.
With(p, n, x, fs, objects) ==
    {f \in fs : f.dir # x \/ f.object \notin objects}
        \cup {[dir |-> x, object |-> o, from |-> oldlibs[p][n]] : o \in objects}

LEMMA WithTypes ==
    ASSUME ArchivesGiven, NEW p \in Run, NEW n \in 1..Len(oldlibs[p]), NEW ea, ea \subseteq DirName,
           NEW x \in ea, NEW fs, fs \subseteq Unpacked, \A f \in fs : f.dir \in ea,
           NEW objects, objects \subseteq Objects(p, n)
    PROVE  /\ With(p, n, x, fs, objects) \subseteq Unpacked
           /\ \A f \in With(p, n, x, fs, objects) : f.dir \in ea
<1>1. oldlibs[p][n] \in Archive /\ objects \subseteq Object /\ x \in DirName
  BY ArchiveGiven
<1>2. ASSUME NEW f \in With(p, n, x, fs, objects)
      PROVE  f \in Unpacked /\ f.dir \in ea
  <2>1. CASE f \in fs
    BY <2>1
  <2>2. CASE f \notin fs
    <3>1. PICK o \in objects : f = [dir |-> x, object |-> o, from |-> oldlibs[p][n]]
      BY <2>2 DEF With
    <3> QED
      BY <3>1, <1>1 DEF Unpacked
  <2> QED
    BY <2>1, <2>2
<1> QED
  BY <1>2

\* Unpack: the objects are all in the directory of the archive.
LEMMA UnpackRight ==
    ASSUME ArchivesGiven, NEW p \in Run, NEW n, NEW ea, NEW es, NEW x, NEW fs, NEW rs,
           Right(p, "ar", n, ea, es, x, fs, rs)
    PROVE  Right(p, "unlock", n, ea, es, x, With(p, n, x, fs, Objects(p, n)), rs)
<1>1. /\ n \in 0..Len(oldlibs[p]) /\ n >= 1 /\ Len(oldlibs[p]) \in Nat
      /\ es \in Nat /\ ea \subseteq DirName /\ IsFiniteSet(ea) /\ x \in ea /\ fs \subseteq Unpacked
      /\ \A f \in fs : f.dir \in ea
  BY DEF Right, ArchivesGiven, Busy, Beginning
<1>2. n \in 1..Len(oldlibs[p]) /\ n - 1 \in Nat
  BY <1>1
<1> DEFINE gs == With(p, n, x, fs, Objects(p, n))
<1>3. gs \subseteq Unpacked /\ \A f \in gs : f.dir \in ea
  BY <1>1, <1>2, WithTypes
<1>4. PICK d : Dirs(p, d, "ar", n, ea, x, fs, rs)
  BY DEF Right, Succeeding, Beginning
<1>5. /\ Written("ar", n) = n - 1 /\ Collected("ar", n) = n - 1
      /\ Written("unlock", n) = n /\ Collected("unlock", n) = n - 1
  BY DEF Written, Collected, Beginning, Busy
<1>6. /\ d \in [1..n -> ea] /\ \A i, j \in 1..n : d[i] = d[j] => i = j
      /\ x = d[n]
      /\ \A f : f \in fs <=> \E i \in 1..(n - 1) : \E o \in Objects(p, i) :
            f = [dir |-> d[i], object |-> o, from |-> oldlibs[p][i]]
  BY <1>1, <1>4, <1>5 DEF Dirs
<1>7. \A i \in 1..(n - 1) : i \in 1..n /\ i # n /\ d[i] # x
  BY <1>1, <1>6
<1>8. \A f \in fs : f.dir # x
  BY <1>6, <1>7
<1>9. gs = fs \cup {[dir |-> x, object |-> o, from |-> oldlibs[p][n]] : o \in Objects(p, n)}
  BY <1>8 DEF With
<1>10. \A i : i \in 1..n <=> i \in 1..(n - 1) \/ i = n
  BY <1>1
<1>11. \A f : f \in gs <=> \E i \in 1..n : \E o \in Objects(p, i) :
            f = [dir |-> d[i], object |-> o, from |-> oldlibs[p][i]]
  <2> HIDE DEF gs
  <2> QED
    BY ONLY <1>6, <1>9, <1>10
<1> HIDE DEF gs
<1>12. Dirs(p, d, "unlock", n, ea, x, gs, rs)
  BY <1>4, <1>5, <1>6, <1>11 DEF Dirs
<1>13. "unlock" \in Busy /\ "unlock" # "done"
  BY DEF Busy
<1>14. Right(p, "unlock", n, ea, es, x, gs, rs)
  BY <1>1, <1>3, <1>12, <1>13 DEF Right
<1> QED
  BY <1>14 DEF gs

\* An ar that fails leaves some of them.
LEMMA UnpackFailsRight ==
    ASSUME ArchivesGiven, NEW p \in Run, NEW n, NEW ea, NEW es, NEW x, NEW fs, NEW rs,
           Right(p, "ar", n, ea, es, x, fs, rs),
           NEW objects, objects \subseteq Objects(p, n)
    PROVE  Right(p, "failing", n, ea, es, x, With(p, n, x, fs, objects), rs)
<1>1. /\ n \in 0..Len(oldlibs[p]) /\ n >= 1 /\ Len(oldlibs[p]) \in Nat
      /\ es \in Nat /\ ea \subseteq DirName /\ IsFiniteSet(ea) /\ x \in ea /\ fs \subseteq Unpacked
      /\ \A f \in fs : f.dir \in ea
  BY DEF Right, ArchivesGiven, Busy, Beginning
<1>2. n \in 1..Len(oldlibs[p])
  BY <1>1
<1> DEFINE gs == With(p, n, x, fs, objects)
<1>3. gs \subseteq Unpacked /\ \A f \in gs : f.dir \in ea
  BY <1>1, <1>2, WithTypes
<1>4. "failing" \in Busy /\ "failing" # "done" /\ "failing" \notin Succeeding
  BY DEF Busy, Beginning, Succeeding
<1> HIDE DEF gs
<1>5. Right(p, "failing", n, ea, es, x, gs, rs)
  BY <1>1, <1>3, <1>4 DEF Right
<1> QED
  BY <1>5 DEF gs

\* Where a run is may change as long as it has written and collected the same.
LEMMA GotoRight ==
    ASSUME NEW p \in Run, NEW n, NEW ea, NEW es, NEW x, NEW fs, NEW rs,
           NEW from, NEW to, Right(p, from, n, ea, es, x, fs, rs),
           \/ from = "lock" /\ to = "ar"
           \/ from = "unlock" /\ to = "check"
           \/ from = "next" /\ n = Len(oldlibs[p]) /\ to = "done"
           \/ to \in {"failed", "killed"}
    PROVE  Right(p, to, n, ea, es, x, fs, rs)
<1>1. to \in Busy \cup Ended \cup {"next"} /\ (to \in Busy => from \in Busy)
  BY DEF Busy, Beginning, Ended
<1>2. to = "done" => n = Len(oldlibs[p])
  OBVIOUS
<1>3. to \in Succeeding =>
          /\ from \in Succeeding
          /\ Written(to, n) = Written(from, n) /\ Collected(to, n) = Collected(from, n)
  BY DEF Succeeding, Written, Collected, Beginning, Busy
<1>4. ASSUME to \in Succeeding PROVE \E d : Dirs(p, d, to, n, ea, x, fs, rs)
  <2>1. PICK d : Dirs(p, d, from, n, ea, x, fs, rs)
    BY <1>3, <1>4 DEF Right
  <2>2. Dirs(p, d, to, n, ea, x, fs, rs)
    BY <2>1, <1>3, <1>4 DEF Dirs
  <2> QED
    BY <2>2
<1> QED
  BY <1>1, <1>2, <1>4 DEF Right

\* Check: what is in the directory of the archive are its objects.
LEMMA CheckRight ==
    ASSUME ArchivesGiven, NEW p \in Run, NEW n, NEW ea, NEW es, NEW x, NEW fs, NEW rs,
           Right(p, "check", n, ea, es, x, fs, rs), X!IsInjective(Members[oldlibs[p][n]])
    PROVE  Right(p, "next", n, ea, es, x, fs,
                 rs \cup {[dir |-> f.dir, object |-> f.object] : f \in {g \in fs : g.dir = x}})
<1>1. /\ n \in 0..Len(oldlibs[p]) /\ n >= 1 /\ Len(oldlibs[p]) \in Nat
      /\ es \in Nat /\ ea \subseteq DirName /\ IsFiniteSet(ea) /\ x \in ea /\ fs \subseteq Unpacked
      /\ \A f \in fs : f.dir \in ea
  BY DEF Right, ArchivesGiven, Busy, Beginning
<1>2. PICK d : Dirs(p, d, "check", n, ea, x, fs, rs)
  BY DEF Right, Succeeding
<1>3. /\ Written("check", n) = n /\ Collected("check", n) = n - 1
      /\ Written("next", n) = n /\ Collected("next", n) = n
  BY DEF Written, Collected, Beginning, Busy
<1>4. /\ d \in [1..n -> ea] /\ \A i, j \in 1..n : d[i] = d[j] => i = j
      /\ x = d[n] /\ n \in 1..n
      /\ \A f : f \in fs <=> \E i \in 1..n : \E o \in Objects(p, i) :
            f = [dir |-> d[i], object |-> o, from |-> oldlibs[p][i]]
      /\ \A r : r \in rs <=> \E i \in 1..(n - 1) : \E o \in Objects(p, i) :
              r = [dir |-> d[i], object |-> o]
      /\ \A i \in 1..(n - 1) : X!IsInjective(Members[oldlibs[p][i]])
  BY <1>1, <1>2, <1>3 DEF Dirs
<1> DEFINE new == {[dir |-> f.dir, object |-> f.object] : f \in {g \in fs : g.dir = x}}
<1>5. \A r : r \in new <=> \E o \in Objects(p, n) : r = [dir |-> x, object |-> o]
  <2>1. ASSUME NEW r \in new PROVE \E o \in Objects(p, n) : r = [dir |-> x, object |-> o]
    <3>1. PICK f \in fs : f.dir = x /\ r = [dir |-> f.dir, object |-> f.object]
      BY <2>1
    <3>5. PICK i \in 1..n : \E o \in Objects(p, i) :
                f = [dir |-> d[i], object |-> o, from |-> oldlibs[p][i]]
      BY <1>4
    <3>2. PICK o \in Objects(p, i) :
                f = [dir |-> d[i], object |-> o, from |-> oldlibs[p][i]]
      BY <3>5
    <3>3. f.dir = d[i] /\ f.object = o
      BY <3>2
    <3>4. i = n
      BY <3>1, <3>3, <1>4
    <3> QED
      BY <3>1, <3>3, <3>4
  <2>2. ASSUME NEW o \in Objects(p, n) PROVE [dir |-> x, object |-> o] \in new
    <3> DEFINE f == [dir |-> x, object |-> o, from |-> oldlibs[p][n]]
    <3>1. f \in fs
      BY <1>4
    <3>2. f.dir = x /\ f.object = o
      OBVIOUS
    <3> QED
      BY <3>1, <3>2
  <2> HIDE DEF new
  <2> QED
    BY <2>1, <2>2
<1> HIDE DEF new
<1>6. \A i : i \in 1..n <=> i \in 1..(n - 1) \/ i = n
  BY <1>1
<1>7. \A r : r \in rs \cup new <=> \E i \in 1..n : \E o \in Objects(p, i) :
              r = [dir |-> d[i], object |-> o]
  BY ONLY <1>4, <1>5, <1>6
<1>8. \A i \in 1..n : X!IsInjective(Members[oldlibs[p][i]])
  BY <1>4, <1>6
<1>9. Dirs(p, d, "next", n, ea, x, fs, rs \cup new)
  BY <1>3, <1>4, <1>7, <1>8 DEF Dirs
<1>10. "next" \notin Busy /\ "next" # "done"
  BY DEF Busy, Beginning
<1>11. Right(p, "next", n, ea, es, x, fs, rs \cup new)
  BY <1>1, <1>9, <1>10 DEF Right
<1> QED
  BY <1>11 DEF new

\* The files found of an archive's objects, and where the archive is among those of a run.
FilesOf(fs, rs, a) == {f \in fs : f.from = a /\ [dir |-> f.dir, object |-> f.object] \in rs}
Places(p, a) == {i \in DOMAIN oldlibs[p] : oldlibs[p][i] = a}

\* A run that is done has a file for each object of each of its archives: the
\* pairs of an archive of this name and an object in it are as many as its files.
LEMMA DoneFoundAll ==
    ASSUME ArchivesGiven, NEW p \in Run, NEW n, NEW ea, NEW es, NEW x, NEW fs, NEW rs,
           Right(p, "done", n, ea, es, x, fs, rs), NEW a \in X!ToSet(oldlibs[p])
    PROVE  X!Cardinality(FilesOf(fs, rs, a)) = Len(Members[a]) * X!Cardinality(Places(p, a))
<1> DEFINE S == {f \in fs : f.from = a /\ [dir |-> f.dir, object |-> f.object] \in rs}
           I == {i \in DOMAIN oldlibs[p] : oldlibs[p][i] = a}
           J == 1..Len(Members[a])
<1>1. /\ n = Len(oldlibs[p]) /\ n \in Nat /\ DOMAIN oldlibs[p] = 1..n
      /\ a \in Archive /\ Members[a] \in Seq(Object)
  <2>1. oldlibs[p] \in Seq(Archive) /\ n = Len(oldlibs[p])
    BY DEF Right, ArchivesGiven
  <2>2. a \in Archive
    BY <2>1 DEF X!ToSet
  <2> QED
    BY <2>1, <2>2 DEF ArchivesGiven
<1>2. PICK d : Dirs(p, d, "done", n, ea, x, fs, rs)
  BY DEF Right, Succeeding
<1>3. Written("done", n) = n /\ Collected("done", n) = n
  BY DEF Written, Collected, Beginning, Busy
<1>4. /\ \A i, j \in 1..n : d[i] = d[j] => i = j
      /\ \A f : f \in fs <=> \E i \in 1..n : \E o \in Objects(p, i) :
            f = [dir |-> d[i], object |-> o, from |-> oldlibs[p][i]]
      /\ \A r : r \in rs <=> \E i \in 1..n : \E o \in Objects(p, i) :
              r = [dir |-> d[i], object |-> o]
      /\ \A i \in 1..n : X!IsInjective(Members[oldlibs[p][i]])
  BY <1>2, <1>3 DEF Dirs
<1>5. I \subseteq 1..n /\ \A i \in I : oldlibs[p][i] = a
  BY <1>1
<1>6. \E i : i \in I
  BY DEF X!ToSet
<1>7. \A j, k \in J : Members[a][j] = Members[a][k] => j = k
  <2>1. X!IsInjective(Members[a])
    BY <1>4, <1>5, <1>6
  <2>2. DOMAIN Members[a] = J
    BY <1>1
  <2> QED
    BY <2>1, <2>2 DEF X!IsInjective
<1>8. \A i \in I : Objects(p, i) = {Members[a][j] : j \in J}
  <2>1. DOMAIN Members[a] = J /\ \A i \in I : oldlibs[p][i] = a
    BY <1>1, <1>5
  <2> HIDE DEF I, J
  <2> QED
    BY ONLY <2>1 DEF Objects, X!ToSet
<1> DEFINE copy(i, j) == [dir |-> d[i], object |-> Members[a][j], from |-> a]
           b == [q \in I \X J |-> copy(q[1], q[2])]
<1>9. ASSUME NEW i \in I, NEW j \in J PROVE copy(i, j) \in S
  <2>1. i \in 1..n /\ oldlibs[p][i] = a /\ Members[a][j] \in Objects(p, i)
    BY <1>5, <1>8
  <2>2. copy(i, j) \in fs /\ [dir |-> d[i], object |-> Members[a][j]] \in rs
    BY <2>1, <1>4
  <2> QED
    BY <2>2
<1>10. ASSUME NEW f \in S PROVE \E i \in I : \E j \in J : f = copy(i, j)
  <2>1. f \in fs /\ f.from = a
    OBVIOUS
  <2>2. PICK i \in 1..n : \E o \in Objects(p, i) :
            f = [dir |-> d[i], object |-> o, from |-> oldlibs[p][i]]
    BY <2>1, <1>4
  <2>3. PICK o \in Objects(p, i) : f = [dir |-> d[i], object |-> o, from |-> oldlibs[p][i]]
    BY <2>2
  <2>4. oldlibs[p][i] = a
    BY <2>1, <2>3
  <2>5. i \in I
    BY <2>4, <1>1
  <2>6. PICK j \in J : o = Members[a][j]
    BY <2>5, <1>8
  <2>7. f = copy(i, j)
    BY <2>3, <2>4, <2>6
  <2> QED
    BY <2>5, <2>7
<1>11. \A i, k \in I : \A j, l \in J : copy(i, j) = copy(k, l) => i = k /\ j = l
  <2> SUFFICES ASSUME NEW i \in I, NEW k \in I, NEW j \in J, NEW l \in J,
                      copy(i, j) = copy(k, l)
               PROVE  i = k /\ j = l
    OBVIOUS
  <2>1. d[i] = d[k] /\ Members[a][j] = Members[a][l]
    <3>1. copy(i, j).dir = d[i] /\ copy(k, l).dir = d[k]
          /\ copy(i, j).object = Members[a][j] /\ copy(k, l).object = Members[a][l]
      BY Zenon
    <3> HIDE DEF copy
    <3> QED
      BY <3>1
  <2>2. i \in 1..n /\ k \in 1..n
    BY <1>5
  <2> QED
    BY <2>1, <2>2, <1>4, <1>7
<1> HIDE DEF S, I, J, copy
<1>12. b \in Bijection(I \X J, S)
  <2>1. b \in [I \X J -> S]
    BY <1>9
  <2>2. \A q, r \in I \X J : b[q] = b[r] => q = r
    <3> SUFFICES ASSUME NEW q \in I \X J, NEW r \in I \X J, b[q] = b[r] PROVE q = r
      OBVIOUS
    <3>1. q = <<q[1], q[2]>> /\ r = <<r[1], r[2]>> /\ q[1] \in I /\ q[2] \in J
          /\ r[1] \in I /\ r[2] \in J
      OBVIOUS
    <3>2. copy(q[1], q[2]) = copy(r[1], r[2])
      OBVIOUS
    <3>3. q[1] = r[1] /\ q[2] = r[2]
      BY <3>1, <3>2, <1>11
    <3> QED
      BY <3>1, <3>3
  <2>3. ASSUME NEW f \in S PROVE \E q \in I \X J : b[q] = f
    <3>1. PICK i \in I : \E j \in J : f = copy(i, j)
      BY <1>10
    <3>2. PICK j \in J : f = copy(i, j)
      BY <3>1
    <3>3. <<i, j>> \in I \X J /\ b[<<i, j>>] = copy(i, j)
      OBVIOUS
    <3> QED
      BY <3>2, <3>3
  <2> HIDE DEF b
  <2> QED
    BY <2>1, <2>2, <2>3 DEF Bijection, Injection, Surjection, IsInjective
<1>13. IsFiniteSet(I) /\ IsFiniteSet(J) /\ Cardinality(J) = Len(Members[a])
  <2>1. IsFiniteSet(1..n)
    BY <1>1, FS_Interval
  <2>2. Len(Members[a]) \in Nat
    BY <1>1
  <2>3. IsFiniteSet(J) /\ Cardinality(J) = Len(Members[a])
    BY <2>2, FS_Interval DEF J
  <2> QED
    BY <2>1, <2>3, <1>5, FS_Subset
<1>14. IsFiniteSet(I \X J) /\ Cardinality(I \X J) = Cardinality(I) * Cardinality(J)
  BY <1>13, FS_Product
<1>15. Cardinality(S) = Cardinality(I \X J)
  BY <1>12, <1>14, FS_Bijection DEF ExistsBijection
<1>16. Cardinality(I) \in Nat /\ Len(Members[a]) \in Nat
  BY <1>13, <1>1, FS_CardinalityType
<1>17. Cardinality(S) = Len(Members[a]) * Cardinality(I)
  BY ONLY <1>13, <1>14, <1>15, <1>16
<1>18. X!Cardinality(S) = Len(Members[a]) * X!Cardinality(I)
  BY <1>17, CardSame
<1> QED
  BY <1>18 DEF S, I, FilesOf, Places

-----------------------------------------------------------------------------
\* A step of a run leaves the others as they are.
LEMMA RunsRight ==
    ASSUME ExtractInv, NEW p \in Run, NEW label, NEW n, NEW ea, NEW es, NEW x, NEW fs, NEW rs,
           unpacking' = [unpacking EXCEPT ![p] = label], at' = [at EXCEPT ![p] = n],
           extracted_archives' = [extracted_archives EXCEPT ![p] = ea],
           extracted_serial' = [extracted_serial EXCEPT ![p] = es],
           xdir' = [xdir EXCEPT ![p] = x], files' = [files EXCEPT ![p] = fs],
           result' = [result EXCEPT ![p] = rs],
           Right(p, label, n, ea, es, x, fs, rs)
    PROVE  Domains' /\ \A q \in Run : RunRight(q)'
<1>1. /\ Domains /\ \A q \in Run : RunRight(q)
  BY DEF ExtractInv
<1>2. Domains'
  BY <1>1, Zenon DEF Domains
<1>3. RunRight(p)'
  <2>1. /\ unpacking'[p] = label /\ at'[p] = n /\ extracted_archives'[p] = ea
        /\ extracted_serial'[p] = es /\ xdir'[p] = x /\ files'[p] = fs /\ result'[p] = rs
    BY <1>1 DEF Domains
  <2> QED
    BY <2>1 DEF RunRight
<1>4. ASSUME NEW q \in Run, q # p PROVE RunRight(q)'
  <2>1. /\ unpacking'[q] = unpacking[q] /\ at'[q] = at[q]
        /\ extracted_archives'[q] = extracted_archives[q]
        /\ extracted_serial'[q] = extracted_serial[q] /\ xdir'[q] = xdir[q]
        /\ files'[q] = files[q] /\ result'[q] = result[q]
    BY <1>1, <1>4 DEF Domains
  <2> QED
    BY <1>1, <2>1 DEF RunRight
<1> QED
  BY <1>2, <1>3, <1>4

\* A variable that does not change, as the lemma above has it.
LEMMA Unchanged ==
    ASSUME Domains, NEW p \in Run
    PROVE  /\ unpacking = [unpacking EXCEPT ![p] = unpacking[p]]
           /\ at = [at EXCEPT ![p] = at[p]]
           /\ extracted_archives = [extracted_archives EXCEPT ![p] = extracted_archives[p]]
           /\ extracted_serial = [extracted_serial EXCEPT ![p] = extracted_serial[p]]
           /\ xdir = [xdir EXCEPT ![p] = xdir[p]] /\ files = [files EXCEPT ![p] = files[p]]
           /\ result = [result EXCEPT ![p] = result[p]]
  BY DEF Domains

\* The locks, when a run makes and removes none: it does not begin to unpack, and
\* stops unpacking only if it is killed.
LEMMA LocksSame ==
    ASSUME ExtractInv, NEW p \in Run, NEW label, NEW n \in Nat,
           unpacking' = [unpacking EXCEPT ![p] = label], at' = [at EXCEPT ![p] = n],
           lockfile' = lockfile,
           n = at[p] \/ (~X!Unpacking(p) /\ unpacking[p] # "killed"),
           X!Unpacking(p) => label \in {"ar", "unlock", "failing", "killed"},
           label \in {"ar", "unlock", "failing"} => X!Unpacking(p),
           unpacking[p] = "killed" => label = "killed"
    PROVE  LockHeld' /\ X!OneUnpacks' /\ X!LockGone'
<1>1. /\ unpacking = [q \in Run |-> unpacking[q]] /\ at = [q \in Run |-> at[q]]
      /\ LockHeld /\ X!OneUnpacks /\ X!LockGone
  BY DEF ExtractInv, Domains
<1>2. /\ unpacking'[p] = label /\ at'[p] = n
      /\ \A q \in Run : q # p => unpacking'[q] = unpacking[q] /\ at'[q] = at[q]
  BY <1>1
<1>3. \A q \in Run : X!Unpacking(q)' => X!Unpacking(q)
  BY <1>2 DEF X!Unpacking
<1>4. ASSUME NEW q \in Run, X!Unpacking(q) \/ unpacking[q] = "killed"
      PROVE  /\ at'[q] = at[q] /\ X!oldlib(q)' = X!oldlib(q)
             /\ X!Unpacking(q)' \/ unpacking'[q] = "killed"
  <2>1. at'[q] = at[q]
    BY <1>2, <1>4
  <2>2. X!oldlib(q)' = X!oldlib(q)
    BY <2>1 DEF X!oldlib
  <2>3. X!Unpacking(q)' \/ unpacking'[q] = "killed"
    BY <1>2, <1>4 DEF X!Unpacking
  <2> QED
    BY <2>1, <2>2, <2>3
<1>5. LockHeld'
  BY <1>1, <1>3, <1>4 DEF LockHeld
<1>6. X!OneUnpacks'
  BY <1>1, <1>3, <1>4 DEF X!OneUnpacks
<1>7. X!LockGone'
  <2> SUFFICES ASSUME NEW a \in lockfile
               PROVE  \E q \in Run : /\ at'[q] > 0 /\ X!oldlib(q)' = a
                                     /\ X!Unpacking(q)' \/ unpacking'[q] = "killed"
    BY DEF X!LockGone
  <2>1. PICK q \in Run : /\ at[q] > 0 /\ X!oldlib(q) = a
                         /\ X!Unpacking(q) \/ unpacking[q] = "killed"
    BY <1>1 DEF X!LockGone
  <2> QED
    BY <2>1, <1>4
<1> QED
  BY <1>5, <1>6, <1>7

-----------------------------------------------------------------------------
\* The invariant holds at the start.
LEMMA ExtractInitHolds ==
    ASSUME ArchivesGiven, X!Init
    PROVE  ExtractInv
<1>1. Domains
  BY DEF X!Init, Domains
<1>2. ASSUME NEW p \in Run PROVE RunRight(p)
  <2>1. /\ unpacking[p] = "next" /\ at[p] = 0 /\ extracted_archives[p] = {}
        /\ extracted_serial[p] = 0 /\ xdir[p] = <<>> /\ files[p] = {} /\ result[p] = {}
    BY DEF X!Init
  <2>2. Written("next", 0) = 0 /\ Collected("next", 0) = 0
    BY DEF Written, Collected, Beginning, Busy
  <2> DEFINE d == [i \in 1..0 |-> i]
  <2>3. Dirs(p, d, "next", 0, {}, <<>>, {}, {})
    <3>1. \A i : i \notin 1..0
      OBVIOUS
    <3>2. d \in [1..0 -> {}]
      BY <3>1
    <3> HIDE DEF d
    <3> QED
      BY <2>2, <3>1, <3>2 DEF Dirs
  <2>4. 0 \in 0..Len(oldlibs[p])
    BY DEF ArchivesGiven
  <2>5. "next" \notin Busy
    BY DEF Busy, Beginning
  <2>6. Right(p, "next", 0, {}, 0, <<>>, {}, {})
    BY <2>3, <2>4, <2>5, FS_EmptySet DEF Right
  <2> QED
    BY <2>1, <2>6 DEF RunRight
<1>3. LockHeld /\ X!OneUnpacks /\ X!LockGone
  <2>1. lockfile = {} /\ \A p \in Run : ~X!Unpacking(p)
    BY DEF X!Init, X!Unpacking
  <2> QED
    BY <2>1 DEF LockHeld, X!OneUnpacks, X!LockGone
<1> QED
  BY <1>1, <1>2, <1>3 DEF ExtractInv

\* What the invariant says of a run, for its steps.
LEMMA RunFacts ==
    ASSUME ArchivesGiven, ExtractInv, NEW p \in Run
    PROVE  /\ Domains /\ RunRight(p) /\ at[p] \in 0..Len(oldlibs[p]) /\ at[p] \in Nat
           /\ X!Unpacking(p) => at[p] >= 1
           /\ unpacking[p] \in Busy => at[p] \in 1..Len(oldlibs[p]) /\ X!oldlib(p) \in Archive
           /\ Right(p, unpacking[p], at[p], extracted_archives[p], extracted_serial[p],
                    xdir[p], files[p], result[p])
<1>1. /\ Domains /\ RunRight(p)
      /\ Right(p, unpacking[p], at[p], extracted_archives[p], extracted_serial[p],
                    xdir[p], files[p], result[p])
  BY DEF ExtractInv, RunRight
<1>2. /\ at[p] \in 0..Len(oldlibs[p]) /\ Len(oldlibs[p]) \in Nat
      /\ unpacking[p] \in Busy => at[p] >= 1
  BY <1>1 DEF Right, ArchivesGiven
<1>3. X!Unpacking(p) => unpacking[p] \in Busy
  BY DEF X!Unpacking, Busy, Beginning
<1>4. unpacking[p] \in Busy => at[p] \in 1..Len(oldlibs[p])
  BY <1>2
<1>5. unpacking[p] \in Busy => X!oldlib(p) \in Archive
  BY <1>4, ArchiveGiven DEF X!oldlib
<1> QED
  BY <1>1, <1>2, <1>3, <1>4, <1>5

LEMMA NextArchiveKeeps ==
    ASSUME ArchivesGiven, ExtractInv, NEW p \in Run, X!NextArchive(p)
    PROVE  ExtractInv'
<1> DEFINE n == at[p] + 1
           c == X!FreeName(Basename[oldlibs[p][n]], extracted_archives[p], extracted_serial[p])
<1>1. /\ unpacking[p] = "next" /\ n <= Len(oldlibs[p])
      /\ at' = [at EXCEPT ![p] = n] /\ xdir' = [xdir EXCEPT ![p] = c.name]
      /\ extracted_archives' =
             [extracted_archives EXCEPT ![p] = extracted_archives[p] \cup {c.name}]
      /\ extracted_serial' = [extracted_serial EXCEPT ![p] = c.serial]
      /\ unpacking' = [unpacking EXCEPT ![p] = "lock"]
      /\ lockfile' = lockfile /\ files' = files /\ result' = result
  BY DEF X!NextArchive, X!Goto
<1>2. /\ Domains /\ at[p] \in Nat
      /\ Right(p, "next", at[p], extracted_archives[p], extracted_serial[p],
                    xdir[p], files[p], result[p])
  BY <1>1, RunFacts
<1> HIDE DEF c
<1>3. Right(p, "lock", n, extracted_archives[p] \cup {c.name}, c.serial, c.name,
            files[p], result[p])
  BY <1>1, <1>2, NextArchiveRight DEF c
<1>4. n \in Nat /\ ~X!Unpacking(p)
  BY <1>1, <1>2 DEF X!Unpacking
<1> HIDE DEF n
<1>5. files' = [files EXCEPT ![p] = files[p]] /\ result' = [result EXCEPT ![p] = result[p]]
  BY <1>1, <1>2, Unchanged
<1> DEFINE name == c.name
           serial == c.serial
           names == extracted_archives[p] \cup {c.name}
<1>6. Domains' /\ \A q \in Run : RunRight(q)'
  <2>1. /\ unpacking' = [unpacking EXCEPT ![p] = "lock"] /\ at' = [at EXCEPT ![p] = n]
        /\ extracted_archives' = [extracted_archives EXCEPT ![p] = names]
        /\ extracted_serial' = [extracted_serial EXCEPT ![p] = serial]
        /\ xdir' = [xdir EXCEPT ![p] = name] /\ files' = [files EXCEPT ![p] = files[p]]
        /\ result' = [result EXCEPT ![p] = result[p]]
    BY <1>1, <1>5
  <2>2. Right(p, "lock", n, names, serial, name, files[p], result[p])
    BY <1>3
  <2> HIDE DEF name, serial, names
  <2> QED
    BY <2>1, <2>2, RunsRight
<1>7. LockHeld' /\ X!OneUnpacks' /\ X!LockGone'
  BY <1>1, <1>4, LocksSame
<1> QED
  BY <1>6, <1>7 DEF ExtractInv

LEMMA LockKeeps ==
    ASSUME ArchivesGiven, ExtractInv, NEW p \in Run, X!Lock(p)
    PROVE  ExtractInv'
<1>1. /\ unpacking[p] = "lock" /\ unpacking' = [unpacking EXCEPT ![p] = "ar"]
      /\ at' = at /\ extracted_archives' = extracted_archives
      /\ extracted_serial' = extracted_serial /\ xdir' = xdir
      /\ files' = files /\ result' = result
      /\ IF Locking THEN X!oldlib(p) \notin lockfile /\ lockfile' = lockfile \cup {X!oldlib(p)}
                    ELSE lockfile' = lockfile
  BY DEF X!Lock, X!Goto, X!runVars
<1>2. /\ Domains /\ at[p] \in 1..Len(oldlibs[p]) /\ X!oldlib(p) \in Archive
      /\ Right(p, "lock", at[p], extracted_archives[p], extracted_serial[p],
                    xdir[p], files[p], result[p])
  BY <1>1, RunFacts DEF Busy, Beginning
<1>3. Right(p, "ar", at[p], extracted_archives[p], extracted_serial[p],
            xdir[p], files[p], result[p])
  BY <1>2, GotoRight
<1>11. /\ at' = [at EXCEPT ![p] = at[p]]
       /\ extracted_archives' = [extracted_archives EXCEPT ![p] = extracted_archives[p]]
       /\ extracted_serial' = [extracted_serial EXCEPT ![p] = extracted_serial[p]]
       /\ xdir' = [xdir EXCEPT ![p] = xdir[p]] /\ files' = [files EXCEPT ![p] = files[p]]
       /\ result' = [result EXCEPT ![p] = result[p]]
  BY <1>1, <1>2, Unchanged
<1>4. Domains' /\ \A q \in Run : RunRight(q)'
  <2>1. unpacking' = [unpacking EXCEPT ![p] = "ar"]
    BY <1>1
  <2> QED
    BY ONLY ExtractInv, <2>1, <1>3, <1>11, RunsRight
<1>5. /\ LockHeld /\ X!OneUnpacks /\ X!LockGone /\ Locking \in BOOLEAN
  BY DEF ExtractInv, ArchivesGiven
<1>6. /\ \A q \in Run : q # p => unpacking'[q] = unpacking[q]
      /\ \A q \in Run : X!oldlib(q)' = X!oldlib(q)
      /\ ~X!Unpacking(p) /\ unpacking[p] # "killed" /\ unpacking'[p] = "ar"
  BY <1>1, <1>2 DEF Domains, X!oldlib, X!Unpacking
<1>7. \A q \in Run : X!Unpacking(q)' <=> X!Unpacking(q) \/ q = p
  BY <1>6 DEF X!Unpacking
<1>8. LockHeld'
  <2>1. lockfile' \subseteq (IF Locking THEN Archive ELSE {})
    BY <1>1, <1>2, <1>5 DEF LockHeld
  <2>2. Locking => \A q \in Run : X!Unpacking(q)' => X!oldlib(q)' \in lockfile'
    BY <1>1, <1>5, <1>6, <1>7 DEF LockHeld
  <2> QED
    BY <2>1, <2>2 DEF LockHeld
<1>9. X!OneUnpacks'
  BY <1>1, <1>5, <1>6, <1>7 DEF X!OneUnpacks, LockHeld
<1>10. X!LockGone'
  <2> SUFFICES ASSUME NEW a \in lockfile'
               PROVE  \E q \in Run : /\ at'[q] > 0 /\ X!oldlib(q)' = a
                                     /\ X!Unpacking(q)' \/ unpacking'[q] = "killed"
    BY DEF X!LockGone
  <2>1. CASE a \in lockfile
    <3>1. PICK q \in Run : /\ at[q] > 0 /\ X!oldlib(q) = a
                           /\ X!Unpacking(q) \/ unpacking[q] = "killed"
      BY <1>5, <2>1 DEF X!LockGone
    <3> QED
      BY <3>1, <1>1, <1>6, <1>7
  <2>2. CASE a = X!oldlib(p)
    <3>1. at'[p] > 0 /\ X!oldlib(p)' = a /\ X!Unpacking(p)'
      BY <1>1, <1>2, <1>6, <1>7, <2>2
    <3> QED
      BY <3>1
  <2> QED
    BY <2>1, <2>2, <1>1
<1> QED
  BY <1>4, <1>8, <1>9, <1>10 DEF ExtractInv

LEMMA UnpackKeeps ==
    ASSUME ArchivesGiven, ExtractInv, NEW p \in Run, X!Unpack(p)
    PROVE  ExtractInv'
<1>1. /\ unpacking[p] = "ar"
      /\ at' = at /\ extracted_archives' = extracted_archives
      /\ extracted_serial' = extracted_serial /\ xdir' = xdir
      /\ lockfile' = lockfile /\ result' = result
  BY DEF X!Unpack, X!runVars
<1>2. /\ Domains /\ at[p] \in 1..Len(oldlibs[p]) /\ at[p] \in Nat
      /\ Right(p, "ar", at[p], extracted_archives[p], extracted_serial[p],
                    xdir[p], files[p], result[p])
  BY <1>1, RunFacts DEF Busy, Beginning
<1> DEFINE There(objects) == With(p, at[p], xdir[p], files[p], objects)
<1>3. \A objects : X!Unpacked(p, objects) = [files EXCEPT ![p] = There(objects)]
  BY DEF X!Unpacked, With, X!oldlib
<1>4. X!ToSet(Members[X!oldlib(p)]) = Objects(p, at[p])
  BY DEF Objects, X!oldlib
<1> HIDE DEF There
<1>5. PICK label, objects :
          /\ unpacking' = [unpacking EXCEPT ![p] = label]
          /\ files' = [files EXCEPT ![p] = There(objects)]
          /\ \/ label = "unlock" /\ objects = Objects(p, at[p])
             \/ label = "failing" /\ objects \subseteq Objects(p, at[p])
  <2>1. CASE files' = X!Unpacked(p, Objects(p, at[p]))
             /\ unpacking' = [unpacking EXCEPT ![p] = "unlock"]
    BY <2>1, <1>3
  <2>2. ASSUME NEW some \in SUBSET Objects(p, at[p]), files' = X!Unpacked(p, some),
               unpacking' = [unpacking EXCEPT ![p] = "failing"]
        PROVE  \E label, objects :
                  /\ unpacking' = [unpacking EXCEPT ![p] = label]
                  /\ files' = [files EXCEPT ![p] = There(objects)]
                  /\ \/ label = "unlock" /\ objects = Objects(p, at[p])
                     \/ label = "failing" /\ objects \subseteq Objects(p, at[p])
    BY <2>2, <1>3
  <2> QED
    BY <2>1, <2>2, <1>4 DEF X!Unpack, X!Goto
<1>6. Right(p, label, at[p], extracted_archives[p], extracted_serial[p],
            xdir[p], There(objects), result[p])
  <2>1. CASE label = "unlock"
    BY <2>1, <1>2, <1>5, UnpackRight DEF There
  <2>2. CASE label = "failing"
    BY <2>2, <1>2, <1>5, UnpackFailsRight DEF There
  <2> QED
    BY <1>5, <2>1, <2>2
<1>7. /\ at' = [at EXCEPT ![p] = at[p]]
      /\ extracted_archives' = [extracted_archives EXCEPT ![p] = extracted_archives[p]]
      /\ extracted_serial' = [extracted_serial EXCEPT ![p] = extracted_serial[p]]
      /\ xdir' = [xdir EXCEPT ![p] = xdir[p]] /\ result' = [result EXCEPT ![p] = result[p]]
  BY <1>1, <1>2, Unchanged
<1>8. Domains' /\ \A q \in Run : RunRight(q)'
  BY <1>5, <1>6, <1>7, RunsRight
<1>9. X!Unpacking(p) /\ label \in {"unlock", "failing"} /\ unpacking[p] # "killed"
  BY <1>1, <1>5 DEF X!Unpacking
<1>10. LockHeld' /\ X!OneUnpacks' /\ X!LockGone'
  BY <1>1, <1>2, <1>5, <1>7, <1>9, LocksSame
<1> QED
  BY <1>8, <1>10 DEF ExtractInv

\* A step that only takes a run from one place to the next.
LEMMA GotoKeepsRuns ==
    ASSUME ArchivesGiven, ExtractInv, NEW p \in Run, NEW to,
           unpacking' = [unpacking EXCEPT ![p] = to],
           UNCHANGED <<at, extracted_archives, extracted_serial, xdir, files, result>>,
           \/ unpacking[p] = "unlock" /\ to = "check"
           \/ unpacking[p] = "next" /\ at[p] = Len(oldlibs[p]) /\ to = "done"
           \/ to \in {"failed", "killed"}
    PROVE  Domains' /\ \A q \in Run : RunRight(q)'
<1>1. /\ Domains
      /\ Right(p, unpacking[p], at[p], extracted_archives[p], extracted_serial[p],
                    xdir[p], files[p], result[p])
  BY RunFacts
<1>2. Right(p, to, at[p], extracted_archives[p], extracted_serial[p],
            xdir[p], files[p], result[p])
  BY <1>1, GotoRight
<1>3. /\ at' = [at EXCEPT ![p] = at[p]]
      /\ extracted_archives' = [extracted_archives EXCEPT ![p] = extracted_archives[p]]
      /\ extracted_serial' = [extracted_serial EXCEPT ![p] = extracted_serial[p]]
      /\ xdir' = [xdir EXCEPT ![p] = xdir[p]] /\ files' = [files EXCEPT ![p] = files[p]]
      /\ result' = [result EXCEPT ![p] = result[p]]
  BY <1>1, Unchanged
<1>4. unpacking' = [unpacking EXCEPT ![p] = to]
  OBVIOUS
<1> QED
  BY ONLY ExtractInv, <1>2, <1>3, <1>4, RunsRight

LEMMA UnlockKeeps ==
    ASSUME ArchivesGiven, ExtractInv, NEW p \in Run, X!Unlock(p)
    PROVE  ExtractInv'
<1>1. PICK to : /\ (unpacking[p] = "unlock" /\ to = "check") \/ to = "failed"
                /\ unpacking' = [unpacking EXCEPT ![p] = to]
  BY DEF X!Unlock, X!Goto
<1>2. /\ unpacking[p] \in {"unlock", "failing"} /\ at' = at
      /\ UNCHANGED <<at, extracted_archives, extracted_serial, xdir, files, result>>
      /\ lockfile' = IF Locking THEN lockfile \ {X!oldlib(p)} ELSE lockfile
  BY DEF X!Unlock, X!runVars
<1>3. Domains' /\ \A q \in Run : RunRight(q)'
  BY <1>1, <1>2, GotoKeepsRuns
<1>4. /\ LockHeld /\ X!OneUnpacks /\ X!LockGone /\ Locking \in BOOLEAN /\ Domains
  BY DEF ExtractInv, ArchivesGiven
<1>5. /\ \A q \in Run : q # p => unpacking'[q] = unpacking[q]
      /\ \A q \in Run : X!oldlib(q)' = X!oldlib(q)
      /\ X!Unpacking(p) /\ unpacking'[p] \in {"check", "failed"} /\ unpacking[p] # "killed"
  BY <1>1, <1>2, <1>4 DEF Domains, X!oldlib, X!Unpacking
<1>6. \A q \in Run : X!Unpacking(q)' <=> X!Unpacking(q) /\ q # p
  BY <1>5 DEF X!Unpacking
<1>7. LockHeld'
  <2>1. lockfile' \subseteq (IF Locking THEN Archive ELSE {})
    BY <1>2, <1>4 DEF LockHeld
  <2>2. ASSUME Locking, NEW q \in Run, X!Unpacking(q)' PROVE X!oldlib(q)' \in lockfile'
    <3>1. X!Unpacking(q) /\ q # p
      BY <1>6, <2>2
    <3>2. X!oldlib(q) \in lockfile /\ X!oldlib(q) # X!oldlib(p)
      BY <3>1, <1>4, <1>5, <2>2 DEF LockHeld, X!OneUnpacks
    <3> QED
      BY <3>2, <1>2, <1>5, <2>2
  <2> QED
    BY <2>1, <2>2 DEF LockHeld
<1>8. X!OneUnpacks'
  BY <1>4, <1>5, <1>6 DEF X!OneUnpacks
<1>9. X!LockGone'
  <2> SUFFICES ASSUME NEW a \in lockfile'
               PROVE  \E q \in Run : /\ at'[q] > 0 /\ X!oldlib(q)' = a
                                     /\ X!Unpacking(q)' \/ unpacking'[q] = "killed"
    BY DEF X!LockGone
  <2>1. a \in lockfile /\ a # X!oldlib(p)
    BY <1>2, <1>4 DEF LockHeld
  <2>2. PICK q \in Run : /\ at[q] > 0 /\ X!oldlib(q) = a
                         /\ X!Unpacking(q) \/ unpacking[q] = "killed"
    BY <1>4, <2>1 DEF X!LockGone
  <2> QED
    BY <2>1, <2>2, <1>2, <1>5, <1>6
<1> QED
  BY <1>3, <1>7, <1>8, <1>9 DEF ExtractInv

LEMMA CheckKeeps ==
    ASSUME ArchivesGiven, ExtractInv, NEW p \in Run, X!Check(p)
    PROVE  ExtractInv'
<1>1. /\ unpacking[p] = "check"
      /\ UNCHANGED <<at, extracted_archives, extracted_serial, xdir, files, lockfile>>
  BY DEF X!Check, X!runVars
<1>2. /\ Domains /\ at[p] \in Nat
      /\ Right(p, "check", at[p], extracted_archives[p], extracted_serial[p],
                    xdir[p], files[p], result[p])
  BY <1>1, RunFacts
<1>3. PICK to : to \in {"next", "failed"} /\ unpacking' = [unpacking EXCEPT ![p] = to]
  BY DEF X!Check, X!Goto
<1>4. Domains' /\ \A q \in Run : RunRight(q)'
  <2>1. CASE ~X!IsInjective(Members[X!oldlib(p)])
    <3>1. unpacking' = [unpacking EXCEPT ![p] = "failed"] /\ result' = result
      BY <2>1 DEF X!Check, X!Goto
    <3> QED
      BY <3>1, <1>1, GotoKeepsRuns
  <2>2. CASE X!IsInjective(Members[X!oldlib(p)])
    <3> DEFINE rs == result[p] \cup X!Found(p)
    <3>1. /\ unpacking' = [unpacking EXCEPT ![p] = "next"]
          /\ result' = [result EXCEPT ![p] = rs]
      BY <2>2 DEF X!Check, X!Goto
    <3>2. Right(p, "next", at[p], extracted_archives[p], extracted_serial[p],
                xdir[p], files[p], rs)
      BY <1>2, <2>2, CheckRight DEF X!Found, X!oldlib
    <3>3. /\ at' = [at EXCEPT ![p] = at[p]]
          /\ extracted_archives' = [extracted_archives EXCEPT ![p] = extracted_archives[p]]
          /\ extracted_serial' = [extracted_serial EXCEPT ![p] = extracted_serial[p]]
          /\ xdir' = [xdir EXCEPT ![p] = xdir[p]] /\ files' = [files EXCEPT ![p] = files[p]]
      BY <1>1, <1>2, Unchanged
    <3> HIDE DEF rs
    <3> QED
      BY ONLY ExtractInv, <3>1, <3>2, <3>3, RunsRight
  <2> QED
    BY <2>1, <2>2
<1>5. at' = [at EXCEPT ![p] = at[p]]
  BY <1>1, <1>2, Unchanged
<1>6. ~X!Unpacking(p) /\ unpacking[p] # "killed"
  BY <1>1 DEF X!Unpacking
<1>7. LockHeld' /\ X!OneUnpacks' /\ X!LockGone'
  BY <1>1, <1>2, <1>3, <1>5, <1>6, LocksSame
<1> QED
  BY <1>4, <1>7 DEF ExtractInv

LEMMA FinishKeeps ==
    ASSUME ArchivesGiven, ExtractInv, NEW p \in Run, X!Finish(p)
    PROVE  ExtractInv'
<1>1. /\ unpacking[p] = "next" /\ at[p] = Len(oldlibs[p])
      /\ unpacking' = [unpacking EXCEPT ![p] = "done"] /\ lockfile' = lockfile
      /\ UNCHANGED <<at, extracted_archives, extracted_serial, xdir, files, result>>
  BY DEF X!Finish, X!Goto, X!runVars
<1>2. Domains' /\ \A q \in Run : RunRight(q)'
  BY <1>1, GotoKeepsRuns
<1>3. at' = [at EXCEPT ![p] = at[p]] /\ at[p] \in Nat
  BY <1>1, RunFacts, Unchanged
<1>4. ~X!Unpacking(p) /\ unpacking[p] # "killed"
  BY <1>1 DEF X!Unpacking
<1>5. LockHeld' /\ X!OneUnpacks' /\ X!LockGone'
  BY <1>1, <1>3, <1>4, LocksSame
<1> QED
  BY <1>2, <1>5 DEF ExtractInv

LEMMA XKillKeeps ==
    ASSUME ArchivesGiven, ExtractInv, NEW p \in Run, X!Kill(p)
    PROVE  ExtractInv'
<1>1. /\ unpacking' = [unpacking EXCEPT ![p] = "killed"] /\ lockfile' = lockfile
      /\ UNCHANGED <<at, extracted_archives, extracted_serial, xdir, files, result>>
  BY DEF X!Kill, X!Goto, X!runVars
<1>2. Domains' /\ \A q \in Run : RunRight(q)'
  BY <1>1, GotoKeepsRuns
<1>3. at' = [at EXCEPT ![p] = at[p]] /\ at[p] \in Nat
  BY <1>1, RunFacts, Unchanged
<1>5. /\ X!Unpacking(p) => "killed" \in {"ar", "unlock", "failing", "killed"}
      /\ "killed" \in {"ar", "unlock", "failing"} => X!Unpacking(p)
      /\ unpacking[p] = "killed" => "killed" = "killed"
  OBVIOUS
<1>6. unpacking' = [unpacking EXCEPT ![p] = "killed"] /\ lockfile' = lockfile
  BY <1>1
<1>4. LockHeld' /\ X!OneUnpacks' /\ X!LockGone'
  BY ONLY ExtractInv, <1>3, <1>5, <1>6, LocksSame
<1> QED
  BY <1>2, <1>4 DEF ExtractInv

\* No step breaks the invariant.
LEMMA ExtractStepKeeps ==
    ASSUME ArchivesGiven, ExtractInv, [X!Next]_X!vars
    PROVE  ExtractInv'
<1>1. ASSUME NEW p \in Run, X!Step(p) \/ X!Kill(p) PROVE ExtractInv'
  BY <1>1, NextArchiveKeeps, LockKeeps, UnpackKeeps, UnlockKeeps, CheckKeeps, FinishKeeps,
     XKillKeeps DEF X!Step
<1>2. CASE UNCHANGED X!vars
  <2>1. /\ unpacking' = unpacking /\ lockfile' = lockfile
        /\ at' = at /\ extracted_archives' = extracted_archives
        /\ extracted_serial' = extracted_serial /\ xdir' = xdir /\ files' = files
        /\ result' = result
    BY <1>2 DEF X!vars, X!runVars
  <2>2. Domains' /\ \A q \in Run : RunRight(q)'
    BY <2>1 DEF ExtractInv, Domains, RunRight
  <2>3. LockHeld' /\ X!OneUnpacks' /\ X!LockGone'
    BY <2>1 DEF ExtractInv, LockHeld, X!OneUnpacks, X!LockGone, X!Unpacking, X!oldlib
  <2> QED
    BY <2>2, <2>3 DEF ExtractInv
<1> QED
  BY <1>1, <1>2 DEF X!Next

\* The properties follow from the invariant.
LEMMA ExtractInvImplies ==
    ASSUME ArchivesGiven, ExtractInv
    PROVE  X!ArchivesRight
<1>1. ASSUME NEW p \in Run
      PROVE  /\ unpacking[p] \in {"next", "lock", "ar", "unlock", "failing", "check",
                                  "done", "failed", "killed"}
             /\ at[p] \in 0..Len(oldlibs[p]) /\ extracted_serial[p] \in Nat
             /\ \A f \in files[p] : f.dir \in extracted_archives[p] /\ f.from \in Archive
  <2>1. Right(p, unpacking[p], at[p], extracted_archives[p], extracted_serial[p],
                    xdir[p], files[p], result[p])
    BY RunFacts
  <2>2. \A f \in Unpacked : f.from \in Archive
    BY DEF Unpacked
  <2> QED
    BY <2>1, <2>2 DEF Right, Busy, Beginning, Ended
<1>2. lockfile \subseteq Archive
  BY DEF ExtractInv, LockHeld
<1>3. X!TypeOK
  BY <1>1, <1>2 DEF X!TypeOK
<1>4. X!AllMembersFound
  <2>1. ASSUME NEW p \in Run, unpacking[p] = "done", NEW a \in X!ToSet(oldlibs[p])
        PROVE  X!Cardinality(FilesOf(files[p], result[p], a))
                   = Len(Members[a]) * X!Cardinality(Places(p, a))
    <3>1. Right(p, "done", at[p], extracted_archives[p], extracted_serial[p],
                    xdir[p], files[p], result[p])
      BY <2>1, RunFacts
    <3> QED
      BY <3>1, DoneFoundAll
  <2> QED
    BY <2>1, Zenon DEF X!AllMembersFound, FilesOf, Places
<1> QED
  BY <1>3, <1>4 DEF ExtractInv, X!ArchivesRight

\* Archives are unpacked by one run at a time where a lock is needed, though runs
\* fail and are killed; a run that succeeds has found every object of each of its
\* archives, in the directory it has for that archive; and only a run that was
\* killed leaves its lock (func_extract_archives, func_extract_an_archive).
THEOREM ArchivesKept == X!Spec => []ArchivesRight
<1>1. X!Init => ExtractInv
  BY ArchivesTyped, ExtractInitHolds
<1>2. ExtractInv /\ [X!Next]_X!vars => ExtractInv'
  BY ArchivesTyped, ExtractStepKeeps
<1>3. ExtractInv => ArchivesRight
  BY ArchivesTyped, ExtractInvImplies DEF ArchivesRight
<1> QED
  BY <1>1, <1>2, <1>3, PTL DEF X!Spec

(***************************************************************************)
(* Version numbers.                                                        *)
(***************************************************************************)
Versions == [current : Nat, revision : Nat, age : Nat]
ValidVersions == {v \in Versions : Valid(v)}

\* The releases there can be.
Releases(type, number) ==
    {Release(type, q[1], number, q[2]) : q \in ValidVersions \X Nat}

\* The oldest interface of a release.
Oldest(r) == r.version.current - r.version.age

\* What a release has in common with a later one: the numbers go up, and an
\* interface that was removed or changed is older than all the later one has.
Later(r, s) ==
    /\ r.version.current <= s.version.current
    /\ r.version.current = s.version.current => r.version.age = s.version.age
    /\ \/ r.breaks = s.breaks /\ Oldest(r) = Oldest(s)
       \/ r.breaks < s.breaks /\ r.version.current < Oldest(s)

Number == given = "version-number"

ReleasesInv ==
    /\ version_type \in VERSION_TYPE /\ numbers \in Start
    /\ given \in {"version-info", "version-number"}
    /\ releases \in Seq(Releases(version_type, Number))
    /\ \A i, j \in 1..Len(releases) : i <= j => Later(releases[i], releases[j])
    /\ Number => /\ Len(releases) <= 1
                 /\ \A i \in 1..Len(releases) :
                       releases[i] = Release(version_type,
                           FirstVersion(version_type, "version-number", numbers), TRUE, 0)

-----------------------------------------------------------------------------
\* The parts of a release.
LEMMA ReleaseParts ==
    ASSUME NEW type, NEW number, NEW r \in Releases(type, number)
    PROVE  /\ r.version \in Versions /\ Valid(r.version) /\ r.breaks \in Nat
           /\ r.major = Major(type, r.version, number)
           /\ r.versuffix = Versuffix(type, r.version, number)
           /\ r.verstring = Verstring(type, r.version, number)
           /\ r.version.current \in Nat /\ r.version.revision \in Nat /\ r.version.age \in Nat
           /\ r.version.age <= r.version.current
           /\ Oldest(r) \in Nat /\ Oldest(r) <= r.version.current
<1>1. PICK q \in ValidVersions \X Nat : r = Release(type, q[1], number, q[2])
  BY DEF Releases
<1>2. /\ r.version = q[1] /\ r.breaks = q[2]
      /\ r.major = Major(type, q[1], number)
      /\ r.versuffix = Versuffix(type, q[1], number)
      /\ r.verstring = Verstring(type, q[1], number)
  BY <1>1, Zenon DEF Release
<1>3. q[1] \in Versions /\ Valid(q[1]) /\ q[2] \in Nat
  BY DEF ValidVersions
<1>4. r.version \in Versions /\ Valid(r.version) /\ r.breaks \in Nat
  BY <1>2, <1>3
<1>5. /\ r.version.current \in Nat /\ r.version.revision \in Nat /\ r.version.age \in Nat
      /\ r.version.age <= r.version.current
  BY ONLY <1>4 DEF Versions, Valid
<1>6. Oldest(r) \in Nat /\ Oldest(r) <= r.version.current
  BY ONLY <1>5 DEF Oldest
<1> QED
  BY <1>2, <1>4, <1>5, <1>6

\* Later goes from release to release.
LEMMA LaterThrough ==
    ASSUME NEW type, NEW number, NEW r \in Releases(type, number),
           NEW s \in Releases(type, number), NEW t \in Releases(type, number),
           Later(r, s), Later(s, t)
    PROVE  Later(r, t)
<1>1. /\ r.version.current \in Nat /\ s.version.current \in Nat /\ t.version.current \in Nat
      /\ r.breaks \in Nat /\ s.breaks \in Nat /\ t.breaks \in Nat
      /\ Oldest(r) \in Nat /\ Oldest(s) \in Nat /\ Oldest(t) \in Nat
      /\ Oldest(s) <= s.version.current
  BY ReleaseParts
<1> HIDE DEF Oldest
<1> QED
  BY ONLY <1>1, Later(r, s), Later(s, t) DEF Later

LEMMA LaterSelf ==
    ASSUME NEW type, NEW number, NEW r \in Releases(type, number)
    PROVE  Later(r, r)
<1>1. r.version.current \in Nat
  BY ReleaseParts
<1> QED
  BY <1>1 DEF Later

\* The numbers libtool-next-version gives go on from those it got.
LEMMA NextVersionLater ==
    ASSUME NEW v \in ValidVersions, NEW change \in Change
    PROVE  LET w == NextVersion(v, change) IN
           /\ w \in Versions
           /\ v.current <= w.current
           /\ v.current = w.current => v.age = w.age
           /\ IF change \in {"removed", "changed"} THEN v.current < w.current - w.age
              ELSE w.current - w.age = v.current - v.age
<1> DEFINE w == NextVersion(v, change)
<1>1. v.current \in Nat /\ v.revision \in Nat /\ v.age \in Nat /\ v.age <= v.current
  BY DEF ValidVersions, Versions, Valid
<1>2. CASE change = "none"
  <2>1. w = v
    BY <1>2 DEF NextVersion
  <2> HIDE DEF w
  <2>2. w \in Versions
    BY <2>1 DEF ValidVersions
  <2> QED
    BY <1>1, <1>2, <2>1, <2>2 DEF w
<1>3. CASE change = "code"
  <2>1. w = [v EXCEPT !.revision = v.revision + 1]
    BY <1>3 DEF NextVersion
  <2>2. v = [current |-> v.current, revision |-> v.revision, age |-> v.age]
    BY DEF ValidVersions, Versions
  <2>3. w = [current |-> v.current, revision |-> v.revision + 1, age |-> v.age]
    BY <2>1, <2>2
  <2> HIDE DEF w
  <2>4. w \in Versions /\ w.current = v.current /\ w.age = v.age
    BY <2>3, <1>1 DEF Versions
  <2> QED
    BY <1>1, <1>3, <2>4 DEF w
<1>4. CASE change \in {"removed", "changed"}
  <2>1. w = [current |-> v.current + 1, revision |-> 0, age |-> 0]
    BY <1>4 DEF NextVersion, Version
  <2> HIDE DEF w
  <2>2. w \in Versions /\ w.current = v.current + 1 /\ w.age = 0
    BY <2>1, <1>1 DEF Versions
  <2> QED
    BY <1>1, <1>4, <2>2 DEF w
<1>5. CASE change = "added"
  <2>1. w = [current |-> v.current + 1, revision |-> 0, age |-> v.age + 1]
    BY <1>5 DEF NextVersion, Version
  <2> HIDE DEF w
  <2>2. w \in Versions /\ w.current = v.current + 1 /\ w.age = v.age + 1
    BY <2>1, <1>1 DEF Versions
  <2> QED
    BY <1>1, <1>5, <2>2 DEF w
<1> QED
  BY <1>2, <1>3, <1>4, <1>5 DEF Change

\* The numbers of the first release, as given or made of -version-number.
LEMMA FirstVersionType ==
    ASSUME VersionInfoAssumption, NEW type \in VERSION_TYPE, NEW how, NEW n \in Start
    PROVE  FirstVersion(type, how, n) \in Versions
<1>1. n[1] \in Nat /\ n[2] \in Nat /\ n[3] \in Nat
  BY DEF VersionInfoAssumption
<1>2. \A c, r, a \in Nat : Version(c, r, a) \in Versions
  BY DEF Version, Versions
<1>3. n[1] + n[2] \in Nat /\ 0 \in Nat
  BY <1>1
<1>4. FromNumber(type, n) \in Versions
  <2>1. CASE type \in {"darwin", "freebsd-elf", "linux", "osf", "qnx", "windows"}
    <3>1. FromNumber(type, n) = Version(n[1] + n[2], n[3], n[2])
      BY <2>1 DEF FromNumber
    <3> QED
      BY <3>1, <1>1, <1>2, <1>3
  <2>2. CASE type \in {"freebsd-aout", "sco", "sunos"}
    <3>1. FromNumber(type, n) = Version(n[1], n[2], 0)
      BY <2>2 DEF FromNumber
    <3> QED
      BY <3>1, <1>1, <1>2, <1>3
  <2>3. CASE type = "irix"
    <3>1. FromNumber(type, n) = Version(n[1] + n[2], n[2], n[2])
      BY <2>3 DEF FromNumber
    <3> QED
      BY <3>1, <1>1, <1>2, <1>3
  <2> QED
    BY <2>1, <2>2, <2>3 DEF VERSION_TYPE
<1> QED
  BY <1>1, <1>2, <1>4 DEF FirstVersion

\* The invariant holds at the start.
LEMMA ReleasesInitHolds ==
    ASSUME VersionInfoAssumption, Init
    PROVE  ReleasesInv
<1>1. /\ version_type \in VERSION_TYPE /\ given \in {"version-info", "version-number"}
      /\ numbers \in Start
  BY DEF Init
<1>2. LET v == FirstVersion(version_type, given, numbers)
      IN  releases = IF Valid(v)
                     THEN << Release(version_type, v, given = "version-number", 0) >>
                     ELSE <<>>
  BY DEF Init
<1> DEFINE v == FirstVersion(version_type, given, numbers)
           r == Release(version_type, v, Number, 0)
<1>3. v \in Versions
  BY <1>1, FirstVersionType
<1>4. releases = IF Valid(v) THEN <<r>> ELSE <<>>
  BY <1>2 DEF Number
<1>5. Number => r = Release(version_type,
                              FirstVersion(version_type, "version-number", numbers), TRUE, 0)
  BY DEF Number
<1>6. Valid(v) => r \in Releases(version_type, Number)
  <2>1. ASSUME Valid(v) PROVE r \in Releases(version_type, Number)
    <3>1. <<v, 0>> \in ValidVersions \X Nat
      BY <1>3, <2>1 DEF ValidVersions
    <3>2. r = Release(version_type, <<v, 0>>[1], Number, <<v, 0>>[2])
      OBVIOUS
    <3> HIDE DEF r, v
    <3> QED
      BY <3>1, <3>2 DEF Releases
  <2> QED
    BY <2>1
<1> HIDE DEF v, r
<1>7. CASE Valid(v)
  <2>1. releases = <<r>> /\ Len(releases) = 1 /\ releases[1] = r
    BY <1>4, <1>7
  <2>2. releases \in Seq(Releases(version_type, Number))
    BY <2>1, <1>6, <1>7
  <2>3. Later(r, r)
    BY <1>6, <1>7, LaterSelf
  <2>4. \A i \in 1..Len(releases) : releases[i] = r
    BY <2>1
  <2>5. \A i, j \in 1..Len(releases) : i <= j => Later(releases[i], releases[j])
    BY <2>3, <2>4
  <2>6. Number => /\ Len(releases) <= 1
                  /\ \A i \in 1..Len(releases) :
                        releases[i] = Release(version_type,
                            FirstVersion(version_type, "version-number", numbers), TRUE, 0)
    <3>1. ASSUME Number, NEW i \in 1..Len(releases)
          PROVE  releases[i] = Release(version_type,
                     FirstVersion(version_type, "version-number", numbers), TRUE, 0)
      BY <2>4, <1>5, <3>1
    <3>2. Len(releases) <= 1
      BY <2>1
    <3> QED
      BY <3>1, <3>2
  <2> QED
    BY <1>1, <2>2, <2>5, <2>6 DEF ReleasesInv
<1>8. CASE ~Valid(v)
  <2>1. releases = <<>> /\ Len(releases) = 0
    BY <1>4, <1>8
  <2>2. releases \in Seq(Releases(version_type, Number)) /\ \A i : i \notin 1..Len(releases)
    BY <2>1
  <2> QED
    BY <1>1, <2>1, <2>2 DEF ReleasesInv
<1> QED
  BY <1>7, <1>8

\* The next release comes later than all before.
LEMMA NextReleaseKeeps ==
    ASSUME ReleasesInv, NEW change \in Change, NextRelease(change)
    PROVE  ReleasesInv'
<1> DEFINE m == Len(releases)
           last == releases[m]
           v == last.version
           w == NextVersion(v, change)
           breaks == last.breaks + (IF change \in {"removed", "changed"} THEN 1 ELSE 0)
           r == Release(version_type, w, FALSE, breaks)
           Rs == Releases(version_type, Number)
<1>1. /\ releases # <<>> /\ given = "version-info" /\ Valid(w)
      /\ releases' = Append(releases, r) /\ version_type' = version_type /\ given' = given
      /\ numbers' = numbers
  BY DEF NextRelease
<1>2. /\ version_type \in VERSION_TYPE /\ releases \in Seq(Rs)
      /\ \A i, j \in 1..m : i <= j => Later(releases[i], releases[j])
  BY DEF ReleasesInv
<1>3. Number = FALSE /\ Number' = FALSE
  BY <1>1 DEF Number
<1>4. m \in Nat /\ m >= 1 /\ last \in Rs
  <2> HIDE DEF Rs
  <2> QED
    BY <1>1, <1>2
<1>5. /\ v \in Versions /\ Valid(v) /\ last.breaks \in Nat /\ v \in ValidVersions
      /\ v.current \in Nat /\ v.age \in Nat /\ Oldest(last) \in Nat
  BY <1>4, ReleaseParts DEF ValidVersions
<1>6. breaks \in Nat
  BY <1>5
<1>7. /\ w \in Versions /\ v.current <= w.current
      /\ v.current = w.current => v.age = w.age
      /\ IF change \in {"removed", "changed"} THEN v.current < w.current - w.age
         ELSE w.current - w.age = v.current - v.age
  BY <1>5, NextVersionLater
<1>8. r \in Rs
  <2>1. <<w, breaks>> \in ValidVersions \X Nat
    BY <1>1, <1>6, <1>7 DEF ValidVersions
  <2>2. r = Release(version_type, <<w, breaks>>[1], Number, <<w, breaks>>[2])
    BY <1>3
  <2> HIDE DEF r, w, breaks
  <2> QED
    BY <2>1, <2>2 DEF Releases
<1>9. r.version = w /\ r.breaks = breaks
  BY DEF Release
<1>10. Later(last, r)
  <2>1. CASE change \in {"removed", "changed"}
    <3>1. last.breaks < breaks
      BY <2>1, <1>5
    <3> HIDE DEF r, w, breaks
    <3>2. v.current < Oldest(r)
      BY <2>1, <1>7, <1>9 DEF Oldest
    <3> QED
      BY <3>1, <3>2, <1>7, <1>9 DEF Later
  <2>2. CASE change \notin {"removed", "changed"}
    <3>1. last.breaks = breaks
      BY <2>2, <1>5
    <3> HIDE DEF r, w, breaks
    <3>2. Oldest(last) = Oldest(r)
      BY <2>2, <1>7, <1>9 DEF Oldest
    <3> QED
      BY <3>1, <3>2, <1>7, <1>9 DEF Later
  <2> QED
    BY <2>1, <2>2
<1> HIDE DEF r, Rs
<1>11. /\ releases' \in Seq(Rs) /\ Len(releases') = m + 1
       /\ \A i \in 1..m : releases'[i] = releases[i]
       /\ releases'[m + 1] = r
  BY <1>1, <1>2, <1>8
<1>12. ASSUME NEW i \in 1..(m + 1), NEW j \in 1..(m + 1), i <= j
       PROVE  Later(releases'[i], releases'[j])
  <2>1. CASE j \in 1..m
    <3>1. i \in 1..m
      BY <2>1, <1>4, <1>12
    <3> QED
      BY <2>1, <3>1, <1>2, <1>11, <1>12
  <2>2. CASE j = m + 1 /\ i \in 1..m
    <3>1. Later(releases[i], last)
      BY <2>2, <1>2, <1>4
    <3>2. releases[i] \in Rs
      BY <2>2, <1>2
    <3>3. Later(releases[i], r)
      BY <3>1, <3>2, <1>4, <1>8, <1>10, LaterThrough DEF Rs
    <3> QED
      BY <2>2, <3>3, <1>11
  <2>3. CASE j = m + 1 /\ i = m + 1
    BY <2>3, <1>8, <1>11, LaterSelf DEF Rs
  <2> QED
    BY <2>1, <2>2, <2>3, <1>4
<1>13. releases' \in Seq(Releases(version_type', Number'))
  BY <1>1, <1>3, <1>11 DEF Rs
<1> QED
  BY <1>1, <1>2, <1>3, <1>11, <1>12, <1>13 DEF ReleasesInv

\* Names are tuples of numbers.
LEMMA Tuples ==
    /\ \A a, b, c \in Int : <<a>> \o <<b, c>> = <<a, b, c>>
    /\ \A a, b \in Int : <<a>> \o <<b>> = <<a, b>>
    /\ \A a, b, c \in Nat : <<a>> \in Seq(Nat) /\ <<a, b>> \in Seq(Nat) /\ <<a, b, c>> \in Seq(Nat)
<1>1. ASSUME NEW a \in Int, NEW b \in Int, NEW c \in Int
      PROVE  <<a>> \o <<b, c>> = <<a, b, c>>
  <2> DEFINE s == <<a>> \o <<b, c>>
             t == <<a, b, c>>
  <2>1. s \in Seq(Int) /\ Len(s) = 3 /\ s[1] = a /\ s[2] = b /\ s[3] = c
    OBVIOUS
  <2>2. t \in Seq(Int) /\ Len(t) = 3 /\ t[1] = a /\ t[2] = b /\ t[3] = c
    OBVIOUS
  <2> HIDE DEF s, t
  <2>3. s = t
    <3>1. \A i \in 1..3 : i = 1 \/ i = 2 \/ i = 3
      OBVIOUS
    <3>2. \A i \in 1..3 : s[i] = t[i]
      BY <2>1, <2>2, <3>1
    <3>3. s = [i \in 1..3 |-> s[i]] /\ t = [i \in 1..3 |-> t[i]]
      BY <2>1, <2>2
    <3> QED
      BY <3>2, <3>3
  <2> QED
    BY <2>3 DEF s, t
<1>2. ASSUME NEW a \in Int, NEW b \in Int
      PROVE  <<a>> \o <<b>> = <<a, b>>
  <2> DEFINE s == <<a>> \o <<b>>
             t == <<a, b>>
  <2>1. s \in Seq(Int) /\ Len(s) = 2 /\ s[1] = a /\ s[2] = b
    OBVIOUS
  <2>2. t \in Seq(Int) /\ Len(t) = 2 /\ t[1] = a /\ t[2] = b
    OBVIOUS
  <2> HIDE DEF s, t
  <2>3. s = t
    <3>1. \A i \in 1..2 : i = 1 \/ i = 2
      OBVIOUS
    <3>2. \A i \in 1..2 : s[i] = t[i]
      BY <2>1, <2>2, <3>1
    <3>3. s = [i \in 1..2 |-> s[i]] /\ t = [i \in 1..2 |-> t[i]]
      BY <2>1, <2>2
    <3> QED
      BY <3>2, <3>3
  <2> QED
    BY <2>3 DEF s, t
<1>3. ASSUME NEW a \in Nat, NEW b \in Nat, NEW c \in Nat
      PROVE  <<a>> \in Seq(Nat) /\ <<a, b>> \in Seq(Nat) /\ <<a, b, c>> \in Seq(Nat)
  OBVIOUS
<1> QED
  BY <1>1, <1>2, <1>3

\* The names of a release, for each kind of system.
LEMMA MajorIs ==
    ASSUME NEW type \in VERSION_TYPE, NEW v, NEW number \in BOOLEAN
    PROVE  /\ type \in {"freebsd-aout", "sco", "sunos"} =>
                 Major(type, v, number) = <<v.current>>
           /\ type = "irix" /\ ~number =>
                 Major(type, v, number) = <<v.current - v.age + 1>>
           /\ type \notin {"freebsd-aout", "sco", "sunos"} /\ ~(type = "irix" /\ ~number) =>
                 Major(type, v, number) = <<v.current - v.age>>
<1>1. ASSUME type \in {"freebsd-aout", "sco", "sunos"}
      PROVE  Major(type, v, number) = <<v.current>>
  BY <1>1 DEF Major
<1>2. ASSUME type = "irix", ~number
      PROVE  Major(type, v, number) = <<v.current - v.age + 1>>
  BY <1>2 DEF Major
<1>3. ASSUME type \notin {"freebsd-aout", "sco", "sunos"}, ~(type = "irix" /\ ~number)
      PROVE  Major(type, v, number) = <<v.current - v.age>>
  BY <1>3 DEF Major
<1> QED
  BY <1>1, <1>2, <1>3

LEMMA VersuffixIs ==
    ASSUME NEW type \in VERSION_TYPE, NEW v \in Versions, NEW number \in BOOLEAN
    PROVE  /\ type \in {"darwin", "freebsd-elf", "linux", "qnx"} =>
                 Versuffix(type, v, number) = <<v.current - v.age, v.age, v.revision>>
           /\ type = "osf" =>
                 Versuffix(type, v, number) = <<v.current, v.age, v.revision>>
           /\ type \in {"freebsd-aout", "sunos"} =>
                 Versuffix(type, v, number) = <<v.current, v.revision>>
           /\ type = "irix" =>
                 Versuffix(type, v, number) =
                     <<Major(type, v, number)[1], v.revision>>
           /\ type \in {"sco", "windows"} =>
                 Versuffix(type, v, number) = Major(type, v, number)
<1>1. ASSUME type \in {"darwin", "freebsd-elf", "linux", "qnx"}
      PROVE  Versuffix(type, v, number) = <<v.current - v.age, v.age, v.revision>>
  <2>3. v.current - v.age \in Int /\ v.age \in Int /\ v.revision \in Int
    BY DEF Versions
  <2>1. Versuffix(type, v, number) = Major(type, v, number) \o <<v.age, v.revision>>
    BY <1>1 DEF Versuffix
  <2>2. Major(type, v, number) = <<v.current - v.age>>
    BY <1>1, MajorIs
  <2> QED
    BY <2>1, <2>2, <2>3, Tuples
<1>2. ASSUME type = "osf"
      PROVE  Versuffix(type, v, number) = <<v.current, v.age, v.revision>>
  BY <1>2 DEF Versuffix
<1>3. ASSUME type \in {"freebsd-aout", "sunos"}
      PROVE  Versuffix(type, v, number) = <<v.current, v.revision>>
  BY <1>3 DEF Versuffix
<1>4. ASSUME type = "irix"
      PROVE  Versuffix(type, v, number) = <<Major(type, v, number)[1], v.revision>>
  <2>1. Versuffix(type, v, number) = Major(type, v, number) \o <<v.revision>>
    BY <1>4 DEF Versuffix
  <2>2. v.current - v.age \in Int /\ v.current - v.age + 1 \in Int /\ v.revision \in Int
    BY DEF Versions
  <2>3. PICK k \in Int : Major(type, v, number) = <<k>>
    BY <1>4, <2>2, MajorIs
  <2> QED
    BY <2>1, <2>2, <2>3, Tuples
<1>5. ASSUME type \in {"sco", "windows"}
      PROVE  Versuffix(type, v, number) = Major(type, v, number)
  BY <1>5 DEF Versuffix
<1> QED
  BY <1>1, <1>2, <1>3, <1>4, <1>5

\* The names are of numbers that are not negative.
LEMMA NamesTypes ==
    ASSUME NEW type \in VERSION_TYPE, NEW number \in BOOLEAN, NEW r \in Releases(type, number)
    PROVE  r.major \in Seq(Nat) /\ r.versuffix \in Seq(Nat)
<1> DEFINE v == r.version
<1>1. /\ v \in Versions /\ r.major = Major(type, v, number)
      /\ r.versuffix = Versuffix(type, v, number)
      /\ v.current \in Nat /\ v.revision \in Nat /\ v.age \in Nat /\ v.age <= v.current
  BY ReleaseParts
<1> HIDE DEF v
<1>2. v.current - v.age \in Nat /\ v.current - v.age + 1 \in Nat
  BY <1>1
<1>3. PICK k \in Nat : Major(type, v, number) = <<k>>
  BY <1>1, <1>2, MajorIs
<1>4. Versuffix(type, v, number) \in Seq(Nat)
  <2>1. CASE type \in {"darwin", "freebsd-elf", "linux", "qnx"}
    <3>1. Versuffix(type, v, number) = <<v.current - v.age, v.age, v.revision>>
      BY <2>1, <1>1, VersuffixIs
    <3> QED
      BY <3>1, <1>1, <1>2, Tuples
  <2>2. CASE type = "osf"
    <3>1. Versuffix(type, v, number) = <<v.current, v.age, v.revision>>
      BY <2>2, <1>1, VersuffixIs
    <3> QED
      BY <3>1, <1>1, Tuples
  <2>3. CASE type \in {"freebsd-aout", "sunos"}
    <3>1. Versuffix(type, v, number) = <<v.current, v.revision>>
      BY <2>3, <1>1, VersuffixIs
    <3> QED
      BY <3>1, <1>1, Tuples
  <2>4. CASE type = "irix"
    <3>1. Versuffix(type, v, number) = <<Major(type, v, number)[1], v.revision>>
      BY <2>4, <1>1, VersuffixIs
    <3> QED
      BY <3>1, <1>1, <1>3, Tuples
  <2>5. CASE type \in {"sco", "windows"}
    <3>1. Versuffix(type, v, number) = Major(type, v, number)
      BY <2>5, <1>1, VersuffixIs
    <3> QED
      BY <3>1, <1>3, Tuples
  <2> QED
    BY <2>1, <2>2, <2>3, <2>4, <2>5 DEF VERSION_TYPE
<1> QED
  BY <1>1, <1>3, <1>4

\* The properties follow from the invariant.
LEMMA ReleaseOf ==
    ASSUME ReleasesInv, NEW i \in DOMAIN releases
    PROVE  /\ i \in 1..Len(releases) /\ Number \in BOOLEAN
           /\ releases[i] \in Releases(version_type, Number)
  BY DEF ReleasesInv, Number

\* Of two releases one is later.
LEMMA OneIsLater ==
    ASSUME ReleasesInv, NEW i \in DOMAIN releases, NEW j \in DOMAIN releases
    PROVE  Later(releases[i], releases[j]) \/ Later(releases[j], releases[i])
<1>1. i \in 1..Len(releases) /\ j \in 1..Len(releases)
  BY ReleaseOf
<1>2. i <= j \/ j <= i
  BY <1>1
<1> QED
  BY <1>1, <1>2 DEF ReleasesInv

LEMMA FileNameNewHolds ==
    ASSUME ReleasesInv PROVE FileNameNew
<1> SUFFICES ASSUME version_type \notin {"irix", "sco", "windows"},
                    NEW i \in DOMAIN releases, NEW j \in DOMAIN releases,
                    releases[i].versuffix = releases[j].versuffix
             PROVE  releases[i].version = releases[j].version
  BY DEF FileNameNew, Changed
<1> DEFINE v == releases[i].version
           w == releases[j].version
<1>1. /\ v \in Versions /\ w \in Versions /\ Number \in BOOLEAN
      /\ Versuffix(version_type, v, Number) = Versuffix(version_type, w, Number)
      /\ v.current \in Nat /\ v.revision \in Nat /\ v.age \in Nat
      /\ w.current \in Nat /\ w.revision \in Nat /\ w.age \in Nat
  BY ReleaseOf, ReleaseParts
<1>2. v.current = w.current => v.age = w.age
  BY OneIsLater DEF Later
<1>3. version_type \in VERSION_TYPE
  BY DEF ReleasesInv
<1> HIDE DEF v, w
<1>4. v.current = w.current /\ v.revision = w.revision /\ v.age = w.age
  <2>1. CASE version_type \in {"darwin", "freebsd-elf", "linux", "qnx"}
    <3>1. <<v.current - v.age, v.age, v.revision>> = <<w.current - w.age, w.age, w.revision>>
      BY <2>1, <1>1, <1>3, VersuffixIs
    <3>2. v.current - v.age = w.current - w.age /\ v.age = w.age /\ v.revision = w.revision
      BY <3>1
    <3> QED
      BY <3>2, <1>1
  <2>2. CASE version_type = "osf"
    <3>1. <<v.current, v.age, v.revision>> = <<w.current, w.age, w.revision>>
      BY <2>2, <1>1, <1>3, VersuffixIs
    <3> QED
      BY <3>1
  <2>3. CASE version_type \in {"freebsd-aout", "sunos"}
    <3>1. <<v.current, v.revision>> = <<w.current, w.revision>>
      BY <2>3, <1>1, <1>3, VersuffixIs
    <3> QED
      BY <3>1, <1>2
  <2> QED
    BY <2>1, <2>2, <2>3, <1>3 DEF VERSION_TYPE
<1>5. v = w
  BY ONLY <1>1, <1>4 DEF Versions
<1> QED
  BY <1>5 DEF v, w

LEMMA SameMajorHolds ==
    ASSUME ReleasesInv PROVE SameMajorMeansCompatible
<1> SUFFICES ASSUME version_type \notin {"freebsd-aout", "sco", "sunos"},
                    NEW i \in DOMAIN releases, NEW j \in DOMAIN releases
             PROVE  releases[i].major = releases[j].major
                        <=> releases[i].breaks = releases[j].breaks
  BY DEF SameMajorMeansCompatible
<1> DEFINE r == releases[i]
           s == releases[j]
<1>1. /\ Number \in BOOLEAN /\ version_type \in VERSION_TYPE
      /\ r.major = Major(version_type, r.version, Number)
      /\ s.major = Major(version_type, s.version, Number)
      /\ Oldest(r) \in Nat /\ Oldest(s) \in Nat /\ r.breaks \in Nat /\ s.breaks \in Nat
      /\ r.version.current \in Nat /\ s.version.current \in Nat
      /\ Oldest(r) <= r.version.current /\ Oldest(s) <= s.version.current
  <2>1. Number \in BOOLEAN /\ version_type \in VERSION_TYPE
    BY DEF ReleasesInv, Number
  <2>2. r \in Releases(version_type, Number) /\ s \in Releases(version_type, Number)
    BY ReleaseOf
  <2> HIDE DEF r, s
  <2> QED
    BY ONLY <2>1, <2>2, ReleaseParts
<1>2. Later(r, s) \/ Later(s, r)
  BY OneIsLater
<1> HIDE DEF r, s
<1>3. r.breaks = s.breaks <=> Oldest(r) = Oldest(s)
  BY ONLY <1>1, <1>2 DEF Later
<1>4. r.major = s.major <=> Oldest(r) = Oldest(s)
  <2>1. CASE version_type = "irix" /\ ~Number
    <3>1. r.major = <<Oldest(r) + 1>> /\ s.major = <<Oldest(s) + 1>>
      BY <2>1, <1>1, MajorIs DEF Oldest
    <3>2. <<Oldest(r) + 1>> = <<Oldest(s) + 1>> <=> Oldest(r) + 1 = Oldest(s) + 1
      OBVIOUS
    <3> QED
      BY ONLY <3>1, <3>2, <1>1
  <2>2. CASE ~(version_type = "irix" /\ ~Number)
    <3>1. r.major = <<Oldest(r)>> /\ s.major = <<Oldest(s)>>
      BY <2>2, <1>1, MajorIs DEF Oldest
    <3>2. <<Oldest(r)>> = <<Oldest(s)>> <=> Oldest(r) = Oldest(s)
      OBVIOUS
    <3> QED
      BY ONLY <3>1, <3>2
  <2> QED
    BY <2>1, <2>2
<1> QED
  BY <1>3, <1>4 DEF r, s

\* The beginning of three numbers.
LEMMA Beginnings ==
    ASSUME NEW a \in Nat, NEW b \in Nat, NEW c \in Nat
    PROVE  SubSeq(<<a, b, c>>, 1, 3) = <<a, b, c>> /\ SubSeq(<<a, b, c>>, 1, 2) = <<a, b>>
<1> DEFINE n == <<a, b, c>>
           s == SubSeq(n, 1, 3)
           t == SubSeq(n, 1, 2)
           u == <<a, b>>
<1>1. n \in Seq(Nat) /\ Len(n) = 3 /\ n[1] = a /\ n[2] = b /\ n[3] = c
  OBVIOUS
<1>2. u \in Seq(Nat) /\ Len(u) = 2 /\ u[1] = a /\ u[2] = b
  OBVIOUS
<1> HIDE DEF n, u
<1>3. /\ s \in Seq(Nat) /\ Len(s) = 3 /\ \A i \in 1..3 : s[i] = n[i]
      /\ t \in Seq(Nat) /\ Len(t) = 2 /\ \A i \in 1..2 : t[i] = n[i]
  BY <1>1
<1> HIDE DEF s, t
<1>4. \A i \in 1..2 : i = 1 \/ i = 2
  OBVIOUS
<1>5. s = [i \in 1..3 |-> s[i]] /\ n = [i \in 1..3 |-> n[i]]
  BY <1>1, <1>3
<1>6. t = [i \in 1..2 |-> t[i]] /\ u = [i \in 1..2 |-> u[i]]
  BY <1>2, <1>3
<1>7. s = n /\ t = u
  BY <1>1, <1>2, <1>3, <1>4, <1>5, <1>6
<1> QED
  BY <1>7 DEF s, t, n, u

\* A function from a beginning of the numbers is a sequence.
LEMMA FunctionSeq ==
    ASSUME NEW T, NEW n \in Nat, NEW s \in [1..n -> T]
    PROVE  s \in Seq(T) /\ Len(s) = n
  OBVIOUS

\* The list of an osf library: the interfaces from the oldest to the current one.
LEMMA OsfList ==
    ASSUME NEW v \in Versions, Valid(v), NEW number, NEW x \in Nat,
           NEW t, t = Verstring("osf", v, number)
    PROVE  /\ t[Len(t)] = <<v.current, 0>>
           /\ (\E k \in DOMAIN t : t[k] = <<x, 0>>)
                  <=> (v.current - v.age <= x /\ x <= v.current)
<1> DEFINE whole == <<v.current, v.age, v.revision>>
           current == <<v.current, 0>>
           s == osf_interfaces(v)
<1>1. /\ v.current \in Nat /\ v.revision \in Nat /\ v.age \in Nat /\ v.age <= v.current
  BY DEF Versions, Valid
<1>2. t = <<whole>> \o s \o <<current>>
  BY DEF Verstring
<1>3. /\ whole \in Seq(Nat) /\ current \in Seq(Nat)
  BY <1>1, Tuples
<1>4. \A k \in 1..v.age : v.current - v.age + k - 1 \in Nat
  BY <1>1
<1>5. /\ s \in Seq(Seq(Nat)) /\ Len(s) = v.age
      /\ \A k \in 1..v.age : s[k] = <<v.current - v.age + k - 1, 0>>
  <2>1. s = [k \in 1..v.age |-> <<v.current - v.age + k - 1, 0>>]
    BY DEF osf_interfaces
  <2>2. \A k \in 1..v.age : <<v.current - v.age + k - 1, 0>> \in Seq(Nat)
    BY <1>4, Tuples
  <2> HIDE DEF s
  <2>3. s \in [1..v.age -> Seq(Nat)]
    BY <2>1, <2>2
  <2> QED
    <3>1. s \in Seq(Seq(Nat)) /\ Len(s) = v.age
      BY <2>3, <1>1, FunctionSeq
    <3> QED
      BY <2>1, <3>1
<1> HIDE DEF s
<1>6. /\ Len(t) = v.age + 2 /\ DOMAIN t = 1..(v.age + 2)
      /\ t[1] = whole /\ t[v.age + 2] = current
      /\ \A k \in 1..v.age : t[k + 1] = s[k]
  <2> DEFINE T == Seq(Nat)
             q == <<whole>>
             r == <<current>>
             u == q \o s
  <2>1. /\ whole \in T /\ current \in T /\ s \in Seq(T) /\ Len(s) = v.age
        /\ t = u \o r /\ v.age \in Nat
    BY <1>1, <1>2, <1>3, <1>5
  <2> HIDE DEF T, whole, current
  <2>2. /\ q \in Seq(T) /\ Len(q) = 1 /\ q[1] = whole
        /\ r \in Seq(T) /\ Len(r) = 1 /\ r[1] = current
    BY <2>1
  <2> HIDE DEF q, r
  <2>3. /\ u \in Seq(T) /\ Len(u) = Len(q) + Len(s)
        /\ \A i \in 1..Len(q) + Len(s) :
              u[i] = IF i <= Len(q) THEN q[i] ELSE s[i - Len(q)]
    BY ONLY <2>1, <2>2, ConcatProperties
  <2> HIDE DEF u
  <2>4. /\ t \in Seq(T) /\ Len(t) = Len(u) + Len(r)
        /\ \A i \in 1..Len(u) + Len(r) :
              t[i] = IF i <= Len(u) THEN u[i] ELSE r[i - Len(u)]
    <3>1. u \in Seq(T) /\ r \in Seq(T)
      BY ONLY <2>2, <2>3
    <3>2. /\ u \o r \in Seq(T) /\ Len(u \o r) = Len(u) + Len(r)
          /\ \A i \in 1..Len(u) + Len(r) :
                (u \o r)[i] = IF i <= Len(u) THEN u[i] ELSE r[i - Len(u)]
      BY ONLY <3>1, ConcatProperties
    <3>3. t = u \o r
      BY ONLY <2>1
    <3> QED
      BY ONLY <3>2, <3>3, Zenon
  <2>5. Len(u) = v.age + 1 /\ Len(t) = v.age + 2 /\ DOMAIN t = 1..(v.age + 2)
    BY ONLY <2>1, <2>2, <2>3, <2>4
  <2>6. t[1] = whole
    BY ONLY <2>1, <2>2, <2>3, <2>4, <2>5
  <2>7. t[v.age + 2] = current
    BY ONLY <2>1, <2>2, <2>4, <2>5
  <2>8. \A k \in 1..v.age : t[k + 1] = s[k]
    BY ONLY <2>1, <2>2, <2>3, <2>4, <2>5
  <2> QED
    BY ONLY <2>5, <2>6, <2>7, <2>8
<1>7. ASSUME NEW k \in DOMAIN t, t[k] = <<x, 0>>
      PROVE  v.current - v.age <= x /\ x <= v.current
  <2>1. CASE k = 1
    <3>1. whole = <<x, 0>>
      BY <2>1, <1>6, <1>7
    <3>2. Len(<<v.current, v.age, v.revision>>) = 3 /\ Len(<<x, 0>>) = 2
      OBVIOUS
    <3> QED
      BY <3>1, <3>2
  <2>2. CASE k = v.age + 2
    <3>1. <<x, 0>> = <<v.current, 0>>
      BY <2>2, <1>6, <1>7
    <3>2. x = v.current
      BY <3>1
    <3> QED
      BY <3>2, <1>1
  <2>3. CASE k # 1 /\ k # v.age + 2
    <3> DEFINE m == k - 1
    <3>1. m \in 1..v.age /\ k = m + 1
      BY <2>3, <1>1, <1>6
    <3>2. <<x, 0>> = <<v.current - v.age + m - 1, 0>>
      BY <3>1, <1>5, <1>6, <1>7
    <3>3. x = v.current - v.age + m - 1
      BY <3>2
    <3> HIDE DEF m
    <3> QED
      BY <3>1, <3>3, <1>1
  <2> QED
    BY <2>1, <2>2, <2>3
<1>8. ASSUME v.current - v.age <= x, x <= v.current
      PROVE  \E k \in DOMAIN t : t[k] = <<x, 0>>
  <2>1. CASE x = v.current
    <3>1. v.age + 2 \in DOMAIN t
      BY <1>1, <1>6
    <3> QED
      BY <3>1, <2>1, <1>6
  <2>2. CASE x # v.current
    <3> DEFINE m == x - (v.current - v.age) + 1
    <3>1. m \in 1..v.age /\ m + 1 \in DOMAIN t /\ v.current - v.age + m - 1 = x
      <4>1. /\ v.current \in Nat /\ v.age \in Nat /\ x \in Nat /\ v.age <= v.current
            /\ v.current - v.age <= x /\ x <= v.current /\ x # v.current
        BY ONLY <2>2, <1>1, <1>8, x \in Nat
      <4>2. m \in Int /\ 1 <= m /\ m <= v.age /\ v.current - v.age + m - 1 = x
        BY ONLY <4>1
      <4> HIDE DEF m
      <4> QED
        BY ONLY <4>1, <4>2, <1>6
    <3> HIDE DEF m
    <3>2. t[m + 1] = <<x, 0>>
      BY <3>1, <1>5, <1>6
    <3> QED
      BY <3>1, <3>2
  <2> QED
    BY <2>1, <2>2
<1> QED
  BY <1>6, <1>7, <1>8

LEMMA InterfacesListedHolds ==
    ASSUME ReleasesInv PROVE InterfacesListed
<1> SUFFICES ASSUME version_type = "osf",
                    NEW i \in DOMAIN releases, NEW j \in DOMAIN releases, i <= j
             PROVE  releases[i].breaks = releases[j].breaks
                        <=> \E k \in DOMAIN releases[j].verstring :
                                releases[j].verstring[k] = Wants(releases[i])
  BY DEF InterfacesListed
<1> DEFINE r == releases[i]
           s == releases[j]
<1>1. /\ r.version \in Versions /\ Valid(r.version) /\ s.version \in Versions
      /\ Valid(s.version)
      /\ r.verstring = Verstring("osf", r.version, Number)
      /\ s.verstring = Verstring("osf", s.version, Number)
      /\ Oldest(r) \in Nat /\ Oldest(s) \in Nat /\ r.breaks \in Nat /\ s.breaks \in Nat
      /\ r.version.current \in Nat /\ s.version.current \in Nat
      /\ Oldest(r) <= r.version.current /\ Oldest(s) <= s.version.current
  BY ReleaseOf, ReleaseParts
<1>2. Later(r, s)
  BY ReleaseOf DEF ReleasesInv
<1> HIDE DEF r, s
<1>3. Wants(r) = <<r.version.current, 0>>
  BY <1>1, OsfList DEF Wants
<1>4. (\E k \in DOMAIN s.verstring : s.verstring[k] = <<r.version.current, 0>>)
          <=> (Oldest(s) <= r.version.current /\ r.version.current <= s.version.current)
  <2> DEFINE x == r.version.current
             t == s.verstring
  <2>1. /\ x \in Nat /\ s.version \in Versions /\ Valid(s.version)
        /\ t = Verstring("osf", s.version, Number)
    BY <1>1
  <2> HIDE DEF x, t
  <2>2. (\E k \in DOMAIN t : t[k] = <<x, 0>>)
            <=> (s.version.current - s.version.age <= x /\ x <= s.version.current)
    BY ONLY <2>1, OsfList
  <2> QED
    BY <2>2, Zenon DEF Oldest, x, t
<1>5. r.breaks = s.breaks
          <=> (Oldest(s) <= r.version.current /\ r.version.current <= s.version.current)
  BY ONLY <1>1, <1>2 DEF Later
<1>6. r.breaks = s.breaks <=> \E k \in DOMAIN s.verstring : s.verstring[k] = Wants(r)
  BY <1>3, <1>4, <1>5
<1> QED
  BY <1>6 DEF r, s

LEMMA NumbersAsGivenHolds ==
    ASSUME VersionInfoAssumption, ReleasesInv PROVE NumbersAsGiven
<1> SUFFICES ASSUME given = "version-number", version_type \notin {"osf", "sco", "windows"},
                    NEW i \in DOMAIN releases
             PROVE  releases[i].versuffix
                        = SubSeq(numbers, 1, Len(releases[i].versuffix))
  BY DEF NumbersAsGiven
<1> DEFINE n == numbers
<1>1. /\ releases[i] = Release(version_type,
                            FirstVersion(version_type, "version-number", n), TRUE, 0)
      /\ n \in Start
  BY ReleaseOf DEF ReleasesInv, Number
<1> DEFINE v == FirstVersion(version_type, "version-number", n)
           s == releases[i].versuffix
<1>2. s = Versuffix(version_type, v, TRUE)
  <2>1. \A r : r = Release(version_type, v, TRUE, 0)
            => r.versuffix = Versuffix(version_type, v, TRUE)
    BY DEF Release
  <2> QED
    BY <1>1, <2>1
<1>3. n[1] \in Nat /\ n[2] \in Nat /\ n[3] \in Nat /\ n = <<n[1], n[2], n[3]>>
  BY <1>1 DEF VersionInfoAssumption
<1>4. version_type \in VERSION_TYPE
  BY DEF ReleasesInv
<1>5. v \in Versions
  BY <1>1, <1>4, FirstVersionType
<1>6. v = FromNumber(version_type, n)
  BY DEF FirstVersion
<1>7. SubSeq(n, 1, 3) = <<n[1], n[2], n[3]>> /\ SubSeq(n, 1, 2) = <<n[1], n[2]>>
  BY <1>3, Beginnings
<1> HIDE DEF s
<1> HIDE DEF v
<1> HIDE DEF n
<1>11. TRUE \in BOOLEAN
  OBVIOUS
<1>8. CASE version_type \in {"darwin", "freebsd-elf", "linux", "qnx"}
  <2>1. v = Version(n[1] + n[2], n[3], n[2])
    BY <1>6, <1>8 DEF FromNumber
  <2>2. v.current - v.age = n[1] /\ v.age = n[2] /\ v.revision = n[3]
    BY <2>1, <1>3 DEF Version
  <2>4. s = <<v.current - v.age, v.age, v.revision>>
    BY <1>2, <1>4, <1>5, <1>8, VersuffixIs
  <2>3. s = <<n[1], n[2], n[3]>> /\ Len(s) = 3
    BY ONLY <2>2, <2>4
  <2> QED
    BY <2>3, <1>7 DEF s, n
<1>9. CASE version_type \in {"freebsd-aout", "sunos"}
  <2>1. v = Version(n[1], n[2], 0)
    BY <1>6, <1>9 DEF FromNumber
  <2>2. v.current = n[1] /\ v.revision = n[2]
    BY <2>1 DEF Version
  <2>4. s = <<v.current, v.revision>>
    BY <1>2, <1>4, <1>5, <1>9, VersuffixIs
  <2>3. s = <<n[1], n[2]>> /\ Len(s) = 2
    BY ONLY <2>2, <2>4
  <2> QED
    BY <2>3, <1>7 DEF s, n
<1>10. CASE version_type = "irix"
  <2>1. v = Version(n[1] + n[2], n[2], n[2])
    BY <1>6, <1>10 DEF FromNumber
  <2>2. v.current - v.age = n[1] /\ v.revision = n[2]
    BY <2>1, <1>3 DEF Version
  <2>3. Major(version_type, v, TRUE) = <<n[1]>>
    BY <1>4, <1>10, <2>2, MajorIs
  <2>5. s = << <<n[1]>>[1], v.revision>>
    BY <1>2, <1>4, <1>5, <1>10, <2>3, VersuffixIs
  <2>4. s = <<n[1], n[2]>> /\ Len(s) = 2
    BY ONLY <2>2, <2>5
  <2> QED
    BY <2>4, <1>7 DEF s, n
<1> QED
  BY <1>4, <1>8, <1>9, <1>10 DEF VERSION_TYPE

LEMMA VersionTypesHold ==
    ASSUME ReleasesInv PROVE TypeOK
<1>1. ASSUME NEW i \in DOMAIN releases
      PROVE  /\ Valid(releases[i].version)
             /\ releases[i].major \in Seq(Nat) /\ releases[i].versuffix \in Seq(Nat)
  BY ReleaseOf, ReleaseParts, NamesTypes DEF ReleasesInv
<1>2. ASSUME NEW i \in DOMAIN releases, i > 1
      PROVE  releases[i].breaks >= releases[i - 1].breaks
  <2>1. i \in 1..Len(releases) /\ i - 1 \in 1..Len(releases) /\ i - 1 <= i
        /\ i - 1 \in DOMAIN releases
    BY <1>2, ReleaseOf DEF ReleasesInv
  <2>2. Later(releases[i - 1], releases[i])
    BY <2>1 DEF ReleasesInv
  <2>3. releases[i].breaks \in Nat /\ releases[i - 1].breaks \in Nat
    BY <2>1, ReleaseOf, ReleaseParts
  <2> QED
    BY <2>2, <2>3 DEF Later
<1> QED
  BY <1>1, <1>2 DEF TypeOK, ReleasesInv

\* The names of a library's releases say what they have in common: no release
\* takes the file of another one, the major number changes exactly when something
\* is removed or changed, an osf library lists the interfaces it has, and the
\* numbers of -version-number are those of the file's name (func_mode_link).
THEOREM VersionsKept == Spec => []VersionsRight
<1>1. Init => ReleasesInv
  BY VersionInfoAssumption, ReleasesInitHolds
<1>2. ReleasesInv /\ [Next]_vars => ReleasesInv'
  <2>1. CASE UNCHANGED vars
    BY <2>1 DEF vars, ReleasesInv, Number
  <2> QED
    BY <2>1, NextReleaseKeeps DEF Next
<1>3. ReleasesInv => VersionsRight
  BY VersionInfoAssumption, FileNameNewHolds, SameMajorHolds, InterfacesListedHolds, NumbersAsGivenHolds,
     VersionTypesHold DEF VersionsRight
<1> QED
  BY <1>1, <1>2, <1>3, PTL DEF Spec
=============================================================================
