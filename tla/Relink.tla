------------------------------- MODULE Relink -------------------------------
(***************************************************************************)
(* Installing a library that has to be relinked first (build-aux/ltmain.in,*)
(* func_mode_install, and func_mode_link in mode relink).  Mode relink     *)
(* links in the place of the uninstalled library, which it keeps as        *)
(* realnameU meanwhile, and leaves the new one as realnameT; mode install  *)
(* copies that, makes the links and then installs the .la file.            *)
(*                                                                         *)
(* A file is absent, the uninstalled library, a part of a library, or the  *)
(* relinked library.  make may run the installation again when it failed.  *)
(***************************************************************************)
EXTENDS Naturals

CONSTANT MaxInstalls    \* bound on the installations

VARIABLES
    realname, realnameU, realnameT,   \* the files in the build tree
    installed,      \* the library in destdir
    la,             \* whether its .la file is there
    pc,
    installs,
    interrupted     \* whether a run was stopped, or left by an exit that does
                    \* not put the library back

vars == <<realname, realnameU, realnameT, installed, la, pc, installs, interrupted>>
tree == <<realname, realnameU, realnameT>>
dest == <<installed, la>>

\* Mode install begins, and with it mode relink.
Begin ==
    /\ pc = "idle" /\ installs < MaxInstalls
    /\ installs' = installs + 1
    /\ pc' = "remove U"
    /\ UNCHANGED <<tree, dest, interrupted>>

\* $RM ${realname}U && $MV $realname ${realname}U
RemoveBackup ==
    /\ pc = "remove U"
    /\ realnameU' = "absent"
    /\ pc' = "backup"
    /\ UNCHANGED <<realname, realnameT, dest, installs, interrupted>>

Backup ==
    /\ pc = "backup"
    /\ IF realname = "absent" THEN pc' = "idle" /\ UNCHANGED tree
       ELSE /\ realnameU' = realname /\ realname' = "absent"
            /\ pc' = "link"
            /\ UNCHANGED realnameT
    /\ UNCHANGED <<dest, installs, interrupted>>

\* An exit between the backup and its return: archives that cannot be unpacked,
\* and afterwards a mv of the last command that fails.
ExitUnrestored ==
    /\ pc \in {"link", "move T", "restore"}
    /\ pc' = "idle" /\ interrupted' = TRUE
    /\ UNCHANGED <<tree, dest, installs>>

\* The commands that link; they may fail when something is written already.
Link ==
    /\ pc = "link"
    /\ realname' = "part"
    /\ pc' = "linking"
    /\ UNCHANGED <<realnameU, realnameT, dest, installs, interrupted>>

LinkEnds ==
    /\ pc = "linking"
    /\ realname' = "relinked"
    /\ pc' = "move T"
    /\ UNCHANGED <<realnameU, realnameT, dest, installs, interrupted>>

\* Faulty variant: the backup is not put back.
LinkFailsOnly ==
    /\ pc = "linking"
    /\ realnameT' = "absent"
    /\ pc' = "idle"
    /\ UNCHANGED <<realname, realnameU, dest, installs, interrupted>>

\* $RM T && $MV U realname; mode install ends with an error.
LinkFails ==
    /\ pc = "linking"
    /\ realnameT' = "absent"
    /\ realname' = realnameU /\ realnameU' = "absent"
    /\ pc' = "idle"
    /\ UNCHANGED <<dest, installs, interrupted>>

\* $RM T && $MV realname T ...
MoveNew ==
    /\ pc = "move T"
    /\ realnameT' = realname /\ realname' = "absent"
    /\ pc' = "restore"
    /\ UNCHANGED <<realnameU, dest, installs, interrupted>>

\* ... && $MV U realname
Restore ==
    /\ pc = "restore"
    /\ realname' = realnameU /\ realnameU' = "absent"
    /\ pc' = "install"
    /\ UNCHANGED <<realnameT, dest, installs, interrupted>>

\* ${realname}T is copied; a copy that fails ends mode install.
Install ==
    /\ pc = "install"
    /\ \/ installed' = realnameT /\ pc' = "install la"
       \/ installed' = "part" /\ pc' = "idle"
    /\ UNCHANGED <<tree, la, installs, interrupted>>

\* The .la file comes after stripping, the links and the commands of the system,
\* which may fail.
InstallLa ==
    /\ pc = "install la"
    /\ la' \in {la, TRUE}
    /\ pc' = "idle"
    /\ UNCHANGED <<tree, installed, installs, interrupted>>

\* A signal; no trap is set.
Interrupt ==
    /\ pc # "idle"
    /\ pc' = "idle" /\ interrupted' = TRUE
    /\ UNCHANGED <<tree, dest, installs>>

Init ==
    /\ realname = "uninstalled" /\ realnameU = "absent" /\ realnameT = "absent"
    /\ installed = "absent" /\ la = FALSE
    /\ pc = "idle" /\ installs = 0 /\ interrupted = FALSE

Next ==
    \/ Begin \/ RemoveBackup \/ Backup \/ ExitUnrestored \/ Link \/ LinkEnds \/ LinkFails
    \/ MoveNew \/ Restore \/ Install \/ InstallLa \/ Interrupt

Spec == Init /\ [][Next]_vars

-----------------------------------------------------------------------------
\* The types.
TypeOK ==
    LET File == {"absent", "uninstalled", "part", "relinked"} IN
    /\ realname \in File /\ realnameU \in File /\ realnameT \in File /\ installed \in File
    /\ la \in BOOLEAN /\ interrupted \in BOOLEAN /\ installs \in 0..MaxInstalls

\* Between installations the build tree has the uninstalled library, whichever
\* step of them failed, unless one was stopped by a signal or an exit that does
\* not put it back (ltmain.in:8138-8141, 8416-8418).
UninstalledKept == pc = "idle" /\ ~interrupted => realname = "uninstalled"

\* What is installed whole is the relinked library, never the one with the paths
\* of the build tree, also when an installation was stopped and is run again.
RelinkedInstalled == installed \in {"absent", "part", "relinked"}

\* Each library is where it belongs: the uninstalled one and the relinked one.
LibrariesRight == TypeOK /\ UninstalledKept /\ RelinkedInstalled
=============================================================================
