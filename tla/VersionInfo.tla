---------------------------- MODULE VersionInfo -----------------------------
(***************************************************************************)
(* Version numbers: libtool-next-version, which asks what changed since    *)
(* the last release, and what mode link makes of -version-info or          *)
(* -version-number for each kind of system (ltmain.in, func_mode_link):    *)
(* the major number (the name programs look for), the suffix of the file   *)
(* and the list of versions written into the library.                      *)
(*                                                                         *)
(* The state is the releases of one library.  Names are sequences of       *)
(* numbers; the text around the numbers is left out.                       *)
(***************************************************************************)
EXTENDS Integers, Sequences, SequencesExt

CONSTANTS
    Start,          \* the numbers the first release may be given
    MaxReleases,    \* bound on the releases
    MaxRevision     \* bound on the revision

ASSUME VersionInfoAssumption ==
    /\ Start \subseteq Nat \X Nat \X Nat
    /\ MaxReleases \in Nat \ {0} /\ MaxRevision \in Nat

VERSION_TYPE == {"darwin", "freebsd-aout", "freebsd-elf", "irix", "linux",
                 "osf", "qnx", "sco", "sunos", "windows"}

\* What the developer answers libtool-next-version.
Change == {"none", "code", "removed", "changed", "added"}

VARIABLES
    version_type,   \* the kind of system
    given,          \* "version-info" or "version-number": how the first was given
    numbers,        \* the numbers it was given
    releases        \* each with its numbers, its names, and breaks: how many
                    \* times so far interfaces were removed or changed

vars == <<version_type, given, numbers, releases>>

Version(c, r, a) == [current |-> c, revision |-> r, age |-> a]

\* -version-number major:minor:revision, for systems that use age as the minor
\* number, for those that do not, and for irix.
FromNumber(type, n) ==
    CASE type \in {"darwin", "freebsd-elf", "linux", "osf", "qnx", "windows"} ->
             Version(n[1] + n[2], n[3], n[2])
      [] type \in {"freebsd-aout", "sco", "sunos"} -> Version(n[1], n[2], 0)
      [] type = "irix" -> Version(n[1] + n[2], n[2], n[2])

\* Numbers of more digits than the script allows are left out by Start.
Valid(v) == v.age <= v.current

\* Faulty variant: only interfaces that were removed count.
NextVersionRemovedOnly(v, change) ==
    CASE change = "none" -> v
      [] change \in {"code", "changed"} -> [v EXCEPT !.revision = @ + 1]
      [] change = "removed" -> Version(v.current + 1, 0, 0)
      [] change = "added" -> Version(v.current + 1, 0, v.age + 1)

\* libtool-next-version.
NextVersion(v, change) ==
    CASE change = "none" -> v
      [] change = "code" -> [v EXCEPT !.revision = @ + 1]
      [] change \in {"removed", "changed"} -> Version(v.current + 1, 0, 0)
      [] change = "added" -> Version(v.current + 1, 0, v.age + 1)

\* The interfaces an osf library lists: from the loop, and "our current version".
osf_interfaces(v) == [k \in 1..v.age |-> <<v.current - v.age + k - 1, 0>>]

\* irix numbers its interfaces from 1, unless -version-number gave the number.
Major(type, v, number) ==
    CASE type \in {"freebsd-aout", "sco", "sunos"} -> <<v.current>>
      [] type = "irix" /\ ~number -> <<v.current - v.age + 1>>
      [] OTHER -> <<v.current - v.age>>

Versuffix(type, v, number) ==
    LET major == Major(type, v, number)
    IN  CASE type \in {"darwin", "freebsd-elf", "linux", "qnx"} -> major \o <<v.age, v.revision>>
          [] type = "osf" -> <<v.current, v.age, v.revision>>
          [] type \in {"freebsd-aout", "sunos"} -> <<v.current, v.revision>>
          [] type = "irix" -> major \o <<v.revision>>
          [] type \in {"sco", "windows"} -> major

\* The list of versions, the one programs are made to depend on last.
Verstring(type, v, number) ==
    LET major == Major(type, v, number)
    IN  CASE type = "osf" ->
                 << <<v.current, v.age, v.revision>> >> \o osf_interfaces(v)
                 \o << <<v.current, 0>> >>
          [] type = "irix" ->
                 Append(Reverse([k \in 1..v.revision |-> major \o <<k - 1>>]),
                        major \o <<v.revision>>)
          [] type = "darwin" -> << <<v.current + 1>>, <<v.current + 1, v.revision>> >>
          [] OTHER -> <<>>

Release(type, v, number, breaks) ==
    [version |-> v, breaks |-> breaks, major |-> Major(type, v, number),
     versuffix |-> Versuffix(type, v, number), verstring |-> Verstring(type, v, number)]

FirstVersion(type, how, n) ==
    IF how = "version-number" THEN FromNumber(type, n) ELSE Version(n[1], n[2], n[3])

-----------------------------------------------------------------------------
Init ==
    /\ version_type \in VERSION_TYPE
    /\ given \in {"version-info", "version-number"}
    /\ numbers \in Start
    /\ LET v == FirstVersion(version_type, given, numbers)
       IN  releases = IF Valid(v) THEN << Release(version_type, v, given = "version-number", 0) >>
                                  ELSE <<>>

\* The next release, with the numbers libtool-next-version gave.
NextRelease(change) ==
    LET last == releases[Len(releases)]
        v == NextVersion(last.version, change)
    IN  /\ releases # <<>> /\ Len(releases) < MaxReleases
        /\ given = "version-info"
        /\ Valid(v) /\ v.revision <= MaxRevision
        /\ releases' = Append(releases,
               Release(version_type, v, FALSE,
                       last.breaks + IF change \in {"removed", "changed"} THEN 1 ELSE 0))
        /\ UNCHANGED <<version_type, given, numbers>>

Next == \E change \in Change : NextRelease(change)

Spec == Init /\ [][Next]_vars

-----------------------------------------------------------------------------
\* Every release was given a valid version, and its major number is not negative.
TypeOK ==
    /\ version_type \in VERSION_TYPE /\ numbers \in Start
    /\ \A i \in DOMAIN releases :
          /\ Valid(releases[i].version)
          /\ releases[i].major \in Seq(Nat) /\ releases[i].versuffix \in Seq(Nat)
          /\ i > 1 => releases[i].breaks >= releases[i - 1].breaks

Changed(i, j) == releases[i].version # releases[j].version

\* No two releases with different numbers install the same file, so that an
\* installation never overwrites an earlier release.  irix, sco and windows are
\* left out: their file names leave out the age, or all but the major number.
FileNameNew ==
    version_type \notin {"irix", "sco", "windows"} =>
        \A i, j \in DOMAIN releases :
            Changed(i, j) => releases[i].versuffix # releases[j].versuffix

\* Two releases have the major number in common, and hence the name programs
\* look for, exactly if nothing was removed or changed between them.
\* freebsd-aout, sco and sunos have no name for that: each interface has its own.
SameMajorMeansCompatible ==
    version_type \notin {"freebsd-aout", "sco", "sunos"} =>
        \A i, j \in DOMAIN releases :
            releases[i].major = releases[j].major <=> releases[i].breaks = releases[j].breaks

Wants(release) == release.verstring[Len(release.verstring)]

\* A program linked with one release runs with a later one exactly if nothing it
\* may use was removed or changed: the list of an osf library has the version
\* the program depends on.
InterfacesListed ==
    version_type = "osf" =>
        \A i, j \in DOMAIN releases : i <= j =>
            (releases[i].breaks = releases[j].breaks
                <=> \E k \in DOMAIN releases[j].verstring :
                        releases[j].verstring[k] = Wants(releases[i]))

\* The numbers of -version-number are the numbers of the file's name.
NumbersAsGiven ==
    given = "version-number" /\ version_type \notin {"osf", "sco", "windows"} =>
        \A i \in DOMAIN releases :
            releases[i].versuffix = SubSeq(numbers, 1, Len(releases[i].versuffix))

\* A library's names say what its releases have in common.
VersionsRight ==
    TypeOK /\ FileNameNew /\ SameMajorMeansCompatible /\ InterfacesListed /\ NumbersAsGiven
=============================================================================
