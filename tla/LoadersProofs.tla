---------------------------- MODULE LoadersProofs ----------------------------
(***************************************************************************)
(* Theorems about Loaders, for each of the six loaders, any names,         *)
(* libraries and symbols and any bounds: references to libraries, the      *)
(* error modes of Windows, and what lt_dlerror says after a failure.       *)
(***************************************************************************)
EXTENDS Loaders, FiniteSetTheorems, SequenceTheorems, TLAPS

(***************************************************************************)
(* The inductive invariant.                                                *)
(***************************************************************************)
\* The libraries that dyld never gives back.
Stays(f) == loader = "dyld" /\ f \in Dylib

\* The system holds a reference for each open module and each close that it
\* refused; shl_load.c and loadlibrary.c may have taken more.
Counted(f) ==
    /\ ~Stays(f) => refs[f] >= Cardinality(Users(f)) + stuck[f]
    /\ ~Stays(f) /\ loader \notin {"shl_load", "loadlibrary"} =>
           refs[f] = Cardinality(Users(f)) + stuck[f]
    /\ Stays(f) /\ Users(f) # {} => refs[f] > 0

\* The texts that are registered.
CloseText == "can't close a dylib"
Text == {"client's", CloseText}

\* dyld opens modules only once it was found.
DyldThere == loader = "dyld" /\ opened \ {Program} # {} => dyld_cannot_close # 0

\* dyld.c's text has the number that was kept for it, and is registered once.
TextInv ==
    /\ user_error_strings \in Seq(Text)
    /\ dyld_cannot_close = 0 => Len(user_error_strings) <= MaxTexts
    /\ dyld_cannot_close \notin {-1, 0} =>
           /\ dyld_cannot_close \in LT_ERROR_MAX..(errorcount - 1)
           /\ user_error_strings[dyld_cannot_close - LT_ERROR_MAX + 1] = CloseText
    /\ DyldThere

\* The two function variables are bound to what this system has, if at all.
ModeInv ==
    /\ getthreaderrormode = "wrap" \/ getthreaderrormode =
           (CASE windows = "seven" -> "GetThreadErrorMode"
              [] windows = "vista" -> "GetErrorMode"
              [] windows = "xp" -> "fallback")
    /\ setthreaderrormode = "wrap" \/ setthreaderrormode =
           (IF windows = "seven" THEN "SetThreadErrorMode" ELSE "fallback")
    /\ modes = wanted

RefInv ==
    /\ TypeOK /\ IsFiniteSet(opened)
    /\ \A f \in Lib : Counted(f)
    /\ NeverTheSame

SaidInv == FailureExplained /\ CannotCloseSaid

\* NULL, for no error, is not an error.
NoErrorApart == \A at, says : NULL # ErrorAt(at, says)

LoadersInv == RefInv /\ TextInv /\ ModeInv /\ SaidInv

(***************************************************************************)
(* The loaders' answers.                                                   *)
(***************************************************************************)
\* An error whose text can be read: of the table, registered, or the one that
\* the system's buffer holds.
Explains(e, b) ==
    \E at, says : /\ e = ErrorAt(at, says)
                  /\ at \in {"table", "user"} \/ (at = "buffer" /\ says = b)

ErrorOK(e) == e = NULL \/ e.at \in {"table", "user", "buffer", "frame"}

LEMMA ExplainedType ==
    ASSUME NEW e, NEW b, Explains(e, b)
    PROVE  ErrorOK(e)
  BY DEF Explains, ErrorOK, ErrorAt

LEMMA TableExplains ==
    ASSUME NEW t, NEW b
    PROVE  Explains(Strerror(t), b)
  BY DEF Explains, Strerror, ErrorAt

LEMMA NumberExplains ==
    ASSUME NEW i, NEW b
    PROVE  Explains(ErrorNumber(i), b)
  BY DEF Explains, ErrorNumber, Strerror, ErrorAt

LEMMA LibraryOf ==
    ASSUME NEW n \in Subject
    PROVE  /\ n = Program => LibOf(n) = Program
           /\ n # Program => n \in Name /\ FileOf[n] \in Lib /\ LibOf(n) = FileOf[n]
                             /\ LibOf(n) # Program
           /\ Program \notin Lib
  BY LoadersAssumption DEF Subject, LibOf

\* An answer with f's references k more, and one that says why it failed.
Taken(a, f, k) ==
    /\ a.ok /\ a.error = last_error /\ a.buffer = buffer
    /\ a.refs = IF f = Program THEN refs ELSE [refs EXCEPT ![f] = @ + k]
Failed(a) == ~a.ok /\ a.refs = refs /\ Explains(a.error, a.buffer)

LEMMA LoadedTaken ==
    ASSUME NEW f, NEW k
    PROVE  Taken(Loaded(f, k), f, k)
  BY DEF Loaded, Answer, Taken

LEMMA SaysFailed ==
    ASSUME NEW t, NEW b
    PROVE  Failed(Says(t, b)) /\ Failed(SystemSays(t))
  BY DEF Says, SystemSays, Answer, Failed, Explains, Strerror, ErrorAt

LEMMA OpenAnswer ==
    ASSUME loader \in Loader, NEW n \in Subject,
           loader = "dld_link" => n # Program,
           NEW a \in vm_open(n)
    PROVE  \/ Failed(a)
           \/ /\ loader \in {"dlopen", "load_add_on", "dld_link"}
              /\ Taken(a, LibOf(n), 1)
           \/ loader = "shl_load" /\ (Taken(a, LibOf(n), 1) \/ Taken(a, LibOf(n), 2))
           \/ /\ loader = "dyld" /\ (n = Program \/ dyld_cannot_close # 0)
              /\ \/ Taken(a, LibOf(n), 1)
                 \/ n # Program /\ Stays(FileOf[n]) /\ refs[FileOf[n]] > 0
                    /\ Taken(a, LibOf(n), 0)
           \/ /\ loader = "loadlibrary"
              /\ \A m \in opened : LibOf(m) # LibOf(n)
              /\ Taken(a, LibOf(n), 1)
           \/ /\ loader \in {"loadlibrary", "shl_load"}
              /\ ~a.ok /\ Explains(a.error, a.buffer)
              /\ a.refs = IF n = Program THEN refs ELSE [refs EXCEPT ![FileOf[n]] = @ + 1]
  <1> DEFINE same == [Loaded(LibOf(n), 1) EXCEPT !.ok = FALSE,
                                                 !.error = Strerror("CANNOT_OPEN")]
  <1>0. a = same => /\ ~a.ok /\ Explains(a.error, a.buffer)
                    /\ a.refs = IF n = Program THEN refs
                                ELSE [refs EXCEPT ![FileOf[n]] = @ + 1]
    <2> SUFFICES ASSUME a = same
                 PROVE  /\ ~a.ok /\ Explains(a.error, a.buffer)
                        /\ a.refs = IF n = Program THEN refs
                                    ELSE [refs EXCEPT ![FileOf[n]] = @ + 1]
      OBVIOUS
    <2>1. /\ ~a.ok /\ a.error = Strerror("CANNOT_OPEN")
          /\ a.refs = IF LibOf(n) = Program THEN refs ELSE [refs EXCEPT ![LibOf(n)] = @ + 1]
      BY DEF Loaded, Answer
    <2>2. a.refs = IF n = Program THEN refs ELSE [refs EXCEPT ![FileOf[n]] = @ + 1]
      BY <2>1, LibraryOf
    <2> QED
      BY <2>1, <2>2, TableExplains
  <1>1. CASE loader = "dlopen"
    BY <1>1, LoadedTaken, SaysFailed DEF vm_open, dlopen_open
  <1>2. CASE loader = "loadlibrary"
    <2>1. \/ a \in {Says("CANNOT_OPEN", buffer)}
          \/ a \in loadlibraryerror(<<"open", n>>, "CANNOT_OPEN")
          \/ a = same
          \/ a = Loaded(LibOf(n), 1) /\ ~\E m \in opened : LibOf(m) = LibOf(n)
      BY <1>2 DEF vm_open, loadlibrary_open
    <2>2. CASE a = same
      BY <1>0, <1>2, <2>2
    <2>3. CASE a \in loadlibraryerror(<<"open", n>>, "CANNOT_OPEN")
      BY <2>3, SaysFailed DEF loadlibraryerror
    <2> QED
      BY <1>2, <2>1, <2>2, <2>3, LoadedTaken, SaysFailed
  <1>3. CASE loader = "dyld"
    <2>1. CASE n = Program
      BY <1>3, <2>1, LoadedTaken, LibraryOf DEF vm_open, dyld_open
    <2>2. CASE n # Program
      <3>1. \/ /\ dyld_cannot_close # 0
               /\ a = Loaded(LibOf(n), IF FileOf[n] \in Dylib /\ refs[FileOf[n]] > 0
                                       THEN 0 ELSE 1)
            \/ a \in {SystemSays(<<"open", n>>), Says("CANNOT_OPEN", buffer)}
        BY <1>3, <2>2, LibraryOf DEF vm_open, dyld_open, dylderror
      <3> QED
        BY <1>3, <2>2, <3>1, LoadedTaken, SaysFailed DEF Stays
    <2> QED
      BY <2>1, <2>2
  <1>4. CASE loader = "shl_load"
    <2>1. \/ a \in {Loaded(LibOf(n), 1), Loaded(LibOf(n), 2), Says("CANNOT_OPEN", buffer)}
          \/ a = same
      BY <1>4 DEF vm_open, shl_load_open
    <2> QED
      BY <1>0, <1>4, <2>1, LoadedTaken, SaysFailed
  <1>5. CASE loader = "load_add_on"
    BY <1>5, LoadedTaken, SaysFailed DEF vm_open, load_add_on_open
  <1>6. CASE loader = "dld_link"
    BY <1>6, LoadedTaken, SaysFailed, LibraryOf DEF vm_open, dld_link_open
  <1> QED
    BY <1>1, <1>2, <1>3, <1>4, <1>5, <1>6 DEF Loader

LEMMA CloseAnswer ==
    ASSUME loader \in Loader, NEW n \in Subject, NEW a \in vm_close(n)
    PROVE  \/ /\ Failed(a)
              /\ n # Program /\ Stays(FileOf[n]) => a.error = ErrorNumber(dyld_cannot_close)
           \/ /\ n # Program => ~Stays(FileOf[n])
              /\ a.ok /\ a.error = last_error /\ a.buffer = buffer
              /\ a.refs = IF n = Program THEN refs ELSE [refs EXCEPT ![FileOf[n]] = @ - 1]
  <1> DEFINE given == /\ a.ok /\ a.error = last_error /\ a.buffer = buffer
                      /\ a.refs = IF n = Program THEN refs
                                  ELSE [refs EXCEPT ![FileOf[n]] = @ - 1]
  <1>1. a = Unloaded(n) => given
    BY DEF Unloaded, Answer
  <1>2. CASE loader = "dlopen"
    BY <1>1, <1>2, SaysFailed DEF vm_close, Stays
  <1>3. CASE loader = "loadlibrary"
    BY <1>1, <1>3, SaysFailed DEF vm_close, loadlibraryerror, Stays
  <1>4. CASE loader = "dyld"
    <2>1. CASE n = Program
      BY <1>4, <2>1 DEF vm_close, dyld_close, Done, Answer
    <2>2. CASE n # Program /\ FileOf[n] \in Dylib
      <3>1. /\ ~a.ok /\ a.refs = refs /\ a.error = ErrorNumber(dyld_cannot_close)
            /\ a.buffer = buffer
        BY <1>4, <2>2 DEF vm_close, dyld_close, Answer
      <3> QED
        BY <3>1, NumberExplains DEF Failed
    <2>3. CASE n # Program /\ FileOf[n] \notin Dylib
      BY <1>1, <1>4, <2>3, SaysFailed DEF vm_close, dyld_close, dylderror, Stays
    <2> QED
      BY <2>1, <2>2, <2>3
  <1>5. CASE loader \notin {"dlopen", "loadlibrary", "dyld"}
    BY <1>1, <1>5, SaysFailed DEF vm_close, Stays
  <1> QED
    BY <1>2, <1>3, <1>4, <1>5

\* The failures of vm_sym that explain nothing.
Unexplained(a, n, s) ==
    \/ loader = "shl_load"
    \/ loader = "load_add_on" /\ s \in Defines[LibOf(n)]
    \/ loader = "dyld" /\ n = Program
    \/ loader = "dyld" /\ a.error = ErrorAt("frame", "symbol not found")

\* What vm_sym sets when it fails.
LEMMA SymAnswer ==
    ASSUME TypeOK, NEW n \in Subject, NEW s, NEW b, NEW a \in vm_sym(n, s, b)
    PROVE  /\ ErrorOK(a.error)
           /\ a.ok \/ Explains(a.error, a.buffer) \/ Unexplained(a, n, s)
  <1>0. loader \in Loader /\ ErrorOK(last_error)
    BY DEF TypeOK, ErrorOK
  <1>1. a = Done(b) => a.ok /\ a.error = last_error
    BY DEF Done, Answer
  <1>2. a = Silent(b) => a.error = last_error
    BY DEF Silent, Answer
  <1>3. Failed(a) => Explains(a.error, a.buffer) /\ ErrorOK(a.error)
    BY ExplainedType DEF Failed
  <1>4. CASE loader = "dlopen"
    BY <1>0, <1>1, <1>3, <1>4, SaysFailed DEF vm_sym
  <1>5. CASE loader = "loadlibrary"
    BY <1>0, <1>1, <1>3, <1>5, SaysFailed DEF vm_sym, loadlibraryerror
  <1>6. CASE loader = "dyld"
    <2>1. \/ a = Done(b) \/ (n = Program /\ a = Silent(b))
          \/ \E t : a = Answer(FALSE, refs, t, ErrorAt("frame", "symbol not found"))
      BY <1>6 DEF vm_sym, dyld_sym
    <2>2. ASSUME NEW t, a = Answer(FALSE, refs, t, ErrorAt("frame", "symbol not found"))
          PROVE  ErrorOK(a.error) /\ a.error = ErrorAt("frame", "symbol not found")
      BY <2>2 DEF Answer, ErrorAt, ErrorOK
    <2> QED
      BY <1>0, <1>1, <1>2, <1>6, <2>1, <2>2 DEF Unexplained
  <1>7. CASE loader = "shl_load"
    BY <1>0, <1>1, <1>2, <1>7 DEF vm_sym, shl_load_sym, Unexplained
  <1>8. CASE loader = "load_add_on"
    BY <1>0, <1>2, <1>3, <1>8, SaysFailed DEF vm_sym, load_add_on_sym, Unexplained
  <1>9. CASE loader = "dld_link"
    BY <1>0, <1>1, <1>3, <1>9, SaysFailed DEF vm_sym, dld_link_sym
  <1> QED
    BY <1>0, <1>4, <1>5, <1>6, <1>7, <1>8, <1>9 DEF Loader

(***************************************************************************)
(* References.                                                             *)
(***************************************************************************)
LEMMA UsersFinite ==
    ASSUME IsFiniteSet(opened), NEW f
    PROVE  /\ IsFiniteSet(Users(f)) /\ Cardinality(Users(f)) \in Nat
           /\ Users(f) # {} => Cardinality(Users(f)) >= 1
           /\ Users(f) = {} => Cardinality(Users(f)) = 0
  <1>1. IsFiniteSet(Users(f))
    BY FS_Subset DEF Users
  <1>2. Cardinality(Users(f)) \in Nat
    BY <1>1, FS_CardinalityType
  <1>3. Cardinality(Users(f)) = 0 <=> Users(f) = {}
    BY <1>1, FS_EmptySet
  <1> QED
    BY <1>1, <1>2, <1>3

\* A module is added to the users of its library, and of no other.
LEMMA UsersGrow ==
    ASSUME IsFiniteSet(opened), NEW n \in Subject \ opened, opened' = opened \cup {n}
    PROVE  /\ IsFiniteSet(opened)'
           /\ \A f \in Lib : n = Program \/ FileOf[n] # f => Users(f)' = Users(f)
           /\ n # Program =>
                  Cardinality(Users(FileOf[n]))' = Cardinality(Users(FileOf[n])) + 1
  <1>1. IsFiniteSet(opened)'
    BY FS_AddElement
  <1>2. ASSUME NEW f \in Lib, n = Program \/ FileOf[n] # f
        PROVE  Users(f)' = Users(f)
    BY <1>2 DEF Users
  <1>3. ASSUME n # Program
        PROVE  Cardinality(Users(FileOf[n]))' = Cardinality(Users(FileOf[n])) + 1
    <2>1. Users(FileOf[n])' = Users(FileOf[n]) \cup {n} /\ n \notin Users(FileOf[n])
      BY <1>3 DEF Users
    <2> QED
      BY <2>1, UsersFinite, FS_AddElement
  <1> QED
    BY <1>1, <1>2, <1>3

LEMMA UsersShrink ==
    ASSUME IsFiniteSet(opened), NEW n \in opened, opened' = opened \ {n}
    PROVE  /\ IsFiniteSet(opened)'
           /\ \A f \in Lib : n = Program \/ FileOf[n] # f => Users(f)' = Users(f)
           /\ n # Program =>
                  /\ Cardinality(Users(FileOf[n]))' = Cardinality(Users(FileOf[n])) - 1
                  /\ Cardinality(Users(FileOf[n])) >= 1
                  /\ Users(FileOf[n]) # {}
  <1>1. IsFiniteSet(opened)'
    BY FS_RemoveElement
  <1>2. ASSUME NEW f \in Lib, n = Program \/ FileOf[n] # f
        PROVE  Users(f)' = Users(f)
    BY <1>2 DEF Users
  <1>3. ASSUME n # Program
        PROVE  /\ Cardinality(Users(FileOf[n]))' = Cardinality(Users(FileOf[n])) - 1
               /\ Cardinality(Users(FileOf[n])) >= 1
               /\ Users(FileOf[n]) # {}
    <2>1. Users(FileOf[n])' = Users(FileOf[n]) \ {n} /\ n \in Users(FileOf[n])
      BY <1>3 DEF Users
    <2>2. Users(FileOf[n]) # {}
      BY <2>1
    <2> QED
      BY <2>1, <2>2, UsersFinite, FS_RemoveElement
  <1> QED
    BY <1>1, <1>2, <1>3

\* The numbers.
LEMMA RefTypes ==
    ASSUME RefInv, NEW f \in Lib
    PROVE  /\ refs[f] \in Nat /\ refs[f] <= MaxRefs
           /\ stuck[f] \in Nat /\ stuck[f] <= MaxStuck
           /\ Cardinality(Users(f)) \in Nat
           /\ refs \in [Lib -> 0..MaxRefs] /\ stuck \in [Lib -> 0..MaxStuck]
           /\ MaxRefs \in Nat /\ MaxStuck \in Nat
  BY UsersFinite, LoadersAssumption DEF RefInv, TypeOK

\* What the users of a library and its references are after a step.
RefsKept ==
    /\ IsFiniteSet(opened)' /\ (opened \subseteq Subject)'
    /\ (refs \in [Lib -> 0..MaxRefs])' /\ (stuck \in [Lib -> 0..MaxStuck])'
    /\ \A f \in Lib : Counted(f)'
    /\ NeverTheSame'

LEMMA SameRefs ==
    ASSUME RefInv, UNCHANGED <<loader, opened, refs, stuck>>
    PROVE  RefsKept
  <1>1. \A f : Users(f)' = Users(f)
    BY DEF Users
  <1> QED
    BY <1>1 DEF RefsKept, RefInv, TypeOK, Counted, NeverTheSame, Stays

\* One library gets k references more.
LEMMA OpenedRefs ==
    ASSUME RefInv, NEW n \in Subject \ opened, opened' = opened \cup {n},
           UNCHANGED <<loader, stuck>>, NEW k \in 0..2,
           n = Program => refs' = refs,
           n # Program =>
               /\ refs' = [refs EXCEPT ![FileOf[n]] = @ + k]
               /\ refs[FileOf[n]] + 2 <= MaxRefs
               /\ \/ k = 1
                  \/ k = 2 /\ loader = "shl_load"
                  \/ Stays(FileOf[n]) /\ refs[FileOf[n]] > 0
               /\ loader = "loadlibrary" => \A m \in opened : LibOf(m) # FileOf[n]
    PROVE  RefsKept
  <1>1. /\ IsFiniteSet(opened)'
        /\ \A f \in Lib : n = Program \/ FileOf[n] # f => Users(f)' = Users(f)
        /\ n # Program =>
               Cardinality(Users(FileOf[n]))' = Cardinality(Users(FileOf[n])) + 1
    BY UsersGrow DEF RefInv
  <1>2. opened' \subseteq Subject
    BY DEF RefInv, TypeOK
  <1>3. CASE n = Program
    <2>1. /\ \A f \in Lib : Counted(f)'
          /\ NeverTheSame'
      BY <1>1, <1>3 DEF RefInv, Counted, NeverTheSame, Stays
    <2> QED
      BY <1>1, <1>2, <1>3, <2>1 DEF RefsKept, RefInv, TypeOK
  <1>4. CASE n # Program
    <2> DEFINE e == FileOf[n]
    <2>1. e \in Lib
      BY <1>4, LibraryOf
    <2>2. /\ refs[e] \in Nat /\ refs[e] + 2 <= MaxRefs /\ MaxRefs \in Nat
          /\ refs \in [Lib -> 0..MaxRefs]
          /\ refs' = [refs EXCEPT ![e] = @ + k]
          /\ stuck[e] \in Nat /\ Cardinality(Users(e)) \in Nat
      BY <1>4, <2>1, RefTypes
    <2> HIDE DEF e
    <2>3. /\ refs' \in [Lib -> 0..MaxRefs] /\ refs'[e] = refs[e] + k
          /\ \A f \in Lib : f # e => refs'[f] = refs[f]
      BY <2>1, <2>2
    <2>4. Cardinality(Users(e))' = Cardinality(Users(e)) + 1
      BY <1>1, <1>4 DEF e
    <2>5. Counted(e) /\ (Stays(e)' <=> Stays(e))
      BY <2>1 DEF RefInv, Stays
    <2>6. Counted(e)'
      <3>1. CASE Stays(e)
        <4>1. refs'[e] > 0
          BY <1>4, <2>2, <2>3, <3>1 DEF Stays, e
        <4> QED
          BY <2>5, <3>1, <4>1 DEF Counted
      <3>2. CASE ~Stays(e)
        <4>1. k = 1 \/ (k = 2 /\ loader = "shl_load")
          BY <1>4, <3>2 DEF e
        <4> QED
          BY <2>2, <2>3, <2>4, <2>5, <3>2, <4>1 DEF Counted
      <3> QED
        BY <3>1, <3>2
    <2>7. ASSUME NEW f \in Lib, f # e PROVE Counted(f)'
      <3>1. Users(f)' = Users(f) /\ refs'[f] = refs[f] /\ Counted(f)
        BY <1>1, <2>3, <2>7 DEF RefInv, e
      <3> QED
        BY <3>1 DEF Counted, Stays
    <2>8. NeverTheSame'
      <3> SUFFICES ASSUME loader = "loadlibrary", NEW f \in Lib
                   PROVE  Cardinality(Users(f))' <= 1
        BY DEF NeverTheSame
      <3>1. CASE f = e
        <4>1. Users(e) = {}
          BY <1>4, LibraryOf DEF Users, e, RefInv, TypeOK
        <4> QED
          BY <2>4, <3>1, <4>1, FS_EmptySet
      <3>2. CASE f # e
        BY <1>1, <3>2 DEF RefInv, NeverTheSame, e
      <3> QED
        BY <3>1, <3>2
    <2>9. stuck' \in [Lib -> 0..MaxStuck]
      BY DEF RefInv, TypeOK
    <2> QED
      BY <1>1, <1>2, <2>3, <2>6, <2>7, <2>8, <2>9 DEF RefsKept
  <1> QED
    BY <1>3, <1>4

\* A library is loaded and not opened: the reference is lost.
LEMMA LostRefs ==
    ASSUME RefInv, NEW n \in Subject, n # Program,
           UNCHANGED <<loader, opened, stuck>>, loader \in {"loadlibrary", "shl_load"},
           refs' = [refs EXCEPT ![FileOf[n]] = @ + 1],
           refs[FileOf[n]] + 2 <= MaxRefs
    PROVE  RefsKept
  <1> DEFINE e == FileOf[n]
  <1>1. e \in Lib
    BY LibraryOf
  <1>2. /\ refs[e] \in Nat /\ refs[e] + 2 <= MaxRefs /\ MaxRefs \in Nat
        /\ refs \in [Lib -> 0..MaxRefs] /\ refs' = [refs EXCEPT ![e] = @ + 1]
    BY <1>1, RefTypes
  <1> HIDE DEF e
  <1>3. /\ refs' \in [Lib -> 0..MaxRefs] /\ refs'[e] = refs[e] + 1
        /\ \A f \in Lib : f # e => refs'[f] = refs[f]
    BY <1>1, <1>2
  <1>4. \A f : Users(f)' = Users(f)
    BY DEF Users
  <1>5. ASSUME NEW f \in Lib PROVE Counted(f)'
    <2>1. Counted(f) /\ ~Stays(f) /\ ~Stays(f)' /\ refs[f] \in Nat
          /\ refs'[f] >= refs[f] /\ stuck[f] \in Nat /\ Cardinality(Users(f)) \in Nat
      BY <1>2, <1>3, RefTypes DEF RefInv, Stays
    <2> QED
      BY <1>3, <1>4, <2>1 DEF Counted
  <1> QED
    BY <1>3, <1>4, <1>5 DEF RefsKept, RefInv, TypeOK, NeverTheSame

\* The module is closed, and the reference given back unless that failed.
LEMMA ClosedRefs ==
    ASSUME RefInv, NEW n \in opened, opened' = opened \ {n}, UNCHANGED loader,
           n = Program => UNCHANGED <<refs, stuck>>,
           n # Program =>
               \/ /\ refs' = refs /\ stuck' = [stuck EXCEPT ![FileOf[n]] = @ + 1]
                  /\ stuck[FileOf[n]] < MaxStuck
               \/ /\ refs' = [refs EXCEPT ![FileOf[n]] = @ - 1] /\ stuck' = stuck
                  /\ ~Stays(FileOf[n])
    PROVE  RefsKept
  <1>0. n \in Subject
    BY DEF RefInv, TypeOK
  <1>1. /\ IsFiniteSet(opened)'
        /\ \A f \in Lib : n = Program \/ FileOf[n] # f => Users(f)' = Users(f)
        /\ n # Program =>
               /\ Cardinality(Users(FileOf[n]))' = Cardinality(Users(FileOf[n])) - 1
               /\ Cardinality(Users(FileOf[n])) >= 1
               /\ Users(FileOf[n]) # {}
    BY UsersShrink DEF RefInv
  <1>2. opened' \subseteq Subject
    BY DEF RefInv, TypeOK
  <1>3. CASE n = Program
    <2>1. /\ \A f \in Lib : Counted(f)'
          /\ NeverTheSame'
      BY <1>1, <1>3 DEF RefInv, Counted, NeverTheSame, Stays
    <2> QED
      BY <1>1, <1>2, <1>3, <2>1 DEF RefsKept, RefInv, TypeOK
  <1>4. CASE n # Program
    <2> DEFINE e == FileOf[n]
    <2>1. e \in Lib
      BY <1>0, <1>4, LibraryOf
    <2>2. /\ refs[e] \in Nat /\ refs[e] <= MaxRefs /\ MaxRefs \in Nat /\ MaxStuck \in Nat
          /\ refs \in [Lib -> 0..MaxRefs] /\ stuck \in [Lib -> 0..MaxStuck]
          /\ stuck[e] \in Nat /\ Cardinality(Users(e)) \in Nat
          /\ Counted(e) /\ (Stays(e)' <=> Stays(e))
      BY <2>1, RefTypes DEF RefInv, Stays
    <2>3. /\ Cardinality(Users(e))' = Cardinality(Users(e)) - 1
          /\ Cardinality(Users(e)) >= 1 /\ Users(e) # {}
      BY <1>1, <1>4
    <2>4. \/ /\ refs' = refs /\ stuck' = [stuck EXCEPT ![e] = @ + 1]
             /\ stuck[e] < MaxStuck
          \/ /\ refs' = [refs EXCEPT ![e] = @ - 1] /\ stuck' = stuck
             /\ ~Stays(e)
      BY <1>4
    <2> HIDE DEF e
    <2>5. /\ refs' \in [Lib -> 0..MaxRefs] /\ stuck' \in [Lib -> 0..MaxStuck]
          /\ \A f \in Lib : f # e => refs'[f] = refs[f] /\ stuck'[f] = stuck[f]
          /\ \/ refs'[e] = refs[e] /\ stuck'[e] = stuck[e] + 1
             \/ refs'[e] = refs[e] - 1 /\ stuck'[e] = stuck[e] /\ ~Stays(e)
      <3>1. CASE refs' = refs
        BY <2>1, <2>2, <2>4, <3>1
      <3>2. CASE refs' # refs
        <4>1. /\ refs' = [refs EXCEPT ![e] = @ - 1] /\ stuck' = stuck /\ ~Stays(e)
              /\ refs[e] >= 1
          BY <2>2, <2>3, <2>4, <3>2 DEF Counted
        <4> QED
          BY <2>1, <2>2, <4>1
      <3> QED
        BY <3>1, <3>2
    <2>6. Counted(e)'
      BY <2>2, <2>3, <2>5 DEF Counted
    <2>7. ASSUME NEW f \in Lib, f # e PROVE Counted(f)'
      <3>1. Users(f)' = Users(f) /\ refs'[f] = refs[f] /\ stuck'[f] = stuck[f] /\ Counted(f)
        BY <1>1, <2>5, <2>7 DEF RefInv, e
      <3> QED
        BY <3>1 DEF Counted, Stays
    <2>8. NeverTheSame'
      <3> SUFFICES ASSUME loader = "loadlibrary", NEW f \in Lib
                   PROVE  Cardinality(Users(f))' <= 1
        BY DEF NeverTheSame
      <3>1. Cardinality(Users(f)) <= 1
        BY DEF RefInv, NeverTheSame
      <3>2. CASE f = e
        BY <2>2, <2>3, <3>1, <3>2
      <3>3. CASE f # e
        BY <1>1, <3>1, <3>3 DEF e
      <3> QED
        BY <3>2, <3>3
    <2> QED
      BY <1>1, <1>2, <2>5, <2>6, <2>7, <2>8 DEF RefsKept
  <1> QED
    BY <1>3, <1>4

(***************************************************************************)
(* What the other parts of the invariant need of a step.                   *)
(***************************************************************************)
ModeTypes ==
    /\ modes \in [process : Mode, thread : Mode]
    /\ getthreaderrormode \in {"wrap", "GetThreadErrorMode", "GetErrorMode", "fallback"}
    /\ setthreaderrormode \in {"wrap", "SetThreadErrorMode", "fallback"}

LEMMA TypeParts ==
    ASSUME RefInv, RefsKept, UNCHANGED <<loader, windows>>, ErrorOK(last_error'),
           Len(user_error_strings') <= MaxTexts + 1,
           vtable' \in UserData \cup {NULL},
           opened' # {} => listed', listed' => vtable' # NULL,
           dyld_cannot_close' \in -1..errorcount', ModeTypes'
    PROVE  RefInv'
  <1>1. loader' \in Loader /\ windows' \in Windows
    BY DEF RefInv, TypeOK
  <1>2. last_error' = NULL \/ last_error'.at \in {"table", "user", "buffer", "frame"}
    BY DEF ErrorOK
  <1>3. TypeOK'
    BY <1>1, <1>2 DEF TypeOK, RefsKept, ModeTypes
  <1> QED
    BY <1>3 DEF RefInv, RefsKept

LEMMA SameModes ==
    ASSUME TypeOK, ModeInv, UNCHANGED <<modeVars, windows>>
    PROVE  ModeTypes' /\ ModeInv'
  BY DEF TypeOK, ModeTypes, ModeInv, modeVars

LEMMA TextCount ==
    ASSUME TextInv
    PROVE  /\ LT_ERROR_MAX \in Nat /\ LT_ERROR_MAX >= 1
           /\ Len(user_error_strings) \in Nat
           /\ errorcount = LT_ERROR_MAX + Len(user_error_strings) /\ errorcount \in Nat
  <1>1. LT_ERROR_MAX \in Nat /\ LT_ERROR_MAX >= 1
    BY DEF LT_ERROR_MAX, lt_dlerror_table
  <1>2. Len(user_error_strings) \in Nat
    BY LenProperties DEF TextInv
  <1>3. errorcount = LT_ERROR_MAX + Len(user_error_strings)
    BY DEF errorcount
  <1> QED
    BY <1>1, <1>2, <1>3

LEMMA SameTexts ==
    ASSUME TypeOK, TextInv, UNCHANGED <<loader, user_error_strings, dyld_cannot_close>>,
           loader = "dyld" /\ dyld_cannot_close = 0 => opened' \subseteq opened \cup {Program}
    PROVE  /\ TextInv'
           /\ Len(user_error_strings') <= MaxTexts + 1
           /\ dyld_cannot_close' \in -1..errorcount'
  BY DEF TypeOK, TextInv, DyldThere, errorcount

\* A call that failed set an error that explains it; only lt_dlclose is a close.
LEMMA SaidStep ==
    ASSUME NoErrorApart, NEW name, NEW n, NEW failed, Call(name, n, failed),
           \/ ~failed
           \/ /\ name = "sym"
              /\ \/ loader' = "shl_load"
                 \/ loader' = "load_add_on" /\ Symbol \cap Defines[LibOf(n)] # {}
                 \/ loader' = "dyld" /\ n = Program
                 \/ loader' = "dyld" /\ last_error' = ErrorAt("frame", "symbol not found")
           \/ Explains(last_error', buffer'),
           name = "close" /\ loader' = "dyld" /\ LibOf(n) \in Dylib =>
               /\ failed
               /\ last_error'.says = IF dyld_cannot_close' = -1 THEN "INVALID_ERRORCODE"
                                     ELSE "can't close a dylib"
    PROVE  SaidInv'
  <1>1. /\ outcome'.call = name /\ outcome'.on = n
        /\ outcome'.failed = failed
    BY DEF Call
  <1>2. CannotCloseSaid'
    BY <1>1 DEF CannotCloseSaid, LibOf
  <1>3. ASSUME Explains(last_error', buffer')
        PROVE  last_error' # NULL /\ Reads(last_error)' = last_error'.says
    <2>1. PICK at, says : /\ last_error' = ErrorAt(at, says)
                          /\ at \in {"table", "user"} \/ (at = "buffer" /\ says = buffer')
      BY <1>3 DEF Explains
    <2>2. last_error'.at = at /\ last_error'.says = says /\ last_error' # NULL
      BY <2>1 DEF ErrorAt, NoErrorApart
    <2> QED
      BY <2>1, <2>2 DEF Reads
  <1>4. FailureExplained'
    BY <1>1, <1>3 DEF FailureExplained, UnexplainedSymbol, LibOf
  <1> QED
    BY <1>2, <1>4 DEF SaidInv

\* The error mode is the program's again after LoadLibrary.
LEMMA QuietModes ==
    ASSUME TypeOK, ModeInv, NEW n, LoadQuietly(n), UNCHANGED windows
    PROVE  ModeTypes' /\ ModeInv'
  <1> DEFINE get == CASE windows = "seven" -> "GetThreadErrorMode"
                      [] windows = "vista" -> "GetErrorMode"
                      [] windows = "xp" -> "fallback"
             set == IF windows = "seven" THEN "SetThreadErrorMode" ELSE "fallback"
  <1>1. CASE loader = "loadlibrary" /\ n \notin Long
    <2>1. /\ modes' = ModesAfter /\ getthreaderrormode' = Getter
          /\ setthreaderrormode' = Setter /\ wanted' = wanted
      BY <1>1 DEF LoadQuietly
    <2>2. Getter = get /\ Setter = set
      BY DEF Getter, Setter, ModeInv
    <2>3. windows \in Windows /\ modes \in [process : Mode, thread : Mode]
      BY DEF TypeOK
    <2>4. ModesAfter = modes
      <3>1. CASE windows = "seven"
        <4>1. Getter = "GetThreadErrorMode" /\ Setter = "SetThreadErrorMode"
          BY <2>2, <3>1
        <4> QED
          BY <2>3, <4>1 DEF ModesAfter, ModesDuring, GetMode, SetMode
      <3>2. CASE windows = "vista"
        <4>1. Getter = "GetErrorMode" /\ Setter = "fallback"
          BY <2>2, <3>2
        <4> QED
          BY <2>3, <4>1 DEF ModesAfter, ModesDuring, GetMode, SetMode
      <3>3. CASE windows = "xp"
        <4>1. Getter = "fallback" /\ Setter = "fallback"
          BY <2>2, <3>3
        <4> QED
          BY <2>3, <4>1 DEF ModesAfter, ModesDuring, GetMode, SetMode
      <3> QED
        BY <2>3, <3>1, <3>2, <3>3 DEF Windows
    <2>5. /\ get \in {"GetThreadErrorMode", "GetErrorMode", "fallback"}
          /\ set \in {"SetThreadErrorMode", "fallback"}
      BY <2>3 DEF Windows
    <2> QED
      BY <2>1, <2>2, <2>3, <2>4, <2>5 DEF ModeTypes, ModeInv
  <1>2. CASE ~(loader = "loadlibrary" /\ n \notin Long)
    BY <1>2, SameModes DEF LoadQuietly
  <1> QED
    BY <1>1, <1>2

(***************************************************************************)
(* One lemma for each action.                                              *)
(***************************************************************************)
LEMMA OpenStep ==
    ASSUME NoErrorApart, LoadersInv, NEW n \in Subject, Open(n)
    PROVE  LoadersInv'
  <1>0. RefInv /\ TypeOK /\ TextInv /\ ModeInv /\ loader \in Loader /\ ErrorOK(last_error)
    BY DEF LoadersInv, RefInv, TypeOK, ErrorOK
  <1>1. PICK a \in vm_open(n) :
            /\ opened' = IF a.ok THEN opened \cup {n} ELSE opened
            /\ refs' = a.refs /\ buffer' = a.buffer
            /\ last_error' = IF a.ok THEN last_error ELSE LastError(a.error)
            /\ Call("open", n, ~a.ok)
    BY DEF Open
  <1>2. /\ listed /\ n \in Subject \ opened
        /\ loader = "dld_link" => n # Program
        /\ \A f \in {LibOf(n)} \ {Program} : refs[f] + 2 <= MaxRefs
        /\ LoadQuietly(n)
        /\ UNCHANGED <<user_error_strings, loader, windows, vtable, listed,
                       dyld_cannot_close, stuck>>
    BY DEF Open, unchangedByCalls
  <1>3. n # Program => /\ FileOf[n] \in Lib /\ LibOf(n) = FileOf[n]
                       /\ refs[FileOf[n]] + 2 <= MaxRefs
    BY <1>2, LibraryOf
  <1>4. RefsKept
    <2>1. CASE Failed(a)
      <3>1. opened' = opened /\ refs' = refs
        BY <1>1, <2>1 DEF Failed
      <3> QED
        BY <1>0, <1>2, <3>1, SameRefs
    <2>2. ASSUME NEW k \in 0..2, Taken(a, LibOf(n), k),
                 n # Program =>
                     /\ \/ k = 1
                        \/ k = 2 /\ loader = "shl_load"
                        \/ Stays(FileOf[n]) /\ refs[FileOf[n]] > 0
                     /\ loader = "loadlibrary" => \A m \in opened : LibOf(m) # FileOf[n]
          PROVE  RefsKept
      <3>1. opened' = opened \cup {n} /\ a.refs = refs'
        BY <1>1, <2>2 DEF Taken
      <3>2. n = Program => refs' = refs
        BY <2>2, <3>1, LibraryOf DEF Taken
      <3>3. n # Program => refs' = [refs EXCEPT ![FileOf[n]] = @ + k]
        BY <2>2, <3>1, LibraryOf DEF Taken
      <3> QED
        BY <1>0, <1>2, <1>3, <2>2, <3>1, <3>2, <3>3, OpenedRefs
    <2>3. ASSUME loader \in {"loadlibrary", "shl_load"}, ~a.ok,
                 a.refs = IF n = Program THEN refs ELSE [refs EXCEPT ![FileOf[n]] = @ + 1]
          PROVE  RefsKept
      <3>1. opened' = opened
        BY <1>1, <2>3
      <3>2. CASE n = Program
        BY <1>0, <1>1, <1>2, <2>3, <3>1, <3>2, SameRefs
      <3>3. CASE n # Program
        BY <1>0, <1>1, <1>2, <1>3, <2>3, <3>1, <3>3, LostRefs
      <3> QED
        BY <3>2, <3>3
    <2>4. 0 \in 0..2 /\ 1 \in 0..2 /\ 2 \in 0..2
      OBVIOUS
    <2> QED
      BY <1>0, <1>2, <1>3, <2>1, <2>2, <2>3, <2>4, OpenAnswer
  <1>5. a.ok \/ Explains(last_error', buffer')
    <2>1. a.ok \/ Explains(a.error, a.buffer)
      BY <1>0, <1>2, OpenAnswer DEF Failed, Taken
    <2>2. CASE ~a.ok
      <3>1. last_error' = Strerror("NO_SYMBOLS") \/ last_error' = a.error
        BY <1>1, <2>2 DEF LastError
      <3> QED
        BY <1>1, <2>1, <2>2, <3>1, TableExplains
    <2> QED
      BY <2>2
  <1>6. ErrorOK(last_error')
    BY <1>0, <1>1, <1>5, ExplainedType
  <1>7. ModeTypes' /\ ModeInv'
    BY <1>0, <1>2, QuietModes
  <1>8. TextInv' /\ Len(user_error_strings') <= MaxTexts + 1
        /\ dyld_cannot_close' \in -1..errorcount'
    <2>1. loader = "dyld" /\ dyld_cannot_close = 0 => ~a.ok \/ n = Program
      BY <1>0, <1>2, OpenAnswer DEF Failed
    <2> QED
      BY <1>0, <1>1, <1>2, <2>1, SameTexts
  <1>9. SaidInv'
    <2>1. Call("open", n, ~a.ok) /\ (~(~a.ok) \/ Explains(last_error', buffer'))
      BY <1>1, <1>5
    <2> QED
      BY <2>1, SaidStep
  <1>10. /\ vtable' \in UserData \cup {NULL}
         /\ opened' # {} => listed'
         /\ listed' => vtable' # NULL
    BY <1>0, <1>2 DEF TypeOK
  <1>11. RefInv'
    BY <1>0, <1>2, <1>4, <1>6, <1>7, <1>8, <1>10, TypeParts
  <1> QED
    BY <1>7, <1>8, <1>9, <1>11 DEF LoadersInv

LEMMA CloseStep ==
    ASSUME NoErrorApart, LoadersInv, NEW n \in Subject, Close(n)
    PROVE  LoadersInv'
  <1>0. RefInv /\ TypeOK /\ TextInv /\ ModeInv /\ loader \in Loader /\ ErrorOK(last_error)
    BY DEF LoadersInv, RefInv, TypeOK, ErrorOK
  <1>1. PICK a \in vm_close(n) :
            /\ n # Program /\ ~a.ok => stuck[FileOf[n]] < MaxStuck
            /\ stuck' = IF n = Program \/ a.ok THEN stuck
                        ELSE [stuck EXCEPT ![FileOf[n]] = @ + 1]
            /\ refs' = a.refs /\ buffer' = a.buffer /\ last_error' = a.error
            /\ Call("close", n, ~a.ok)
    BY DEF Close
  <1>2. /\ n \in opened /\ opened' = opened \ {n}
        /\ UNCHANGED <<user_error_strings, loader, windows, vtable, listed,
                       dyld_cannot_close, modeVars>>
    BY DEF Close, unchangedByCalls
  <1>3. \/ /\ Failed(a)
           /\ n # Program /\ Stays(FileOf[n]) => a.error = ErrorNumber(dyld_cannot_close)
        \/ /\ n # Program => ~Stays(FileOf[n])
           /\ a.ok /\ a.error = last_error /\ a.buffer = buffer
           /\ a.refs = IF n = Program THEN refs ELSE [refs EXCEPT ![FileOf[n]] = @ - 1]
    BY <1>0, CloseAnswer
  <1>4. RefsKept
    <2>1. n = Program => UNCHANGED <<refs, stuck>>
      BY <1>1, <1>3 DEF Failed
    <2>2. n # Program =>
               \/ /\ refs' = refs /\ stuck' = [stuck EXCEPT ![FileOf[n]] = @ + 1]
                  /\ stuck[FileOf[n]] < MaxStuck
               \/ /\ refs' = [refs EXCEPT ![FileOf[n]] = @ - 1] /\ stuck' = stuck
                  /\ ~Stays(FileOf[n])
      BY <1>1, <1>3 DEF Failed
    <2> QED
      BY <1>0, <1>2, <2>1, <2>2, ClosedRefs
  <1>5. a.ok \/ Explains(last_error', buffer')
    BY <1>1, <1>3 DEF Failed
  <1>6. ErrorOK(last_error')
    <2>1. CASE Explains(last_error', buffer')
      BY <2>1, ExplainedType
    <2>2. CASE a.ok
      <3>1. last_error' = last_error
        BY <1>1, <1>3, <2>2 DEF Failed
      <3> QED
        BY <1>0, <3>1
    <2> QED
      BY <1>5, <2>1, <2>2
  <1>7. ModeTypes' /\ ModeInv'
    BY <1>0, <1>2, SameModes
  <1>8. TextInv' /\ Len(user_error_strings') <= MaxTexts + 1
        /\ dyld_cannot_close' \in -1..errorcount'
    BY <1>0, <1>2, SameTexts
  <1>9. ASSUME loader = "dyld", LibOf(n) \in Dylib
        PROVE  /\ ~a.ok
               /\ last_error'.says = IF dyld_cannot_close = -1 THEN "INVALID_ERRORCODE"
                                     ELSE "can't close a dylib"
    <2>1. n # Program /\ Stays(FileOf[n])
      BY <1>9, LibraryOf, LoadersAssumption DEF Stays
    <2>2. ~a.ok /\ last_error' = ErrorNumber(dyld_cannot_close)
      BY <1>1, <1>3, <2>1 DEF Failed
    <2>3. dyld_cannot_close # 0
      BY <1>0, <1>2, <1>9, <2>1 DEF TextInv, DyldThere
    <2>4. CASE dyld_cannot_close = -1
      BY <2>2, <2>4 DEF ErrorNumber, Strerror
    <2>5. CASE dyld_cannot_close # -1
      <3> DEFINE i == dyld_cannot_close
      <3>0. i \in LT_ERROR_MAX..(errorcount - 1)
        BY <1>0, <2>3, <2>5 DEF TextInv
      <3>1. user_error_strings[i - LT_ERROR_MAX + 1] = CloseText
        BY <1>0, <2>3, <2>5 DEF TextInv
      <3>2. LT_ERROR_MAX \in Nat /\ errorcount \in Nat
        BY <1>0, TextCount
      <3> HIDE DEF i
      <3>3. ~(i < 0) /\ ~(i >= errorcount) /\ ~(i < LT_ERROR_MAX)
        BY <3>0, <3>2
      <3>4. last_error' = ErrorAt("user", user_error_strings[i - LT_ERROR_MAX + 1])
        BY <2>2, <3>3 DEF ErrorNumber, i
      <3>5. last_error'.says = "can't close a dylib"
        BY <3>1, <3>4 DEF ErrorAt, CloseText
      <3> QED
        BY <2>2, <2>5, <3>5
    <2> QED
      BY <2>2, <2>4, <2>5
  <1>10. SaidInv'
    <2>1. Call("close", n, ~a.ok) /\ (~(~a.ok) \/ Explains(last_error', buffer'))
      BY <1>1, <1>5
    <2>2. loader' = loader /\ dyld_cannot_close' = dyld_cannot_close
      BY <1>2
    <2> QED
      BY <1>9, <2>1, <2>2, SaidStep
  <1>11. /\ vtable' \in UserData \cup {NULL}
         /\ opened' # {} => listed'
         /\ listed' => vtable' # NULL
    BY <1>0, <1>2 DEF TypeOK
  <1>12. RefInv'
    BY <1>0, <1>2, <1>4, <1>6, <1>7, <1>8, <1>11, TypeParts
  <1> QED
    BY <1>7, <1>8, <1>10, <1>12 DEF LoadersInv

LEMMA SymStep ==
    ASSUME NoErrorApart, LoadersInv, NEW n \in Subject, NEW s \in Symbol, NEW own \in BOOLEAN,
           Sym(n, s, own)
    PROVE  LoadersInv'
  <1>0. RefInv /\ TypeOK /\ TextInv /\ ModeInv /\ ErrorOK(last_error)
    BY DEF LoadersInv, RefInv, TypeOK, ErrorOK
  <1>1. UNCHANGED <<user_error_strings, loader, windows, vtable, listed,
                    dyld_cannot_close, opened, refs, modeVars, stuck>>
    BY DEF Sym, unchangedByCalls
  <1>2. \/ Call("sym", n, FALSE) /\ last_error' = last_error
        \/ \E b : \E a \in vm_sym(n, s, b) :
              buffer' = a.buffer /\ last_error' = a.error /\ Call("sym", n, ~a.ok)
    BY DEF Sym
  <1>3. ErrorOK(last_error') /\ SaidInv'
    <2>1. CASE Call("sym", n, FALSE) /\ last_error' = last_error
      BY <1>0, <2>1, SaidStep
    <2>2. CASE \E b : \E a \in vm_sym(n, s, b) :
              buffer' = a.buffer /\ last_error' = a.error /\ Call("sym", n, ~a.ok)
      <3>1. PICK b : \E a \in vm_sym(n, s, b) :
              buffer' = a.buffer /\ last_error' = a.error /\ Call("sym", n, ~a.ok)
        BY <2>2
      <3>2. PICK a \in vm_sym(n, s, b) :
              buffer' = a.buffer /\ last_error' = a.error /\ Call("sym", n, ~a.ok)
        BY <3>1
      <3>3. /\ ErrorOK(a.error)
            /\ a.ok \/ Explains(a.error, a.buffer) \/ Unexplained(a, n, s)
        BY <1>0, SymAnswer
      <3>4. \/ ~(~a.ok)
            \/ loader' = "shl_load"
            \/ loader' = "load_add_on" /\ Symbol \cap Defines[LibOf(n)] # {}
            \/ loader' = "dyld" /\ n = Program
            \/ loader' = "dyld" /\ last_error' = ErrorAt("frame", "symbol not found")
            \/ Explains(last_error', buffer')
        BY <1>1, <3>2, <3>3 DEF Unexplained
      <3> QED
        BY <3>2, <3>3, <3>4, SaidStep
    <2> QED
      BY <1>2, <2>1, <2>2
  <1>4. RefsKept
    BY <1>0, <1>1, SameRefs
  <1>5. ModeTypes' /\ ModeInv'
    BY <1>0, <1>1, SameModes
  <1>6. TextInv' /\ Len(user_error_strings') <= MaxTexts + 1
        /\ dyld_cannot_close' \in -1..errorcount'
    BY <1>0, <1>1, SameTexts
  <1>7. /\ vtable' \in UserData \cup {NULL}
        /\ opened' # {} => listed'
        /\ listed' => vtable' # NULL
    BY <1>0, <1>1 DEF TypeOK
  <1>8. RefInv'
    BY <1>0, <1>1, <1>3, <1>4, <1>5, <1>6, <1>7, TypeParts
  <1> QED
    BY <1>3, <1>5, <1>6, <1>8 DEF LoadersInv

\* A text is added at the end, and the numbers of the others stay.
LEMMA AddText ==
    ASSUME TextInv, NEW text \in Text,
           user_error_strings' = Append(user_error_strings, text)
    PROVE  /\ user_error_strings' \in Seq(Text)
           /\ Len(user_error_strings') = Len(user_error_strings) + 1
           /\ errorcount' = errorcount + 1
           /\ user_error_strings'[errorcount - LT_ERROR_MAX + 1] = text
           /\ dyld_cannot_close \notin {-1, 0} =>
                  /\ dyld_cannot_close \in LT_ERROR_MAX..(errorcount' - 1)
                  /\ user_error_strings'[dyld_cannot_close - LT_ERROR_MAX + 1]
                         = CloseText
  <1>0. /\ LT_ERROR_MAX \in Nat /\ Len(user_error_strings) \in Nat
        /\ errorcount = LT_ERROR_MAX + Len(user_error_strings) /\ errorcount \in Nat
        /\ user_error_strings \in Seq(Text)
    BY TextCount DEF TextInv
  <1>1. /\ user_error_strings' \in Seq(Text)
        /\ Len(user_error_strings') = Len(user_error_strings) + 1
        /\ user_error_strings'[Len(user_error_strings) + 1] = text
        /\ \A i \in 1..Len(user_error_strings) :
               user_error_strings'[i] = user_error_strings[i]
    BY <1>0, AppendProperties
  <1>2. errorcount' = LT_ERROR_MAX + Len(user_error_strings')
    BY DEF errorcount, LT_ERROR_MAX, lt_dlerror_table
  <1>3. errorcount' = errorcount + 1
    BY <1>0, <1>1, <1>2
  <1>4. errorcount - LT_ERROR_MAX + 1 = Len(user_error_strings) + 1
    BY <1>0
  <1>5. ASSUME dyld_cannot_close \notin {-1, 0}
        PROVE  /\ dyld_cannot_close \in LT_ERROR_MAX..(errorcount' - 1)
               /\ user_error_strings'[dyld_cannot_close - LT_ERROR_MAX + 1]
                      = CloseText
    <2> DEFINE i == dyld_cannot_close - LT_ERROR_MAX + 1
    <2>1. dyld_cannot_close \in LT_ERROR_MAX..(errorcount - 1)
      BY <1>5 DEF TextInv
    <2>2. user_error_strings[i] = CloseText
      BY <1>5 DEF TextInv
    <2>3. i \in 1..Len(user_error_strings)
      BY <1>0, <2>1
    <2>4. user_error_strings'[i] = user_error_strings[i]
      BY <1>1, <2>3
    <2>5. dyld_cannot_close \in LT_ERROR_MAX..(errorcount' - 1)
      BY <1>0, <1>3, <2>1
    <2> QED
      BY <2>2, <2>4, <2>5
  <1> QED
    BY <1>1, <1>3, <1>4, <1>5

\* The steps outside lt_dlopen, lt_dlclose and lt_dlsym leave the modules, the
\* references and the modes alone.
LEMMA QuietStep ==
    ASSUME LoadersInv, UNCHANGED lt_system, ErrorOK(last_error'),
           Len(user_error_strings') <= MaxTexts + 1,
           vtable' \in UserData \cup {NULL},
           opened # {} => listed', listed' => vtable' # NULL,
           dyld_cannot_close' \in -1..errorcount',
           TextInv', SaidInv'
    PROVE  LoadersInv'
  <1>0. /\ RefInv /\ TypeOK /\ ModeInv
        /\ UNCHANGED <<loader, windows, opened, refs, modeVars, stuck>>
    BY DEF LoadersInv, RefInv, lt_system
  <1>1. RefsKept
    BY <1>0, SameRefs
  <1>2. ModeTypes' /\ ModeInv'
    BY <1>0, SameModes
  <1>3. RefInv'
    BY <1>0, <1>1, <1>2, TypeParts
  <1> QED
    BY <1>2, <1>3 DEF LoadersInv

\* And most of them leave the texts alone too.
LEMMA QuietSame ==
    ASSUME LoadersInv, UNCHANGED lt_system,
           UNCHANGED <<user_error_strings, dyld_cannot_close, vtable, listed>>,
           ErrorOK(last_error'), SaidInv'
    PROVE  LoadersInv'
  <1>0. /\ RefInv /\ TypeOK /\ ModeInv /\ TextInv
        /\ UNCHANGED <<loader, windows, opened, refs, modeVars, stuck>>
    BY DEF LoadersInv, RefInv, lt_system
  <1>1. TextInv' /\ Len(user_error_strings') <= MaxTexts + 1
        /\ dyld_cannot_close' \in -1..errorcount'
    BY <1>0, SameTexts
  <1>2. opened' # {} => listed'
    BY <1>0 DEF TypeOK
  <1>3. listed' => vtable' # NULL
    BY <1>0 DEF TypeOK
  <1>4. vtable' \in UserData \cup {NULL}
    BY <1>0 DEF TypeOK
  <1>5. RefsKept
    BY <1>0, SameRefs
  <1>6. ModeTypes' /\ ModeInv'
    BY <1>0, SameModes
  <1>7. RefInv'
    BY <1>0, <1>1, <1>2, <1>3, <1>4, <1>5, <1>6, TypeParts
  <1> QED
    BY <1>1, <1>6, <1>7 DEF LoadersInv

LEMMA InitFailsStep ==
    ASSUME NoErrorApart, LoadersInv, NEW data \in UserData, InitFails(data)
    PROVE  LoadersInv'
  <1>0. /\ TypeOK /\ TextInv /\ ~listed /\ UNCHANGED lt_system
        /\ UNCHANGED <<user_error_strings, listed, buffer, dyld_cannot_close, loader, opened>>
    BY DEF LoadersInv, RefInv, InitFails, lt_system
  <1>1. /\ \E t : last_error' = Strerror(t)
        /\ vtable' \in UserData \cup {NULL}
    BY <1>0 DEF InitFails, TypeOK
  <1>2. Explains(last_error', buffer') /\ ErrorOK(last_error')
    BY <1>1, TableExplains, ExplainedType
  <1>3. SaidInv'
    BY <1>2, SaidStep DEF InitFails
  <1>4. opened # {} => listed'
    BY <1>0 DEF TypeOK
  <1> QED
    BY <1>0, <1>1, <1>2, <1>3, <1>4, SameTexts, QuietStep

LEMMA InitWithoutDyldStep ==
    ASSUME NoErrorApart, LoadersInv, NEW data \in UserData, InitWithoutDyld(data)
    PROVE  LoadersInv'
  <1>0. /\ TypeOK /\ TextInv /\ listed' /\ vtable' = data /\ UNCHANGED lt_system
        /\ UNCHANGED <<user_error_strings, buffer, dyld_cannot_close, loader, opened>>
        /\ last_error' = Strerror("INIT_LOADER") /\ Call("init", NULL, TRUE)
    BY DEF LoadersInv, RefInv, InitWithoutDyld, lt_system
  <1>1. data \in UserData \cup {NULL} /\ data # NULL
    BY LoadersAssumption
  <1>2. Explains(last_error', buffer') /\ ErrorOK(last_error')
    BY <1>0, TableExplains, ExplainedType
  <1>3. SaidInv'
    BY <1>0, <1>2, SaidStep
  <1>4. TextInv' /\ Len(user_error_strings') <= MaxTexts + 1
        /\ dyld_cannot_close' \in -1..errorcount'
    BY <1>0, SameTexts
  <1> QED
    BY <1>0, <1>1, <1>2, <1>3, <1>4, QuietStep

LEMMA InitLoaderStep ==
    ASSUME NoErrorApart, LoadersInv, NEW data \in UserData, NEW memory \in BOOLEAN,
           InitLoader(data, memory)
    PROVE  LoadersInv'
  <1>0. /\ TypeOK /\ TextInv /\ listed' /\ vtable' = data
        /\ UNCHANGED lt_system /\ UNCHANGED <<loader, opened>> /\ Call("init", NULL, FALSE)
    BY DEF LoadersInv, RefInv, InitLoader, lt_system
  <1>1. SaidInv'
    BY <1>0, SaidStep
  <1>2. data \in UserData \cup {NULL} /\ data # NULL /\ ErrorOK(last_error)
        /\ Len(user_error_strings) <= MaxTexts + 1 /\ dyld_cannot_close \in -1..errorcount
    BY <1>0, LoadersAssumption DEF TypeOK, ErrorOK
  <1>3. /\ LT_ERROR_MAX \in Nat /\ LT_ERROR_MAX >= 1
        /\ Len(user_error_strings) \in Nat
        /\ errorcount = LT_ERROR_MAX + Len(user_error_strings) /\ errorcount \in Nat
        /\ MaxTexts \in Nat
    BY <1>0, TextCount, LoadersAssumption
  <1>4. CASE UNCHANGED <<errorVars, dyld_cannot_close>>
             /\ (loader = "dyld" => dyld_cannot_close # 0)
    <2>1. UNCHANGED <<last_error, user_error_strings, dyld_cannot_close>>
      BY <1>4 DEF errorVars
    <2>2. errorcount' = errorcount
      BY <2>1 DEF errorcount
    <2>3. TextInv'
      BY <1>0, <1>4, <2>1, <2>2 DEF TextInv, DyldThere
    <2> QED
      BY <1>0, <1>1, <1>2, <2>1, <2>2, <2>3, QuietStep
  <1>5. CASE loader = "dyld" /\ dyld_cannot_close = 0
    <2>1. /\ lt_dladderror("can't close a dylib", memory)
          /\ dyld_cannot_close' = NumberAdded(memory)
      BY <1>5 DEF InitLoader, dyld_vl_init
    <2>2. Len(user_error_strings) <= MaxTexts
      BY <1>0, <1>5 DEF TextInv
    <2>3. CASE memory
      <3>1. /\ user_error_strings' = Append(user_error_strings, CloseText)
            /\ last_error' = last_error /\ dyld_cannot_close' = errorcount
        BY <2>1, <2>3, Zenon DEF lt_dladderror, NumberAdded, CloseText
      <3>2. /\ user_error_strings' \in Seq(Text)
            /\ Len(user_error_strings') = Len(user_error_strings) + 1
            /\ errorcount' = errorcount + 1
            /\ user_error_strings'[errorcount - LT_ERROR_MAX + 1] = CloseText
        <4>1. TextInv /\ CloseText \in Text
          BY <1>0, Zenon DEF Text
        <4> QED
          BY <3>1, <4>1, AddText, Zenon
      <3>3. /\ errorcount \in -1..(errorcount + 1) /\ errorcount # 0 /\ errorcount # -1
            /\ errorcount \in LT_ERROR_MAX..((errorcount + 1) - 1)
        <4> HIDE DEF errorcount, LT_ERROR_MAX
        <4> QED
          BY <1>3
      <3>5. Len(user_error_strings') <= MaxTexts + 1
        BY <1>3, <2>2, <3>2
      <3>4. TextInv'
        <4>1. DyldThere'
          BY <3>1, <3>3 DEF DyldThere
        <4> QED
          BY <3>1, <3>2, <3>3, <4>1 DEF TextInv, LT_ERROR_MAX, lt_dlerror_table
      <3> QED
        BY <1>0, <1>1, <1>2, <3>1, <3>2, <3>3, <3>4, <3>5, QuietStep
    <2>4. CASE ~memory
      <3>1. /\ user_error_strings' = user_error_strings
            /\ last_error' = Strerror("NO_MEMORY") /\ dyld_cannot_close' = -1
        BY <2>1, <2>4 DEF lt_dladderror, NumberAdded
      <3>2. TextInv'
        <4>1. -1 # 0 /\ user_error_strings \in Seq(Text)
          BY <1>0 DEF TextInv
        <4> QED
          BY <3>1, <4>1 DEF TextInv, DyldThere
      <3>3. errorcount' = errorcount /\ -1 \in -1..errorcount
        BY <1>3, <3>1 DEF errorcount
      <3>4. ErrorOK(last_error')
        BY <3>1, TableExplains, ExplainedType
      <3> QED
        BY <1>0, <1>1, <1>2, <3>1, <3>2, <3>3, <3>4, QuietStep
    <2> QED
      BY <2>3, <2>4
  <1> QED
    BY <1>4, <1>5 DEF InitLoader, dyld_vl_init

LEMMA RemoveStep ==
    ASSUME NoErrorApart, LoadersInv, RemoveLoader
    PROVE  LoadersInv'
  <1>0. /\ TypeOK /\ TextInv /\ opened = {} /\ vtable' = NULL /\ ~listed'
        /\ UNCHANGED lt_system /\ Call("remove", NULL, FALSE)
        /\ UNCHANGED <<last_error, user_error_strings, dyld_cannot_close, loader, opened>>
    BY DEF LoadersInv, RefInv, RemoveLoader, lt_system, errorVars
  <1>1. SaidInv'
    BY <1>0, SaidStep
  <1>2. ErrorOK(last_error')
    BY <1>0 DEF TypeOK, ErrorOK
  <1> QED
    BY <1>0, <1>1, <1>2, SameTexts, QuietStep

LEMMA AddsTextStep ==
    ASSUME NoErrorApart, LoadersInv, NEW text \in Text, NEW memory \in BOOLEAN,
           ClientAddsText(text, memory)
    PROVE  LoadersInv'
  <1>0. /\ TypeOK /\ TextInv /\ Len(user_error_strings) < MaxTexts
        /\ lt_dladderror(text, memory) /\ Call("adderror", NULL, ~memory)
        /\ UNCHANGED lt_system
        /\ UNCHANGED <<vtable, listed, buffer, dyld_cannot_close, loader, opened>>
    BY DEF LoadersInv, RefInv, ClientAddsText, lt_system
  <1>1. /\ opened # {} => listed'
        /\ listed' => vtable' # NULL
        /\ vtable' \in UserData \cup {NULL} /\ ErrorOK(last_error)
        /\ dyld_cannot_close \in -1..errorcount
    BY <1>0 DEF TypeOK, ErrorOK
  <1>2. CASE memory
    <2>1. user_error_strings' = Append(user_error_strings, text) /\ last_error' = last_error
      BY <1>0, <1>2 DEF lt_dladderror
    <2>2. /\ user_error_strings' \in Seq(Text)
          /\ Len(user_error_strings') = Len(user_error_strings) + 1
          /\ errorcount' = errorcount + 1
          /\ dyld_cannot_close \notin {-1, 0} =>
                 /\ dyld_cannot_close \in LT_ERROR_MAX..(errorcount' - 1)
                 /\ user_error_strings'[dyld_cannot_close - LT_ERROR_MAX + 1]
                        = CloseText
      BY <1>0, <2>1, AddText
    <2>3. Len(user_error_strings) \in Nat /\ errorcount \in Nat /\ MaxTexts \in Nat
      BY <1>0, TextCount, LoadersAssumption
    <2>7. /\ dyld_cannot_close' = dyld_cannot_close /\ Len(user_error_strings) < MaxTexts
          /\ dyld_cannot_close \in -1..errorcount /\ errorcount' = errorcount + 1
          /\ Len(user_error_strings') = Len(user_error_strings) + 1
      BY <1>0, <1>1, <2>2
    <2>4. /\ Len(user_error_strings') <= MaxTexts /\ Len(user_error_strings') <= MaxTexts + 1
          /\ dyld_cannot_close' \in -1..errorcount'
      BY <2>3, <2>7
    <2>8. DyldThere'
      BY <1>0 DEF TextInv, DyldThere
    <2>5. TextInv'
      BY <1>0, <2>2, <2>4, <2>8 DEF TextInv, LT_ERROR_MAX, lt_dlerror_table
    <2>6. SaidInv'
      BY <1>0, <1>2, SaidStep
    <2> QED
      <3>1. /\ UNCHANGED lt_system /\ ErrorOK(last_error')
            /\ Len(user_error_strings') <= MaxTexts + 1
            /\ vtable' \in UserData \cup {NULL}
            /\ dyld_cannot_close' \in -1..errorcount'
        BY <1>0, <1>1, <2>1, <2>4
      <3>2. opened # {} => listed'
        BY <1>1
      <3>3. listed' => vtable' # NULL
        BY <1>1
      <3> QED
        BY <2>5, <2>6, <3>1, <3>2, <3>3, QuietStep
  <1>3. CASE ~memory
    <2>1. user_error_strings' = user_error_strings /\ last_error' = Strerror("NO_MEMORY")
      BY <1>0, <1>3 DEF lt_dladderror
    <2>2. Explains(last_error', buffer') /\ ErrorOK(last_error')
      BY <2>1, TableExplains, ExplainedType
    <2>3. SaidInv'
      BY <1>0, <2>2, SaidStep
    <2> QED
      BY <1>0, <2>1, <2>2, <2>3, QuietSame
  <1> QED
    BY <1>2, <1>3

LEMMA SetsErrorStep ==
    ASSUME NoErrorApart, LoadersInv, NEW i, ClientSetsError(i)
    PROVE  LoadersInv'
  <1>0. /\ TypeOK /\ TextInv /\ last_error' = ErrorNumber(i)
        /\ UNCHANGED lt_system
        /\ UNCHANGED <<user_error_strings, vtable, listed, buffer, dyld_cannot_close, loader>>
    BY DEF LoadersInv, RefInv, ClientSetsError, lt_dlseterror, lt_system
  <1>1. Explains(last_error', buffer') /\ ErrorOK(last_error')
    BY <1>0, NumberExplains, ExplainedType
  <1>2. SaidInv'
    BY <1>1, SaidStep DEF ClientSetsError
  <1> QED
    BY <1>0, <1>1, <1>2, QuietSame

LEMMA ReadsErrorStep ==
    ASSUME NoErrorApart, LoadersInv, ClientReadsError
    PROVE  LoadersInv'
  <1>0. /\ TypeOK /\ TextInv /\ last_error' = NULL
        /\ UNCHANGED lt_system /\ Call("error", NULL, FALSE)
        /\ UNCHANGED <<user_error_strings, vtable, listed, buffer, dyld_cannot_close, loader>>
    BY DEF LoadersInv, RefInv, ClientReadsError, lt_dlerror, lt_system
  <1>1. SaidInv'
    BY <1>0, SaidStep
  <1>2. ErrorOK(last_error')
    BY <1>0 DEF ErrorOK
  <1> QED
    BY <1>0, <1>1, <1>2, QuietSame

\* Neither the last error nor the last call is touched by what the program does
\* to its modes, nor by a step that changes nothing.
LEMMA SameSaid ==
    ASSUME SaidInv, UNCHANGED <<outcome, last_error, buffer, loader, dyld_cannot_close>>
    PROVE  SaidInv'
  BY DEF SaidInv, FailureExplained, UnexplainedSymbol, CannotCloseSaid, Reads, LibOf

LEMMA SetsModeStep ==
    ASSUME LoadersInv, NEW kind \in {"process", "thread"}, NEW mode \in Mode,
           ClientSetsMode(kind, mode)
    PROVE  LoadersInv'
  <1>0. /\ RefInv /\ TypeOK /\ TextInv /\ ModeInv /\ SaidInv
        /\ UNCHANGED <<last_error, user_error_strings, loader, windows, vtable, listed,
                       opened, refs, buffer, dyld_cannot_close, getthreaderrormode,
                       setthreaderrormode, stuck, outcome>>
    BY DEF LoadersInv, RefInv, ClientSetsMode, errorVars
  <1>1. SaidInv'
    BY <1>0, SameSaid
  <1>2. ModeTypes' /\ ModeInv'
    <2>1. /\ modes' = [modes EXCEPT ![kind] = mode] /\ wanted' = [wanted EXCEPT ![kind] = mode]
          /\ modes = wanted /\ modes \in [process : Mode, thread : Mode]
      BY <1>0 DEF ClientSetsMode, ModeInv, TypeOK
    <2>2. modes' \in [process : Mode, thread : Mode] /\ modes' = wanted'
      BY <2>1
    <2> QED
      BY <1>0, <2>2 DEF ModeTypes, ModeInv, TypeOK
  <1>3. RefsKept
    BY <1>0, SameRefs
  <1>4. vtable' \in UserData \cup {NULL} /\ ErrorOK(last_error')
    BY <1>0 DEF TypeOK, ErrorOK
  <1>7. opened' # {} => listed'
    BY <1>0 DEF TypeOK
  <1>8. listed' => vtable' # NULL
    BY <1>0 DEF TypeOK
  <1>5. TextInv' /\ Len(user_error_strings') <= MaxTexts + 1
        /\ dyld_cannot_close' \in -1..errorcount'
    BY <1>0, SameTexts
  <1>6. RefInv'
    BY <1>0, <1>2, <1>3, <1>4, <1>5, <1>7, <1>8, TypeParts
  <1> QED
    BY <1>1, <1>2, <1>5, <1>6 DEF LoadersInv

LEMMA StutterStep ==
    ASSUME LoadersInv, UNCHANGED vars
    PROVE  LoadersInv'
  <1>0. /\ TypeOK /\ TextInv /\ SaidInv
        /\ UNCHANGED <<last_error, user_error_strings, loader, vtable, listed, opened,
                       buffer, dyld_cannot_close, outcome>>
        /\ UNCHANGED lt_system
    BY DEF LoadersInv, RefInv, vars, lt_system, modeVars
  <1>1. SaidInv'
    BY <1>0, SameSaid
  <1>2. ErrorOK(last_error')
    BY <1>0 DEF TypeOK, ErrorOK
  <1> QED
    BY <1>0, <1>1, <1>2, QuietSame

LEMMA LoadersStep ==
    ASSUME NoErrorApart, LoadersInv, [Next]_vars
    PROVE  LoadersInv'
  <1>1. ASSUME NEW d \in UserData,
               \/ InitFails(d) \/ InitWithoutDyld(d)
               \/ \E m \in BOOLEAN : InitLoader(d, m)
        PROVE  LoadersInv'
    BY <1>1, InitFailsStep, InitWithoutDyldStep, InitLoaderStep
  <1>2. CASE RemoveLoader
    BY <1>2, RemoveStep
  <1>3. ASSUME NEW n \in Subject,
               \/ Open(n) \/ Close(n)
               \/ \E s \in Symbol, own \in BOOLEAN : Sym(n, s, own)
        PROVE  LoadersInv'
    BY <1>3, OpenStep, CloseStep, SymStep
  <1>4. ASSUME NEW m \in BOOLEAN, ClientAddsText("client's", m)
        PROVE  LoadersInv'
    <2>1. "client's" \in Text
      BY Zenon DEF Text
    <2> QED
      BY <1>4, <2>1, AddsTextStep, Zenon
  <1>5. ASSUME NEW i, ClientSetsError(i)
        PROVE  LoadersInv'
    BY <1>5, SetsErrorStep
  <1>6. CASE ClientReadsError
    BY <1>6, ReadsErrorStep
  <1>7. ASSUME NEW kind \in {"process", "thread"}, NEW mode \in Mode,
               ClientSetsMode(kind, mode)
        PROVE  LoadersInv'
    BY <1>7, SetsModeStep
  <1>8. CASE UNCHANGED vars
    BY <1>8, StutterStep
  <1> QED
    BY <1>1, <1>2, <1>3, <1>4, <1>5, <1>6, <1>7, <1>8, Zenon DEF Next

LEMMA LoadersInit == Init => LoadersInv
  <1> SUFFICES ASSUME Init PROVE LoadersInv
    OBVIOUS
  <1>1. /\ \A f \in Lib : Users(f) = {} /\ refs[f] = 0 /\ stuck[f] = 0
        /\ Cardinality({}) = 0 /\ IsFiniteSet(opened)
    BY FS_EmptySet DEF Init, Users
  <1>2. (\A f \in Lib : Counted(f)) /\ NeverTheSame
    <2>1. ASSUME NEW f \in Lib
          PROVE  Counted(f) /\ Cardinality(Users(f)) = 0
      <3>1. Users(f) = {} /\ refs[f] = 0 /\ stuck[f] = 0 /\ Cardinality({}) = 0
        BY <1>1
      <3> QED
        BY <3>1 DEF Counted
    <2> QED
      BY <2>1 DEF NeverTheSame
  <1>3. user_error_strings = <<>> /\ dyld_cannot_close = 0 /\ ~listed
    BY DEF Init
  <1>4. TextInv
    <2>1. DyldThere
      BY DEF Init, DyldThere
    <2> QED
      BY <1>3, <2>1, LoadersAssumption DEF TextInv
  <1>5. ModeInv
    BY DEF Init, ModeInv
  <1>6. SaidInv
    BY DEF Init, SaidInv, FailureExplained, CannotCloseSaid
  <1>7. TypeOK
    <2>1. loader \in Loader /\ windows \in Windows
      BY DEF Init, Windows
    <2>2. Len(user_error_strings) <= MaxTexts + 1 /\ dyld_cannot_close \in -1..errorcount
      BY <1>3, <1>4, TextCount, LoadersAssumption
    <2>3. refs \in [Lib -> 0..MaxRefs] /\ stuck \in [Lib -> 0..MaxStuck]
      BY LoadersAssumption DEF Init
    <2>4. modes \in [process : Mode, thread : Mode]
      BY DEF Init, Mode
    <2>5. /\ last_error = NULL /\ vtable = NULL /\ opened = {} /\ ~listed
          /\ getthreaderrormode = "wrap" /\ setthreaderrormode = "wrap"
      BY DEF Init
    <2> QED
      BY <2>1, <2>2, <2>3, <2>4, <2>5 DEF TypeOK
  <1> QED
    BY <1>1, <1>2, <1>4, <1>5, <1>6, <1>7 DEF LoadersInv, RefInv

(***************************************************************************)
(* The theorems.                                                           *)
(***************************************************************************)
\* The inductive invariant holds: counted references, registered texts, bound
\* functions, and a failure explained, whichever loader is built in.
THEOREM LoadersInvariance ==
    ASSUME NoErrorApart
    PROVE  Spec => []LoadersInv
  <1>1. Init => LoadersInv
    BY LoadersInit
  <1>2. LoadersInv /\ [Next]_vars => LoadersInv'
    BY LoadersStep
  <1> QED
    BY <1>1, <1>2, PTL DEF Spec

\* What the system has loaded is what the open modules need: the library of an
\* open module is never unloaded, no reference is lost but by the loaders that
\* take more, and LoadLibrary's modules are distinct (vm_open and vm_close of
\* the six loaders).
THEOREM ReferencesAreRight ==
    ASSUME NoErrorApart
    PROVE  Spec => []ReferencesRight
  <1>1. ASSUME LoadersInv
        PROVE  ReferencesRight
    <2>1. RefInv /\ TypeOK /\ NeverTheSame /\ IsFiniteSet(opened)
      BY <1>1 DEF LoadersInv, RefInv
    <2>2. ASSUME NEW f \in Lib, Users(f) # {}
          PROVE  refs[f] > 0
      <3>1. IsFiniteSet(Users(f)) /\ Counted(f)
        BY <2>1, UsersFinite DEF RefInv
      <3>2. Cardinality(Users(f)) \in Nat \ {0}
        BY <2>2, <3>1, FS_CardinalityType, FS_EmptySet
      <3>3. refs[f] \in Nat /\ stuck[f] \in Nat
        BY <2>1, LoadersAssumption DEF TypeOK
      <3>4. CASE Stays(f)
        BY <2>2, <3>1, <3>4 DEF Counted
      <3>5. CASE ~Stays(f)
        <4>1. refs[f] >= Cardinality(Users(f)) + stuck[f]
          BY <3>1, <3>5 DEF Counted
        <4> QED
          BY <3>2, <3>3, <4>1
      <3> QED
        BY <3>4, <3>5
    <2>3. ModuleMapped
      BY <2>2 DEF ModuleMapped
    <2>4. RefsExact
      BY <2>1 DEF RefsExact, RefInv, Counted, Stays
    <2> QED
      BY <2>1, <2>3, <2>4 DEF ReferencesRight
  <1> QED
    BY <1>1, LoadersInvariance, PTL

\* After a call that failed lt_dlerror has a text, and it is the text that was
\* set and not one that was freed or overwritten since (the six loaders,
\* lt_dlseterror), but for four failures of lt_dlsym: any through shl_load.c, a
\* symbol that load_add_on.c found, any in the program through dyld.c, and any
\* whose error is dyld.c's text in the frame of vm_sym.
THEOREM FailuresAreExplained ==
    ASSUME NoErrorApart
    PROVE  Spec => []FailureExplained
  <1>1. LoadersInv => FailureExplained
    BY DEF LoadersInv, SaidInv
  <1> QED
    BY <1>1, LoadersInvariance, PTL

\* Around LoadLibrary the dialogs are off, and afterwards both error modes are
\* as the program set them, on each Windows (loadlibrary.c:189-202).
THEOREM ErrorModesAreKept ==
    ASSUME NoErrorApart
    PROVE  Spec => []ErrorModeKept
  <1>1. ASSUME LoadersInv
        PROVE  ErrorModeKept
    <2>1. TypeOK /\ ModeInv /\ modes = wanted
      BY <1>1 DEF LoadersInv, RefInv, ModeInv
    <2>2. CASE windows = "seven"
      <3>1. Setter = "SetThreadErrorMode"
        BY <2>1, <2>2 DEF Setter, ModeInv
      <3>2. \A m, mode : SetMode(m, mode) = [m EXCEPT !.thread = mode]
        BY <3>1 DEF SetMode
      <3>3. Getter = "GetThreadErrorMode" /\ GetMode(modes) = [mode |-> modes.thread, after |-> modes]
        BY <2>1, <2>2 DEF Getter, GetMode, ModeInv
      <3>4. ModesDuring = [modes EXCEPT !.thread = modes.thread \cup {"FAILCRITICALERRORS"}]
        BY <3>2, <3>3 DEF ModesDuring
      <3> QED
        BY <2>1, <2>2, <3>4 DEF ErrorModeKept, Kind, TypeOK
    <2>3. CASE windows # "seven"
      <3>1. Setter = "fallback"
        BY <2>1, <2>3 DEF Setter, ModeInv
      <3>2. \A m, mode : SetMode(m, mode) = [m EXCEPT !.process = mode]
        BY <3>1 DEF SetMode
      <3>3. GetMode(modes).after \in
                {modes, [modes EXCEPT !.process = {"FAILCRITICALERRORS"}]}
        BY <2>1, <2>3 DEF Getter, GetMode, ModeInv, TypeOK, Windows
      <3>4. GetMode(modes).after \in [process : Mode \cup {{"FAILCRITICALERRORS"}},
                                           thread : Mode]
        BY <2>1, <3>3 DEF TypeOK
      <3>5. ModesDuring = [GetMode(modes).after EXCEPT
                              !.process = GetMode(modes).mode \cup {"FAILCRITICALERRORS"}]
        BY <3>2 DEF ModesDuring
      <3>6. "FAILCRITICALERRORS" \in ModesDuring["process"]
        BY <3>4, <3>5
      <3> QED
        BY <2>1, <2>3, <3>6 DEF ErrorModeKept, Kind
    <2> QED
      BY <2>2, <2>3
  <1> QED
    BY <1>1, LoadersInvariance, PTL

\* A close that dyld cannot do fails and says so, in every session, whatever
\* texts were registered before and after dyld's own (dyld.c:197-214, 285-289).
THEOREM DyldSaysSo ==
    ASSUME NoErrorApart
    PROVE  Spec => []CannotCloseSaid
  <1>1. LoadersInv => CannotCloseSaid
    BY DEF LoadersInv, SaidInv
  <1> QED
    BY <1>1, LoadersInvariance, PTL
=============================================================================
