--------------------------- MODULE OpenNameProofs ---------------------------
(***************************************************************************)
(* Theorems about OpenName, for any files, loaders, lists of symbols and   *)
(* search paths and any bounds: which file a name opens, how often it is   *)
(* counted, what becomes of the last error, and what preloading promises.  *)
(***************************************************************************)
EXTENDS OpenName, FiniteSetTheorems, SequenceTheorems, WellFoundedInduction, TLAPS

(***************************************************************************)
(* The inductive invariant.                                                *)
(***************************************************************************)
Counted ==
    /\ OneHandlePerFile /\ UsesCounted
    /\ \A f \in Module : UsesOf(f) > 0 => Open(f)
    /\ \A k \in 1..Len(handles) : handles[k].ref > 0 \/ handles[k].resident

\* What a loader made of a name: only the program is resident, archives are opened by
\* the preopen loader alone, and that loader opens nothing else.
HandleOK(h) ==
    /\ h.resident => h.file = Self
    /\ h.file \in File /\ h.file.ext = "a" => h.vtable = PreopenLoader
    /\ h.file \in File /\ h.vtable = PreopenLoader =>
           /\ h.module \in SymList /\ Offers(h.module, h.file)
           /\ h.file = ArchiveOf(h.file) /\ h.name = h.file.name
HandlesOK == \A k \in 1..Len(handles) : HandleOK(handles[k])

Searching == {"start", "search", "deplibs", "plan", "attempt"}
Ended == {"next", "returned"}

\* Where a call is and what it has.
CallShape ==
    /\ call.saved_error = call.entry_error
    /\ call.request = Self => /\ call.at \in {"start"} \cup Ended /\ call.exts = AsPassed
                              /\ call.handle \in {NULL, Self}
    /\ call.request \in File => call.handle # Self
    /\ call.at \in Searching => call.handle = NULL /\ ~call.errors /\ releasing = NULL
    /\ call.at \in {"start", "search"} => call.la = Unread /\ call.dir = NoDir
    /\ call.at \in {"deplibs", "plan"} => Attempted.ext = "la"
    /\ call.at \in {"deplibs", "plan", "attempt"} /\ Attempted.ext = "la" =>
           /\ call.dir \in Dir /\ call.la \in La
           /\ call.la.old_name # NULL => call.la.old_name = ArchiveOf(call.request)
    /\ call.at \notin {"plan", "attempt"} => call.dep = NULL
    /\ call.at \in {"search", "deplibs", "plan", "attempt"} => ~PreloadOnly
    /\ call.handle \in Module => last_error = call.entry_error /\ ~call.errors
    /\ call.handle = Unregistered => call.errors
    /\ call.at = "returned" /\ call.exts = AsPassed => call.handle # Unregistered
    /\ releasing # NULL => call.at = "next" /\ releasing \in DepLib

\* The attempts that are left; without directory or .la file, those that failed are at
\* the places before them in the search paths.
Tried == Len(SearchDirs) + 1 - Len(call.attempts)
AttemptsLeft ==
    /\ \A i \in 1..Len(call.attempts) :
           call.attempts[i].file.dir = NoDir => call.attempts[i].file.name = call.request.name
    /\ Attempted.ext # "la" =>
           \A i \in 1..Len(call.attempts) :
               /\ call.attempts[i].file.ext = Attempted.ext
               /\ call.attempts[i].by = NULL
    /\ Attempted.ext = "la" => \A i \in 1..Len(call.attempts) : ~call.attempts[i].look
    /\ Attempted.ext # "la" /\ Attempted.dir = NoDir =>
           /\ Tried \in Nat
           /\ \A i \in 1..Len(call.attempts) :
                  call.attempts[i].file = IF Tried + i <= Len(SearchDirs)
                                          THEN In(SearchDirs[Tried + i], Attempted)
                                          ELSE Attempted
           /\ ~call.starved => \A j \in 1..Tried :
                  j <= Len(SearchDirs) => ~Loads(In(SearchDirs[j], Attempted))
    /\ Attempted.ext = "la" /\ ~call.starved /\ Preopening
       /\ call.la.old_name # NULL /\ vm_open(call.la.old_name).module # NULL =>
           /\ call.attempts # <<>>
           /\ call.attempts[1].file = call.la.old_name
           /\ call.attempts[1].by = PreopenLoader

\* The .la file is that of the first directory that has one.
LaFromFirst ==
    Attempted.dir = NoDir /\ call.dir # NoDir =>
        \A j \in 1..Len(SearchDirs) :
            In(SearchDirs[j], Attempted) \in fs.readable =>
                \E i \in 1..j : call.dir = SearchDirs[i]

\* What a call that opens a file has opened.
OpenedRight ==
    /\ Attempted.dir = NoDir /\ Attempted.ext # "la" /\ ~call.starved
       /\ call.handle # ArchiveOf(Attempted) =>
           \A j \in 1..Len(SearchDirs) :
               Loads(In(SearchDirs[j], Attempted)) =>
                   \E i \in 1..j : call.handle = In(SearchDirs[i], Attempted)
    /\ Attempted.ext = "la" /\ ~call.starved /\ Preopening
       /\ call.la.old_name # NULL /\ vm_open(call.la.old_name).module # NULL =>
           call.handle = call.la.old_name
    /\ PreloadOnly => call.handle = ArchiveOf(Attempted)
    /\ Attempted = ArchiveOf(Attempted) => call.handle = Attempted

CallInv ==
    ~Idle =>
        /\ CallShape
        /\ call.at = "attempt" => AttemptsLeft
        /\ call.request # Self => LaFromFirst
        /\ call.handle \in File => OpenedRight

\* A walk: each module promised is open and held, or is the one being opened, or
\* is still to come.
ToCome(f) ==
    \E j \in 1..Len(walk.lists) :
        \E i \in ModulesPast(walk.lists[j], IF j = 1 THEN walk.idx ELSE 1, walk.from) :
            Entries[walk.lists[j]][i].name = f
WalkInv ==
    Walking =>
        /\ ~Idle => /\ call.advice = NULL /\ call.exts = AsPassed
                    /\ call.request \in File /\ call.request = ArchiveOf(call.request)
        /\ ~walk.errors => \A f \in walk.promised :
               HeldOf(f) > 0 \/ ToCome(f) \/ (~Idle /\ call.request = f)

IInv == TypeOK /\ Counted /\ HandlesOK /\ CallInv /\ WalkInv /\ ListsOnce

(***************************************************************************)
(* Places, names and what loaders say.                                     *)
(***************************************************************************)
LEMMA LeastIn ==
    ASSUME NEW T, T \subseteq Nat, T # {}
    PROVE  Least(T) \in T /\ \A n \in T : Least(T) <= n
  <1> DEFINE Less == OpToRel(<, Nat)
  <1>1. /\ IsWellFoundedOn(Less, Nat)
        /\ \A m, n \in Nat : n < m => <<n, m>> \in Less
    BY NatLessThanWellFounded DEF OpToRel
  <1> HIDE DEF Less
  <1>2. PICK m \in T : \A n \in T : <<n, m>> \notin Less
    BY <1>1, WFMin
  <1>3. \A n \in T : ~(n < m)
    BY <1>1, <1>2
  <1>4. \E k \in T : \A j \in T : k <= j
    BY <1>3
  <1> QED
    BY <1>4 DEF Least

LEMMA Files ==
    ASSUME NEW f \in File
    PROVE  /\ ArchiveOf(f) \in File
           /\ ArchiveOf(f).dir = NoDir /\ ArchiveOf(f).ext = "a" /\ ArchiveOf(f).name = f.name
           /\ \A d \in Dir \cup {NoDir} :
                  /\ In(d, f) \in File /\ In(d, f).dir = d
                  /\ In(d, f).name = f.name /\ In(d, f).ext = f.ext
           /\ f.dir \in Dir \cup {NoDir} /\ f.name \in Name
           /\ In(f.dir, f) = f
  <1> DEFINE Ext == {"none", "a"} \cup LibExt
  <1>1. f \in [dir : Dir \cup {NoDir}, name : Name, ext : Ext] /\ "a" \in Ext
    BY DEF File
  <1>2. ArchiveOf(f) \in [dir : Dir \cup {NoDir}, name : Name, ext : Ext]
    BY <1>1 DEF ArchiveOf
  <1>3. \A d \in Dir \cup {NoDir} : In(d, f) \in [dir : Dir \cup {NoDir}, name : Name, ext : Ext]
    BY <1>1 DEF In
  <1>4. In(f.dir, f) = f
    BY <1>1 DEF In
  <1>5. ArchiveOf(f).dir = NoDir /\ ArchiveOf(f).ext = "a" /\ ArchiveOf(f).name = f.name
    BY DEF ArchiveOf
  <1>6. \A d \in Dir \cup {NoDir} :
           In(d, f).dir = d /\ In(d, f).name = f.name /\ In(d, f).ext = f.ext
    BY <1>1 DEF In
  <1> QED
    BY <1>1, <1>2, <1>3, <1>4, <1>5, <1>6 DEF File

\* Two archives without directory are one if they have one name.
LEMMA SameArchive ==
    ASSUME NEW f \in File, NEW g \in File, f.name = g.name
    PROVE  ArchiveOf(f) = ArchiveOf(g)
  BY DEF ArchiveOf

LEMMA Distinct ==
    /\ NoDir \notin Dir /\ Self \notin File /\ NULL \notin Module
    /\ Unregistered \notin Module /\ Unregistered # NULL
    /\ DepLib \subseteq File /\ File \subseteq Module /\ Self \in Module
    /\ Len(SearchDirs) \in Nat /\ \A k \in 1..Len(SearchDirs) : SearchDirs[k] \in Dir
    /\ \A d \in Dir : objdir[d] \in Dir
    /\ PreopenLoader \in Loader /\ PreopenLoader # NULL
    /\ \A x \in LoaderLists : x \in Seq(Loader) /\ Len(x) \in Nat \ {0}
    /\ LibExts \in Seq(LibExt) /\ LibExts # <<>> /\ NULL \notin SymList
  <1>1. LibExts \in Seq(LibExt) /\ LibExts # <<>>
    BY NameAssumption DEF LibExt
  <1>2. \A x \in LoaderLists : x \in Seq(Loader) /\ Len(x) \in Nat \ {0}
    BY NameAssumption, EmptySeq, LenProperties
  <1> QED
    BY <1>1, <1>2, NameAssumption, EntriesAssumption DEF Module

\* The name in turn.
LEMMA AttemptedFile ==
    ASSUME call \in Call, call.request \in File
    PROVE  /\ Attempted \in File
           /\ Attempted.dir = call.request.dir /\ Attempted.name = call.request.name
  <1>1. call.exts # AsPassed => call.exts[1] \in LibExt
    BY DEF Call, AsPassed
  <1> QED
    BY <1>1 DEF Attempted, File

LEMMA ModuleEntry ==
    ASSUME NEW l \in SymList, NEW k \in 2..Len(Entries[l]), IsModule(Entries[l][k])
    PROVE  Entries[l][k].name \in File /\ Entries[l][k].name = ArchiveOf(Entries[l][k].name)
  BY ListAssumption

\* The preopen loader has archives only, and of these what a list of the chain offers.
LEMMA OffersArchive ==
    ASSUME NEW l \in SymList, NEW f \in File, Offers(l, f)
    PROVE  f = ArchiveOf(f)
  <1>1. PICK k \in 1..Len(Entries[l]) : HeaderOf(l, k, f)
    BY DEF Offers
  <1>2. Len(Entries[l]) \in Nat
    BY EntriesAssumption
  <1>3. k # 1
    BY <1>1, ListAssumption DEF HeaderOf, originator
  <1>4. k \in 2..Len(Entries[l]) /\ IsModule(Entries[l][k])
    BY <1>1, <1>2, <1>3, ListAssumption DEF HeaderOf, IsModule
  <1> QED
    BY <1>1, <1>4, ModuleEntry DEF HeaderOf

LEMMA VmOpen ==
    ASSUME preloaded_symlists \in Seq(SymList), NEW f \in Module
    PROVE  LET r == vm_open(IF f = Self THEN NULL ELSE f) IN
           /\ r.module = NULL => r.error \in Error
           /\ r.module # NULL => r.module \in SymList
           /\ r.module # NULL /\ f \in File => Offers(r.module, f)
  <1> DEFINE filename == IF f = Self THEN NULL ELSE f
             n == IF filename = NULL THEN Program ELSE filename
             hits == {k \in 1..Len(preloaded_symlists) : Offers(preloaded_symlists[k], n)}
  <1>1. hits # {} => Least(hits) \in hits
    <2>1. hits \subseteq Nat
      OBVIOUS
    <2> QED
      BY <2>1, LeastIn
  <1>2. f \in File => n = f
    BY Distinct
  <1>3. CASE preloaded_symlists = <<>>
    <2>1. vm_open(filename) = [module |-> NULL, error |-> "NO_SYMBOLS"]
      BY <1>3 DEF vm_open
    <2> QED
      BY <2>1 DEF Error
  <1>4. CASE preloaded_symlists # <<>> /\ hits = {}
    <2>1. vm_open(filename) = [module |-> NULL, error |-> "FILE_NOT_FOUND"]
      BY <1>4 DEF vm_open
    <2> QED
      BY <2>1 DEF Error
  <1>5. CASE preloaded_symlists # <<>> /\ hits # {}
    <2>1. vm_open(filename) = [error |-> NULL, module |-> preloaded_symlists[Least(hits)]]
      BY <1>5 DEF vm_open
    <2>2. preloaded_symlists[Least(hits)] \in SymList
      BY <1>1, <1>5
    <2>3. Offers(preloaded_symlists[Least(hits)], n)
      BY <1>1, <1>5
    <2> HIDE DEF hits, n
    <2> QED
      BY <2>1, <2>2, <2>3, <1>2, Distinct
  <1> QED
    BY <1>3, <1>4, <1>5

(***************************************************************************)
(* Counting.  What needs a module are the handles of the list and some     *)
(* extra uses, which the state keeps elsewhere.                            *)
(***************************************************************************)
Needing(hs, f) == {j \in 1..Len(hs) : hs[j].dep = f}
NeedOf(hs, f) == Cardinality(Needing(hs, f))

CountsIn(hs, E) ==
    /\ \A j, k \in 1..Len(hs) : hs[j].file = hs[k].file => j = k
    /\ \A k \in 1..Len(hs) : hs[k].ref = NeedOf(hs, hs[k].file) + E[hs[k].file]
    /\ \A f \in Module : NeedOf(hs, f) + E[f] > 0 => \E k \in 1..Len(hs) : hs[k].file = f
    /\ \A k \in 1..Len(hs) : hs[k].ref > 0 \/ hs[k].resident

LEMMA HandleFields ==
    ASSUME NEW h \in Handle
    PROVE  /\ h.file \in Module /\ h.vtable \in Loader /\ h.module \in SymList \cup Module
           /\ h.name \in Name \cup {NULL} /\ h.dep \in DepLib \cup {NULL}
           /\ h.resident \in BOOLEAN /\ h.ref \in Nat
           /\ \A n \in Nat : LET g == [h EXCEPT !.ref = n] IN
                  /\ g \in Handle /\ g.ref = n /\ g.file = h.file /\ g.dep = h.dep
                  /\ g.resident = h.resident /\ g.vtable = h.vtable
                  /\ g.module = h.module /\ g.name = h.name
  BY DEF Handle

\* The list with another count in one place.
LEMMA RefFacts ==
    ASSUME NEW hs \in Seq(Handle), NEW k \in 1..Len(hs), NEW n \in Nat
    PROVE  LET t == [hs EXCEPT ![k] = [hs[k] EXCEPT !.ref = n]] IN
           /\ t \in Seq(Handle) /\ Len(t) = Len(hs)
           /\ \A j \in 1..Len(hs) :
                  /\ hs[j] \in Handle
                  /\ t[j].dep = hs[j].dep /\ t[j].file = hs[j].file
                  /\ t[j].resident = hs[j].resident /\ t[j].vtable = hs[j].vtable
                  /\ t[j].module = hs[j].module /\ t[j].name = hs[j].name
                  /\ t[j].ref = IF j = k THEN n ELSE hs[j].ref
  <1> DEFINE g == [hs[k] EXCEPT !.ref = n]
             t == [hs EXCEPT ![k] = g]
  <1>1. hs[k] \in Handle
    OBVIOUS
  <1>2. /\ g \in Handle /\ g.ref = n /\ g.file = hs[k].file /\ g.dep = hs[k].dep
        /\ g.resident = hs[k].resident /\ g.vtable = hs[k].vtable
        /\ g.module = hs[k].module /\ g.name = hs[k].name
    BY <1>1, HandleFields
  <1> HIDE DEF g
  <1>3. t \in Seq(Handle) /\ Len(t) = Len(hs)
    BY <1>2
  <1>4. \A j \in 1..Len(hs) : t[j] = IF j = k THEN g ELSE hs[j]
    OBVIOUS
  <1>5. \A j \in 1..Len(hs) : hs[j] \in Handle
    OBVIOUS
  <1> HIDE DEF t
  <1>6. \A j \in 1..Len(hs) :
           /\ t[j].dep = hs[j].dep /\ t[j].file = hs[j].file
           /\ t[j].resident = hs[j].resident /\ t[j].vtable = hs[j].vtable
           /\ t[j].module = hs[j].module /\ t[j].name = hs[j].name
           /\ t[j].ref = IF j = k THEN n ELSE hs[j].ref
    BY <1>2, <1>4
  <1> QED
    BY <1>3, <1>5, <1>6 DEF g, t

LEMMA OneNat == ASSUME NEW b \in BOOLEAN PROVE One(b) \in Nat /\ One(b) <= 1
  BY DEF One

Same(x, y) == IF x = y THEN 1 ELSE 0

LEMMA SameNat == ASSUME NEW x, NEW y PROVE Same(x, y) \in Nat
  BY DEF Same

LEMMA NeedFinite ==
    ASSUME NEW hs \in Seq(Handle), NEW f
    PROVE  IsFiniteSet(Needing(hs, f)) /\ NeedOf(hs, f) \in Nat
  <1>1. Len(hs) \in Nat /\ Needing(hs, f) \in SUBSET (1..Len(hs))
    BY DEF Needing
  <1>2. IsFiniteSet(1..Len(hs))
    BY <1>1, FS_Interval
  <1> QED
    BY <1>1, <1>2, FS_Subset, FS_CardinalityType DEF NeedOf

UnlinkOf(hs, k) == [j \in 1..(Len(hs) - 1) |-> hs[IF j < k THEN j ELSE j + 1]]

LEMMA PushFacts ==
    ASSUME NEW hs \in Seq(Handle), NEW h \in Handle
    PROVE  LET t == <<h>> \o hs IN
           /\ t \in Seq(Handle) /\ Len(t) = Len(hs) + 1 /\ t[1] = h
           /\ \A k \in 2..(Len(hs) + 1) : t[k] = hs[k - 1]
  OBVIOUS

LEMMA UnlinkFacts ==
    ASSUME NEW hs \in Seq(Handle), NEW k \in 1..Len(hs)
    PROVE  LET t == UnlinkOf(hs, k) IN
           /\ t \in Seq(Handle) /\ Len(t) = Len(hs) - 1
           /\ \A j \in 1..Len(t) : t[j] = hs[IF j < k THEN j ELSE j + 1]
  <1>1. Len(hs) - 1 \in Nat
    OBVIOUS
  <1>2. \A j \in 1..(Len(hs) - 1) : hs[IF j < k THEN j ELSE j + 1] \in Handle
    OBVIOUS
  <1> QED
    BY <1>1, <1>2, IsASeq DEF UnlinkOf

\* A list with one more element in some place: the others keep their deplibs.
LEMMA NeedInsert ==
    ASSUME NEW hs \in Seq(Handle), NEW t \in Seq(Handle), NEW p \in 1..Len(t),
           Len(t) = Len(hs) + 1,
           \A j \in 1..Len(hs) : hs[j] = t[IF j < p THEN j ELSE j + 1],
           NEW f
    PROVE  NeedOf(t, f) = NeedOf(hs, f) + Same(t[p].dep, f)
  <1> DEFINE A == Needing(hs, f)
             B == Needing(t, f)
             T == B \ {p}
             F == [j \in A |-> IF j < p THEN j ELSE j + 1]
             G(j) == IF j < p THEN j ELSE j - 1
  <1>1. IsFiniteSet(A) /\ IsFiniteSet(B) /\ Cardinality(A) \in Nat /\ Cardinality(B) \in Nat
    BY NeedFinite DEF NeedOf
  <1>2. Cardinality(T) = IF p \in B THEN Cardinality(B) - 1 ELSE Cardinality(B)
    BY <1>1, FS_RemoveElement
  <1>3. p \in B <=> t[p].dep = f
    BY DEF Needing
  <1>4. Len(hs) \in Nat /\ p \in Nat
    OBVIOUS
  <1>5. ASSUME NEW j \in A
        PROVE  (IF j < p THEN j ELSE j + 1) \in T /\ j \in Nat
    BY <1>4 DEF Needing
  <1>6. ASSUME NEW j \in T
        PROVE  G(j) \in A /\ (IF G(j) < p THEN G(j) ELSE G(j) + 1) = j
    BY <1>4, SMTT(30) DEF Needing
  <1> HIDE DEF A, B, T, G
  <1>7. F \in Bijection(A, T)
    <2>1. F \in [A -> T]
      BY <1>5
    <2>2. \A i, j \in A : F[i] = F[j] => i = j
      BY <1>4, <1>5
    <2>3. \A j \in T : \E i \in A : F[i] = j
      BY <1>6
    <2> HIDE DEF F
    <2> QED
      BY <2>1, <2>2, <2>3 DEF Bijection, Injection, Surjection, IsInjective
  <1>8. Cardinality(T) = Cardinality(A)
    BY <1>1, <1>7, FS_Bijection DEF ExistsBijection
  <1>9. Cardinality(B) = Cardinality(A) + Same(t[p].dep, f)
    BY <1>1, <1>2, <1>3, <1>8 DEF Same
  <1> QED
    BY <1>9 DEF A, B, NeedOf

\* One more use of a module that is open.
LEMMA RetainCounts ==
    ASSUME NEW hs \in Seq(Handle), NEW E \in [Module -> Nat], NEW D \in [Module -> Nat],
           NEW k \in 1..Len(hs), CountsIn(hs, E),
           \A f \in Module : D[f] = E[f] + Same(f, hs[k].file)
    PROVE  CountsIn([hs EXCEPT ![k].ref = @ + 1], D) /\ [hs EXCEPT ![k].ref = @ + 1] \in Seq(Handle)
  <1> DEFINE n == hs[k].ref + 1
             t == [hs EXCEPT ![k] = [hs[k] EXCEPT !.ref = n]]
  <1>1. [hs EXCEPT ![k].ref = @ + 1] = t
    OBVIOUS
  <1>2. n \in Nat
    BY HandleFields
  <1> HIDE DEF n
  <1>3. /\ t \in Seq(Handle) /\ Len(t) = Len(hs)
        /\ \A j \in 1..Len(hs) : /\ t[j].dep = hs[j].dep /\ t[j].file = hs[j].file
                                  /\ t[j].resident = hs[j].resident
                                  /\ t[j].ref = IF j = k THEN n ELSE hs[j].ref
    BY <1>2, RefFacts
  <1>4. \A j \in 1..Len(hs) : hs[j].file \in Module /\ hs[j].ref \in Nat
    BY HandleFields
  <1> HIDE DEF t
  <1>5. \A f : NeedOf(t, f) = NeedOf(hs, f)
    <2>1. Len(t) = Len(hs) /\ \A j \in 1..Len(hs) : t[j].dep = hs[j].dep
      BY <1>3
    <2>2. \A f : Needing(t, f) = Needing(hs, f)
      BY <2>1 DEF Needing
    <2> QED
      BY <2>2 DEF NeedOf
  <1>6. ASSUME NEW j \in 1..Len(hs) PROVE t[j].ref = NeedOf(t, t[j].file) + D[t[j].file]
    <2>1. hs[j].ref = NeedOf(hs, hs[j].file) + E[hs[j].file]
      BY DEF CountsIn
    <2>2. hs[j].file = hs[k].file <=> j = k
      BY DEF CountsIn
    <2>3. D[hs[j].file] = E[hs[j].file] + (IF j = k THEN 1 ELSE 0)
      BY <1>4, <2>2 DEF Same
    <2>4. NeedOf(hs, hs[j].file) \in Nat /\ E[hs[j].file] \in Nat
      BY <1>4, NeedFinite
    <2>5. t[j].ref = hs[j].ref + (IF j = k THEN 1 ELSE 0)
      BY <1>3, <1>4 DEF n
    <2>6. t[j].file = hs[j].file /\ NeedOf(t, hs[j].file) = NeedOf(hs, hs[j].file)
      BY <1>3, <1>5
    <2> QED
      BY <2>1, <2>3, <2>4, <2>5, <2>6
  <1>7. ASSUME NEW f \in Module, NeedOf(t, f) + D[f] > 0
        PROVE  \E j \in 1..Len(t) : t[j].file = f
    <2>1. CASE f = hs[k].file
      BY <1>3, <2>1
    <2>2. CASE f # hs[k].file
      <3>1. D[f] = E[f] /\ E[f] \in Nat
        BY <2>2 DEF Same
      <3>2. \E j \in 1..Len(hs) : hs[j].file = f
        BY <1>5, <1>7, <3>1 DEF CountsIn
      <3> QED
        BY <1>3, <3>2
    <2> QED
      BY <2>1, <2>2
  <1>8. \A j \in 1..Len(t) : t[j].ref > 0 \/ t[j].resident
    BY <1>3, <1>4 DEF CountsIn, n
  <1>9. \A i, j \in 1..Len(t) : t[i].file = t[j].file => i = j
    BY <1>3 DEF CountsIn
  <1>10. \A j \in 1..Len(t) : t[j].ref = NeedOf(t, t[j].file) + D[t[j].file]
    BY <1>3, <1>6
  <1>11. CountsIn(t, D)
    BY <1>7, <1>8, <1>9, <1>10 DEF CountsIn
  <1> QED
    BY <1>1, <1>3, <1>11

\* One use less of a module that stays.
LEMMA SpendCounts ==
    ASSUME NEW hs \in Seq(Handle), NEW E \in [Module -> Nat], NEW D \in [Module -> Nat],
           NEW k \in 1..Len(hs), CountsIn(hs, E), E[hs[k].file] > 0,
           hs[k].ref # 1 \/ hs[k].resident,
           \A f \in Module : D[f] = E[f] - Same(f, hs[k].file)
    PROVE  CountsIn([hs EXCEPT ![k].ref = @ - 1], D) /\ [hs EXCEPT ![k].ref = @ - 1] \in Seq(Handle)
  <1> DEFINE n == hs[k].ref - 1
             t == [hs EXCEPT ![k] = [hs[k] EXCEPT !.ref = n]]
  <1>1. [hs EXCEPT ![k].ref = @ - 1] = t
    OBVIOUS
  <1>2. \A j \in 1..Len(hs) : hs[j].file \in Module /\ hs[j].ref \in Nat
    BY HandleFields
  <1>3. n \in Nat /\ (n > 0 \/ hs[k].resident)
    <2>1. hs[k].ref = NeedOf(hs, hs[k].file) + E[hs[k].file]
      BY DEF CountsIn
    <2>2. NeedOf(hs, hs[k].file) \in Nat /\ E[hs[k].file] \in Nat
      BY <1>2, NeedFinite
    <2>3. n \in Nat /\ (hs[k].ref # 1 => n > 0)
      BY <2>1, <2>2
    <2> QED
      BY <2>3
  <1> HIDE DEF n
  <1>4. /\ t \in Seq(Handle) /\ Len(t) = Len(hs)
        /\ \A j \in 1..Len(hs) : /\ t[j].dep = hs[j].dep /\ t[j].file = hs[j].file
                                  /\ t[j].resident = hs[j].resident
                                  /\ t[j].ref = IF j = k THEN n ELSE hs[j].ref
    BY <1>3, RefFacts
  <1> HIDE DEF t
  <1>5. \A f : NeedOf(t, f) = NeedOf(hs, f)
    <2>1. Len(t) = Len(hs) /\ \A j \in 1..Len(hs) : t[j].dep = hs[j].dep
      BY <1>4
    <2>2. \A f : Needing(t, f) = Needing(hs, f)
      BY <2>1 DEF Needing
    <2> QED
      BY <2>2 DEF NeedOf
  <1>6. ASSUME NEW j \in 1..Len(hs) PROVE t[j].ref = NeedOf(t, t[j].file) + D[t[j].file]
    <2>1. hs[j].ref = NeedOf(hs, hs[j].file) + E[hs[j].file]
      BY DEF CountsIn
    <2>2. hs[j].file = hs[k].file <=> j = k
      BY DEF CountsIn
    <2>3. D[hs[j].file] = E[hs[j].file] - (IF j = k THEN 1 ELSE 0)
      BY <1>2, <2>2 DEF Same
    <2>4. NeedOf(hs, hs[j].file) \in Nat /\ E[hs[j].file] \in Nat
      BY <1>2, NeedFinite
    <2>5. t[j].ref = hs[j].ref - (IF j = k THEN 1 ELSE 0)
      BY <1>4, <1>2 DEF n
    <2>6. t[j].file = hs[j].file /\ NeedOf(t, hs[j].file) = NeedOf(hs, hs[j].file)
      BY <1>4, <1>5
    <2> QED
      BY <2>1, <2>3, <2>4, <2>5, <2>6
  <1>7. ASSUME NEW f \in Module, NeedOf(t, f) + D[f] > 0
        PROVE  \E j \in 1..Len(t) : t[j].file = f
    <2>1. NeedOf(hs, f) \in Nat /\ E[f] \in Nat /\ Same(f, hs[k].file) \in Nat
      BY NeedFinite, SameNat
    <2>2. NeedOf(hs, f) + E[f] > 0
      BY <1>5, <1>7, <2>1
    <2>3. \E j \in 1..Len(hs) : hs[j].file = f
      BY <2>2 DEF CountsIn
    <2> QED
      BY <1>4, <2>3
  <1>8. \A j \in 1..Len(t) : t[j].ref > 0 \/ t[j].resident
    BY <1>3, <1>4 DEF CountsIn
  <1>9. \A i, j \in 1..Len(t) : t[i].file = t[j].file => i = j
    BY <1>4 DEF CountsIn
  <1>10. \A j \in 1..Len(t) : t[j].ref = NeedOf(t, t[j].file) + D[t[j].file]
    BY <1>4, <1>6
  <1>11. CountsIn(t, D)
    BY <1>7, <1>8, <1>9, <1>10 DEF CountsIn
  <1> QED
    BY <1>1, <1>4, <1>11

LEMMA Sums ==
    ASSUME NEW a \in Nat, NEW b \in Nat, NEW x \in Nat, NEW y \in Nat,
           NEW d \in Nat, NEW e \in Nat, d + y = e + x, a = b + x
    PROVE  a + e = (b + d) + y /\ a + e \in Nat /\ b + d \in Nat
  OBVIOUS

\* A module that was not open, with its first use; its deplib is now needed by it.
LEMMA PushCounts ==
    ASSUME NEW hs \in Seq(Handle), NEW E \in [Module -> Nat], NEW D \in [Module -> Nat],
           NEW h \in Handle, CountsIn(hs, E), h.ref = 1,
           \A k \in 1..Len(hs) : hs[k].file # h.file,
           \A f \in Module : D[f] + Same(h.dep, f) = E[f] + Same(f, h.file)
    PROVE  CountsIn(<<h>> \o hs, D)
  <1> DEFINE t == <<h>> \o hs
             Uses1(f) == NeedOf(hs, f) + E[f]
             Uses2(f) == NeedOf(t, f) + D[f]
  <1>1. /\ t \in Seq(Handle) /\ Len(t) = Len(hs) + 1 /\ t[1] = h /\ Len(hs) \in Nat
        /\ \A k \in 2..(Len(hs) + 1) : t[k] = hs[k - 1]
    BY PushFacts
  <1>2. \A j \in 1..Len(hs) : hs[j] = t[j + 1]
    BY <1>1
  <1> HIDE DEF t
  <1>3. \A f : NeedOf(t, f) = NeedOf(hs, f) + Same(h.dep, f)
    <2>1. \A j \in 1..Len(hs) : hs[j] = t[IF j < 1 THEN j ELSE j + 1]
      BY <1>2
    <2>2. 1 \in 1..Len(t)
      BY <1>1
    <2>3. \A f : NeedOf(t, f) = NeedOf(hs, f) + Same(t[1].dep, f)
      BY <1>1, <2>1, <2>2, NeedInsert
    <2> QED
      BY <1>1, <2>3
  <1>4. ASSUME NEW f \in Module PROVE Uses2(f) = Uses1(f) + Same(f, h.file) /\ Uses1(f) \in Nat
    <2>1. NeedOf(hs, f) \in Nat /\ Same(h.dep, f) \in Nat /\ Same(f, h.file) \in Nat
      BY NeedFinite, SameNat
    <2>2. D[f] \in Nat /\ E[f] \in Nat
      OBVIOUS
    <2>3. D[f] + Same(h.dep, f) = E[f] + Same(f, h.file)
      OBVIOUS
    <2> QED
      BY <1>3, <2>1, <2>2, <2>3
  <1>5. h.file \in Module /\ \A j \in 1..Len(hs) : hs[j].file \in Module
    BY HandleFields
  <1>6. Uses1(h.file) = 0
    <2>1. ~(NeedOf(hs, h.file) + E[h.file] > 0)
      BY <1>5 DEF CountsIn
    <2> QED
      BY <1>4, <1>5, <2>1
  <1>7. \A f \in Module : f # h.file => Same(f, h.file) = 0
    BY DEF Same
  <1>8. Same(h.file, h.file) = 1
    BY DEF Same
  <1> HIDE DEF Uses1, Uses2
  <1>9. \A j \in 1..Len(hs) : hs[j].ref = Uses1(hs[j].file)
    BY DEF CountsIn, Uses1
  <1>10. \A j \in 1..Len(t) : t[j].ref = Uses2(t[j].file)
    <2> SUFFICES ASSUME NEW j \in 1..Len(t) PROVE t[j].ref = Uses2(t[j].file)
      OBVIOUS
    <2>1. CASE j = 1
      BY <1>1, <1>4, <1>5, <1>6, <1>8, <2>1
    <2>2. CASE j # 1
      <3>1. j - 1 \in 1..Len(hs) /\ t[j] = hs[j - 1]
        BY <1>1, <2>2
      <3>2. PICK i \in 1..Len(hs) : t[j] = hs[i]
        BY <3>1
      <3>3. hs[i].file # h.file /\ hs[i].file \in Module
        BY <1>5
      <3> QED
        BY <1>4, <1>7, <1>9, <3>2, <3>3
    <2> QED
      BY <2>1, <2>2
  <1>11. ASSUME NEW f \in Module, Uses2(f) > 0 PROVE \E j \in 1..Len(t) : t[j].file = f
    <2>1. CASE f = h.file
      BY <1>1, <2>1
    <2>2. CASE f # h.file
      <3>1. Uses1(f) > 0
        BY <1>4, <1>7, <1>11, <2>2
      <3>2. PICK j \in 1..Len(hs) : hs[j].file = f
        BY <3>1 DEF CountsIn, Uses1
      <3>3. j + 1 \in 1..Len(t)
        BY <1>1
      <3> QED
        BY <1>2, <3>2, <3>3
    <2> QED
      BY <2>1, <2>2
  <1>12. \A j \in 1..Len(t) : t[j].ref > 0 \/ t[j].resident
    <2>1. \A j \in 1..Len(t) : j # 1 => j - 1 \in 1..Len(hs) /\ t[j] = hs[j - 1]
      BY <1>1
    <2>2. \A j \in 1..Len(hs) : hs[j].ref > 0 \/ hs[j].resident
      BY DEF CountsIn
    <2>3. t[1].ref > 0
      BY <1>1
    <2> QED
      BY <2>1, <2>2, <2>3
  <1>13. \A i, j \in 1..Len(t) : t[i].file = t[j].file => i = j
    <2> SUFFICES ASSUME NEW i \in 1..Len(t), NEW j \in 1..Len(t), t[i].file = t[j].file
                 PROVE  i = j
      OBVIOUS
    <2>1. i = 1 \/ (i - 1 \in 1..Len(hs) /\ t[i] = hs[i - 1])
      BY <1>1
    <2>2. j = 1 \/ (j - 1 \in 1..Len(hs) /\ t[j] = hs[j - 1])
      BY <1>1
    <2>3. i # 1 /\ j # 1 => i - 1 = j - 1
      BY <2>1, <2>2 DEF CountsIn
    <2>4. i = 1 <=> j = 1
      BY <1>1, <2>1, <2>2
    <2> QED
      BY <1>1, <2>3, <2>4
  <1> QED
    BY <1>10, <1>11, <1>12, <1>13 DEF CountsIn, Uses2, t

\* A module whose last use is given back goes; its deplib has another use instead.
LEMMA UnlinkCounts ==
    ASSUME NEW hs \in Seq(Handle), NEW E \in [Module -> Nat], NEW D \in [Module -> Nat],
           NEW k \in 1..Len(hs), NEW h \in Handle, h = hs[k],
           CountsIn(hs, E), h.ref = 1, E[h.file] > 0,
           \A f \in Module : D[f] + Same(f, h.file) = E[f] + Same(h.dep, f)
    PROVE  CountsIn(UnlinkOf(hs, k), D)
  <1> DEFINE t == UnlinkOf(hs, k)
             Uses1(f) == NeedOf(hs, f) + E[f]
             Uses2(f) == NeedOf(t, f) + D[f]
  <1>1. /\ t \in Seq(Handle) /\ Len(t) = Len(hs) - 1 /\ Len(hs) \in Nat /\ Len(t) \in Nat
        /\ \A j \in 1..Len(t) : t[j] = hs[IF j < k THEN j ELSE j + 1]
    <2>1. /\ t \in Seq(Handle) /\ Len(t) = Len(hs) - 1
          /\ \A j \in 1..Len(t) : t[j] = hs[IF j < k THEN j ELSE j + 1]
      BY UnlinkFacts
    <2> HIDE DEF t
    <2> QED
      BY <2>1
  <1> HIDE DEF t
  <1>2. \A f : NeedOf(hs, f) = NeedOf(t, f) + Same(h.dep, f)
    <2>1. \A j \in 1..Len(t) : t[j] = hs[IF j < k THEN j ELSE j + 1]
      BY <1>1
    <2>2. Len(hs) = Len(t) + 1
      BY <1>1
    <2> QED
      BY <1>1, <2>1, <2>2, NeedInsert
  <1>3. ASSUME NEW f \in Module
        PROVE Uses1(f) = Uses2(f) + Same(f, h.file) /\ Uses1(f) \in Nat /\ Uses2(f) \in Nat
    <2>1. /\ NeedOf(hs, f) \in Nat /\ NeedOf(t, f) \in Nat
          /\ Same(h.dep, f) \in Nat /\ Same(f, h.file) \in Nat
      BY <1>1, NeedFinite, SameNat
    <2>2. D[f] \in Nat /\ E[f] \in Nat
      OBVIOUS
    <2>3. D[f] + Same(f, h.file) = E[f] + Same(h.dep, f)
      OBVIOUS
    <2>4. NeedOf(hs, f) = NeedOf(t, f) + Same(h.dep, f)
      BY <1>2
    <2> DEFINE a == NeedOf(hs, f)
               b == NeedOf(t, f)
               x == Same(h.dep, f)
               y == Same(f, h.file)
    <2>5. /\ a \in Nat /\ b \in Nat /\ x \in Nat /\ y \in Nat
          /\ D[f] + y = E[f] + x /\ a = b + x
      BY <2>1, <2>3, <2>4
    <2> HIDE DEF a, b, x, y
    <2>6. a + E[f] = (b + D[f]) + y /\ a + E[f] \in Nat /\ b + D[f] \in Nat
      BY ONLY <2>2, <2>5, Sums, SMTT(30)
    <2> QED
      BY <2>6, SMTT(30) DEF a, b, y
  <1>4. h.file \in Module /\ \A j \in 1..Len(hs) : hs[j].file \in Module
    BY HandleFields
  <1>5. \A i, j \in 1..Len(hs) : hs[i].file = hs[j].file => i = j
    BY DEF CountsIn
  <1>6. \A f \in Module : f # h.file => Same(f, h.file) = 0
    BY DEF Same
  <1>7. Same(h.file, h.file) = 1
    BY DEF Same
  <1>8. \A j \in 1..Len(hs) : hs[j].ref = Uses1(hs[j].file)
    BY DEF CountsIn
  <1>9. \A f \in Module : Uses1(f) > 0 => \E j \in 1..Len(hs) : hs[j].file = f
    BY DEF CountsIn
  <1>10. \A j \in 1..Len(hs) : hs[j].ref > 0 \/ hs[j].resident
    BY DEF CountsIn
  <1>11. Uses2(h.file) = 0
    <2>1. Uses1(h.file) = 1
      BY <1>8
    <2> HIDE DEF Uses1, Uses2
    <2> QED
      BY <1>3, <1>4, <1>7, <2>1
  <1> HIDE DEF Uses1, Uses2
  <1>12. \A j \in 1..Len(t) : \E i \in 1..Len(hs) : i # k /\ t[j] = hs[i]
    <2> SUFFICES ASSUME NEW j \in 1..Len(t)
                 PROVE  \E i \in 1..Len(hs) : i # k /\ t[j] = hs[i]
      OBVIOUS
    <2>1. (IF j < k THEN j ELSE j + 1) \in 1..Len(hs) /\ (IF j < k THEN j ELSE j + 1) # k
      BY <1>1
    <2> QED
      BY <1>1, <2>1
  <1>13. ASSUME NEW j \in 1..Len(t) PROVE t[j].ref = Uses2(t[j].file)
    <2>1. PICK i \in 1..Len(hs) : i # k /\ t[j] = hs[i]
      BY <1>12
    <2>2. hs[i].file # h.file /\ hs[i].file \in Module
      BY <1>4, <1>5, <2>1
    <2> QED
      BY <1>3, <1>6, <1>8, <2>1, <2>2
  <1>14. ASSUME NEW f \in Module, Uses2(f) > 0 PROVE \E j \in 1..Len(t) : t[j].file = f
    <2>1. f # h.file
      BY <1>11, <1>14
    <2>2. Uses1(f) > 0
      BY <1>3, <1>6, <1>14, <2>1
    <2>3. PICK i \in 1..Len(hs) : hs[i].file = f
      BY <1>9, <2>2
    <2>4. i # k
      BY <2>1, <2>3
    <2>5. CASE i < k
      <3>1. i \in 1..Len(t) /\ t[i] = hs[i]
        BY <1>1, <2>5, SMTT(30)
      <3> QED
        BY <2>3, <3>1
    <2>6. CASE i > k
      <3>1. i - 1 \in 1..Len(t) /\ ~(i - 1 < k) /\ (i - 1) + 1 = i
        BY <1>1, <2>6
      <3>2. t[i - 1] = hs[i]
        BY <1>1, <3>1
      <3> QED
        BY <2>3, <3>1, <3>2
    <2> QED
      BY <2>4, <2>5, <2>6
  <1>15. \A j \in 1..Len(t) : t[j].ref > 0 \/ t[j].resident
    BY <1>10, <1>12
  <1>16. \A i, j \in 1..Len(t) : t[i].file = t[j].file => i = j
    <2> SUFFICES ASSUME NEW i \in 1..Len(t), NEW j \in 1..Len(t), t[i].file = t[j].file
                 PROVE  i = j
      OBVIOUS
    <2> DEFINE p == IF i < k THEN i ELSE i + 1
               q == IF j < k THEN j ELSE j + 1
    <2>1. p \in 1..Len(hs) /\ q \in 1..Len(hs) /\ t[i] = hs[p] /\ t[j] = hs[q]
      BY <1>1
    <2>2. p = q
      BY <1>5, <2>1
    <2> QED
      BY <1>1, <2>2
  <1> QED
    BY <1>13, <1>14, <1>15, <1>16 DEF CountsIn, Uses2, t

(***************************************************************************)
(* The counts of the state.                                                *)
(***************************************************************************)
ExtraOf(f) == HeldOf(f) + One(~Idle /\ call.dep = f) + One(~Idle /\ call.handle = f)
              + One(releasing = f)
Extra == [f \in Module |-> ExtraOf(f)]

LEMMA HeldNat ==
    ASSUME DOMAIN held \subseteq Module, held \in [DOMAIN held -> Nat], NEW f
    PROVE  HeldOf(f) \in Nat
  BY DEF HeldOf

LEMMA ExtraNow ==
    ASSUME DOMAIN held \subseteq Module, held \in [DOMAIN held -> Nat], handles \in Seq(Handle)
    PROVE  /\ Extra \in [Module -> Nat] /\ \A f \in Module : Extra[f] = ExtraOf(f)
           /\ Counted <=> CountsIn(handles, Extra)
  <1>1. ASSUME NEW f \in Module
        PROVE  ExtraOf(f) \in Nat /\ UsesOf(f) = NeedOf(handles, f) + ExtraOf(f)
    <2>1. /\ HeldOf(f) \in Nat /\ One(~Idle /\ call.dep = f) \in Nat
          /\ One(~Idle /\ call.handle = f) \in Nat /\ One(releasing = f) \in Nat
      BY HeldNat, OneNat
    <2>2. NeedOf(handles, f) \in Nat
      BY NeedFinite
    <2>3. UsesOf(f) = HeldOf(f) + NeedOf(handles, f) + One(~Idle /\ call.dep = f)
                      + One(~Idle /\ call.handle = f) + One(releasing = f)
      BY DEF UsesOf, NeedOf, Needing
    <2> QED
      BY <2>1, <2>2, <2>3 DEF ExtraOf
  <1>2. Extra \in [Module -> Nat] /\ \A f \in Module : Extra[f] = ExtraOf(f)
    BY <1>1 DEF Extra
  <1>3. \A k \in 1..Len(handles) : handles[k].file \in Module
    BY HandleFields
  <1>4. \A f \in Module : UsesOf(f) = NeedOf(handles, f) + Extra[f]
    BY <1>1, <1>2
  <1>5. Counted <=> CountsIn(handles, Extra)
    BY <1>3, <1>4 DEF Counted, CountsIn, OneHandlePerFile, UsesCounted, Open
  <1> QED
    BY <1>2, <1>5

LEMMA ExtraThen ==
    ASSUME DOMAIN held' \subseteq Module, held' \in [DOMAIN held' -> Nat], handles' \in Seq(Handle)
    PROVE  /\ Extra' \in [Module -> Nat] /\ \A f \in Module : Extra'[f] = ExtraOf(f)'
           /\ Counted' <=> CountsIn(handles', Extra')
  <1>1. ASSUME NEW f \in Module
        PROVE  ExtraOf(f)' \in Nat /\ UsesOf(f)' = NeedOf(handles', f) + ExtraOf(f)'
    <2>1. /\ HeldOf(f)' \in Nat /\ One(~Idle /\ call.dep = f)' \in Nat
          /\ One(~Idle /\ call.handle = f)' \in Nat /\ One(releasing = f)' \in Nat
      BY DEF HeldOf, One
    <2>2. NeedOf(handles', f) \in Nat
      BY NeedFinite
    <2>3. UsesOf(f)' = HeldOf(f)' + NeedOf(handles', f) + One(~Idle /\ call.dep = f)'
                      + One(~Idle /\ call.handle = f)' + One(releasing = f)'
      BY DEF UsesOf, NeedOf, Needing
    <2> QED
      BY <2>1, <2>2, <2>3 DEF ExtraOf
  <1>2. Extra' \in [Module -> Nat] /\ \A f \in Module : Extra'[f] = ExtraOf(f)'
    BY <1>1 DEF Extra
  <1>3. \A k \in 1..Len(handles') : handles'[k].file \in Module
    BY HandleFields
  <1>4. \A f \in Module : UsesOf(f)' = NeedOf(handles', f) + Extra'[f]
    BY <1>1, <1>2
  <1>5. Counted' <=> CountsIn(handles', Extra')
    BY <1>3, <1>4 DEF Counted, CountsIn, OneHandlePerFile, UsesCounted, Open
  <1> QED
    BY <1>2, <1>5

(***************************************************************************)
(* What the loaders say, and the handle of what they open.                 *)
(***************************************************************************)
LEMMA AskedFacts ==
    ASSUME TypeOK, NEW by \in Loader \cup {NULL}
    PROVE  /\ Asked(by) \in Seq(Loader) /\ Len(Asked(by)) \in Nat \ {0}
           /\ by # NULL => Asked(by) = <<by>>
  BY Distinct DEF TypeOK, Asked

LEMMA AnswerFacts ==
    ASSUME TypeOK, NEW l \in Loader, NEW f \in Module
    PROVE  LET r == Answer(l, f) IN
           /\ r.module = NULL => r.error \in Error
           /\ r.module # NULL => r.module \in SymList \cup Module
           /\ r.module # NULL /\ f \in File /\ l = PreopenLoader =>
                  r.module \in SymList /\ Offers(r.module, f)
           /\ r.module # NULL /\ f \in File /\ l # PreopenLoader => f \in fs.loadable
           /\ f \in fs.loadable /\ l # PreopenLoader => r.module # NULL
  <1>1. CASE l = PreopenLoader
    <2>1. preloaded_symlists \in Seq(SymList)
      BY DEF TypeOK
    <2>2. Answer(l, f) = vm_open(IF f = Self THEN NULL ELSE f)
      BY <1>1 DEF Answer
    <2> QED
      BY <1>1, <2>1, <2>2, VmOpen
  <1>2. CASE l # PreopenLoader /\ (f = Self \/ f \in fs.loadable)
    <2>1. Answer(l, f) = [module |-> f, error |-> NULL]
      BY <1>2 DEF Answer
    <2> QED
      BY <1>2, <2>1, Distinct
  <1>3. CASE l # PreopenLoader /\ ~(f = Self \/ f \in fs.loadable)
    <2>1. Answer(l, f) = [module |-> NULL, error |-> "CANNOT_OPEN"]
      BY <1>3 DEF Answer
    <2> QED
      BY <1>3, <2>1 DEF Error
  <1> QED
    BY <1>1, <1>2, <1>3

LEMMA FailureIsError ==
    ASSUME TypeOK, NEW f \in Module, NEW by \in Loader \cup {NULL}, Opening(f, by) = {}
    PROVE  FailureOf(f, by) \in Error
  <1> DEFINE n == Len(Asked(by))
  <1>1. n \in 1..n /\ Asked(by)[n] \in Loader
    BY AskedFacts
  <1>2. Answer(Asked(by)[n], f).module = NULL
    BY <1>1 DEF Opening
  <1> QED
    BY <1>1, <1>2, AnswerFacts DEF FailureOf

LEMMA NewHandleFacts ==
    ASSUME TypeOK, NEW f \in Module, NEW by \in Loader \cup {NULL}, Opening(f, by) # {},
           NEW name \in Name \cup {NULL}, NEW dep \in DepLib \cup {NULL},
           f \in File /\ f.dir = NoDir => name = f.name
    PROVE  LET h == NewHandle(f, by, name, dep) IN
           /\ h \in Handle /\ HandleOK(h)
           /\ h.file = f /\ h.dep = dep /\ h.ref = 1
  <1> DEFINE k == Least(Opening(f, by))
             l == Asked(by)[k]
             r == Answer(l, f)
             h == NewHandle(f, by, name, dep)
             b == f = Self /\ call.advice = NULL
  <1>1. k \in Opening(f, by)
    <2>1. Opening(f, by) \subseteq Nat
      BY DEF Opening
    <2> QED
      BY <2>1, LeastIn
  <1>2. k \in 1..Len(Asked(by)) /\ r.module # NULL
    BY <1>1 DEF Opening
  <1> HIDE DEF k
  <1>3. l \in Loader
    BY <1>2, AskedFacts
  <1>4. /\ r.module \in SymList \cup Module
        /\ f \in File /\ l = PreopenLoader => r.module \in SymList /\ Offers(r.module, f)
        /\ f \in File /\ l # PreopenLoader => f \in fs.loadable
    BY <1>2, <1>3, AnswerFacts
  <1>5. h = [file |-> f, vtable |-> l, module |-> r.module, name |-> name,
             dep |-> dep, resident |-> b, ref |-> 1]
    BY DEF NewHandle, k
  <1>6. b \in BOOLEAN /\ (b => f = Self)
    OBVIOUS
  <1> HIDE DEF l, r, b, h
  <1>7. h \in Handle
    BY <1>3, <1>4, <1>5, <1>6 DEF Handle
  <1>8. /\ h.file = f /\ h.vtable = l /\ h.module = r.module /\ h.name = name
        /\ h.dep = dep /\ h.resident = b /\ h.ref = 1
    BY <1>5
  <1>9. f \in File /\ f.ext = "a" => l = PreopenLoader
    BY <1>4, FileAssumption DEF TypeOK
  <1>10. f \in File /\ l = PreopenLoader => f = ArchiveOf(f) /\ name = f.name
    <2>1. f \in File /\ l = PreopenLoader => f = ArchiveOf(f)
      BY <1>4, OffersArchive
    <2>2. f \in File => ArchiveOf(f).dir = NoDir
      BY Files
    <2> QED
      BY <2>1, <2>2
  <1>11. HandleOK(h)
    BY <1>4, <1>6, <1>8, <1>9, <1>10 DEF HandleOK
  <1> QED
    BY <1>7, <1>8, <1>11 DEF h

(***************************************************************************)
(* The list of handles and the counts through the steps.                   *)
(***************************************************************************)
HandlesNow == TypeOK /\ Counted /\ HandlesOK

LEMMA PlaceFound ==
    ASSUME NEW f, Open(f)
    PROVE  /\ PlaceOf(f) \in 1..Len(handles) /\ handles[PlaceOf(f)].file = f
           /\ HandleOf(f) = handles[PlaceOf(f)]
  BY DEF Open, PlaceOf, HandleOf

LEMMA CountsKept ==
    ASSUME TypeOK, Counted, TypeOK', handles' = handles,
           \A f \in Module : ExtraOf(f)' = ExtraOf(f)
    PROVE  Counted'
  <1>1. /\ Extra \in [Module -> Nat] /\ \A f \in Module : Extra[f] = ExtraOf(f)
        /\ CountsIn(handles, Extra)
    BY ExtraNow DEF TypeOK
  <1>2. /\ Extra' \in [Module -> Nat] /\ \A f \in Module : Extra'[f] = ExtraOf(f)'
        /\ CountsIn(handles', Extra') => Counted'
    BY ExtraThen DEF TypeOK
  <1>3. Extra' = Extra
    BY ONLY <1>1, <1>2, \A f \in Module : ExtraOf(f)' = ExtraOf(f)
  <1> QED
    BY <1>1, <1>2, <1>3

LEMMA HandlesSame ==
    ASSUME HandlesOK, handles' = handles
    PROVE  HandlesOK'
  BY DEF HandlesOK, HandleOK, Offers, HeaderOf

LEMMA RetainKeeps ==
    ASSUME HandlesNow, NEW f \in Module, Open(f), handles' = Retain(f),
           DOMAIN held' \subseteq Module, held' \in [DOMAIN held' -> Nat],
           \A g \in Module : ExtraOf(g)' = ExtraOf(g) + Same(g, f)
    PROVE  Counted' /\ HandlesOK' /\ handles' \in Seq(Handle)
  <1> DEFINE k == PlaceOf(f)
  <1>1. k \in 1..Len(handles) /\ handles[k].file = f
    BY PlaceFound
  <1>2. handles \in Seq(Handle)
    BY DEF HandlesNow, TypeOK
  <1>3. handles' = [handles EXCEPT ![k].ref = @ + 1]
    BY DEF Retain
  <1>4. /\ Extra \in [Module -> Nat] /\ \A g \in Module : Extra[g] = ExtraOf(g)
        /\ CountsIn(handles, Extra)
    BY ExtraNow DEF HandlesNow, TypeOK
  <1> HIDE DEF k
  <1> DEFINE n == handles[k].ref + 1
  <1>5. n \in Nat
    BY <1>1, <1>2, HandleFields
  <1>6. handles' = [handles EXCEPT ![k] = [handles[k] EXCEPT !.ref = n]]
    BY <1>1, <1>2, <1>3
  <1> HIDE DEF n
  <1>7. /\ handles' \in Seq(Handle) /\ Len(handles') = Len(handles)
         /\ \A j \in 1..Len(handles) :
                /\ handles'[j].file = handles[j].file
                /\ handles'[j].resident = handles[j].resident
                /\ handles'[j].vtable = handles[j].vtable
                /\ handles'[j].module = handles[j].module
                /\ handles'[j].name = handles[j].name
    BY <1>1, <1>2, <1>5, <1>6, RefFacts
  <1>8. /\ Extra' \in [Module -> Nat] /\ \A g \in Module : Extra'[g] = ExtraOf(g)'
        /\ CountsIn(handles', Extra') => Counted'
    BY <1>7, ExtraThen
  <1>9. \A g \in Module : Extra'[g] = Extra[g] + Same(g, f)
    BY ONLY <1>4, <1>8, \A g \in Module : ExtraOf(g)' = ExtraOf(g) + Same(g, f)
  <1>10. \A g \in Module : Extra'[g] = Extra[g] + Same(g, handles[k].file)
    BY <1>1, <1>9
  <1>11. CountsIn([handles EXCEPT ![k].ref = @ + 1], Extra')
    BY ONLY <1>1, <1>2, <1>4, <1>8, <1>10, RetainCounts
  <1>12. Counted'
    BY <1>3, <1>8, <1>11
  <1>13. HandlesOK'
    <2>1. \A j \in 1..Len(handles) : HandleOK(handles[j]) => HandleOK(handles'[j])
      BY <1>7 DEF HandleOK
    <2> QED
      BY <1>7, <2>1 DEF HandlesNow, HandlesOK, HandleOK, Offers, HeaderOf
  <1> QED
    BY <1>12, <1>13, <1>7

LEMMA SpendKeeps ==
    ASSUME HandlesNow, NEW f \in Module, Open(f),
           handles' = [handles EXCEPT ![PlaceOf(f)].ref = @ - 1],
           HandleOf(f).ref # 1 \/ HandleOf(f).resident, ExtraOf(f) > 0,
           DOMAIN held' \subseteq Module, held' \in [DOMAIN held' -> Nat],
           \A g \in Module : ExtraOf(g)' = ExtraOf(g) - Same(g, f)
    PROVE  Counted' /\ HandlesOK' /\ handles' \in Seq(Handle)
  <1> DEFINE k == PlaceOf(f)
             n == handles[k].ref - 1
  <1>1. k \in 1..Len(handles) /\ handles[k].file = f /\ HandleOf(f) = handles[k]
    BY PlaceFound
  <1>2. handles \in Seq(Handle)
    BY DEF HandlesNow, TypeOK
  <1>3. handles' = [handles EXCEPT ![k].ref = @ - 1]
    OBVIOUS
  <1> HIDE DEF k
  <1>4. /\ Extra \in [Module -> Nat] /\ \A g \in Module : Extra[g] = ExtraOf(g)
        /\ CountsIn(handles, Extra)
    BY ExtraNow DEF HandlesNow, TypeOK
  <1>5. Extra[handles[k].file] > 0 /\ (handles[k].ref # 1 \/ handles[k].resident)
    BY <1>1, <1>4
  <1>6. n \in Nat
    <2>1. handles[k].ref = NeedOf(handles, f) + Extra[f]
      BY <1>1, <1>4 DEF CountsIn
    <2>2. NeedOf(handles, f) \in Nat /\ Extra[f] \in Nat
      BY <1>2, <1>4, NeedFinite
    <2> QED
      BY <1>1, <1>5, <2>1, <2>2
  <1>7. handles' = [handles EXCEPT ![k] = [handles[k] EXCEPT !.ref = n]]
    BY <1>1, <1>2, <1>3
  <1> HIDE DEF n
  <1>8. /\ handles' \in Seq(Handle) /\ Len(handles') = Len(handles)
        /\ \A j \in 1..Len(handles) :
                /\ handles'[j].file = handles[j].file
                /\ handles'[j].resident = handles[j].resident
                /\ handles'[j].vtable = handles[j].vtable
                /\ handles'[j].module = handles[j].module
                /\ handles'[j].name = handles[j].name
    BY ONLY <1>1, <1>2, <1>6, <1>7, RefFacts
  <1>9. /\ Extra' \in [Module -> Nat] /\ \A g \in Module : Extra'[g] = ExtraOf(g)'
        /\ CountsIn(handles', Extra') => Counted'
    BY <1>8, ExtraThen
  <1>10. \A g \in Module : Extra'[g] = Extra[g] - Same(g, f)
    BY ONLY <1>4, <1>9, \A g \in Module : ExtraOf(g)' = ExtraOf(g) - Same(g, f)
  <1>11. \A g \in Module : Extra'[g] = Extra[g] - Same(g, handles[k].file)
    BY <1>1, <1>10
  <1>12. CountsIn([handles EXCEPT ![k].ref = @ - 1], Extra')
    BY ONLY <1>1, <1>2, <1>4, <1>5, <1>9, <1>11, SpendCounts
  <1>13. Counted'
    BY <1>3, <1>9, <1>12
  <1>14. HandlesOK'
    <2>1. \A j \in 1..Len(handles) : HandleOK(handles[j]) => HandleOK(handles'[j])
      BY <1>8 DEF HandleOK
    <2> QED
      BY <1>8, <2>1, SMTT(30) DEF HandlesNow, HandlesOK, HandleOK, Offers, HeaderOf
  <1> QED
    BY <1>8, <1>13, <1>14

LEMMA PushKeeps ==
    ASSUME HandlesNow, NEW h \in Handle, HandleOK(h), h.ref = 1, ~Open(h.file),
           handles' = <<h>> \o handles,
           DOMAIN held' \subseteq Module, held' \in [DOMAIN held' -> Nat],
           \A g \in Module : ExtraOf(g)' + Same(h.dep, g) = ExtraOf(g) + Same(g, h.file)
    PROVE  Counted' /\ HandlesOK' /\ handles' \in Seq(Handle)
  <1>1. handles \in Seq(Handle)
    BY DEF HandlesNow, TypeOK
  <1>2. /\ Extra \in [Module -> Nat] /\ \A g \in Module : Extra[g] = ExtraOf(g)
        /\ CountsIn(handles, Extra)
    BY ExtraNow DEF HandlesNow, TypeOK
  <1>3. \A k \in 1..Len(handles) : handles[k].file # h.file
    BY DEF Open
  <1>4. /\ handles' \in Seq(Handle) /\ Len(handles') = Len(handles) + 1 /\ handles'[1] = h
        /\ \A j \in 2..(Len(handles) + 1) : handles'[j] = handles[j - 1]
    BY <1>1, PushFacts
  <1>5. /\ Extra' \in [Module -> Nat] /\ \A g \in Module : Extra'[g] = ExtraOf(g)'
        /\ CountsIn(handles', Extra') => Counted'
    BY <1>4, ExtraThen
  <1>6. \A g \in Module : Extra'[g] + Same(h.dep, g) = Extra[g] + Same(g, h.file)
    BY ONLY <1>2, <1>5,
            \A g \in Module : ExtraOf(g)' + Same(h.dep, g) = ExtraOf(g) + Same(g, h.file)
  <1>7. CountsIn(<<h>> \o handles, Extra')
    BY ONLY <1>1, <1>2, <1>3, <1>5, <1>6, h \in Handle, h.ref = 1, PushCounts
  <1>8. Counted'
    BY <1>5, <1>7
  <1>9. HandlesOK'
    <2>1. \A j \in 1..Len(handles') :
              j = 1 \/ (j - 1 \in 1..Len(handles) /\ handles'[j] = handles[j - 1])
      BY <1>1, <1>4
    <2>2. \A j \in 1..Len(handles) : HandleOK(handles[j])
      BY DEF HandlesNow, HandlesOK
    <2>3. \A j \in 1..Len(handles') : HandleOK(handles'[j])
      BY <1>4, <2>1, <2>2
    <2> QED
      BY <2>3 DEF HandlesOK, HandleOK, Offers, HeaderOf
  <1> QED
    BY <1>4, <1>8, <1>9

LEMMA UnlinkKeeps ==
    ASSUME HandlesNow, NEW f \in Module, Open(f), handles' = Unlink(PlaceOf(f)),
           HandleOf(f).ref = 1, ExtraOf(f) > 0,
           DOMAIN held' \subseteq Module, held' \in [DOMAIN held' -> Nat],
           \A g \in Module : ExtraOf(g)' + Same(g, f) = ExtraOf(g) + Same(HandleOf(f).dep, g)
    PROVE  Counted' /\ HandlesOK' /\ handles' \in Seq(Handle)
  <1> DEFINE k == PlaceOf(f)
             h == HandleOf(f)
  <1>1. k \in 1..Len(handles) /\ h.file = f /\ h = handles[k]
    BY PlaceFound
  <1>2. handles \in Seq(Handle)
    BY DEF HandlesNow, TypeOK
  <1>3. handles' = UnlinkOf(handles, k) /\ h.ref = 1
    BY DEF Unlink, UnlinkOf
  <1>4. \A g \in Module : ExtraOf(g)' + Same(g, f) = ExtraOf(g) + Same(h.dep, g)
    OBVIOUS
  <1> HIDE DEF k, h
  <1>5. /\ Extra \in [Module -> Nat] /\ \A g \in Module : Extra[g] = ExtraOf(g)
        /\ CountsIn(handles, Extra)
    BY ExtraNow DEF HandlesNow, TypeOK
  <1>6. Extra[h.file] > 0 /\ h \in Handle
    BY <1>1, <1>2, <1>5
  <1>7. /\ handles' \in Seq(Handle) /\ Len(handles') = Len(handles) - 1
        /\ \A j \in 1..Len(handles') : handles'[j] = handles[IF j < k THEN j ELSE j + 1]
    BY <1>1, <1>2, <1>3, UnlinkFacts
  <1>8. /\ Extra' \in [Module -> Nat] /\ \A g \in Module : Extra'[g] = ExtraOf(g)'
        /\ CountsIn(handles', Extra') => Counted'
    BY <1>7, ExtraThen
  <1>9. \A g \in Module : Extra'[g] + Same(g, f) = Extra[g] + Same(h.dep, g)
    BY ONLY <1>5, <1>8, <1>4
  <1>10. \A g \in Module : Extra'[g] + Same(g, h.file) = Extra[g] + Same(h.dep, g)
    BY <1>1, <1>9
  <1>11. CountsIn(UnlinkOf(handles, k), Extra')
    BY ONLY <1>1, <1>2, <1>3, <1>5, <1>6, <1>8, <1>10, UnlinkCounts
  <1>12. Counted'
    BY <1>3, <1>8, <1>11
  <1>13. HandlesOK'
    <2>1. \A j \in 1..Len(handles') : \E i \in 1..Len(handles) : handles'[j] = handles[i]
      <3>1. \A j \in 1..Len(handles') : (IF j < k THEN j ELSE j + 1) \in 1..Len(handles)
        BY <1>1, <1>2, <1>7
      <3> QED
        BY <1>7, <3>1
    <2>2. \A j \in 1..Len(handles) : HandleOK(handles[j])
      BY DEF HandlesNow, HandlesOK
    <2>3. \A j \in 1..Len(handles') : HandleOK(handles'[j])
      BY <2>1, <2>2
    <2> QED
      BY <2>3 DEF HandlesOK, HandleOK, Offers, HeaderOf
  <1> QED
    BY <1>7, <1>12, <1>13

(***************************************************************************)
(* Each step keeps the types, the counts and the handles right.            *)
(***************************************************************************)
LEMMA CallFields ==
    ASSUME NEW c \in Call
    PROVE  /\ c.at \in Searching \cup Ended /\ c.request \in Module
           /\ c.advice \in Hints \cup {NULL} /\ c.exts \in Seq(LibExt)
           /\ c.dir \in Dir \cup {NoDir} /\ c.la \in La \cup {Unread}
           /\ c.attempts \in Seq([file : File, by : Loader \cup {NULL}, look : BOOLEAN])
           /\ c.dep \in DepLib \cup {NULL} /\ c.errors \in BOOLEAN
           /\ c.handle \in Module \cup {NULL, Unregistered}
           /\ c.entry_error \in Error \cup {NULL} /\ c.saved_error \in Error \cup {NULL}
           /\ c.starved \in BOOLEAN /\ c # NoCall
  BY DEF Call, Searching, Ended, NoCall

LEMMA Busy ==
    ASSUME TypeOK
    PROVE  /\ call.at \in Searching \cup Ended => ~Idle
           /\ ~Idle => call \in Call
  BY DEF TypeOK, Idle, NoCall, Searching, Ended

LEMMA StepTypes ==
    ASSUME TypeOK, UNCHANGED StepVars, handles' \in Seq(Handle),
           releasing' \in Module \cup {NULL}, last_error' \in Error \cup {NULL},
           call' \in Call \cup {NoCall}
    PROVE  TypeOK' /\ DOMAIN held' \subseteq Module /\ held' \in [DOMAIN held' -> Nat]
  BY DEF TypeOK, StepVars, preopenVars

\* The uses of a module but those by other modules, and how they are told apart.
LEMMA ExtraIs ==
    ASSUME NEW f
    PROVE  /\ ~Idle => ExtraOf(f) = HeldOf(f) + Same(call.dep, f) + Same(call.handle, f)
                                    + Same(releasing, f)
           /\ Idle => ExtraOf(f) = HeldOf(f) + 0 + 0 + Same(releasing, f)
  BY DEF ExtraOf, Same, One

LEMMA ExtraWillBe ==
    ASSUME NEW f
    PROVE  /\ ~Idle' => ExtraOf(f)' = HeldOf(f)' + Same(call'.dep, f) + Same(call'.handle, f)
                                    + Same(releasing', f)
           /\ Idle' => ExtraOf(f)' = HeldOf(f)' + 0 + 0 + Same(releasing', f)
  BY DEF ExtraOf, Same, One

LEMMA Different ==
    ASSUME NEW f \in Module
    PROVE  /\ Same(NULL, f) = 0 /\ Same(Unregistered, f) = 0
           /\ \A g : Same(f, g) = Same(g, f) /\ Same(f, g) \in Nat
  BY Distinct DEF Same

LEMMA FailKeeps ==
    ASSUME HandlesNow, ~Idle, releasing = NULL, UNCHANGED StepVars,
           NEW error \in Error \cup {NULL}, Fail(error)
    PROVE  HandlesNow'
  <1>1. call \in Call /\ TypeOK
    BY Busy DEF HandlesNow
  <1>2. call' = [call EXCEPT !.at = "next", !.errors = TRUE, !.dep = NULL]
    BY DEF Fail
  <1>3. call' \in Call /\ call'.dep = NULL /\ call'.handle = call.handle
    BY <1>1, <1>2 DEF Call
  <1>4. releasing' = call.dep /\ call.dep \in DepLib \cup {NULL} /\ handles' = handles
    BY <1>1 DEF Fail, Call
  <1>5. TypeOK' /\ DOMAIN held' \subseteq Module /\ held' \in [DOMAIN held' -> Nat]
    BY <1>1, <1>3, <1>4, StepTypes, Distinct DEF Fail, TypeOK
  <1>6. ~Idle'
    BY <1>3, CallFields DEF Idle
  <1>7. \A f \in Module : ExtraOf(f)' = ExtraOf(f)
    <2> TAKE f \in Module
    <2>1. HeldOf(f)' = HeldOf(f) /\ HeldOf(f) \in Nat
      BY <1>1, HeldNat DEF StepVars, HeldOf, TypeOK
    <2>2. ExtraOf(f) = HeldOf(f) + Same(call.dep, f) + Same(call.handle, f) + Same(NULL, f)
      BY ExtraIs
    <2>3. ExtraOf(f)' = HeldOf(f) + Same(NULL, f) + Same(call.handle, f) + Same(call.dep, f)
      BY <1>3, <1>4, <1>6, <2>1, ExtraWillBe
    <2> QED
      BY <2>1, <2>2, <2>3, SameNat
  <1> QED
    BY <1>4, <1>5, <1>7, CountsKept, HandlesSame DEF HandlesNow

LEMMA SuccessKeeps ==
    ASSUME HandlesNow, ~Idle, releasing = NULL, call.handle = NULL, UNCHANGED StepVars,
           NEW f \in Module, NEW by \in Loader \cup {NULL}, CanOpen(f, by), Success(f, by),
           f \in File => call.request \in File,
           f \in File /\ f.dir = NoDir => call.request.name = f.name
    PROVE  HandlesNow'
  <1> DEFINE name == IF f = Self THEN NULL ELSE call.request.name
             h == NewHandle(f, by, name, call.dep)
  <1>1. call \in Call /\ TypeOK
    BY Busy DEF HandlesNow
  <1>2. call' = [call EXCEPT !.at = "next", !.handle = f, !.dep = NULL]
    BY DEF Success
  <1>3. call' \in Call /\ call'.dep = NULL /\ call'.handle = f
    BY ONLY <1>1, <1>2, f \in Module DEF Call
  <1>4. last_error' \in Error \cup {NULL}
    BY <1>1, CallFields DEF Success, ErrorBefore
  <1>5. call.dep \in DepLib \cup {NULL}
    BY <1>1, CallFields
  <1>6. ~Idle'
    BY <1>3, CallFields DEF Idle
  <1>7. name \in Name \cup {NULL}
    BY Files DEF Module
  <1>8. f \in File /\ f.dir = NoDir => name = f.name
    BY Distinct
  <1>9. /\ DOMAIN held' \subseteq Module /\ held' \in [DOMAIN held' -> Nat]
        /\ \A g \in Module : HeldOf(g)' = HeldOf(g) /\ HeldOf(g) \in Nat
    BY <1>1, HeldNat DEF StepVars, HeldOf, TypeOK
  <1>10. \A g \in Module : ExtraOf(g) = HeldOf(g) + Same(call.dep, g) + 0 + 0
    <2> TAKE g \in Module
    <2>1. ExtraOf(g) = HeldOf(g) + Same(call.dep, g) + Same(NULL, g) + Same(NULL, g)
      BY ExtraIs
    <2> QED
      BY <2>1, Different
  <1>11. \A g \in Module :
             ExtraOf(g)' = HeldOf(g) + 0 + Same(g, f) + Same(releasing', g)
    <2> TAKE g \in Module
    <2>1. ExtraOf(g)' = HeldOf(g) + Same(NULL, g) + Same(f, g) + Same(releasing', g)
      BY <1>3, <1>6, <1>9, ExtraWillBe
    <2> QED
      BY <2>1, Different
  <1> HIDE DEF name, h
  <1>12. CASE Open(f) /\ Shared(f)
    <2>1. handles' = Retain(f) /\ releasing' = call.dep
      BY <1>12 DEF Shared
    <2>2. \A g \in Module : ExtraOf(g)' = ExtraOf(g) + Same(g, f)
      BY <1>9, <1>10, <1>11, <2>1, SameNat
    <2>3. Counted' /\ HandlesOK' /\ handles' \in Seq(Handle)
      BY <1>9, <1>12, <2>1, <2>2, RetainKeeps
    <2> QED
      BY <1>1, <1>3, <1>4, <1>5, <2>1, <2>3, StepTypes, Distinct DEF HandlesNow
  <1>13. CASE ~Open(f) /\ handles' = <<h>> \o handles /\ releasing' = NULL
    <2>1. Opening(f, by) # {}
      BY <1>13 DEF CanOpen
    <2>2. h \in Handle /\ HandleOK(h) /\ h.file = f /\ h.dep = call.dep /\ h.ref = 1
      BY <1>1, <1>5, <1>7, <1>8, <2>1, NewHandleFacts DEF h
    <2>3. \A g \in Module : ExtraOf(g)' + Same(h.dep, g) = ExtraOf(g) + Same(g, h.file)
      <3> TAKE g \in Module
      <3>1. ExtraOf(g)' = HeldOf(g) + 0 + Same(g, f) + 0
        BY <1>11, <1>13, Different
      <3> QED
        BY <1>9, <1>10, <2>2, <3>1, SameNat
    <2>4. Counted' /\ HandlesOK' /\ handles' \in Seq(Handle)
      BY <1>9, <1>13, <2>2, <2>3, PushKeeps
    <2> QED
      BY <1>1, <1>3, <1>4, <1>13, <2>4, StepTypes, Distinct DEF HandlesNow
  <1> QED
    BY <1>12, <1>13 DEF Success, name, h

LEMMA ReleaseKeeps ==
    ASSUME HandlesNow, Release
    PROVE  HandlesNow'
  <1> DEFINE f == releasing
             h == HandleOf(f)
  <1>1. TypeOK /\ f \in Module /\ handles \in Seq(Handle)
    BY DEF HandlesNow, TypeOK, Release
  <1>2. \A g \in Module : HeldOf(g)' = HeldOf(g) /\ HeldOf(g) \in Nat
    BY <1>1, HeldNat DEF Release, HeldOf, TypeOK
  <1>3. Same(f, f) = 1
    BY DEF Same
  <1>4. ExtraOf(f) > 0 /\ UsesOf(f) > 0
    <2>1. /\ HeldOf(f) \in Nat /\ One(~Idle /\ call.dep = f) \in Nat
          /\ One(~Idle /\ call.handle = f) \in Nat /\ One(releasing = f) = 1
      BY <1>1, <1>2, OneNat DEF One
    <2>2. Cardinality({j \in 1..Len(handles) : handles[j].dep = f}) \in Nat
      BY <1>1, NeedFinite DEF NeedOf, Needing
    <2> QED
      BY <2>1, <2>2 DEF ExtraOf, UsesOf
  <1>5. Open(f)
    BY <1>1, <1>4 DEF HandlesNow, Counted
  <1>6. /\ PlaceOf(f) \in 1..Len(handles) /\ h = handles[PlaceOf(f)] /\ h \in Handle
    BY <1>1, <1>5, PlaceFound
  <1>7. h.dep \in DepLib \cup {NULL}
    BY <1>6, HandleFields
  <1>8. /\ last_error' \in Error \cup {NULL} /\ call' \in Call \cup {NoCall}
        /\ call' = call /\ UNCHANGED StepVars
    BY <1>1 DEF Release, TypeOK, Error, StepVars
  <1>9. DOMAIN held' \subseteq Module /\ held' \in [DOMAIN held' -> Nat]
    BY <1>1 DEF Release, TypeOK
  <1>10. \A g \in Module : \E n \in Nat : /\ ExtraOf(g) = n + Same(f, g)
                                          /\ ExtraOf(g)' = n + Same(releasing', g)
    <2> TAKE g \in Module
    <2> DEFINE n == HeldOf(g) + (IF Idle THEN 0 ELSE Same(call.dep, g))
                              + (IF Idle THEN 0 ELSE Same(call.handle, g))
    <2>1. n \in Nat
      BY <1>2, SameNat
    <2>2. ExtraOf(g) = n + Same(f, g)
      BY ExtraIs
    <2>3. ExtraOf(g)' = n + Same(releasing', g)
      BY <1>2, <1>8, ExtraWillBe DEF Idle
    <2> QED
      BY <2>1, <2>2, <2>3
  <1>11. CASE h.ref = 1 /\ ~h.resident
    <2>1. handles' = Unlink(PlaceOf(f)) /\ releasing' = h.dep
      BY <1>11 DEF Release
    <2> HIDE DEF f, h
    <2>2. \A g \in Module : ExtraOf(g)' + Same(g, f) = ExtraOf(g) + Same(h.dep, g)
      <3> TAKE g \in Module
      <3>1. PICK n \in Nat : ExtraOf(g) = n + Same(f, g) /\ ExtraOf(g)' = n + Same(h.dep, g)
        BY <1>10, <2>1
      <3>2. Same(f, g) = Same(g, f) /\ Same(f, g) \in Nat /\ Same(h.dep, g) \in Nat
        BY <1>1, Different, SameNat
      <3> QED
        BY <3>1, <3>2
    <2>3. Counted' /\ HandlesOK' /\ handles' \in Seq(Handle)
      BY <1>1, <1>4, <1>5, <1>9, <1>11, <2>1, <2>2, UnlinkKeeps DEF h
    <2> QED
      BY <1>1, <1>7, <1>8, <2>1, <2>3, StepTypes, Distinct DEF HandlesNow
  <1>12. CASE ~(h.ref = 1 /\ ~h.resident)
    <2>1. handles' = [handles EXCEPT ![PlaceOf(f)].ref = @ - 1] /\ releasing' = NULL
      BY <1>12 DEF Release
    <2> HIDE DEF f, h
    <2>2. \A g \in Module : ExtraOf(g)' = ExtraOf(g) - Same(g, f)
      <3> TAKE g \in Module
      <3>1. PICK n \in Nat : ExtraOf(g) = n + Same(f, g) /\ ExtraOf(g)' = n + Same(NULL, g)
        BY <1>10, <2>1
      <3>2. Same(f, g) = Same(g, f) /\ Same(f, g) \in Nat /\ Same(NULL, g) = 0
        BY <1>1, Different
      <3> QED
        BY <3>1, <3>2
    <2>3. h.ref # 1 \/ h.resident
      BY <1>12
    <2>4. Counted' /\ HandlesOK' /\ handles' \in Seq(Handle)
      BY <1>1, <1>4, <1>5, <1>9, <2>1, <2>2, <2>3, SpendKeeps DEF h
    <2> QED
      BY <1>1, <1>8, <2>1, <2>4, StepTypes DEF HandlesNow
  <1> QED
    BY <1>11, <1>12

(***************************************************************************)
(* The attempts planned.                                                   *)
(***************************************************************************)
Attempts == [file : File, by : Loader \cup {NULL}, look : BOOLEAN]

LEMMA TryIn ==
    ASSUME NEW S, NEW f, NEW by, [file |-> f, by |-> by, look |-> FALSE] \in S
    PROVE  Try(f, by) \in Seq(S) /\ Len(Try(f, by)) = 1
           /\ Try(f, by)[1] = [file |-> f, by |-> by, look |-> FALSE]
  BY DEF Try

LEMMA WhenIn ==
    ASSUME NEW S, NEW b \in BOOLEAN, NEW s, b => s \in Seq(S)
    PROVE  When(b, s) \in Seq(S)
  BY EmptySeq DEF When

LEMMA Joined ==
    ASSUME NEW S, NEW s \in Seq(S), NEW t \in Seq(S)
    PROVE  /\ s \o t \in Seq(S) /\ Len(s \o t) = Len(s) + Len(t)
           /\ \A i \in 1..Len(s) : (s \o t)[i] = s[i]
           /\ \A i \in 1..Len(t) : (s \o t)[Len(s) + i] = t[i]
  BY ConcatProperties

LEMMA JoinedOne ==
    ASSUME NEW S, NEW s \in Seq(S), NEW t \in Seq(S), Len(t) = 1
    PROVE  /\ Len(s \o t) = Len(s) + 1 /\ (s \o t)[Len(s) + 1] = t[1]
           /\ \A i \in 1..Len(s) : (s \o t)[i] = s[i]
  <1> DEFINE n == Len(s)
             u == s \o t
  <1>1. n \in Nat /\ Len(t) = 1
    OBVIOUS
  <1>2. Len(u) = n + Len(t)
    BY ConcatProperties
  <1>3. \A i \in 1..(n + Len(t)) : u[i] = IF i <= n THEN s[i] ELSE t[i - n]
    BY ConcatProperties
  <1> HIDE DEF n, u
  <1>4. Len(u) = n + 1 /\ n + 1 \in 1..(n + Len(t)) /\ ~(n + 1 <= n) /\ (n + 1) - n = 1
    BY ONLY <1>1, <1>2
  <1>5. u[n + 1] = t[1]
    BY ONLY <1>3, <1>4
  <1>6. \A i \in 1..n : i \in 1..(n + Len(t)) /\ i <= n
    BY ONLY <1>1
  <1>7. \A i \in 1..n : u[i] = s[i]
    BY ONLY <1>3, <1>6
  <1> QED
    BY <1>4, <1>5, <1>7 DEF n, u

LEMMA ModulePlan ==
    ASSUME NEW dir \in Dir, NEW la \in La
    PROVE  LET s == find_module(dir, la) IN
           /\ s \in Seq(Attempts)
           /\ \A i \in 1..Len(s) :
                  /\ ~s[i].look
                  /\ s[i].file.dir = NoDir => la.old_name # NULL /\ s[i].file = la.old_name
           /\ la.old_name # NULL =>
                  s # <<>> /\ s[1].file = la.old_name /\ s[1].by = FindPreopen
  <1> DEFINE S == {a \in Attempts :
                      /\ ~a.look
                      /\ a.file.dir = NoDir => la.old_name # NULL /\ a.file = la.old_name}
             old == Try(la.old_name, FindPreopen)
             libdir == Try(In(la.libdir, la.dlname), NULL)
             obj == Try(In(objdir[dir], la.dlname), NULL)
             here == Try(In(dir, la.dlname), NULL)
             first == When(la.old_name # NULL, old)
             new == When(la.dlname # NULL,
                         When(la.installed /\ la.libdir # NULL, libdir)
                         \o When(~la.installed, obj) \o here)
  <1>1. /\ la.dlname \in File \cup {NULL} /\ la.libdir \in Dir \cup {NULL}
        /\ la.old_name \in File \cup {NULL} /\ la.installed \in BOOLEAN
    BY DEF La
  <1>2. FindPreopen \in Loader \cup {NULL}
    BY Distinct DEF FindPreopen
  <1>3. \A f \in File, by \in Loader \cup {NULL} :
            [file |-> f, by |-> by, look |-> FALSE] \in Attempts
    BY DEF Attempts
  <1>4. la.old_name # NULL =>
            [file |-> la.old_name, by |-> FindPreopen, look |-> FALSE] \in S
    BY <1>1, <1>2, <1>3
  <1>5. \A d \in Dir : la.dlname # NULL =>
            [file |-> In(d, la.dlname), by |-> NULL, look |-> FALSE] \in S
    <2> SUFFICES ASSUME NEW d \in Dir, la.dlname # NULL
                 PROVE  [file |-> In(d, la.dlname), by |-> NULL, look |-> FALSE] \in S
      OBVIOUS
    <2>1. la.dlname \in File /\ d # NoDir
      BY <1>1, Distinct
    <2>2. In(d, la.dlname) \in File /\ In(d, la.dlname).dir = d /\ d # NoDir
      BY <2>1, Files
    <2> DEFINE a == [file |-> In(d, la.dlname), by |-> NULL, look |-> FALSE]
    <2>3. a \in Attempts
      BY <1>3, <2>2
    <2>4. a.look = FALSE /\ a.file.dir # NoDir
      BY <2>2
    <2> HIDE DEF a
    <2>5. a \in S
      BY <2>3, <2>4
    <2> QED
      BY <2>5 DEF a
  <1>6. la.old_name # NULL =>
            old \in Seq(S) /\ Len(old) = 1 /\ old[1].file = la.old_name /\ old[1].by = FindPreopen
    BY <1>4, TryIn
  <1> HIDE DEF S
  <1>7. objdir[dir] \in Dir
    BY Distinct
  <1>8. la.dlname # NULL => obj \in Seq(S) /\ here \in Seq(S)
    BY <1>5, <1>7, TryIn
  <1>9. la.dlname # NULL /\ la.libdir # NULL => libdir \in Seq(S)
    BY <1>1, <1>5, TryIn
  <1> HIDE DEF old, obj, here, libdir
  <1>10. first \in Seq(S)
    BY <1>6, WhenIn
  <1>11. new \in Seq(S)
    <2>1. la.dlname # NULL => When(la.installed /\ la.libdir # NULL, libdir) \in Seq(S)
      BY <1>1, <1>9, WhenIn
    <2>2. la.dlname # NULL => When(~la.installed, obj) \in Seq(S)
      BY <1>1, <1>8, WhenIn
    <2>3. la.dlname # NULL =>
             When(la.installed /\ la.libdir # NULL, libdir) \o When(~la.installed, obj) \o here
                \in Seq(S)
      BY <1>8, <2>1, <2>2, Joined
    <2> QED
      BY <2>3, WhenIn
  <1>12. find_module(dir, la) = first \o new
    BY DEF find_module, old, obj, here, libdir
  <1>13. la.old_name # NULL => first = old
    BY DEF When
  <1> HIDE DEF first, new
  <1>14. find_module(dir, la) \in Seq(S)
    BY <1>10, <1>11, <1>12, Joined
  <1>15. la.old_name # NULL =>
            LET s == find_module(dir, la) IN
            s # <<>> /\ s[1].file = la.old_name /\ s[1].by = FindPreopen
    <2> SUFFICES ASSUME la.old_name # NULL
                 PROVE  LET s == find_module(dir, la) IN
                        s # <<>> /\ s[1].file = la.old_name /\ s[1].by = FindPreopen
      OBVIOUS
    <2>1. Len(first) = 1 /\ first[1].file = la.old_name /\ first[1].by = FindPreopen
      BY <1>6, <1>13
    <2>2. /\ Len(first \o new) = Len(first) + Len(new)
          /\ \A i \in 1..Len(first) : (first \o new)[i] = first[i]
      BY <1>10, <1>11, Joined
    <2>3. Len(new) \in Nat
      BY <1>11
    <2>4. (first \o new)[1] = first[1] /\ Len(first \o new) > 0
      BY ONLY <2>1, <2>2, <2>3
    <2> QED
      BY <1>12, <1>14, <2>1, <2>4
  <1>16. \A a \in S : /\ a \in Attempts /\ ~a.look
                      /\ a.file.dir = NoDir => la.old_name # NULL /\ a.file = la.old_name
    BY DEF S
  <1>17. S \subseteq Attempts
    BY <1>16
  <1> QED
    BY <1>14, <1>15, <1>16, <1>17

LEMMA FilePlan ==
    ASSUME NEW f \in File
    PROVE  LET s == find_handles(f) IN
           /\ s \in Seq(Attempts)
           /\ \A i \in 1..Len(s) :
                  /\ s[i].by = NULL /\ s[i].file.ext = f.ext /\ s[i].file.name = f.name
           /\ f.dir = NoDir =>
                  /\ Len(s) = Len(SearchDirs) + 1
                  /\ \A i \in 1..Len(s) : s[i].file = IF i <= Len(SearchDirs)
                                                      THEN In(SearchDirs[i], f) ELSE f
  <1> DEFINE S == {a \in Attempts : a.by = NULL /\ a.file.ext = f.ext /\ a.file.name = f.name}
             n == Len(SearchDirs)
             dirs == [k \in 1..n |-> [file |-> In(SearchDirs[k], f), by |-> NULL, look |-> TRUE]]
             s == find_handles(f)
  <1>1. n \in Nat /\ \A k \in 1..n : SearchDirs[k] \in Dir
    BY Distinct
  <1>2. ASSUME NEW d \in Dir \cup {NoDir}, NEW b \in BOOLEAN
        PROVE  [file |-> In(d, f), by |-> NULL, look |-> b] \in S
    <2>1. In(d, f) \in File /\ In(d, f).name = f.name /\ In(d, f).ext = f.ext
      BY Files
    <2> QED
      BY <2>1 DEF Attempts
  <1>3. \A a \in S : a \in Attempts /\ a.by = NULL /\ a.file.ext = f.ext /\ a.file.name = f.name
    OBVIOUS
  <1> HIDE DEF S
  <1>4. /\ dirs \in Seq(S) /\ Len(dirs) = n
        /\ \A k \in 1..n : dirs[k] = [file |-> In(SearchDirs[k], f), by |-> NULL, look |-> TRUE]
    <2>1. \A k \in 1..n : [file |-> In(SearchDirs[k], f), by |-> NULL, look |-> TRUE] \in S
      BY <1>1, <1>2
    <2> QED
      BY <1>1, <2>1, IsASeq
  <1>5. [file |-> f, by |-> NULL, look |-> FALSE] \in S
    <2>1. f.dir \in Dir \cup {NoDir} /\ In(f.dir, f) = f
      BY Files
    <2> QED
      BY <1>2, <2>1
  <1>6. /\ Try(f, NULL) \in Seq(S) /\ Len(Try(f, NULL)) = 1
        /\ Try(f, NULL)[1] = [file |-> f, by |-> NULL, look |-> FALSE]
    BY <1>5, TryIn
  <1>7. s = When(f.dir = NoDir, dirs) \o Try(f, NULL)
    BY DEF find_handles
  <1>8. When(f.dir = NoDir, dirs) \in Seq(S)
    BY <1>4, WhenIn
  <1>9. s \in Seq(S)
    BY <1>6, <1>7, <1>8, Joined
  <1>10. ASSUME f.dir = NoDir
         PROVE  /\ Len(s) = n + 1
                /\ \A i \in 1..Len(s) : s[i].file = IF i <= n THEN In(SearchDirs[i], f) ELSE f
    <2> DEFINE t == Try(f, NULL)
    <2>1. s = dirs \o t
      BY <1>7, <1>10 DEF When
    <2>2. t \in Seq(S) /\ Len(t) = 1 /\ dirs \in Seq(S) /\ Len(dirs) = n /\ t[1].file = f
      BY <1>4, <1>6
    <2>3. \A i \in 1..n : dirs[i].file = In(SearchDirs[i], f)
      BY <1>4
    <2> HIDE DEF s, dirs, t
    <2>4. t \in Seq(S) /\ dirs \in Seq(S) /\ Len(t) = 1
      BY <2>2
    <2>5. /\ Len(dirs \o t) = Len(dirs) + 1 /\ (dirs \o t)[Len(dirs) + 1] = t[1]
           /\ \A i \in 1..Len(dirs) : (dirs \o t)[i] = dirs[i]
      BY ONLY <2>4, JoinedOne
    <2>6. /\ Len(s) = n + 1 /\ \A i \in 1..n : s[i] = dirs[i]
          /\ s[n + 1] = t[1]
      BY <2>2, <2>1, <2>5, Zenon
    <2>7. s[n + 1].file = f
      BY <2>2, <2>6
    <2>8. \A i \in 1..n : s[i].file = In(SearchDirs[i], f)
      BY <2>3, <2>6
    <2>9. \A i \in 1..Len(s) : (i \in 1..n /\ i <= n) \/ (i = n + 1 /\ ~(i <= n))
      BY <1>1, <2>6
    <2> QED
      BY <2>6, <2>7, <2>8, <2>9
  <1> HIDE DEF s
  <1>11. S \subseteq Attempts
    BY <1>3
  <1>12. s \in Seq(Attempts)
    BY <1>9, <1>11
  <1>13. \A i \in 1..Len(s) : s[i] \in S
    BY <1>9
  <1> QED
    BY <1>3, <1>10, <1>12, <1>13 DEF s

(***************************************************************************)
(* The steps of a call.                                                    *)
(***************************************************************************)
LEMMA GoesKeeps ==
    ASSUME HandlesNow, ~Idle, Goes, UNCHANGED StepVars, call' \in Call,
           call'.dep = call.dep,
           call'.handle = call.handle \/ {call.handle, call'.handle} \subseteq {NULL, Unregistered},
           last_error' \in Error \cup {NULL}
    PROVE  HandlesNow'
  <1>1. TypeOK /\ handles' = handles /\ releasing' = releasing
    BY DEF HandlesNow, Goes
  <1>2. TypeOK' /\ DOMAIN held' \subseteq Module /\ held' \in [DOMAIN held' -> Nat]
    BY <1>1, StepTypes DEF TypeOK
  <1>3. ~Idle'
    BY CallFields DEF Idle
  <1>4. \A f \in Module : ExtraOf(f)' = ExtraOf(f)
    <2> TAKE f \in Module
    <2>1. HeldOf(f)' = HeldOf(f)
      BY DEF StepVars, HeldOf
    <2>2. ExtraOf(f) = HeldOf(f) + Same(call.dep, f) + Same(call.handle, f) + Same(releasing, f)
      BY ExtraIs
    <2>3. ExtraOf(f)' = HeldOf(f) + Same(call.dep, f) + Same(call'.handle, f) + Same(releasing, f)
      BY <1>1, <1>3, <2>1, ExtraWillBe
    <2>4. Same(call'.handle, f) = Same(call.handle, f)
      BY Different
    <2> QED
      BY <2>2, <2>3, <2>4
  <1> QED
    BY <1>1, <1>2, <1>4, CountsKept, HandlesSame DEF HandlesNow

\* What the invariant says of a call in progress.
LEMMA InCall ==
    ASSUME IInv, releasing = NULL, call.at \in Searching \cup Ended
    PROVE  /\ ~Idle /\ call \in Call /\ TypeOK /\ HandlesNow /\ CallShape
           /\ call.at \in Searching => call.handle = NULL
           /\ last_error \in Error \cup {NULL}
  BY Busy DEF IInv, CallInv, HandlesNow, TypeOK, CallShape

LEMMA OpenSelfKeeps ==
    ASSUME IInv, releasing = NULL, OpenSelf
    PROVE  HandlesNow'
  <1>1. /\ ~Idle /\ call.handle = NULL /\ HandlesNow /\ UNCHANGED StepVars
    BY InCall DEF OpenSelf, Searching
  <1>2. CASE CanOpen(Self, NULL) /\ Success(Self, NULL)
    BY <1>1, <1>2, SuccessKeeps, Distinct
  <1>3. CASE ~CanOpen(Self, NULL) /\ Fail(FailureOf(Self, NULL))
    BY <1>1, <1>3, FailKeeps, FailureIsError, Distinct DEF CanOpen, HandlesNow
  <1> QED
    BY <1>2, <1>3 DEF OpenSelf

\* The request of a call that is not for the program.
LEMMA Asks ==
    ASSUME call \in Call, call.request # Self
    PROVE  /\ call.request \in File /\ Attempted \in File
           /\ Attempted.dir = call.request.dir /\ Attempted.name = call.request.name
           /\ ArchiveOf(Attempted) \in File /\ ArchiveOf(Attempted).dir = NoDir
           /\ ArchiveOf(Attempted).name = call.request.name
  BY CallFields, AttemptedFile, Files DEF Module

LEMMA PreloadFirstKeeps ==
    ASSUME IInv, releasing = NULL, PreloadFirst
    PROVE  HandlesNow'
  <1> DEFINE f == ArchiveOf(Attempted)
             looked == Attempted.dir = NoDir /\ Preopening
  <1>1. /\ ~Idle /\ call.handle = NULL /\ HandlesNow /\ UNCHANGED StepVars
        /\ call \in Call /\ TypeOK /\ last_error \in Error \cup {NULL}
    BY InCall DEF PreloadFirst, Searching
  <1>2. /\ f \in File /\ f.name = call.request.name /\ call.request \in File /\ f \in Module
    BY <1>1, Asks, Distinct DEF PreloadFirst
  <1>3. CASE looked /\ CanOpen(f, PreopenLoader) /\ Success(f, PreopenLoader)
    BY <1>1, <1>2, <1>3, SuccessKeeps, Distinct
  <1>4. CASE /\ call' = [call EXCEPT !.at = IF PreloadOnly THEN "next" ELSE "search"]
             /\ last_error' \in IF looked THEN Refusals(f, PreopenLoader) ELSE {last_error}
             /\ Goes
    <2>1. last_error' \in Error \cup {NULL}
      BY <1>1, <1>2, <1>4, FailureIsError, Distinct DEF CanOpen, Refusals, Error
    <2>2. call' \in Call /\ call'.dep = call.dep /\ call'.handle = call.handle
      BY ONLY <1>1, <1>4 DEF Call
    <2> QED
      BY <1>1, <1>4, <2>1, <2>2, GoesKeeps
  <1> QED
    BY <1>3, <1>4 DEF PreloadFirst

LEMMA NoMemoryKeeps ==
    ASSUME IInv, releasing = NULL, NoMemory
    PROVE  HandlesNow'
  <1>1. /\ ~Idle /\ HandlesNow /\ UNCHANGED StepVars /\ Fail("NO_MEMORY")
    BY InCall DEF NoMemory, Searching
  <1>2. "NO_MEMORY" \in Error
    BY DEF Error
  <1> QED
    BY <1>1, <1>2, FailKeeps

LEMMA NoMemoryForArchiveKeeps ==
    ASSUME IInv, releasing = NULL, NoMemoryForArchive
    PROVE  HandlesNow'
  <1>1. /\ ~Idle /\ call.handle = NULL /\ HandlesNow /\ UNCHANGED StepVars /\ Goes
        /\ call \in Call
        /\ call' = [call EXCEPT !.at = "next", !.errors = TRUE, !.handle = Unregistered]
    BY InCall DEF NoMemoryForArchive, Searching
  <1>2. last_error' \in Error
    BY DEF NoMemoryForArchive, Error
  <1>3. call' \in Call /\ call'.dep = call.dep /\ call'.handle = Unregistered
    BY ONLY <1>1, ZenonT(60) DEF Call
  <1> QED
    BY <1>1, <1>2, <1>3, GoesKeeps

\* A .la file that is found is in its directory, and can be trusted if it can be parsed.
LEMMA FoundIsLa ==
    ASSUME TypeOK, NEW f \in File, f.ext = "la", FoundLa(f),
           NEW la, la = parse_dotla_file(fs.la[In(FirstDir(f), f)]), ~la.errors
    PROVE  /\ FirstDir(f) \in Dir /\ In(FirstDir(f), f) \in fs.readable
           /\ la \in La /\ la.old_name \in {NULL, ArchiveOf(f)}
           /\ f.dir = NoDir => /\ Least(Has(f)) \in Has(f)
                               /\ \A k \in Has(f) : Least(Has(f)) <= k
                               /\ FirstDir(f) = SearchDirs[Least(Has(f))]
  <1>1. Has(f) \subseteq 1..Len(SearchDirs) /\ Len(SearchDirs) \in Nat
    BY Distinct DEF Has
  <1>2. f.dir = NoDir => /\ Least(Has(f)) \in Has(f)
                         /\ \A k \in Has(f) : Least(Has(f)) <= k
                         /\ FirstDir(f) = SearchDirs[Least(Has(f))]
    <2>1. Has(f) \subseteq Nat
      BY <1>1
    <2>2. f.dir = NoDir => Has(f) # {} /\ FirstDir(f) = SearchDirs[Least(Has(f))]
      BY DEF FoundLa, FirstDir
    <2> QED
      BY <2>1, <2>2, LeastIn
  <1>3. FirstDir(f) \in Dir /\ In(FirstDir(f), f) \in fs.readable
    <2>1. CASE f.dir = NoDir
      BY <1>1, <1>2, <2>1, Distinct DEF Has
    <2>2. CASE f.dir # NoDir
      BY <2>2, Files DEF FirstDir, FoundLa
    <2> QED
      BY <2>1, <2>2
  <1>4. /\ In(FirstDir(f), f) \in File /\ In(FirstDir(f), f).ext = "la"
        /\ In(FirstDir(f), f).name = f.name
    BY <1>3, Files
  <1>5. fs \in FileSystem
    BY DEF TypeOK
  <1>6. la \in La /\ la.old_name \in {NULL, ArchiveOf(In(FirstDir(f), f))}
    BY <1>3, <1>4, <1>5, FileAssumption
  <1>7. ArchiveOf(In(FirstDir(f), f)) = ArchiveOf(f)
    BY <1>4, SameArchive
  <1> QED
    BY <1>2, <1>3, <1>6, <1>7

LEMMA ReadLaKeeps ==
    ASSUME IInv, releasing = NULL, ReadLa
    PROVE  HandlesNow'
  <1> DEFINE f == Attempted
             la == parse_dotla_file(fs.la[In(FirstDir(f), f)])
  <1>1. /\ ~Idle /\ HandlesNow /\ UNCHANGED StepVars
        /\ call \in Call /\ TypeOK /\ last_error \in Error \cup {NULL}
        /\ call.request # Self /\ f.ext = "la"
    BY InCall DEF ReadLa, Searching, CallShape, Ended
  <1>2. CASE Fail("FILE_NOT_FOUND")
    BY <1>1, <1>2, FailKeeps DEF Error
  <1>3. CASE Fail(last_error)
    BY <1>1, <1>3, FailKeeps
  <1>4. CASE /\ FoundLa(f) /\ ~la.errors
             /\ call' = [call EXCEPT !.at = "deplibs", !.dir = FirstDir(f), !.la = la]
             /\ Goes /\ last_error' = last_error
    <2>1. f \in File
      BY <1>1, Asks
    <2>2. FirstDir(f) \in Dir /\ la \in La
      BY <1>1, <1>4, <2>1, FoundIsLa
    <2> HIDE DEF f, la
    <2>3. call' \in Call /\ call'.dep = call.dep /\ call'.handle = call.handle
      BY ONLY <1>1, <1>4, <2>2 DEF Call
    <2> QED
      BY <1>1, <1>4, <2>3, GoesKeeps
  <1> QED
    BY <1>2, <1>3, <1>4 DEF ReadLa

LEMMA LoadDeplibsKeeps ==
    ASSUME IInv, releasing = NULL, LoadDeplibs
    PROVE  HandlesNow'
  <1> DEFINE d == call.la.deplibs
             h == NewHandle(d, NULL, d.name, NULL)
  <1>1. /\ ~Idle /\ HandlesNow /\ UNCHANGED StepVars
        /\ call \in Call /\ TypeOK /\ last_error \in Error \cup {NULL}
        /\ call.at = "deplibs" /\ call.handle = NULL
    BY InCall DEF LoadDeplibs, Searching
  <1>2. call.dep = NULL /\ d \in DepLib \cup {NULL}
    BY <1>1, InCall DEF LoadDeplibs, Searching, CallShape, La
  <1>3. d # NULL => d \in File /\ d \in Module
    BY <1>2, Distinct
  <1>4. CASE /\ d # NULL /\ CanOpen(d, NULL)
             /\ handles' = IF Open(d) THEN Retain(d) ELSE <<h>> \o handles
             /\ call' = [call EXCEPT !.at = "plan", !.dep = d]
             /\ UNCHANGED <<releasing, last_error>>
    <2>1. d \in DepLib
      BY <1>2, <1>4
    <2> HIDE DEF d
    <2>2. call' = [call EXCEPT !.at = "plan", !.dep = d] /\ call \in Call /\ call.handle = NULL
      BY <1>1, <1>4
    <2>3. call' \in Call /\ call'.dep = d /\ call'.handle = NULL
      BY ONLY <2>2, <2>1, ZenonT(60) DEF Call
    <2>4. ~Idle'
      BY <2>3, CallFields DEF Idle
    <2>5. /\ DOMAIN held' \subseteq Module /\ held' \in [DOMAIN held' -> Nat]
          /\ \A g \in Module : HeldOf(g)' = HeldOf(g) /\ HeldOf(g) \in Nat
      BY <1>1, HeldNat DEF StepVars, HeldOf, TypeOK
    <2>6. \A g \in Module : /\ ExtraOf(g) = HeldOf(g)
                            /\ ExtraOf(g)' = HeldOf(g) + Same(g, d)
      <3> TAKE g \in Module
      <3>1. ExtraOf(g) = HeldOf(g) + Same(NULL, g) + Same(NULL, g) + Same(NULL, g)
        BY <1>1, <1>2, ExtraIs
      <3>2. ExtraOf(g)' = HeldOf(g) + Same(d, g) + Same(NULL, g) + Same(NULL, g)
        BY <1>4, <2>3, <2>4, <2>5, ExtraWillBe
      <3>3. Same(NULL, g) = 0 /\ Same(d, g) = Same(g, d) /\ Same(d, g) \in Nat
        BY <1>3, <1>4, Different
      <3> QED
        BY <2>5, <3>1, <3>2, <3>3
    <2>7. CASE Open(d)
      <3>1. \A g \in Module : ExtraOf(g)' = ExtraOf(g) + Same(g, d)
        BY <2>6
      <3>2. Counted' /\ HandlesOK' /\ handles' \in Seq(Handle)
        BY <1>1, <1>3, <1>4, <2>5, <2>7, <3>1, RetainKeeps
      <3> QED
        BY <1>1, <1>4, <2>3, <3>2, StepTypes DEF HandlesNow
    <2>8. CASE ~Open(d)
      <3>1. Opening(d, NULL) # {}
        BY <1>4, <2>8 DEF CanOpen
      <3>2. d.name \in Name
        BY <1>3, <1>4, Files
      <3>3. h \in Handle /\ HandleOK(h) /\ h.file = d /\ h.dep = NULL /\ h.ref = 1
        BY <1>1, <1>3, <1>4, <3>1, <3>2, NewHandleFacts
      <3> HIDE DEF h
      <3>4. \A g \in Module : ExtraOf(g)' + Same(h.dep, g) = ExtraOf(g) + Same(g, h.file)
        <4> TAKE g \in Module
        <4>1. Same(h.dep, g) = 0 /\ Same(g, h.file) = Same(g, d) /\ Same(g, d) \in Nat
          BY <3>3, Different, SameNat
        <4> QED
          BY <2>5, <2>6, <4>1
      <3>5. Counted' /\ HandlesOK' /\ handles' \in Seq(Handle)
        BY <1>1, <1>4, <2>5, <2>8, <3>3, <3>4, PushKeeps
      <3> QED
        BY <1>1, <1>4, <2>3, <3>5, StepTypes DEF HandlesNow
    <2> QED
      BY <2>7, <2>8
  <1>5. CASE call' = [call EXCEPT !.at = "plan"] /\ Goes /\ last_error' \in Error \cup {NULL}
    <2>1. call' \in Call /\ call'.dep = call.dep /\ call'.handle = call.handle
      BY ONLY <1>1, <1>5 DEF Call
    <2> QED
      BY <1>1, <1>5, <2>1, GoesKeeps
  <1>6. CASE Fail("NO_MEMORY")
    BY <1>1, <1>6, FailKeeps DEF Error
  <1>7. d # NULL /\ ~CanOpen(d, NULL) => FailureOf(d, NULL) \in Error
    BY <1>1, <1>3, FailureIsError DEF CanOpen
  <1> QED
    BY <1>1, <1>4, <1>5, <1>6, <1>7 DEF LoadDeplibs, Error

LEMMA PlanModuleKeeps ==
    ASSUME IInv, releasing = NULL, PlanModule
    PROVE  HandlesNow'
  <1>1. /\ ~Idle /\ HandlesNow /\ UNCHANGED StepVars /\ Goes
        /\ call \in Call /\ last_error' \in Error \cup {NULL} /\ call.at = "plan"
        /\ call.dir \in Dir /\ call.la \in La
    BY InCall DEF PlanModule, Searching, CallShape
  <1> DEFINE s == find_module(call.dir, call.la)
  <1>2. s \in Seq(Attempts)
    BY <1>1, ModulePlan
  <1>3. call' = [call EXCEPT !.at = "attempt", !.attempts = s]
    BY DEF PlanModule
  <1> HIDE DEF s
  <1>4. call' \in Call /\ call'.dep = call.dep /\ call'.handle = call.handle
    BY ONLY <1>1, <1>2, <1>3 DEF Call, Attempts
  <1> QED
    BY <1>1, <1>4, GoesKeeps

LEMMA PlanFileKeeps ==
    ASSUME IInv, releasing = NULL, PlanFile
    PROVE  HandlesNow'
  <1>1. /\ ~Idle /\ HandlesNow /\ UNCHANGED StepVars /\ Goes
        /\ call \in Call /\ last_error' \in Error \cup {NULL} /\ call.request # Self
    BY InCall DEF PlanFile, Searching, CallShape, Ended
  <1> DEFINE s == find_handles(Attempted)
  <1>2. s \in Seq(Attempts)
    BY <1>1, Asks, FilePlan
  <1>3. call' = [call EXCEPT !.at = "attempt", !.attempts = s]
    BY DEF PlanFile
  <1> HIDE DEF s
  <1>4. call' \in Call /\ call'.dep = call.dep /\ call'.handle = call.handle
    BY ONLY <1>1, <1>2, <1>3 DEF Call, Attempts
  <1> QED
    BY <1>1, <1>4, GoesKeeps

\* The attempt that is next, and those after it.
LEMMA NextAttempt ==
    ASSUME call \in Call, call.attempts # <<>>
    PROVE  /\ Head(call.attempts) = call.attempts[1] /\ 1 \in 1..Len(call.attempts)
           /\ call.attempts[1] \in Attempts
           /\ Tail(call.attempts) \in Seq(Attempts)
           /\ Len(Tail(call.attempts)) = Len(call.attempts) - 1
           /\ \A i \in 1..Len(Tail(call.attempts)) :
                  i + 1 \in 1..Len(call.attempts) /\ Tail(call.attempts)[i] = call.attempts[i + 1]
  <1>1. call.attempts \in Seq(Attempts)
    BY CallFields DEF Attempts
  <1> HIDE DEF Attempts
  <1> QED
    BY <1>1

LEMMA NextDirKeeps ==
    ASSUME IInv, releasing = NULL, NextDir
    PROVE  HandlesNow'
  <1>1. /\ ~Idle /\ HandlesNow /\ UNCHANGED StepVars /\ Goes
        /\ call \in Call /\ last_error' \in Error \cup {NULL} /\ call.attempts # <<>>
    BY InCall DEF NextDir, Searching
  <1> DEFINE s == Tail(call.attempts)
  <1>2. s \in Seq(Attempts)
    BY <1>1, NextAttempt
  <1>3. call' = [call EXCEPT !.attempts = s]
    BY DEF NextDir
  <1> HIDE DEF s
  <1>4. call' \in Call /\ call'.dep = call.dep /\ call'.handle = call.handle
    BY ONLY <1>1, <1>2, <1>3 DEF Call, Attempts
  <1> QED
    BY <1>1, <1>4, GoesKeeps

LEMMA AttemptKeeps ==
    ASSUME IInv, releasing = NULL, Attempt
    PROVE  HandlesNow'
  <1> DEFINE f == Head(call.attempts).file
             by == Head(call.attempts).by
             s == Tail(call.attempts)
             b == CanOpen(f, by)
  <1>1. /\ ~Idle /\ HandlesNow /\ UNCHANGED StepVars /\ TypeOK /\ call.handle = NULL
        /\ call \in Call /\ call.attempts # <<>> /\ call.request # Self /\ CallInv
        /\ call.at = "attempt"
    BY InCall DEF Attempt, Searching, CallShape, Ended, IInv
  <1>2. f \in File /\ by \in Loader \cup {NULL} /\ s \in Seq(Attempts)
    BY <1>1, NextAttempt DEF Attempts
  <1>3. f.dir = NoDir => f.name = call.request.name
    BY <1>1, NextAttempt DEF CallInv, AttemptsLeft
  <1>4. call.request \in File /\ f \in Module
    BY <1>1, <1>2, CallFields, Distinct DEF Module
  <1>5. CASE CanOpen(f, by) /\ Success(f, by)
    BY <1>1, <1>2, <1>3, <1>4, <1>5, SuccessKeeps
  <1>6. CASE /\ ~Open(f) /\ Goes
             /\ last_error' \in Refusals(f, by)
             /\ call' = [call EXCEPT !.attempts = s, !.starved = @ \/ b]
    <2> DEFINE t == call.starved \/ b
    <2>1. t \in BOOLEAN
      OBVIOUS
    <2>2. call' = [call EXCEPT !.attempts = s, !.starved = t]
      BY <1>6
    <2>3. call \in Call /\ s \in Seq(Attempts)
      BY <1>1, <1>2
    <2> HIDE DEF s, b, t
    <2>4. call' \in Call /\ call'.dep = call.dep /\ call'.handle = call.handle
      BY ONLY <2>1, <2>2, <2>3 DEF Call, Attempts
    <2>5. last_error' \in Error
      <3>1. ~CanOpen(f, by) => FailureOf(f, by) \in Error
        BY <1>1, <1>2, <1>4, FailureIsError DEF CanOpen
      <3> QED
        BY <1>6, <3>1 DEF Error, Refusals
    <2> QED
      BY <1>1, <1>6, <2>4, <2>5, GoesKeeps
  <1> QED
    BY <1>5, <1>6 DEF Attempt

LEMMA NoneOpenedKeeps ==
    ASSUME IInv, releasing = NULL, NoneOpened
    PROVE  HandlesNow'
  <1>1. /\ ~Idle /\ HandlesNow /\ UNCHANGED StepVars /\ Fail(last_error)
        /\ last_error \in Error \cup {NULL}
    BY InCall DEF NoneOpened, Searching
  <1> QED
    BY <1>1, FailKeeps

LEMMA EndSearchKeeps ==
    ASSUME IInv, releasing = NULL, EndSearch
    PROVE  HandlesNow'
  <1> DEFINE g == IF call.exts = AsPassed /\ call.errors THEN NULL ELSE call.handle
  <1>1. /\ ~Idle /\ HandlesNow /\ UNCHANGED StepVars /\ Goes /\ call \in Call
        /\ last_error' \in Error \cup {NULL} /\ CallShape
    BY InCall DEF EndSearch, Ended
  <1>2. call' = [call EXCEPT !.at = "returned", !.handle = g]
    BY DEF EndSearch
  <1>3. /\ g \in Module \cup {NULL, Unregistered}
        /\ g = call.handle \/ {call.handle, g} \subseteq {NULL, Unregistered}
    BY <1>1, CallFields DEF CallShape
  <1> HIDE DEF g
  <1>4. call' \in Call /\ call'.dep = call.dep /\ call'.handle = g
    BY ONLY <1>1, <1>2, <1>3 DEF Call
  <1> QED
    BY <1>1, <1>3, <1>4, GoesKeeps

LEMMA NextExtKeeps ==
    ASSUME IInv, releasing = NULL, NextExt
    PROVE  HandlesNow'
  <1> DEFINE s == Tail(call.exts)
             e == call.entry_error
  <1>1. /\ ~Idle /\ HandlesNow /\ UNCHANGED StepVars /\ Goes /\ call \in Call
        /\ call.exts # <<>>
    BY InCall DEF NextExt, Ended, Stop, AsPassed
  <1>2. s \in Seq(LibExt) /\ e \in Error \cup {NULL} /\ <<>> \in Seq(Attempts)
    BY <1>1, CallFields, EmptySeq
  <1>3. /\ call' = [call EXCEPT !.at = "start", !.exts = s, !.errors = FALSE, !.attempts = <<>>,
                                !.dir = NoDir, !.la = Unread, !.saved_error = e]
        /\ last_error' = e
    BY DEF NextExt
  <1> HIDE DEF s, e
  <1>4. call' \in Call /\ call'.dep = call.dep /\ call'.handle = call.handle
    BY ONLY <1>1, <1>2, <1>3 DEF Call, Attempts
  <1> QED
    BY <1>1, <1>2, <1>3, <1>4, GoesKeeps

LEMMA NoExtLeftKeeps ==
    ASSUME IInv, releasing = NULL, NoExtLeft
    PROVE  HandlesNow'
  <1>1. /\ ~Idle /\ HandlesNow /\ UNCHANGED StepVars /\ Goes /\ call \in Call
        /\ call' = [call EXCEPT !.at = "returned"] /\ last_error' \in Error
    BY InCall DEF NoExtLeft, Ended, Error
  <1>2. call' \in Call /\ call'.dep = call.dep /\ call'.handle = call.handle
    BY ONLY <1>1 DEF Call
  <1> QED
    BY <1>1, <1>2, GoesKeeps

(***************************************************************************)
(* The steps of the client and of a walk.                                  *)
(***************************************************************************)
LEMMA QuietKeeps ==
    ASSUME HandlesNow, TypeOK', UNCHANGED <<handles, releasing, held>>,
           \/ call' = call
           \/ /\ Idle \/ (call.dep = NULL /\ call.handle = NULL)
              /\ Idle' \/ (call'.dep = NULL /\ call'.handle = NULL)
    PROVE  HandlesNow'
  <1>1. TypeOK
    BY DEF HandlesNow
  <1>2. \A f \in Module : ExtraOf(f)' = ExtraOf(f)
    <2> TAKE f \in Module
    <2>1. HeldOf(f)' = HeldOf(f) /\ HeldOf(f) \in Nat
      BY <1>1, HeldNat DEF HeldOf, TypeOK
    <2>2. CASE call' = call
      BY <2>1, <2>2 DEF ExtraOf, Idle
    <2>3. CASE /\ Idle \/ (call.dep = NULL /\ call.handle = NULL)
               /\ Idle' \/ (call'.dep = NULL /\ call'.handle = NULL)
      <3>1. Same(NULL, f) = 0 /\ Same(releasing, f) \in Nat
        BY Different, SameNat
      <3>2. ExtraOf(f) = HeldOf(f) + 0 + 0 + Same(releasing, f)
        BY <2>3, <3>1, ExtraIs
      <3>3. ExtraOf(f)' = HeldOf(f) + 0 + 0 + Same(releasing, f)
        BY <2>1, <2>3, <3>1, ExtraWillBe
      <3> QED
        BY <3>2, <3>3
    <2> QED
      BY <2>2, <2>3
  <1> QED
    BY <1>1, <1>2, CountsKept, HandlesSame DEF HandlesNow

LEMMA UsesFacts ==
    ASSUME TypeOK, call \in Call, held' = Uses
    PROVE  /\ DOMAIN held' \subseteq Module /\ held' \in [DOMAIN held' -> Nat]
           /\ \A g \in Module : HeldOf(g)' = HeldOf(g) + Same(call.handle, g)
           /\ \A g \in Module : HeldOf(g) \in Nat
  <1> DEFINE h == call.handle
  <1>1. DOMAIN held \subseteq Module /\ held \in [DOMAIN held -> Nat]
    BY DEF TypeOK
  <1>2. \A g : HeldOf(g) \in Nat
    BY <1>1, HeldNat
  <1>3. h \in Module \cup {NULL, Unregistered}
    BY CallFields
  <1>4. CASE h \in {NULL, Unregistered}
    <2>1. held' = held
      BY <1>4 DEF Uses
    <2>2. \A g \in Module : HeldOf(g)' = HeldOf(g) /\ Same(h, g) = 0
      BY <1>4, <2>1, Different DEF HeldOf
    <2> QED
      BY <1>1, <1>2, <2>1, <2>2
  <1>5. CASE h \in Module
    <2>1. held' = [x \in DOMAIN held \cup {h} |-> IF x = h THEN HeldOf(h) + 1 ELSE held[x]]
      BY <1>5, Distinct DEF Uses, Count
    <2> HIDE DEF h
    <2>2. DOMAIN held' = DOMAIN held \cup {h}
      BY <2>1
    <2>3. HeldOf(h) + 1 \in Nat
      BY <1>2
    <2>4. held' \in [DOMAIN held' -> Nat]
      BY <1>1, <2>1, <2>2, <2>3
    <2>5. ASSUME NEW g \in Module PROVE HeldOf(g)' = HeldOf(g) + Same(h, g)
      <3>1. CASE g = h
        <4>1. HeldOf(g)' = HeldOf(g) + 1
          BY <2>1, <2>2, <3>1 DEF HeldOf
        <4> QED
          BY <3>1, <4>1 DEF Same
      <3>2. CASE g # h
        <4>1. HeldOf(g)' = HeldOf(g)
          BY <2>1, <2>2, <3>2 DEF HeldOf
        <4>2. Same(h, g) = 0
          BY <3>2 DEF Same
        <4> QED
          BY <1>2, <4>1, <4>2
      <3> QED
        BY <3>1, <3>2
    <2> QED
      BY <1>1, <1>2, <1>5, <2>2, <2>4, <2>5 DEF h
  <1> QED
    BY <1>3, <1>4, <1>5

\* The client gets the handle: the call's use of it is now the client's.
LEMMA HandOver ==
    ASSUME IInv, releasing = NULL, call.at = "returned", held' = Uses, call' = NoCall,
           UNCHANGED <<handles, releasing>>, TypeOK'
    PROVE  HandlesNow'
  <1>1. TypeOK /\ HandlesNow /\ ~Idle /\ call \in Call /\ call.dep = NULL
    BY InCall DEF Ended, CallShape
  <1>2. /\ \A g \in Module : HeldOf(g)' = HeldOf(g) + Same(call.handle, g)
        /\ \A g \in Module : HeldOf(g) \in Nat
    BY <1>1, UsesFacts
  <1>3. \A f \in Module : ExtraOf(f)' = ExtraOf(f)
    <2> TAKE f \in Module
    <2>1. Same(NULL, f) = 0 /\ Same(call.handle, f) \in Nat
      BY Different, SameNat
    <2>2. ExtraOf(f) = HeldOf(f) + 0 + Same(call.handle, f) + 0
      BY <1>1, <2>1, ExtraIs
    <2>3. ExtraOf(f)' = HeldOf(f)' + 0 + 0 + 0
      BY <2>1, ExtraWillBe DEF Idle
    <2> QED
      BY <1>2, <2>1, <2>2, <2>3
  <1> QED
    BY <1>1, <1>3, CountsKept, HandlesSame DEF HandlesNow

LEMMA ReturnKeeps ==
    ASSUME IInv, releasing = NULL, Return
    PROVE  HandlesNow'
  <1>1. TypeOK /\ call \in Call
    BY InCall DEF Return, Ended
  <1>2. DOMAIN held' \subseteq Module /\ held' \in [DOMAIN held' -> Nat]
    BY <1>1, UsesFacts DEF Return
  <1>3. TypeOK'
    BY <1>1, <1>2 DEF Return, TypeOK, preopenVars
  <1> QED
    BY <1>3, HandOver DEF Return

LEMMA AddSymlist ==
    ASSUME NEW chain \in Seq(SymList), NEW l \in SymList
    PROVE  LET t == add_symlist(chain, l) IN
           /\ t \in Seq(SymList)
           /\ t = chain \/ (/\ t = <<l>> \o chain /\ Len(t) = Len(chain) + 1 /\ t[1] = l
                            /\ \A j \in 1..Len(chain) : t[j + 1] = chain[j]
                            /\ \A j \in 1..Len(chain) : chain[j] # l)
           /\ \A j \in 1..Len(chain) : \E k \in 1..Len(t) : t[k] = chain[j]
  <1> DEFINE t == add_symlist(chain, l)
  <1>1. CASE \E k \in 1..Len(chain) : chain[k] = l
    <2>1. t = chain
      BY <1>1 DEF add_symlist
    <2> QED
      BY <2>1
  <1>2. CASE ~ \E k \in 1..Len(chain) : chain[k] = l
    <2>1. t = <<l>> \o chain
      BY <1>2 DEF add_symlist
    <2>2. /\ t \in Seq(SymList) /\ Len(t) = Len(chain) + 1 /\ t[1] = l
          /\ \A j \in 1..Len(chain) : t[j + 1] = chain[j]
      BY <2>1
    <2> HIDE DEF t
    <2>3. \A j \in 1..Len(chain) : j + 1 \in 1..Len(t)
      BY <2>2
    <2> QED
      BY <1>2, <2>1, <2>2, <2>3 DEF t
  <1> QED
    BY <1>1, <1>2

\* The chain with a list more, or reverted to the default.
LEMMA ChainTypes ==
    ASSUME TypeOK
    PROVE  /\ \A memory \in BOOLEAN : DefaultChain(memory) \in Seq(SymList)
           /\ \A memory \in BOOLEAN, l \in PreloadList \cup {NULL} :
                  lt_dlpreload(l, memory) => preloaded_symlists' \in Seq(SymList)
  <1>1. /\ preloaded_symlists \in Seq(SymList) /\ <<>> \in Seq(SymList)
        /\ default_preloaded_symbols \in SymList \cup {NULL}
    BY EmptySeq DEF TypeOK
  <1>2. \A memory \in BOOLEAN : DefaultChain(memory) \in Seq(SymList)
    <2>1. default_preloaded_symbols # NULL =>
              add_symlist(<<>>, default_preloaded_symbols) \in Seq(SymList)
      BY <1>1, AddSymlist
    <2> QED
      BY <1>1, <2>1 DEF DefaultChain
  <1>3. \A l \in PreloadList : add_symlist(preloaded_symlists, l) \in Seq(SymList)
    BY <1>1, NameAssumption, AddSymlist
  <1> QED
    BY <1>1, <1>2, <1>3 DEF lt_dlpreload

LEMMA WalkCallbackKeeps ==
    ASSUME IInv, releasing = NULL, WalkCallback
    PROVE  HandlesNow'
  <1>1. TypeOK /\ call \in Call /\ walk \in Walk
    BY InCall DEF WalkCallback, Ended, Walking, TypeOK, NoWalk
  <1>2. DOMAIN held' \subseteq Module /\ held' \in [DOMAIN held' -> Nat]
    BY <1>1, UsesFacts DEF WalkCallback
  <1>3. walk' \in Walk
    <2>1. \A b \in BOOLEAN : [walk EXCEPT !.errors = b] \in Walk
      BY ONLY <1>1 DEF Walk
    <2>2. (walk.errors \/ call.handle = NULL) \in BOOLEAN
      OBVIOUS
    <2> QED
      BY <1>1, <2>1, <2>2 DEF WalkCallback
  <1>4. /\ preloaded_symlists' \in Seq(SymList)
        /\ default_preloaded_symbols' = default_preloaded_symbols
    <2>1. CASE UNCHANGED preopenVars
      BY <1>1, <2>1 DEF preopenVars, TypeOK
    <2>2. CASE \E l \in PreloadList : lt_dlpreload(l, TRUE)
      BY <1>1, <2>2, ChainTypes DEF lt_dlpreload
    <2> QED
      BY <2>1, <2>2 DEF WalkCallback
  <1>5. TypeOK'
    BY <1>1, <1>2, <1>3, <1>4 DEF WalkCallback, TypeOK
  <1> QED
    BY <1>5, HandOver DEF WalkCallback

LEMMA BeginTypes ==
    ASSUME TypeOK, NEW f \in Module, NEW adv \in Hints \cup {NULL}, BeginCall(f, adv)
    PROVE  call' \in Call /\ call'.dep = NULL /\ call'.handle = NULL
  <1> DEFINE exts == IF f = Self \/ adv = NULL THEN AsPassed
                     ELSE IF ~adv.try_ext \/ has_library_ext(f) THEN AsPassed ELSE LibExts
  <1>1. exts \in Seq(LibExt)
    BY Distinct, EmptySeq DEF AsPassed
  <1>2. last_error \in Error \cup {NULL} /\ <<>> \in Seq(Attempts)
    BY EmptySeq DEF TypeOK
  <1>3. call' = [at |-> "start", request |-> f, advice |-> adv, exts |-> exts,
                 dir |-> NoDir, la |-> Unread, attempts |-> <<>>, dep |-> NULL,
                 errors |-> FALSE, handle |-> NULL,
                 entry_error |-> last_error, saved_error |-> last_error, starved |-> FALSE]
    BY DEF BeginCall
  <1> HIDE DEF exts
  <1> QED
    BY ONLY <1>1, <1>2, <1>3, f \in Module, adv \in Hints \cup {NULL} DEF Call, Attempts

LEMMA OpenAdviseKeeps ==
    ASSUME IInv, releasing = NULL, NEW f \in Request, NEW adv \in Hints, lt_dlopenadvise(f, adv)
    PROVE  HandlesNow'
  <1>1. TypeOK /\ HandlesNow /\ f \in Module
    BY NameAssumption DEF IInv, HandlesNow, Module
  <1>2. CASE BeginCall(f, adv) /\ UNCHANGED last_error
    <2>1. call' \in Call /\ call'.dep = NULL /\ call'.handle = NULL
      BY <1>1, <1>2, BeginTypes
    <2>2. TypeOK'
      BY <1>1, <1>2, <2>1 DEF lt_dlopenadvise, TypeOK, preopenVars
    <2> QED
      BY <1>1, <2>1, <2>2, QuietKeeps DEF lt_dlopenadvise
  <1>3. CASE last_error' = "CONFLICTING_FLAGS" /\ UNCHANGED call
    <2>1. TypeOK'
      BY <1>1, <1>3 DEF lt_dlopenadvise, TypeOK, preopenVars, Error
    <2> QED
      BY <1>1, <1>3, <2>1, QuietKeeps DEF lt_dlopenadvise
  <1> QED
    BY <1>2, <1>3 DEF lt_dlopenadvise

\* The modules past a place of a list, and those promised.
LEMMA PastModules ==
    ASSUME NEW l \in SymList, NEW k \in Nat \ {0}, NEW o
    PROVE  /\ ModulesPast(l, k, o) \subseteq Nat \ {0}
           /\ \A i \in ModulesPast(l, k, o) :
                  /\ i \in 2..Len(Entries[l]) /\ i > k /\ IsModule(Entries[l][i])
                  /\ Entries[l][i].name \in File
                  /\ Entries[l][i].name = ArchiveOf(Entries[l][i].name)
  <1>1. \A i \in (k + 1)..Len(Entries[l]) : i \in 2..Len(Entries[l]) /\ i > k
    BY EntriesAssumption
  <1>2. \A i \in 2..Len(Entries[l]) : i \in Nat \ {0}
    BY EntriesAssumption
  <1> QED
    BY <1>1, <1>2, ModuleEntry DEF ModulesPast

LEMMA PromisedFiles ==
    ASSUME TypeOK, NEW o
    PROVE  Promised(o) \subseteq File
  <1>1. \A j \in 1..Len(preloaded_symlists) : preloaded_symlists[j] \in SymList
    BY DEF TypeOK
  <1>2. \A l \in SymList : \A i \in ModulesPast(l, 1, o) : Entries[l][i].name \in File
    BY PastModules
  <1> QED
    BY <1>1, <1>2 DEF Promised

LEMMA PreloadOpenKeeps ==
    ASSUME IInv, releasing = NULL, NEW o \in Originator, lt_dlpreload_open(o)
    PROVE  HandlesNow'
  <1>1. TypeOK /\ HandlesNow
    BY DEF IInv, HandlesNow
  <1>2. walk' \in Walk \cup {NoWalk}
    <2>1. CASE UNCHANGED walk
      BY <1>1, <2>1 DEF TypeOK
    <2>2. CASE walk' = [at |-> "list", from |-> o, lists |-> preloaded_symlists,
                        idx |-> FirstEntry, errors |-> FALSE, promised |-> Promised(o)]
      <3>1. Promised(o) \in SUBSET File /\ preloaded_symlists \in Seq(SymList)
        BY <1>1, PromisedFiles DEF TypeOK
      <3> QED
        BY ONLY <2>2, <3>1, o \in Originator DEF Walk, FirstEntry
    <2> QED
      BY <2>1, <2>2 DEF lt_dlpreload_open
  <1>3. last_error' \in Error \cup {NULL}
    BY <1>1 DEF lt_dlpreload_open, TypeOK, Error
  <1>4. TypeOK'
    BY <1>1, <1>2, <1>3 DEF lt_dlpreload_open, TypeOK, preopenVars
  <1> QED
    BY <1>1, <1>4, QuietKeeps DEF lt_dlpreload_open

\* The next module of a walk.
LEMMA LeftFacts ==
    ASSUME TypeOK, Walking, walk.lists # <<>>
    PROVE  /\ walk \in Walk /\ Head(walk.lists) \in SymList /\ walk.idx \in Nat \ {0}
           /\ Left # {} =>
                  LET i == Least(Left) IN
                  /\ i \in Left /\ i \in Nat \ {0} /\ i > walk.idx /\ \A k \in Left : i <= k
                  /\ Entries[Head(walk.lists)][i].name \in File
                  /\ Entries[Head(walk.lists)][i].name
                         = ArchiveOf(Entries[Head(walk.lists)][i].name)
  <1>1. walk \in Walk
    BY DEF TypeOK, Walking, NoWalk
  <1>2. Head(walk.lists) \in SymList /\ walk.idx \in Nat \ {0}
    BY <1>1 DEF Walk
  <1>3. /\ Left \subseteq Nat \ {0}
        /\ \A i \in Left : /\ i > walk.idx
                           /\ Entries[Head(walk.lists)][i].name \in File
                           /\ Entries[Head(walk.lists)][i].name
                                  = ArchiveOf(Entries[Head(walk.lists)][i].name)
    BY <1>2, PastModules DEF Left
  <1>4. Left # {} => Least(Left) \in Left /\ \A k \in Left : Least(Left) <= k
    <2>1. Left \subseteq Nat
      BY <1>3
    <2> QED
      BY <2>1, LeastIn
  <1> HIDE DEF Left
  <1> QED
    BY <1>1, <1>2, <1>3, <1>4

LEMMA WalkOpenKeeps ==
    ASSUME IInv, releasing = NULL, WalkOpen
    PROVE  HandlesNow'
  <1> DEFINE f == Entries[Head(walk.lists)][Least(Left)].name
             i == Least(Left)
  <1>1. TypeOK /\ HandlesNow
    BY DEF IInv, HandlesNow
  <1>2. walk \in Walk /\ f \in Module /\ i \in Nat \ {0}
    BY <1>1, LeftFacts, Distinct DEF WalkOpen
  <1>3. walk' = [walk EXCEPT !.idx = i] /\ BeginCall(f, NULL)
    BY DEF WalkOpen
  <1> HIDE DEF f, i
  <1>4. walk' \in Walk
    BY ONLY <1>2, <1>3 DEF Walk
  <1>5. call' \in Call /\ call'.dep = NULL /\ call'.handle = NULL
    BY <1>1, <1>2, <1>3, BeginTypes
  <1>6. TypeOK'
    BY <1>1, <1>4, <1>5 DEF WalkOpen, TypeOK, preopenVars
  <1> QED
    BY <1>1, <1>5, <1>6, QuietKeeps DEF WalkOpen

LEMMA WalkListKeeps ==
    ASSUME IInv, releasing = NULL, WalkList
    PROVE  HandlesNow'
  <1>1. TypeOK /\ HandlesNow
    BY DEF IInv, HandlesNow
  <1>2. walk \in Walk /\ walk.lists # <<>>
    BY <1>1, LeftFacts DEF WalkList
  <1> DEFINE t == Tail(walk.lists)
  <1>3. t \in Seq(SymList)
    BY <1>2 DEF Walk
  <1>4. walk' = [walk EXCEPT !.lists = t, !.idx = 1]
    BY DEF WalkList, FirstEntry
  <1>5. walk \in Walk /\ 1 \in Nat \ {0}
    BY <1>2
  <1> HIDE DEF t
  <1>6. walk' \in Walk
    BY ONLY <1>3, <1>4, <1>5 DEF Walk
  <1>7. TypeOK'
    BY <1>1, <1>6 DEF WalkList, TypeOK, preopenVars
  <1> QED
    BY <1>1, <1>7, QuietKeeps DEF WalkList

LEMMA WalkEndKeeps ==
    ASSUME IInv, releasing = NULL, WalkEnd
    PROVE  HandlesNow'
  <1>1. TypeOK /\ HandlesNow
    BY DEF IInv, HandlesNow
  <1>2. TypeOK'
    BY <1>1 DEF WalkEnd, TypeOK, preopenVars
  <1> QED
    BY <1>1, <1>2, QuietKeeps DEF WalkEnd

LEMMA PreloadKeeps ==
    ASSUME IInv, releasing = NULL, Preload \/ PreloadDefault \/ Restart
    PROVE  HandlesNow'
  <1>1. TypeOK /\ HandlesNow
    BY DEF IInv, HandlesNow
  <1>2. /\ preloaded_symlists' \in Seq(SymList)
        /\ default_preloaded_symbols' \in SymList \cup {NULL}
    <2>1. CASE Preload
      BY <1>1, <2>1, ChainTypes DEF Preload, lt_dlpreload, TypeOK
    <2>2. CASE PreloadDefault
      BY <1>1, <2>2, NameAssumption DEF PreloadDefault, lt_dlpreload_default, TypeOK
    <2>3. CASE Restart
      <3>1. DefaultChain(TRUE) \in Seq(SymList)
        BY <1>1, ChainTypes
      <3> QED
        BY <1>1, <2>3, <3>1 DEF Restart, vl_exit_init, TypeOK
    <2> QED
      BY <2>1, <2>2, <2>3
  <1>3. /\ UNCHANGED <<fs, loaders, handles, releasing, call, walk, held>>
        /\ last_error' \in Error \cup {NULL}
    <2>1. CASE Preload
      BY <1>1, <2>1 DEF Preload, TypeOK, Error
    <2>2. CASE PreloadDefault
      BY <1>1, <2>2 DEF PreloadDefault, TypeOK
    <2>3. CASE Restart
      BY <1>1, <2>3 DEF Restart, TypeOK
    <2> QED
      BY <2>1, <2>2, <2>3
  <1>4. TypeOK'
    BY <1>1, <1>2, <1>3 DEF TypeOK
  <1> QED
    BY <1>1, <1>3, <1>4, QuietKeeps

LEMMA CloseKeeps ==
    ASSUME IInv, releasing = NULL, NEW h \in Handle, Close(h)
    PROVE  HandlesNow'
  <1> DEFINE f == h.file
  <1>1. TypeOK /\ HandlesNow /\ Idle /\ Idle' /\ f \in Module /\ f \in DOMAIN held
    BY HandleFields DEF IInv, HandlesNow, Close, Quiet, Idle, HeldOf
  <1>2. DOMAIN held \subseteq Module /\ held \in [DOMAIN held -> Nat] /\ held[f] > 0
    BY <1>1 DEF TypeOK, Close, HeldOf
  <1>3. held' = [held EXCEPT ![f] = held[f] - 1] /\ releasing' = f /\ handles' = handles
    BY DEF Close
  <1> HIDE DEF f
  <1>4. held[f] \in Nat /\ held[f] - 1 \in Nat
    BY <1>1, <1>2
  <1>5. DOMAIN held' = DOMAIN held /\ held' \in [DOMAIN held' -> Nat]
    BY <1>1, <1>2, <1>3, <1>4
  <1>6. TypeOK'
    BY <1>1, <1>2, <1>3, <1>5 DEF Close, TypeOK, preopenVars
  <1>7. \A g \in Module : HeldOf(g) = HeldOf(g)' + Same(f, g) /\ HeldOf(g)' \in Nat
    <2> TAKE g \in Module
    <2>1. HeldOf(g)' \in Nat
      BY <1>2, <1>5 DEF HeldOf
    <2>2. CASE g = f
      <3>1. HeldOf(g) = held[f] /\ HeldOf(g)' = held[f] - 1
        BY <1>1, <1>2, <1>3, <1>5, <2>2 DEF HeldOf
      <3>2. Same(f, g) = 1
        BY <2>2 DEF Same
      <3> QED
        BY <1>4, <3>1, <3>2
    <2>3. CASE g # f
      <3>1. HeldOf(g) = HeldOf(g)'
        BY <1>2, <1>3, <1>5, <2>3 DEF HeldOf
      <3>2. Same(f, g) = 0
        BY <2>3 DEF Same
      <3> QED
        BY <2>1, <3>1, <3>2
    <2> QED
      BY <2>1, <2>2, <2>3
  <1>8. \A g \in Module : ExtraOf(g)' = ExtraOf(g)
    <2> TAKE g \in Module
    <2>1. ExtraOf(g) = HeldOf(g) + 0 + 0 + Same(NULL, g)
      BY <1>1, ExtraIs
    <2>2. ExtraOf(g)' = HeldOf(g)' + 0 + 0 + Same(f, g)
      BY <1>1, <1>3, ExtraWillBe
    <2>3. Same(NULL, g) = 0 /\ Same(f, g) \in Nat
      BY Different, SameNat
    <2> QED
      BY <1>7, <2>1, <2>2, <2>3
  <1> QED
    BY <1>1, <1>3, <1>6, <1>8, CountsKept, HandlesSame DEF HandlesNow

LEMMA SymKeeps ==
    ASSUME IInv, NEW h, NEW s, Sym(h, s) \/ lt_dlerror
    PROVE  HandlesNow'
  <1>1. TypeOK /\ HandlesNow
    BY DEF IInv, HandlesNow
  <1>2. /\ UNCHANGED <<preopenVars, fs, loaders, handles, releasing, call, walk, held, calls>>
        /\ last_error' \in Error \cup {NULL}
    BY <1>1 DEF Sym, lt_dlerror, TypeOK, Error
  <1>3. TypeOK'
    BY <1>1, <1>2 DEF TypeOK, preopenVars
  <1> QED
    BY <1>1, <1>2, <1>3, QuietKeeps

LEMMA NextKeeps ==
    ASSUME IInv, [Next]_vars
    PROVE  HandlesNow'
  <1>1. HandlesNow /\ TypeOK
    BY DEF IInv, HandlesNow
  <1>2. CASE UNCHANGED vars
    <2>1. TypeOK'
      BY <1>1, <1>2 DEF vars, preopenVars, TypeOK
    <2> QED
      BY <1>1, <1>2, <2>1, QuietKeeps DEF vars
  <1>3. CASE Release
    BY <1>1, <1>3, ReleaseKeeps
  <1>4. CASE releasing = NULL /\ Step
    BY <1>4, OpenSelfKeeps, PreloadFirstKeeps, NoMemoryKeeps, NoMemoryForArchiveKeeps,
       ReadLaKeeps, LoadDeplibsKeeps, PlanModuleKeeps, PlanFileKeeps, NextDirKeeps, AttemptKeeps,
       NoneOpenedKeeps, EndSearchKeeps, NextExtKeeps, NoExtLeftKeeps, ReturnKeeps, WalkOpenKeeps,
       WalkListKeeps, WalkCallbackKeeps, WalkEndKeeps DEF Step
  <1>5. CASE releasing = NULL /\ Client
    <2>1. \A k \in 1..Len(handles) : handles[k] \in Handle
      BY <1>1 DEF TypeOK
    <2> QED
      BY <1>5, <2>1, OpenAdviseKeeps, PreloadOpenKeeps, PreloadKeeps, CloseKeeps, SymKeeps
         DEF Client
  <1> QED
    BY <1>2, <1>3, <1>4, <1>5 DEF Next

(***************************************************************************)
(* Each step keeps what a call has right.                                  *)
(***************************************************************************)
\* The parts of a call that most of its steps leave alone.
SameCall == /\ call'.request = call.request /\ call'.exts = call.exts
            /\ call'.advice = call.advice /\ call'.entry_error = call.entry_error
            /\ call'.saved_error = call.saved_error

LEMMA SameSearch ==
    ASSUME UNCHANGED <<fs, loaders, preloaded_symlists>>, SameCall
    PROVE  /\ Attempted' = Attempted /\ (PreloadOnly' <=> PreloadOnly)
           /\ (Preopening' <=> Preopening)
           /\ \A f : Loads(f)' <=> Loads(f)
           /\ \A f : vm_open(f)' = vm_open(f)
  <1>1. Attempted' = Attempted /\ (PreloadOnly' <=> PreloadOnly)
    BY DEF SameCall, Attempted, PreloadOnly
  <1>2. (Preopening' <=> Preopening) /\ \A f : Loads(f)' <=> Loads(f)
    BY DEF Preopening, Loads
  <1>3. \A f : vm_open(f)' = vm_open(f)
    BY DEF vm_open, Offers, HeaderOf
  <1> QED
    BY <1>1, <1>2, <1>3

LEMMA FailFields ==
    ASSUME call \in Call, NEW error, Fail(error)
    PROVE  /\ SameCall /\ call'.at = "next" /\ call'.errors = TRUE /\ call'.dep = NULL
           /\ call'.handle = call.handle /\ call'.dir = call.dir /\ call'.la = call.la
           /\ releasing' = call.dep /\ call.dep \in DepLib \cup {NULL}
  <1>1. call' = [call EXCEPT !.at = "next", !.errors = TRUE, !.dep = NULL] /\ call \in Call
    BY DEF Fail
  <1>2. releasing' = call.dep
    BY DEF Fail
  <1> QED
    BY ONLY <1>1, <1>2 DEF Call, SameCall

LEMMA FailRight ==
    ASSUME IInv, releasing = NULL, call.at \in Searching, UNCHANGED StepVars, NEW error, Fail(error)
    PROVE  CallInv'
  <1>1. /\ call \in Call /\ CallShape /\ call.handle = NULL /\ ~Idle
        /\ (call.request # Self => LaFromFirst)
    BY InCall DEF IInv, CallInv
  <1>2. /\ SameCall /\ call'.at = "next" /\ call'.errors = TRUE /\ call'.dep = NULL
        /\ call'.handle = call.handle /\ call'.dir = call.dir /\ call'.la = call.la
        /\ releasing' = call.dep /\ call.dep \in DepLib \cup {NULL}
    BY <1>1, FailFields
  <1>3. /\ Attempted' = Attempted /\ (PreloadOnly' <=> PreloadOnly)
    BY <1>2, SameSearch DEF StepVars, preopenVars
  <1>4. CallShape'
    BY <1>1, <1>2, <1>3, Distinct DEF CallShape, SameCall, Searching, Ended
  <1>5. call'.request # Self => LaFromFirst'
    BY <1>1, <1>2, <1>3 DEF LaFromFirst, SameCall, StepVars
  <1>6. call'.handle \notin File
    BY <1>1, <1>2, Distinct
  <1> QED
    BY <1>2, <1>4, <1>5, <1>6 DEF CallInv

LEMMA SuccessFields ==
    ASSUME call \in Call, NEW f, NEW by, Success(f, by)
    PROVE  /\ SameCall /\ call'.at = "next" /\ call'.errors = call.errors /\ call'.dep = NULL
           /\ call'.handle = f /\ call'.dir = call.dir /\ call'.la = call.la
           /\ call'.starved = call.starved
           /\ releasing' \in {NULL, call.dep} /\ call.dep \in DepLib \cup {NULL}
           /\ last_error' = call.saved_error
  <1>1. call' = [call EXCEPT !.at = "next", !.handle = f, !.dep = NULL] /\ call \in Call
    BY DEF Success
  <1>2. releasing' \in {NULL, call.dep} /\ last_error' = call.saved_error
    BY DEF Success, Shared, ErrorBefore
  <1> QED
    BY ONLY <1>1, <1>2 DEF Call, SameCall

\* A success is right if what it opens is the file it should be.
LEMMA SuccessRight ==
    ASSUME IInv, releasing = NULL, call.at \in Searching, UNCHANGED StepVars,
           NEW f \in Module, NEW by, Success(f, by), f = Self <=> call.request = Self,
           f \in File => OpenedRight'
    PROVE  CallInv'
  <1>1. /\ call \in Call /\ CallShape /\ call.handle = NULL /\ ~call.errors
        /\ (call.request # Self => LaFromFirst)
    BY InCall DEF IInv, CallInv, CallShape
  <1>2. /\ SameCall /\ call'.at = "next" /\ call'.errors = call.errors /\ call'.dep = NULL
        /\ call'.handle = f /\ call'.dir = call.dir /\ call'.la = call.la
        /\ releasing' \in {NULL, call.dep} /\ call.dep \in DepLib \cup {NULL}
        /\ last_error' = call.saved_error
    BY <1>1, SuccessFields
  <1>3. /\ Attempted' = Attempted /\ (PreloadOnly' <=> PreloadOnly)
    BY <1>2, SameSearch DEF StepVars, preopenVars
  <1>4. CallShape'
    BY <1>1, <1>2, <1>3, Distinct DEF CallShape, SameCall, Searching, Ended
  <1>5. call'.request # Self => LaFromFirst'
    BY <1>1, <1>2, <1>3 DEF LaFromFirst, SameCall, StepVars
  <1> QED
    BY <1>2, <1>4, <1>5 DEF CallInv

LEMMA OpenSelfRight ==
    ASSUME IInv, releasing = NULL, OpenSelf
    PROVE  CallInv'
  <1>1. call.at \in Searching /\ UNCHANGED StepVars /\ call.request = Self
    BY DEF OpenSelf, Searching
  <1>2. CASE Success(Self, NULL)
    BY <1>1, <1>2, SuccessRight, Distinct
  <1>3. CASE Fail(FailureOf(Self, NULL))
    BY <1>1, <1>3, FailRight
  <1> QED
    BY <1>2, <1>3 DEF OpenSelf

LEMMA PreloadFirstRight ==
    ASSUME IInv, releasing = NULL, PreloadFirst
    PROVE  CallInv'
  <1> DEFINE f == ArchiveOf(Attempted)
             at == IF PreloadOnly THEN "next" ELSE "search"
  <1>1. /\ call.at \in Searching /\ UNCHANGED StepVars /\ call.request # Self /\ call.at = "start"
        /\ call \in Call /\ CallShape /\ call.handle = NULL /\ ~call.errors /\ LaFromFirst
        /\ call.dir = NoDir /\ call.la = Unread /\ call.dep = NULL
    BY InCall DEF PreloadFirst, Searching, IInv, CallInv, CallShape
  <1>2. f \in File /\ f \in Module
    BY <1>1, Asks, Distinct
  <1>3. CASE Success(f, PreopenLoader)
    <2>1. /\ SameCall /\ call'.handle = f /\ call'.la = Unread
      BY <1>1, <1>3, SuccessFields
    <2>2. Attempted' = Attempted /\ ArchiveOf(Attempted)' = f
      BY <1>1, <2>1, SameSearch DEF StepVars, preopenVars, ArchiveOf
    <2>3. Unread.old_name = NULL
      BY DEF Unread
    <2>4. OpenedRight'
      BY <2>1, <2>2, <2>3 DEF OpenedRight
    <2> QED
      BY <1>1, <1>2, <1>3, <2>4, SuccessRight, Distinct
  <1>4. CASE call' = [call EXCEPT !.at = at] /\ Goes
    <2>1. at \in {"next", "search"} /\ (at = "search" => ~PreloadOnly)
      OBVIOUS
    <2> HIDE DEF at
    <2>2. /\ SameCall /\ call'.at = at /\ call'.errors = call.errors /\ call'.dep = call.dep
          /\ call'.handle = call.handle /\ call'.dir = call.dir /\ call'.la = call.la
      BY ONLY <1>1, <1>4 DEF Call, SameCall
    <2>3. /\ Attempted' = Attempted /\ (PreloadOnly' <=> PreloadOnly) /\ releasing' = releasing
      BY <1>1, <1>4, <2>2, SameSearch DEF StepVars, preopenVars, Goes
    <2>4. CallShape'
      BY <1>1, <2>1, <2>2, <2>3, Distinct DEF CallShape, SameCall, Searching, Ended
    <2>5. LaFromFirst'
      BY <1>1, <2>2, <2>3 DEF LaFromFirst, SameCall, StepVars
    <2>6. call'.handle \notin File /\ call'.at # "attempt"
      BY <1>1, <2>1, <2>2, Distinct
    <2> QED
      BY <2>4, <2>5, <2>6 DEF CallInv
  <1> QED
    BY <1>3, <1>4 DEF PreloadFirst

LEMMA NoMemoryForArchiveRight ==
    ASSUME IInv, releasing = NULL, NoMemoryForArchive
    PROVE  CallInv'
  <1>1. /\ UNCHANGED StepVars /\ call.request # Self /\ call.at = "start" /\ Goes
        /\ call \in Call /\ CallShape /\ LaFromFirst /\ call.dep = NULL
        /\ call' = [call EXCEPT !.at = "next", !.errors = TRUE, !.handle = Unregistered]
    BY InCall DEF NoMemoryForArchive, Searching, IInv, CallInv, CallShape
  <1>2. /\ SameCall /\ call'.at = "next" /\ call'.errors = TRUE /\ call'.dep = call.dep
        /\ call'.handle = Unregistered /\ call'.dir = call.dir /\ call'.la = call.la
    BY ONLY <1>1 DEF Call, SameCall
  <1>3. /\ Attempted' = Attempted /\ (PreloadOnly' <=> PreloadOnly) /\ releasing' = releasing
    BY <1>1, <1>2, SameSearch DEF StepVars, preopenVars, Goes
  <1>4. CallShape'
    BY <1>1, <1>2, <1>3, Distinct DEF CallShape, SameCall, Searching, Ended
  <1>5. LaFromFirst'
    BY <1>1, <1>2, <1>3 DEF LaFromFirst, SameCall, StepVars
  <1>6. call'.handle \notin File
    BY <1>2, Distinct
  <1> QED
    BY <1>2, <1>4, <1>5, <1>6 DEF CallInv

LEMMA NoMemoryRight ==
    ASSUME IInv, releasing = NULL, NoMemory \/ NoneOpened
    PROVE  CallInv'
  BY FailRight DEF NoMemory, NoneOpened, Searching

LEMMA ReadLaRight ==
    ASSUME IInv, releasing = NULL, ReadLa
    PROVE  CallInv'
  <1> DEFINE f == Attempted
             la == parse_dotla_file(fs.la[In(FirstDir(f), f)])
  <1>1. /\ call.at \in Searching /\ UNCHANGED StepVars /\ call.request # Self /\ f.ext = "la"
        /\ call \in Call /\ CallShape /\ call.handle = NULL /\ TypeOK
        /\ call.at = "search" /\ call.dep = NULL /\ ~PreloadOnly
    BY InCall DEF ReadLa, Searching, CallShape, Ended
  <1>2. CASE Fail("FILE_NOT_FOUND") \/ Fail(last_error)
    BY <1>1, <1>2, FailRight
  <1>3. CASE /\ FoundLa(f) /\ ~la.errors
             /\ call' = [call EXCEPT !.at = "deplibs", !.dir = FirstDir(f), !.la = la]
             /\ Goes
    <2>1. f \in File /\ call.request \in File /\ f.name = call.request.name
      BY <1>1, Asks
    <2>2. /\ FirstDir(f) \in Dir /\ la \in La /\ la.old_name \in {NULL, ArchiveOf(f)}
          /\ f.dir = NoDir => /\ Least(Has(f)) \in Has(f)
                              /\ \A k \in Has(f) : Least(Has(f)) <= k
                              /\ FirstDir(f) = SearchDirs[Least(Has(f))]
      BY <1>1, <1>3, <2>1, FoundIsLa
    <2>3. ArchiveOf(f) = ArchiveOf(call.request)
      BY <2>1, SameArchive
    <2> DEFINE d == FirstDir(f)
    <2>4. call' = [call EXCEPT !.at = "deplibs", !.dir = d, !.la = la] /\ call \in Call
      BY <1>1, <1>3
    <2> HIDE DEF d, la
    <2>5. /\ SameCall /\ call'.at = "deplibs" /\ call'.errors = call.errors
          /\ call'.dep = call.dep /\ call'.handle = call.handle
          /\ call'.dir = d /\ call'.la = la
      BY ONLY <2>4 DEF Call, SameCall
    <2>6. /\ Attempted' = f /\ (PreloadOnly' <=> PreloadOnly) /\ releasing' = releasing
      BY <1>1, <1>3, <2>5, SameSearch DEF StepVars, preopenVars, Goes
    <2>7. CallShape'
      <3>1. call'.at \in {"deplibs", "plan", "attempt"} /\ call'.dir \in Dir /\ call'.la \in La
        BY <2>2, <2>5 DEF d
      <3>2. call'.la.old_name # NULL => call'.la.old_name = ArchiveOf(call.request)
        BY <2>2, <2>3, <2>5
      <3>3. call'.request = call.request /\ call'.request # Self
        BY <1>1, <2>5 DEF SameCall
      <3>4. ArchiveOf(call.request)' = ArchiveOf(call.request)
        BY <3>3 DEF ArchiveOf
      <3> HIDE DEF f
      <3> QED
        BY <1>1, <2>5, <2>6, <3>1, <3>2, <3>3, <3>4, Distinct
           DEF CallShape, SameCall, Searching, Ended
    <2>8. LaFromFirst'
      <3> SUFFICES ASSUME f.dir = NoDir, NEW j \in 1..Len(SearchDirs),
                          In(SearchDirs[j], f) \in fs.readable
                   PROVE  \E i \in 1..j : d = SearchDirs[i]
        BY <1>1, <2>5, <2>6 DEF LaFromFirst, StepVars
      <3>1. j \in Has(f) /\ Len(SearchDirs) \in Nat
        BY Distinct DEF Has
      <3>2. Least(Has(f)) \in 1..Len(SearchDirs) /\ Least(Has(f)) <= j
        BY <2>2, <3>1 DEF Has
      <3>3. Least(Has(f)) \in 1..j
        BY <3>1, <3>2
      <3> QED
        BY <2>2, <3>3 DEF d
    <2>9. call'.handle \notin File
      BY <1>1, <2>5, Distinct
    <2> QED
      BY <2>5, <2>7, <2>8, <2>9 DEF CallInv
  <1> QED
    BY <1>2, <1>3 DEF ReadLa

LEMMA LoadDeplibsRight ==
    ASSUME IInv, releasing = NULL, LoadDeplibs
    PROVE  CallInv'
  <1> DEFINE d == call.la.deplibs
  <1>1. /\ call.at \in Searching /\ UNCHANGED StepVars /\ call.at = "deplibs"
        /\ call \in Call /\ CallShape /\ call.handle = NULL
        /\ (call.request # Self => LaFromFirst)
    BY InCall DEF LoadDeplibs, Searching, IInv, CallInv
  <1>2. CASE Fail("NO_MEMORY")
    BY <1>1, <1>2, FailRight
  <1>3. CASE /\ \/ call' = [call EXCEPT !.at = "plan", !.dep = d]
                \/ call' = [call EXCEPT !.at = "plan"]
             /\ releasing' = releasing
    <2> HIDE DEF d
    <2>1. /\ SameCall /\ call'.at = "plan" /\ call'.errors = call.errors
          /\ call'.handle = call.handle /\ call'.dir = call.dir /\ call'.la = call.la
      BY ONLY <1>1, <1>3, ZenonT(60) DEF Call, SameCall
    <2>2. /\ Attempted' = Attempted /\ (PreloadOnly' <=> PreloadOnly)
      BY <1>1, <2>1, SameSearch DEF StepVars, preopenVars
    <2>3. ArchiveOf(call.request)' = ArchiveOf(call.request)
      BY <2>1 DEF ArchiveOf, SameCall
    <2>4. CallShape'
      BY <1>1, <1>3, <2>1, <2>2, <2>3, Distinct DEF CallShape, SameCall, Searching, Ended
    <2>5. call'.request # Self => LaFromFirst'
      BY <1>1, <2>1, <2>2 DEF LaFromFirst, SameCall, StepVars
    <2>6. call'.handle \notin File
      BY <1>1, <2>1, Distinct
    <2> QED
      BY <2>1, <2>4, <2>5, <2>6 DEF CallInv
  <1> QED
    BY <1>2, <1>3 DEF LoadDeplibs, Goes

\* A plan, or a shorter one, keeps the rest of the call.
LEMMA PlanRight ==
    ASSUME IInv, releasing = NULL, call.at \in {"search", "plan", "attempt"}, UNCHANGED StepVars,
           Goes, SameCall, call'.at = "attempt", call'.errors = call.errors,
           call'.handle = call.handle, call'.dir = call.dir, call'.la = call.la,
           call.at = "search" => Attempted.ext # "la", AttemptsLeft'
    PROVE  CallInv'
  <1>1. /\ call \in Call /\ CallShape /\ call.handle = NULL
        /\ (call.request # Self => LaFromFirst)
    BY InCall DEF Searching, IInv, CallInv
  <1>2. /\ Attempted' = Attempted /\ (PreloadOnly' <=> PreloadOnly) /\ releasing' = releasing
    BY SameSearch DEF StepVars, preopenVars, Goes
  <1>3. ArchiveOf(call.request)' = ArchiveOf(call.request)
    BY DEF ArchiveOf, SameCall
  <1>4. CallShape'
    BY <1>1, <1>2, <1>3, Distinct DEF CallShape, SameCall, Searching, Ended
  <1>5. call'.request # Self => LaFromFirst'
    BY <1>1, <1>2 DEF LaFromFirst, SameCall, StepVars
  <1>6. call'.handle \notin File
    BY <1>1, Distinct
  <1> QED
    BY <1>4, <1>5, <1>6 DEF CallInv

LEMMA PlanModuleRight ==
    ASSUME IInv, releasing = NULL, PlanModule
    PROVE  CallInv'
  <1> DEFINE s == find_module(call.dir, call.la)
  <1>1. /\ UNCHANGED StepVars /\ Goes /\ call.at = "plan" /\ call \in Call /\ CallShape
        /\ call.dir \in Dir /\ call.la \in La /\ Attempted.ext = "la" /\ call.request # Self
        /\ call.la.old_name # NULL => call.la.old_name = ArchiveOf(call.request)
    BY InCall DEF PlanModule, Searching, CallShape, Ended
  <1>2. /\ s \in Seq(Attempts)
        /\ \A i \in 1..Len(s) :
               /\ ~s[i].look
               /\ s[i].file.dir = NoDir => call.la.old_name # NULL /\ s[i].file = call.la.old_name
        /\ call.la.old_name # NULL =>
               s # <<>> /\ s[1].file = call.la.old_name /\ s[1].by = FindPreopen
    BY <1>1, ModulePlan
  <1>3. call' = [call EXCEPT !.at = "attempt", !.attempts = s]
    BY DEF PlanModule
  <1> HIDE DEF s
  <1>4. /\ SameCall /\ call'.at = "attempt" /\ call'.errors = call.errors
        /\ call'.handle = call.handle /\ call'.dir = call.dir /\ call'.la = call.la
        /\ call'.attempts = s
    BY ONLY <1>1, <1>3 DEF Call, SameCall
  <1>5. /\ Attempted' = Attempted /\ (Preopening' <=> Preopening)
    BY <1>1, <1>4, SameSearch DEF StepVars, preopenVars
  <1>6. ArchiveOf(call.request).name = call.request.name
    BY DEF ArchiveOf
  <1>7. Preopening => FindPreopen = PreopenLoader
    BY DEF FindPreopen
  <1>8. AttemptsLeft'
    BY <1>1, <1>2, <1>4, <1>5, <1>6, <1>7 DEF AttemptsLeft, SameCall
  <1> QED
    BY <1>1, <1>4, <1>8, PlanRight

LEMMA PlanFileRight ==
    ASSUME IInv, releasing = NULL, PlanFile
    PROVE  CallInv'
  <1> DEFINE f == Attempted
             s == find_handles(f)
  <1>1. /\ UNCHANGED StepVars /\ Goes /\ call.at = "search" /\ call \in Call /\ CallShape
        /\ f.ext # "la" /\ call.request # Self
    BY InCall DEF PlanFile, Searching, CallShape, Ended
  <1>2. f \in File /\ f.name = call.request.name
    BY <1>1, Asks
  <1>3. /\ s \in Seq(Attempts)
        /\ \A i \in 1..Len(s) : s[i].by = NULL /\ s[i].file.ext = f.ext /\ s[i].file.name = f.name
        /\ f.dir = NoDir =>
               /\ Len(s) = Len(SearchDirs) + 1
               /\ \A i \in 1..Len(s) : s[i].file = IF i <= Len(SearchDirs)
                                                   THEN In(SearchDirs[i], f) ELSE f
    BY <1>2, FilePlan
  <1>4. call' = [call EXCEPT !.at = "attempt", !.attempts = s]
    BY DEF PlanFile
  <1> HIDE DEF s
  <1>5. /\ SameCall /\ call'.at = "attempt" /\ call'.errors = call.errors
        /\ call'.handle = call.handle /\ call'.dir = call.dir /\ call'.la = call.la
        /\ call'.attempts = s
    BY ONLY <1>1, <1>4 DEF Call, SameCall
  <1>6. Attempted' = f
    BY <1>1, <1>5, SameSearch DEF StepVars, preopenVars
  <1> HIDE DEF f
  <1>7. f.dir = NoDir => Tried' = 0
    <2>1. Len(SearchDirs) \in Nat
      BY Distinct
    <2> QED
      BY <1>3, <1>5, <2>1 DEF Tried
  <1>8. AttemptsLeft'
    <2>1. \A i \in 1..Len(s) : s[i].file.dir = NoDir => s[i].file.name = call'.request.name
      BY <1>2, <1>3, <1>5 DEF SameCall
    <2>2. f.dir = NoDir => \A i \in 1..Len(s) :
             s[i].file = IF 0 + i <= Len(SearchDirs) THEN In(SearchDirs[0 + i], f) ELSE f
      <3>1. \A i \in 1..Len(s) : 0 + i = i
        OBVIOUS
      <3> QED
        BY <1>3, <3>1
    <2>3. f.dir = NoDir => Tried' \in Nat /\ ~ \E j \in 1..Tried' : TRUE
      BY <1>7
    <2> QED
      BY <1>1, <1>3, <1>5, <1>6, <1>7, <2>1, <2>2, <2>3 DEF AttemptsLeft
  <1> QED
    BY <1>1, <1>5, <1>8, PlanRight DEF f

\* An attempt less: the one that is gone would not have opened its file.
LEMMA FewerAttempts ==
    ASSUME call \in Call, AttemptsLeft, call.attempts # <<>>, UNCHANGED StepVars, SameCall,
           call'.attempts = Tail(call.attempts), call.starved => call'.starved,
           call'.la = call.la,
           ~call'.starved /\ Attempted.ext # "la" => ~Loads(call.attempts[1].file),
           ~call'.starved /\ Attempted.ext = "la" /\ Preopening /\ call.la.old_name # NULL =>
               vm_open(call.la.old_name).module = NULL
    PROVE  AttemptsLeft'
  <1> DEFINE s == call.attempts
             t == call'.attempts
             n == Len(SearchDirs)
             f == Attempted
  <1>1. /\ 1 \in 1..Len(s) /\ Len(t) = Len(s) - 1 /\ Len(s) \in Nat /\ Len(t) \in Nat /\ n \in Nat
        /\ \A i \in 1..Len(t) : i + 1 \in 1..Len(s) /\ t[i] = s[i + 1]
    BY NextAttempt, CallFields, Distinct
  <1>2. /\ Attempted' = f /\ (Preopening' <=> Preopening)
        /\ \A g : Loads(g)' <=> Loads(g)
        /\ \A g : vm_open(g)' = vm_open(g)
        /\ call'.request = call.request
    BY SameSearch DEF StepVars, preopenVars, SameCall
  <1>3. Tried = n + 1 - Len(s) /\ Tried' = n + 1 - Len(t)
    BY DEF Tried
  <1> HIDE DEF s, t, n, f
  <1>4. Tried' = Tried + 1 /\ Tried \in Int
    BY <1>1, <1>3
  <1>5. \A i \in 1..Len(t) : t[i].file.dir = NoDir => t[i].file.name = call'.request.name
    BY <1>1, <1>2 DEF AttemptsLeft, s, t
  <1>6. f.ext # "la" => \A i \in 1..Len(t) : t[i].file.ext = f.ext /\ t[i].by = NULL
    BY <1>1, <1>2 DEF AttemptsLeft, s, t, f
  <1>7. f.ext = "la" => \A i \in 1..Len(t) : ~t[i].look
    BY <1>1, <1>2 DEF AttemptsLeft, s, t, f
  <1>8. ASSUME f.ext # "la" /\ f.dir = NoDir
        PROVE  /\ Tried' \in Nat
               /\ \A i \in 1..Len(t) : t[i].file = IF Tried' + i <= n
                                                   THEN In(SearchDirs[Tried' + i], f) ELSE f
               /\ ~call'.starved => \A j \in 1..Tried' : j <= n => ~Loads(In(SearchDirs[j], f))
    <2>1. /\ Tried \in Nat
          /\ \A i \in 1..Len(s) : s[i].file = IF Tried + i <= n
                                              THEN In(SearchDirs[Tried + i], f) ELSE f
          /\ ~call.starved => \A j \in 1..Tried : j <= n => ~Loads(In(SearchDirs[j], f))
      BY <1>8 DEF AttemptsLeft, s, n, f
    <2> DEFINE m == Tried
    <2>2. m \in Nat /\ Tried' = m + 1
      BY <1>4, <2>1
    <2> HIDE DEF m
    <2>3. \A i \in 1..Len(t) : Tried' + i = m + (i + 1)
      BY <2>2
    <2>4. \A i \in 1..Len(t) : t[i].file = IF Tried' + i <= n
                                           THEN In(SearchDirs[Tried' + i], f) ELSE f
      <3> TAKE i \in 1..Len(t)
      <3>1. i + 1 \in 1..Len(s) /\ t[i] = s[i + 1]
        BY <1>1
      <3>2. s[i + 1].file = IF m + (i + 1) <= n THEN In(SearchDirs[m + (i + 1)], f) ELSE f
        BY <2>1, <3>1 DEF m
      <3> QED
        BY <2>3, <3>1, <3>2
    <2>5. ASSUME ~call'.starved, NEW j \in 1..Tried', j <= n
          PROVE  ~Loads(In(SearchDirs[j], f))
      <3>1. CASE j \in 1..m
        BY <2>1, <2>5, <3>1 DEF m
      <3>2. CASE j = m + 1
        <4>1. s[1].file = In(SearchDirs[j], f)
          BY <1>1, <2>1, <2>5, <3>2 DEF m
        <4> QED
          BY <1>8, <2>5, <4>1 DEF s, f
      <3>3. j \in 1..m \/ j = m + 1
        BY <2>2, <2>5
      <3> QED
        BY <3>1, <3>2, <3>3
    <2> QED
      BY <2>2, <2>4, <2>5
  <1>9. f.ext = "la" /\ ~call'.starved /\ Preopening /\ call.la.old_name # NULL =>
            vm_open(call.la.old_name).module = NULL
    BY DEF f
  <1>10. \A i \in 1..Len(t) : t[i] = call'.attempts[i]
    BY DEF t
  <1> QED
    BY <1>2, <1>5, <1>6, <1>7, <1>8, <1>9 DEF AttemptsLeft, t, n

LEMMA NextDirRight ==
    ASSUME IInv, releasing = NULL, NextDir
    PROVE  CallInv'
  <1> DEFINE s == Tail(call.attempts)
  <1>1. /\ UNCHANGED StepVars /\ Goes /\ call.at = "attempt" /\ call \in Call /\ CallShape
        /\ call.attempts # <<>> /\ AttemptsLeft /\ Missing
    BY InCall DEF NextDir, Searching, IInv, CallInv
  <1>2. call' = [call EXCEPT !.attempts = s]
    BY DEF NextDir
  <1> HIDE DEF s
  <1>3. /\ SameCall /\ call'.at = "attempt" /\ call'.errors = call.errors
        /\ call'.handle = call.handle /\ call'.dir = call.dir /\ call'.la = call.la
        /\ call'.attempts = s /\ call'.starved = call.starved
    BY ONLY <1>1, <1>2 DEF Call, SameCall
  <1>4. ~Loads(call.attempts[1].file) /\ call.attempts[1].look
    BY <1>1, NextAttempt DEF Missing, Loads
  <1>5. Attempted.ext # "la"
    BY <1>1, <1>4, NextAttempt DEF AttemptsLeft
  <1>6. AttemptsLeft'
    BY <1>1, <1>3, <1>4, <1>5, FewerAttempts DEF s
  <1> QED
    BY <1>1, <1>3, <1>6, PlanRight

\* An archive is opened by the preopen loader alone, under its plain name.
LEMMA ArchiveOpened ==
    ASSUME TypeOK, HandlesOK, NEW f \in File, f.ext = "a", NEW by \in Loader \cup {NULL},
           CanOpen(f, by)
    PROVE  f = ArchiveOf(f)
  <1>1. CASE Open(f)
    <2>1. PICK k \in 1..Len(handles) : handles[k].file = f
      BY <1>1 DEF Open
    <2>2. HandleOK(handles[k])
      BY DEF HandlesOK
    <2> QED
      BY <2>1, <2>2 DEF HandleOK
  <1>2. CASE Opening(f, by) # {}
    <2>1. PICK k \in 1..Len(Asked(by)) : Answer(Asked(by)[k], f).module # NULL
      BY <1>2 DEF Opening
    <2>2. Asked(by)[k] \in Loader /\ f \in Module
      BY AskedFacts, Distinct
    <2>3. CASE Asked(by)[k] = PreopenLoader
      <3>1. PICK l \in SymList : Offers(l, f)
        BY <2>1, <2>2, <2>3, AnswerFacts
      <3> QED
        BY <3>1, OffersArchive
    <2>4. CASE Asked(by)[k] # PreopenLoader
      <3>1. f \in fs.loadable /\ fs \in FileSystem
        BY <2>1, <2>2, <2>4, AnswerFacts DEF TypeOK
      <3> QED
        BY <3>1, FileAssumption
    <2> QED
      BY <2>3, <2>4
  <1> QED
    BY <1>1, <1>2 DEF CanOpen

\* What another loader would open, the loaders together can open.
LEMMA LoadsOpens ==
    ASSUME TypeOK, NEW f \in File, Loads(f)
    PROVE  CanOpen(f, NULL)
  <1>1. PICK k \in 1..Len(loaders) : loaders[k] # PreopenLoader
    BY DEF Loads
  <1>2. f \in fs.loadable /\ Asked(NULL) = loaders /\ loaders[k] \in Loader /\ f \in Module
    BY Distinct DEF Loads, Asked, TypeOK
  <1>3. Answer(loaders[k], f).module # NULL
    BY <1>1, <1>2, AnswerFacts
  <1> QED
    BY <1>2, <1>3 DEF CanOpen, Opening

\* What the preopen loader has, it can open.
LEMMA PreopenOpens ==
    ASSUME NEW f \in File, vm_open(f).module # NULL
    PROVE  CanOpen(f, PreopenLoader)
  <1>1. f # Self /\ PreopenLoader # NULL
    BY Distinct
  <1>2. Asked(PreopenLoader) = <<PreopenLoader>>
    BY <1>1 DEF Asked
  <1>3. Answer(PreopenLoader, f) = vm_open(f)
    BY <1>1 DEF Answer
  <1> QED
    BY <1>2, <1>3 DEF CanOpen, Opening

LEMMA AttemptRight ==
    ASSUME IInv, releasing = NULL, Attempt
    PROVE  CallInv'
  <1> DEFINE f == Head(call.attempts).file
             by == Head(call.attempts).by
             b == CanOpen(f, by)
  <1>1. /\ UNCHANGED StepVars /\ call.at = "attempt" /\ call \in Call /\ CallShape
        /\ call.attempts # <<>> /\ AttemptsLeft /\ call.request # Self /\ TypeOK /\ HandlesOK
        /\ call.handle = NULL /\ ~PreloadOnly /\ call.at \in Searching
    BY InCall DEF Attempt, Searching, IInv, CallInv, CallShape, Ended
  <1>2. /\ f = call.attempts[1].file /\ by = call.attempts[1].by /\ 1 \in 1..Len(call.attempts)
        /\ f \in File /\ by \in Loader \cup {NULL} /\ f \in Module
    BY <1>1, NextAttempt, Distinct DEF Attempts
  <1>3. /\ call.request \in File /\ Attempted \in File
    BY <1>1, Asks
  <1>4. Attempted.ext # "la" => by = NULL /\ f.ext = Attempted.ext
    BY <1>1, <1>2 DEF AttemptsLeft
  <1>5. Attempted.ext = "la" /\ ~call.starved /\ Preopening
            /\ call.la.old_name # NULL /\ vm_open(call.la.old_name).module # NULL =>
               f = call.la.old_name /\ by = PreopenLoader
    BY <1>1, <1>2 DEF AttemptsLeft
  <1> HIDE DEF f, by
  <1>6. CASE CanOpen(f, by) /\ Success(f, by)
    <2>1. /\ SameCall /\ call'.handle = f /\ call'.la = call.la /\ call'.starved = call.starved
      BY <1>1, <1>6, SuccessFields
    <2>2. /\ Attempted' = Attempted /\ (PreloadOnly' <=> PreloadOnly)
          /\ (Preopening' <=> Preopening)
          /\ \A g : Loads(g)' <=> Loads(g)
          /\ \A g : vm_open(g)' = vm_open(g)
          /\ ArchiveOf(Attempted)' = ArchiveOf(Attempted)
      BY <1>1, <2>1, SameSearch DEF StepVars, preopenVars, ArchiveOf
    <2>3. ASSUME Attempted.dir = NoDir, Attempted.ext # "la", ~call.starved,
                 NEW j \in 1..Len(SearchDirs), Loads(In(SearchDirs[j], Attempted))
          PROVE  \E i \in 1..j : f = In(SearchDirs[i], Attempted)
      <3> DEFINE m == Tried
                 n == Len(SearchDirs)
      <3>1. /\ m \in Nat /\ n \in Nat
            /\ f = IF m + 1 <= n THEN In(SearchDirs[m + 1], Attempted) ELSE Attempted
            /\ \A i \in 1..m : i <= n => ~Loads(In(SearchDirs[i], Attempted))
        BY <1>1, <1>2, <2>3, Distinct DEF AttemptsLeft
      <3> HIDE DEF m
      <3>2. ~(j \in 1..m)
        BY <2>3, <3>1
      <3>3. m + 1 \in 1..j /\ m + 1 <= n
        BY <3>1, <3>2
      <3> QED
        BY <3>1, <3>3
    <2>4. Attempted = ArchiveOf(Attempted) => f = Attempted
      <3> SUFFICES ASSUME Attempted = ArchiveOf(Attempted) PROVE f = Attempted
        OBVIOUS
      <3>1. Attempted.dir = NoDir /\ Attempted.ext = "a"
        BY <1>3, Files
      <3>2. f = ArchiveOf(f) /\ f.dir = NoDir
        BY <1>1, <1>2, <1>4, <1>6, <3>1, ArchiveOpened, Files
      <3>3. Len(SearchDirs) \in Nat /\ \A d \in Dir : In(d, Attempted).dir = d /\ d # NoDir
        BY <1>3, Files, Distinct
      <3>4. f = IF Tried + 1 <= Len(SearchDirs)
                THEN In(SearchDirs[Tried + 1], Attempted) ELSE Attempted
        BY <1>1, <1>2, <3>1 DEF AttemptsLeft
      <3>5. Tried \in Nat
        BY <1>1, <3>1 DEF AttemptsLeft
      <3>6. Tried + 1 <= Len(SearchDirs) => SearchDirs[Tried + 1] \in Dir
        BY <3>3, <3>5, Distinct
      <3> QED
        BY <3>2, <3>3, <3>4, <3>6
    <2>5. OpenedRight'
      BY <1>1, <1>5, <2>1, <2>2, <2>3, <2>4 DEF OpenedRight
    <2> QED
      BY <1>1, <1>2, <1>3, <1>6, <2>5, SuccessRight, Distinct
  <1>7. CASE /\ call' = [call EXCEPT !.attempts = Tail(@), !.starved = @ \/ CanOpen(f, by)]
             /\ Goes
    <2> DEFINE s == Tail(call.attempts)
               t == call.starved \/ CanOpen(f, by)
    <2>1. call' = [call EXCEPT !.attempts = s, !.starved = t] /\ call \in Call
      BY <1>1, <1>7
    <2>2. (t <=> call.starved \/ CanOpen(f, by)) /\ s = Tail(call.attempts)
      OBVIOUS
    <2> HIDE DEF s, t
    <2>3. /\ SameCall /\ call'.at = call.at /\ call'.errors = call.errors
          /\ call'.handle = call.handle /\ call'.dir = call.dir /\ call'.la = call.la
          /\ call'.attempts = s /\ (call'.starved <=> t)
      BY ONLY <2>1 DEF Call, SameCall
    <2>4. ~call'.starved /\ Attempted.ext # "la" => ~Loads(f)
      BY <1>1, <1>2, <1>4, <2>2, <2>3, LoadsOpens
    <2>5. ~call'.starved /\ Attempted.ext = "la" /\ Preopening /\ call.la.old_name # NULL =>
              vm_open(call.la.old_name).module = NULL
      BY <1>2, <1>5, <2>2, <2>3, PreopenOpens
    <2>6. AttemptsLeft'
      BY <1>1, <1>2, <2>2, <2>3, <2>4, <2>5, FewerAttempts
    <2> QED
      BY <1>1, <1>7, <2>3, <2>6, PlanRight
  <1> QED
    BY <1>6, <1>7 DEF Attempt, f, by

LEMMA EndSearchRight ==
    ASSUME IInv, releasing = NULL, EndSearch
    PROVE  CallInv'
  <1> DEFINE g == IF call.exts = AsPassed /\ call.errors THEN NULL ELSE call.handle
  <1>1. /\ UNCHANGED StepVars /\ Goes /\ call.at = "next" /\ call \in Call /\ CallShape
        /\ last_error' = last_error /\ (call.request # Self => LaFromFirst)
        /\ (call.handle \in File => OpenedRight)
    BY InCall DEF EndSearch, Ended, IInv, CallInv
  <1>2. call' = [call EXCEPT !.at = "returned", !.handle = g]
    BY DEF EndSearch
  <1>3. /\ g \in {NULL, call.handle} /\ (call.exts = AsPassed => g # Unregistered)
        /\ g = Unregistered => call.errors
    BY <1>1, Distinct DEF CallShape
  <1> HIDE DEF g
  <1>4. /\ SameCall /\ call'.at = "returned" /\ call'.errors = call.errors
        /\ call'.dep = call.dep /\ call'.handle = g /\ call'.dir = call.dir
        /\ call'.la = call.la /\ call'.starved = call.starved
    BY ONLY <1>1, <1>2 DEF Call, SameCall
  <1>5. /\ Attempted' = Attempted /\ (PreloadOnly' <=> PreloadOnly) /\ releasing' = releasing
        /\ (Preopening' <=> Preopening)
        /\ \A f : Loads(f)' <=> Loads(f)
        /\ \A f : vm_open(f)' = vm_open(f)
        /\ ArchiveOf(Attempted)' = ArchiveOf(Attempted)
    BY <1>1, <1>4, SameSearch DEF StepVars, preopenVars, Goes, ArchiveOf
  <1>6. CallShape'
    BY <1>1, <1>3, <1>4, <1>5, Distinct DEF CallShape, SameCall, Searching, Ended
  <1>7. call'.request # Self => LaFromFirst'
    BY <1>1, <1>4, <1>5 DEF LaFromFirst, SameCall, StepVars
  <1>8. call'.handle \in File => OpenedRight'
    <2> SUFFICES ASSUME g \in File PROVE OpenedRight'
      BY <1>4
    <2>1. g = call.handle /\ OpenedRight
      BY <1>1, <1>3, Distinct
    <2> QED
      BY <1>4, <1>5, <2>1 DEF OpenedRight
  <1> QED
    BY <1>4, <1>6, <1>7, <1>8 DEF CallInv

LEMMA NextExtRight ==
    ASSUME IInv, releasing = NULL, NextExt
    PROVE  CallInv'
  <1> DEFINE s == Tail(call.exts)
             e == call.entry_error
  <1>1. /\ Goes /\ call.at = "next" /\ call \in Call /\ CallShape
        /\ call.handle = NULL /\ call.exts # AsPassed /\ call.dep = NULL
    BY InCall DEF NextExt, Ended, Stop, CallShape
  <1>2. call' = [call EXCEPT !.at = "start", !.exts = s, !.errors = FALSE, !.attempts = <<>>,
                             !.dir = NoDir, !.la = Unread, !.saved_error = e]
    BY DEF NextExt
  <1>3. e = call.entry_error
    OBVIOUS
  <1> HIDE DEF s, e
  <1>4. /\ call'.request = call.request /\ call'.entry_error = call.entry_error
        /\ call'.saved_error = e /\ call'.at = "start" /\ call'.errors = FALSE
        /\ call'.dep = call.dep /\ call'.handle = call.handle /\ call'.dir = NoDir
        /\ call'.la = Unread
    BY ONLY <1>1, <1>2 DEF Call
  <1>5. releasing' = NULL /\ call.request # Self
    BY <1>1 DEF Goes, CallShape
  <1>6. CallShape'
    BY <1>1, <1>3, <1>4, <1>5, Distinct DEF CallShape, Searching, Ended
  <1>7. LaFromFirst'
    BY <1>4 DEF LaFromFirst
  <1>8. call'.handle \notin File
    BY <1>1, <1>4, Distinct
  <1> QED
    BY <1>4, <1>6, <1>7, <1>8 DEF CallInv

LEMMA NoExtLeftRight ==
    ASSUME IInv, releasing = NULL, NoExtLeft
    PROVE  CallInv'
  <1>1. /\ UNCHANGED StepVars /\ Goes /\ call.at = "next" /\ call \in Call /\ CallShape
        /\ call.handle = NULL /\ (call.request # Self => LaFromFirst)
        /\ call' = [call EXCEPT !.at = "returned"]
    BY InCall DEF NoExtLeft, Ended, Stop, IInv, CallInv
  <1>2. /\ SameCall /\ call'.at = "returned" /\ call'.errors = call.errors
        /\ call'.dep = call.dep /\ call'.handle = call.handle /\ call'.dir = call.dir
        /\ call'.la = call.la
    BY ONLY <1>1 DEF Call, SameCall
  <1>3. /\ Attempted' = Attempted /\ (PreloadOnly' <=> PreloadOnly) /\ releasing' = releasing
    BY <1>1, <1>2, SameSearch DEF StepVars, preopenVars, Goes
  <1>4. CallShape'
    BY <1>1, <1>2, <1>3, Distinct DEF CallShape, SameCall, Searching, Ended
  <1>5. call'.request # Self => LaFromFirst'
    BY <1>1, <1>2, <1>3 DEF LaFromFirst, SameCall, StepVars
  <1>6. call'.handle \notin File
    BY <1>1, <1>2, Distinct
  <1> QED
    BY <1>2, <1>4, <1>5, <1>6 DEF CallInv

LEMMA BeginRight ==
    ASSUME releasing = NULL, NEW f \in Module, NEW adv, BeginCall(f, adv), UNCHANGED releasing
    PROVE  CallInv'
  <1>1. /\ call'.at = "start" /\ call'.request = f /\ call'.dir = NoDir /\ call'.la = Unread
        /\ call'.dep = NULL /\ call'.errors = FALSE /\ call'.handle = NULL
        /\ call'.saved_error = call'.entry_error
        /\ f = Self => call'.exts = AsPassed
    BY DEF BeginCall
  <1>2. CallShape'
    BY <1>1, Distinct DEF CallShape, Searching, Ended
  <1>3. LaFromFirst'
    BY <1>1 DEF LaFromFirst
  <1>4. call'.handle \notin File
    BY <1>1, Distinct
  <1> QED
    BY <1>1, <1>2, <1>3, <1>4 DEF CallInv

\* A module that is released while a call is in progress is one a module needed: it
\* is not the program, and so its release is no error.
LEMMA ReleaseRight ==
    ASSUME IInv, Release
    PROVE  CallInv'
  <1>1. CASE Idle
    BY <1>1 DEF Release, CallInv, Idle
  <1>2. CASE ~Idle
    <2>1. /\ CallShape /\ releasing # NULL /\ TypeOK /\ Counted /\ HandlesOK /\ call' = call
          /\ UNCHANGED StepVars
      BY <1>2 DEF IInv, CallInv, Release, StepVars
    <2>2. call.at = "next" /\ releasing \in DepLib
      BY <2>1 DEF CallShape
    <2>3. releasing \in File /\ releasing \in Module /\ releasing # Self
      BY <2>2, Distinct
    <2>4. Open(releasing)
      <3>1. UsesOf(releasing) > 0
        <4>1. /\ HeldOf(releasing) \in Nat /\ One(~Idle /\ call.dep = releasing) \in Nat
              /\ One(~Idle /\ call.handle = releasing) \in Nat
              /\ One(releasing = releasing) = 1
          BY <2>1, HeldNat, OneNat DEF One, TypeOK
        <4>2. Cardinality({j \in 1..Len(handles) : handles[j].dep = releasing}) \in Nat
          BY <2>1, NeedFinite DEF NeedOf, Needing, TypeOK
        <4> QED
          BY <4>1, <4>2 DEF UsesOf
      <3> QED
        BY <2>1, <2>3, <3>1 DEF Counted
    <2>5. PICK k \in 1..Len(handles) :
              HandleOf(releasing) = handles[k] /\ handles[k].file = releasing
      BY <2>4, PlaceFound
    <2>6. ~HandleOf(releasing).resident /\ HandleOf(releasing) \in Handle
      BY <2>1, <2>3, <2>5 DEF HandlesOK, HandleOK, TypeOK
    <2>7. last_error' = last_error
      BY <2>6 DEF Release
    <2>8. releasing' \in DepLib \cup {NULL}
      BY <2>6, HandleFields DEF Release
    <2>9. SameCall
      BY <2>1 DEF SameCall
    <2>10. /\ Attempted' = Attempted /\ (PreloadOnly' <=> PreloadOnly)
           /\ (Preopening' <=> Preopening)
           /\ \A f : Loads(f)' <=> Loads(f)
           /\ \A f : vm_open(f)' = vm_open(f)
           /\ ArchiveOf(Attempted)' = ArchiveOf(Attempted)
      BY <2>1, <2>9, SameSearch DEF StepVars, preopenVars, ArchiveOf
    <2>11. CallShape'
      BY <2>1, <2>2, <2>7, <2>8, <2>10 DEF CallShape, Searching, Ended
    <2>12. call'.request # Self => LaFromFirst'
      BY <1>2, <2>1, <2>10 DEF LaFromFirst, IInv, CallInv, StepVars
    <2>13. call'.handle \in File => OpenedRight'
      BY <1>2, <2>1, <2>10 DEF OpenedRight, IInv, CallInv
    <2> QED
      BY <2>1, <2>2, <2>11, <2>12, <2>13 DEF CallInv
  <1> QED
    BY <1>1, <1>2

LEMMA NoCallRight ==
    ASSUME Idle'
    PROVE  CallInv'
  BY DEF CallInv

LEMMA CallKeeps ==
    ASSUME IInv, [Next]_vars
    PROVE  CallInv'
  <1>1. TypeOK
    BY DEF IInv
  <1>2. CASE UNCHANGED vars
    <2>1. SameCall /\ UNCHANGED <<fs, loaders, preloaded_symlists>>
      BY <1>2 DEF vars, preopenVars, SameCall
    <2>2. /\ Attempted' = Attempted /\ (PreloadOnly' <=> PreloadOnly)
          /\ (Preopening' <=> Preopening)
          /\ \A f : Loads(f)' <=> Loads(f)
          /\ \A f : vm_open(f)' = vm_open(f)
          /\ ArchiveOf(Attempted)' = ArchiveOf(Attempted)
      BY <2>1, SameSearch DEF ArchiveOf
    <2>3. CallInv /\ call' = call /\ releasing' = releasing /\ last_error' = last_error /\ fs' = fs
      BY <1>2 DEF IInv, vars
    <2>4. Idle' <=> Idle
      BY <2>3 DEF Idle
    <2>5. CallShape => CallShape'
      BY <2>2, <2>3 DEF CallShape
    <2>6. LaFromFirst => LaFromFirst'
      BY <2>2, <2>3 DEF LaFromFirst
    <2>7. OpenedRight => OpenedRight'
      BY <2>2, <2>3 DEF OpenedRight
    <2>8. AttemptsLeft => AttemptsLeft'
      BY <2>2, <2>3 DEF AttemptsLeft, Tried
    <2> QED
      BY <2>3, <2>4, <2>5, <2>6, <2>7, <2>8 DEF CallInv
  <1>3. CASE Release
    BY <1>3, ReleaseRight
  <1>4. CASE releasing = NULL /\ Step
    <2>1. CASE WalkOpen
      <3> DEFINE f == Entries[Head(walk.lists)][Least(Left)].name
      <3>1. f \in Module /\ BeginCall(f, NULL) /\ UNCHANGED releasing
        BY <1>1, <2>1, LeftFacts, Distinct DEF WalkOpen
      <3> QED
        BY <1>4, <3>1, BeginRight
    <2>2. CASE WalkList \/ WalkEnd \/ Return \/ WalkCallback
      BY <2>2, NoCallRight DEF WalkList, WalkEnd, Return, WalkCallback, Idle
    <2> QED
      BY <1>4, <2>1, <2>2, OpenSelfRight, PreloadFirstRight, NoMemoryRight,
         NoMemoryForArchiveRight, ReadLaRight, LoadDeplibsRight, PlanModuleRight, PlanFileRight,
         NextDirRight, AttemptRight, EndSearchRight, NextExtRight, NoExtLeftRight DEF Step
  <1>5. CASE releasing = NULL /\ Client
    <2>1. ASSUME NEW f \in Request, NEW adv \in Hints, lt_dlopenadvise(f, adv)
          PROVE  CallInv'
      <3>1. f \in Module /\ Idle /\ UNCHANGED releasing
        BY <2>1, NameAssumption DEF Module, lt_dlopenadvise
      <3>2. CASE BeginCall(f, adv)
        BY <1>5, <3>1, <3>2, BeginRight
      <3>3. CASE UNCHANGED call
        BY <3>1, <3>3, NoCallRight DEF Idle
      <3> QED
        BY <2>1, <3>2, <3>3 DEF lt_dlopenadvise
    <2>2. CASE \E o \in Originator : lt_dlpreload_open(o)
      BY <2>2, NoCallRight DEF lt_dlpreload_open, Idle
    <2>3. CASE Preload \/ PreloadDefault \/ Restart \/ lt_dlerror
      BY <2>3, NoCallRight DEF Preload, PreloadDefault, Restart, lt_dlerror, Quiet, Idle
    <2>4. CASE \/ \E k \in 1..Len(handles) : Close(handles[k])
               \/ \E k \in 1..Len(handles), s \in Symbols : Sym(handles[k], s)
      BY <2>4, NoCallRight DEF Close, Sym, Quiet, Idle
    <2> QED
      BY <1>5, <2>1, <2>2, <2>3, <2>4 DEF Client
  <1> QED
    BY <1>2, <1>3, <1>4, <1>5 DEF Next

(***************************************************************************)
(* The chain of lists, and walks.                                          *)
(***************************************************************************)
Once(chain) == \A j, k \in 1..Len(chain) : chain[j] = chain[k] => j = k

LEMMA AddedOnce ==
    ASSUME NEW chain \in Seq(SymList), Once(chain), NEW l \in SymList
    PROVE  Once(add_symlist(chain, l))
  <1> DEFINE t == add_symlist(chain, l)
  <1>1. t = chain \/ (/\ Len(t) = Len(chain) + 1 /\ t[1] = l
                      /\ \A j \in 1..Len(chain) : t[j + 1] = chain[j]
                      /\ \A j \in 1..Len(chain) : chain[j] # l)
    BY AddSymlist, ZenonT(60)
  <1> HIDE DEF t
  <1>2. ASSUME /\ Len(t) = Len(chain) + 1 /\ t[1] = l
               /\ \A j \in 1..Len(chain) : t[j + 1] = chain[j]
               /\ \A j \in 1..Len(chain) : chain[j] # l
        PROVE  Once(t)
    <2>1. Len(chain) \in Nat
      OBVIOUS
    <2>2. \A j \in 1..Len(t) : j = 1 \/ (j - 1 \in 1..Len(chain) /\ t[j] = chain[j - 1])
      <3> TAKE j \in 1..Len(t)
      <3>1. j = 1 \/ (j - 1 \in 1..Len(chain) /\ (j - 1) + 1 = j)
        BY <1>2, <2>1
      <3> QED
        BY <1>2, <3>1
    <2> SUFFICES ASSUME NEW j \in 1..Len(t), NEW k \in 1..Len(t), t[j] = t[k]
                 PROVE  j = k
      BY DEF Once
    <2>3. j = 1 <=> k = 1
      BY <1>2, <2>2
    <2>4. j # 1 /\ k # 1 => j - 1 = k - 1
      BY <2>2 DEF Once
    <2>5. j \in Int /\ k \in Int
      BY <1>2, <2>1
    <2> QED
      BY <2>3, <2>4, <2>5
  <1> QED
    BY <1>1, <1>2 DEF t

LEMMA ListsKeep ==
    ASSUME IInv, [Next]_vars
    PROVE  ListsOnce'
  <1>1. TypeOK /\ Once(preloaded_symlists) /\ preloaded_symlists \in Seq(SymList)
        /\ default_preloaded_symbols \in SymList \cup {NULL}
    BY DEF IInv, ListsOnce, Once, TypeOK
  <1>2. Once(<<>>) /\ <<>> \in Seq(SymList)
    BY EmptySeq DEF Once
  <1>3. \A memory \in BOOLEAN : Once(DefaultChain(memory))
    <2>1. default_preloaded_symbols # NULL => Once(add_symlist(<<>>, default_preloaded_symbols))
      BY <1>1, <1>2, AddedOnce
    <2> QED
      BY <1>2, <2>1 DEF DefaultChain
  <1>4. \A l \in PreloadList : l # NULL /\ Once(add_symlist(preloaded_symlists, l))
    BY <1>1, NameAssumption, EntriesAssumption, AddedOnce
  <1>5. \A memory \in BOOLEAN, l \in PreloadList \cup {NULL} :
            lt_dlpreload(l, memory) => Once(preloaded_symlists')
    BY <1>1, <1>3, <1>4 DEF lt_dlpreload
  <1>6. CASE Preload
    BY <1>5, <1>6 DEF Preload, ListsOnce, Once
  <1>7. CASE WalkCallback /\ ~ UNCHANGED preopenVars
    <2>1. Once(preloaded_symlists')
      BY <1>5, <1>7 DEF WalkCallback
    <2> QED
      BY <2>1 DEF ListsOnce, Once
  <1>8. CASE Restart
    <2>1. preloaded_symlists' = DefaultChain(TRUE)
      BY <1>8 DEF Restart, vl_exit_init
    <2>2. Once(preloaded_symlists')
      BY <1>3, <2>1
    <2> QED
      BY <2>2 DEF ListsOnce, Once
  <1>9. CASE preloaded_symlists' = preloaded_symlists
    BY <1>1, <1>9 DEF ListsOnce, Once
  <1>10. \/ Preload \/ Restart \/ (WalkCallback /\ ~ UNCHANGED preopenVars)
         \/ preloaded_symlists' = preloaded_symlists
    <2>1. CASE UNCHANGED vars
      BY <2>1 DEF vars, preopenVars
    <2>2. CASE Release
      BY <2>2 DEF Release, preopenVars
    <2>3. CASE Step
      BY <2>3 DEF Step, OpenSelf, PreloadFirst, NoMemory, NoMemoryForArchive, ReadLa, LoadDeplibs,
         PlanModule, PlanFile, NextDir, Attempt, NoneOpened, EndSearch, NextExt, NoExtLeft, Return,
         WalkOpen, WalkList, WalkEnd, StepVars, preopenVars
    <2>4. CASE Client
      BY <2>4 DEF Client, lt_dlopenadvise, lt_dlpreload_open, PreloadDefault, Close, Sym,
         lt_dlerror, lt_dlpreload_default, preopenVars
    <2> QED
      BY <2>1, <2>2, <2>3, <2>4 DEF Next
  <1> QED
    BY <1>6, <1>7, <1>8, <1>9, <1>10

\* The steps of a call other than NextExt go on with what was asked for.
LEMMA CallGoesOn ==
    ASSUME TypeOK,
           \/ OpenSelf \/ PreloadFirst \/ NoMemory \/ NoMemoryForArchive
           \/ ReadLa \/ LoadDeplibs \/ PlanModule \/ PlanFile \/ NextDir \/ Attempt \/ NoneOpened
           \/ EndSearch \/ NoExtLeft
    PROVE  SameCall /\ ~Idle /\ ~Idle' /\ UNCHANGED StepVars
  <1>1. /\ call.at \in Searching \cup Ended /\ UNCHANGED StepVars
    BY DEF OpenSelf, PreloadFirst, NoMemory, NoMemoryForArchive, ReadLa, LoadDeplibs,
       PlanModule, PlanFile, NextDir, Attempt, NoneOpened, EndSearch, NoExtLeft, Searching, Ended
  <1>2. call \in Call /\ ~Idle
    BY <1>1, Busy
  <1>3. ASSUME NEW error, Fail(error) PROVE SameCall /\ call'.at = "next"
    BY <1>2, <1>3, FailFields
  <1>4. ASSUME NEW f, NEW by, Success(f, by) PROVE SameCall /\ call'.at = "next"
    BY <1>2, <1>4, SuccessFields
  <1>5. ASSUME NEW at, call' = [call EXCEPT !.at = at] PROVE SameCall /\ call'.at = at
    BY ONLY <1>2, <1>5 DEF Call, SameCall
  <1>6. ASSUME NEW at, NEW s, call' = [call EXCEPT !.at = at, !.attempts = s]
        PROVE  SameCall /\ call'.at = at
    BY ONLY <1>2, <1>6 DEF Call, SameCall
  <1>7. ASSUME NEW at, NEW h, call' = [call EXCEPT !.at = at, !.handle = h]
        PROVE  SameCall /\ call'.at = at
    BY ONLY <1>2, <1>7 DEF Call, SameCall
  <1>8. SameCall /\ call'.at \in Searching \cup Ended
    <2>1. CASE OpenSelf \/ NoMemory \/ NoneOpened
      BY <1>3, <1>4, <2>1 DEF OpenSelf, NoMemory, NoneOpened, Ended
    <2>2. CASE PreloadFirst
      BY <1>4, <1>5, <2>2 DEF PreloadFirst, Searching, Ended
    <2>3. CASE NoMemoryForArchive
      <3>1. call' = [call EXCEPT !.at = "next", !.errors = TRUE, !.handle = Unregistered]
        BY <2>3 DEF NoMemoryForArchive
      <3>2. SameCall /\ call'.at = "next"
        BY ONLY <1>2, <3>1 DEF Call, SameCall
      <3> QED
        BY <3>2 DEF Ended
    <2>4. CASE ReadLa
      <3>1. ASSUME NEW d, NEW la, call' = [call EXCEPT !.at = "deplibs", !.dir = d, !.la = la]
            PROVE  SameCall /\ call'.at = "deplibs"
        BY ONLY <1>2, <3>1 DEF Call, SameCall
      <3> QED
        BY <1>3, <2>4, <3>1 DEF ReadLa, Searching, Ended
    <2>5. CASE LoadDeplibs
      <3>1. ASSUME NEW d, call' = [call EXCEPT !.at = "plan", !.dep = d]
            PROVE  SameCall /\ call'.at = "plan"
        BY ONLY <1>2, <3>1 DEF Call, SameCall
      <3> QED
        BY <1>3, <1>5, <2>5, <3>1 DEF LoadDeplibs, Searching, Ended
    <2>6. CASE PlanModule \/ PlanFile
      BY <1>6, <2>6 DEF PlanModule, PlanFile, Searching
    <2>7. CASE NextDir
      <3>1. ASSUME NEW s, call' = [call EXCEPT !.attempts = s]
            PROVE  SameCall /\ call'.at = call.at
        BY ONLY <1>2, <3>1 DEF Call, SameCall
      <3> QED
        BY <2>7, <3>1 DEF NextDir, Searching
    <2>8. CASE Attempt
      <3>1. ASSUME NEW s, NEW b, call' = [call EXCEPT !.attempts = s, !.starved = @ \/ b]
            PROVE  SameCall /\ call'.at = call.at
        BY ONLY <1>2, <3>1 DEF Call, SameCall
      <3> QED
        BY <1>4, <2>8, <3>1 DEF Attempt, Searching, Ended
    <2>9. CASE EndSearch
      <3>1. PICK g : call' = [call EXCEPT !.at = "returned", !.handle = g]
        BY <2>9 DEF EndSearch
      <3> QED
        BY <1>7, <3>1 DEF Ended
    <2>10. CASE NoExtLeft
      BY <1>5, <2>10 DEF NoExtLeft, Ended
    <2> QED
      BY <2>1, <2>2, <2>3, <2>4, <2>5, <2>6, <2>7, <2>8, <2>9, <2>10
  <1> QED
    BY <1>1, <1>2, <1>8 DEF Idle, NoCall, Searching, Ended

LEMMA NotWalking ==
    ASSUME walk' = NoWalk
    PROVE  WalkInv'
  BY DEF WalkInv, Walking, NoWalk

\* A step that leaves the walk, its call's request and the client's modules alone.
LEMMA WalkStays ==
    ASSUME WalkInv, walk' = walk, held' = held, \/ call' = call
                                                \/ SameCall /\ ~Idle /\ ~Idle'
    PROVE  WalkInv'
  <1> SUFFICES ASSUME Walking PROVE WalkInv'
    BY DEF WalkInv, Walking
  <1>1. \A f : ToCome(f)' <=> ToCome(f)
    BY DEF ToCome, ModulesPast, From, originator, IsModule, IsHeader
  <1>2. \A f : HeldOf(f)' = HeldOf(f)
    BY DEF HeldOf
  <1>3. CASE call' = call
    <2>1. Idle' <=> Idle
      BY <1>3 DEF Idle
    <2> QED
      BY <1>1, <1>2, <1>3, <2>1 DEF WalkInv, Walking, ArchiveOf
  <1>4. CASE SameCall /\ ~Idle /\ ~Idle'
    BY <1>1, <1>2, <1>4 DEF WalkInv, Walking, ArchiveOf, SameCall
  <1> QED
    BY <1>3, <1>4

LEMMA PreloadOpenWalk ==
    ASSUME IInv, NEW o \in Originator, lt_dlpreload_open(o)
    PROVE  WalkInv'
  <1>1. Idle' /\ TypeOK
    BY DEF lt_dlpreload_open, Idle, IInv
  <1>2. CASE UNCHANGED walk
    BY <1>2, NotWalking DEF lt_dlpreload_open
  <1>3. CASE walk' = [at |-> "list", from |-> o, lists |-> preloaded_symlists,
                      idx |-> FirstEntry, errors |-> FALSE, promised |-> Promised(o)]
    <2>1. /\ walk'.lists = preloaded_symlists /\ walk'.idx = 1 /\ walk'.from = o
          /\ walk'.promised = Promised(o)
      BY <1>3 DEF FirstEntry
    <2>2. ASSUME NEW f \in Promised(o) PROVE ToCome(f)'
      <3>1. PICK j \in 1..Len(preloaded_symlists) :
               \E i \in ModulesPast(preloaded_symlists[j], 1, o) :
                  Entries[preloaded_symlists[j]][i].name = f
        BY <2>2 DEF Promised
      <3>2. ModulesPast(preloaded_symlists[j], 1, o)
               = ModulesPast(walk.lists[j], IF j = 1 THEN walk.idx ELSE 1, walk.from)'
        BY <2>1 DEF ModulesPast, From, originator, IsModule, IsHeader
      <3> QED
        BY <2>1, <3>1, <3>2 DEF ToCome
    <2> QED
      BY <1>1, <2>1, <2>2 DEF WalkInv
  <1> QED
    BY <1>2, <1>3 DEF lt_dlpreload_open

LEMMA WalkOpenWalk ==
    ASSUME IInv, WalkOpen
    PROVE  WalkInv'
  <1> DEFINE l == Head(walk.lists)
             i0 == Least(Left)
             g == Entries[l][i0].name
  <1>1. TypeOK /\ WalkInv /\ Idle /\ Walking /\ walk.lists # <<>> /\ Left # {}
    BY DEF IInv, WalkOpen
  <1>2. /\ walk \in Walk /\ i0 \in Left /\ i0 \in Nat \ {0} /\ i0 > walk.idx
        /\ \A k \in Left : i0 <= k
        /\ g \in File /\ g = ArchiveOf(g)
    BY <1>1, LeftFacts
  <1>3. walk' = [walk EXCEPT !.idx = i0] /\ walk \in Walk
    BY <1>2 DEF WalkOpen
  <1>4. /\ BeginCall(g, NULL) /\ held' = held
    BY DEF WalkOpen
  <1>5. l = walk.lists[1] /\ walk.lists \in Seq(SymList) /\ Len(walk.lists) \in Nat
    BY <1>1, <1>2 DEF Walk
  <1> HIDE DEF l, i0, g
  <1>6. /\ walk'.at = walk.at /\ walk'.from = walk.from /\ walk'.lists = walk.lists
        /\ walk'.idx = i0 /\ walk'.errors = walk.errors /\ walk'.promised = walk.promised
    BY ONLY <1>3 DEF Walk
  <1>7. /\ call'.advice = NULL /\ call'.exts = AsPassed /\ call'.request = g /\ call'.at = "start"
    BY <1>4 DEF BeginCall
  <1>8. ~Idle'
    BY <1>7 DEF Idle, NoCall
  <1>9. call'.request \in File /\ call'.request = ArchiveOf(call'.request)
    BY <1>2, <1>7
  <1>10. ASSUME NEW f, ToCome(f) PROVE ToCome(f)' \/ g = f
    <2>1. PICK j \in 1..Len(walk.lists) :
             \E i \in ModulesPast(walk.lists[j], IF j = 1 THEN walk.idx ELSE 1, walk.from) :
                Entries[walk.lists[j]][i].name = f
      BY <1>10 DEF ToCome
    <2>2. CASE j # 1
      <3>1. ModulesPast(walk.lists[j], IF j = 1 THEN walk.idx ELSE 1, walk.from)
               = ModulesPast(walk.lists[j], IF j = 1 THEN walk.idx ELSE 1, walk.from)'
        BY <1>6, <2>2 DEF ModulesPast, From, originator, IsModule, IsHeader
      <3> QED
        BY <1>6, <2>1, <3>1 DEF ToCome
    <2>3. CASE j = 1
      <3>1. PICK i \in ModulesPast(l, walk.idx, walk.from) : Entries[l][i].name = f
        BY <1>5, <2>1, <2>3
      <3>2. i \in Left
        BY <3>1 DEF Left, l
      <3>3. CASE i = i0
        BY <3>1, <3>3 DEF g
      <3>4. CASE i # i0
        <4>1. l \in SymList /\ walk.idx \in Nat \ {0}
          BY <1>2, <1>5 DEF Walk
        <4>2. i \in Nat \ {0} /\ i > i0
          BY <1>2, <3>1, <3>2, <3>4, <4>1, PastModules
        <4>3. i \in (i0 + 1)..Len(Entries[l]) /\ From(l, walk.from) /\ IsModule(Entries[l][i])
          <5>1. i \in (walk.idx + 1)..Len(Entries[l]) /\ From(l, walk.from)
                /\ IsModule(Entries[l][i])
            BY <3>1 DEF ModulesPast
          <5>2. Len(Entries[l]) \in Nat
            BY <4>1, EntriesAssumption
          <5> QED
            BY <1>2, <4>1, <4>2, <5>1, <5>2
        <4>4. i \in ModulesPast(l, i0, walk.from)
          BY <4>3 DEF ModulesPast
        <4>5. ModulesPast(l, i0, walk.from)
                 = ModulesPast(walk.lists[j], IF j = 1 THEN walk.idx ELSE 1, walk.from)'
          BY <1>5, <1>6, <2>3 DEF ModulesPast, From, originator, IsModule, IsHeader
        <4> QED
          BY <1>5, <1>6, <2>3, <3>1, <4>4, <4>5 DEF ToCome
      <3> QED
        BY <3>3, <3>4
    <2> QED
      BY <2>2, <2>3
  <1>11. \A f : HeldOf(f)' = HeldOf(f)
    BY <1>4 DEF HeldOf
  <1>12. ArchiveOf(call'.request) = ArchiveOf(call.request)'
    BY DEF ArchiveOf
  <1>13. ~walk.errors => \A f \in walk.promised : HeldOf(f) > 0 \/ ToCome(f)
    BY <1>1 DEF WalkInv
  <1> QED
    BY <1>6, <1>7, <1>8, <1>9, <1>10, <1>11, <1>12, <1>13 DEF WalkInv

LEMMA WalkListWalk ==
    ASSUME IInv, WalkList
    PROVE  WalkInv'
  <1>1. /\ TypeOK /\ WalkInv /\ Idle /\ Idle' /\ Walking /\ walk.lists # <<>> /\ Left = {}
        /\ held' = held
    BY DEF IInv, WalkList, Idle
  <1> DEFINE t == Tail(walk.lists)
  <1>2. walk \in Walk /\ walk' = [walk EXCEPT !.lists = t, !.idx = 1]
    BY <1>1, LeftFacts DEF WalkList, FirstEntry
  <1>3. /\ walk.lists \in Seq(SymList) /\ Head(walk.lists) = walk.lists[1]
        /\ \A j \in 1..Len(walk.lists) : j # 1 => j - 1 \in 1..Len(t) /\ t[j - 1] = walk.lists[j]
    <2>1. walk.lists \in Seq(SymList)
      BY <1>2 DEF Walk
    <2> QED
      BY <1>1, <2>1
  <1> HIDE DEF t
  <1>4. /\ walk'.at = walk.at /\ walk'.from = walk.from /\ walk'.lists = t
        /\ walk'.idx = 1 /\ walk'.errors = walk.errors /\ walk'.promised = walk.promised
    BY ONLY <1>2 DEF Walk
  <1>5. ASSUME NEW f, ToCome(f) PROVE ToCome(f)'
    <2>1. PICK j \in 1..Len(walk.lists) :
             \E i \in ModulesPast(walk.lists[j], IF j = 1 THEN walk.idx ELSE 1, walk.from) :
                Entries[walk.lists[j]][i].name = f
      BY <1>5 DEF ToCome
    <2>2. j # 1
      BY <1>1, <1>3, <2>1 DEF Left
    <2> DEFINE k == j - 1
    <2>3. k \in 1..Len(t) /\ t[k] = walk.lists[j]
      BY <1>3, <2>2
    <2> HIDE DEF k
    <2>4. ModulesPast(walk.lists[j], IF j = 1 THEN walk.idx ELSE 1, walk.from)
             = ModulesPast(walk.lists[k], IF k = 1 THEN walk.idx ELSE 1, walk.from)'
      BY <1>4, <2>2, <2>3 DEF ModulesPast, From, originator, IsModule, IsHeader
    <2> QED
      BY <1>4, <2>1, <2>3, <2>4 DEF ToCome
  <1>6. \A f : HeldOf(f)' = HeldOf(f)
    BY <1>1 DEF HeldOf
  <1>7. ~walk.errors => \A f \in walk.promised : HeldOf(f) > 0 \/ ToCome(f)
    BY <1>1 DEF WalkInv
  <1> QED
    BY <1>1, <1>4, <1>5, <1>6, <1>7 DEF WalkInv

LEMMA WalkCallbackWalk ==
    ASSUME IInv, releasing = NULL, WalkCallback
    PROVE  WalkInv'
  <1>1. /\ TypeOK /\ WalkInv /\ CallInv /\ Walking /\ call.at = "returned" /\ held' = Uses
        /\ ~Idle /\ call \in Call /\ CallShape
    BY InCall DEF IInv, WalkCallback, Ended
  <1>2. Idle' /\ walk \in Walk
    BY <1>1 DEF WalkCallback, Idle, TypeOK, Walking, NoWalk
  <1>3. \A b : walk' = [walk EXCEPT !.errors = b] =>
            /\ walk'.at = walk.at /\ walk'.from = walk.from /\ walk'.lists = walk.lists
            /\ walk'.idx = walk.idx /\ walk'.errors = b /\ walk'.promised = walk.promised
    BY ONLY <1>2 DEF Walk
  <1>4. /\ walk'.from = walk.from /\ walk'.lists = walk.lists /\ walk'.idx = walk.idx
        /\ walk'.promised = walk.promised
        /\ ~walk'.errors => ~walk.errors /\ call.handle # NULL
    BY <1>3 DEF WalkCallback
  <1>5. \A f : ToCome(f)' <=> ToCome(f)
    BY <1>4 DEF ToCome, ModulesPast, From, originator, IsModule, IsHeader
  <1>6. /\ \A f \in Module : HeldOf(f)' = HeldOf(f) + Same(call.handle, f)
        /\ \A f \in Module : HeldOf(f) \in Nat
    BY <1>1, UsesFacts
  <1>7. call.handle # NULL => call.handle = call.request
    <2> SUFFICES ASSUME call.handle # NULL PROVE call.handle = call.request
      OBVIOUS
    <2>1. /\ call.exts = AsPassed /\ call.request \in File
          /\ call.request = ArchiveOf(call.request)
      BY <1>1 DEF WalkInv
    <2>2. call.handle \in File
      BY <1>1, <2>1, CallFields DEF CallShape, Module
    <2>3. Attempted = call.request
      BY <2>1 DEF Attempted
    <2> QED
      BY <1>1, <2>1, <2>2, <2>3 DEF CallInv, OpenedRight
  <1>8. ASSUME ~walk'.errors, NEW f \in walk.promised PROVE HeldOf(f)' > 0 \/ ToCome(f)'
    <2>1. f \in Module
      BY <1>2, Distinct DEF Walk
    <2>2. CASE HeldOf(f) > 0
      BY <1>6, <2>1, <2>2, SameNat
    <2>3. CASE ToCome(f)
      BY <1>5, <2>3
    <2>4. CASE call.request = f
      <3>1. Same(call.handle, f) = 1
        BY <1>4, <1>7, <1>8, <2>4 DEF Same
      <3> QED
        BY <1>6, <2>1, <3>1
    <2> QED
      BY <1>1, <1>4, <1>8, <2>2, <2>3, <2>4 DEF WalkInv
  <1> QED
    BY <1>2, <1>4, <1>8 DEF WalkInv

LEMMA WalkKeeps ==
    ASSUME IInv, [Next]_vars
    PROVE  WalkInv'
  <1>1. TypeOK /\ WalkInv
    BY DEF IInv
  <1>2. CASE UNCHANGED vars
    BY <1>1, <1>2, WalkStays DEF vars
  <1>3. CASE Release
    BY <1>1, <1>3, WalkStays DEF Release
  <1>4. CASE releasing = NULL /\ Step
    <2>1. CASE \/ OpenSelf \/ PreloadFirst \/ NoMemory \/ NoMemoryForArchive
               \/ ReadLa \/ LoadDeplibs \/ PlanModule \/ PlanFile \/ NextDir \/ Attempt
               \/ NoneOpened \/ EndSearch \/ NoExtLeft
      BY <1>1, <2>1, CallGoesOn, WalkStays DEF StepVars
    <2>2. CASE NextExt
      <3>1. ~Idle /\ call.exts # AsPassed /\ walk' = walk
        BY <1>1, <2>2, Busy DEF NextExt, Stop, StepVars, Ended
      <3> QED
        BY <1>1, <3>1 DEF WalkInv, Walking
    <2>3. CASE Return \/ WalkEnd
      BY <2>3, NotWalking DEF Return, WalkEnd
    <2> QED
      BY <1>4, <2>1, <2>2, <2>3, WalkOpenWalk, WalkListWalk, WalkCallbackWalk DEF Step
  <1>5. CASE releasing = NULL /\ Client
    <2>1. CASE \E o \in Originator : lt_dlpreload_open(o)
      BY <2>1, PreloadOpenWalk
    <2>2. CASE ~ \E o \in Originator : lt_dlpreload_open(o)
      BY <1>5, <2>2, NotWalking DEF Client, lt_dlopenadvise, Preload, PreloadDefault, Restart,
         Close, Sym, lt_dlerror, Quiet
    <2> QED
      BY <2>1, <2>2
  <1> QED
    BY <1>2, <1>3, <1>4, <1>5 DEF Next

(***************************************************************************)
(* The invariant holds, and what it says.                                  *)
(***************************************************************************)
LEMMA InitRight == Init => IInv
  <1> SUFFICES ASSUME Init PROVE IInv
    OBVIOUS
  <1>1. PICK l \in DefaultList :
            /\ default_preloaded_symbols = l
            /\ preloaded_symlists = IF l = NULL THEN <<>> ELSE <<l>>
    BY DEF Init
  <1>2. /\ preloaded_symlists \in Seq(SymList) /\ default_preloaded_symbols \in SymList \cup {NULL}
        /\ Len(preloaded_symlists) \in {0, 1}
    <2>1. l \in SymList \cup {NULL}
      BY NameAssumption
    <2>2. CASE l = NULL
      BY <1>1, <2>1, <2>2, EmptySeq
    <2>3. CASE l # NULL
      BY <1>1, <2>1, <2>3
    <2> QED
      BY <2>2, <2>3
  <1>3. /\ handles = <<>> /\ releasing = NULL /\ Idle /\ walk = NoWalk /\ DOMAIN held = {}
        /\ held \in [DOMAIN held -> Nat] /\ call = NoCall /\ last_error = NULL
        /\ fs \in FileSystem /\ loaders \in LoaderLists
    BY DEF Init, Idle
  <1>4. TypeOK
    BY <1>2, <1>3, EmptySeq DEF TypeOK
  <1>5. \A f \in Module : UsesOf(f) = 0
    <2> TAKE f \in Module
    <2>1. HeldOf(f) = 0
      BY <1>3 DEF HeldOf
    <2>2. {j \in 1..Len(handles) : handles[j].dep = f} = {}
      BY <1>3
    <2>3. One(~Idle /\ call.dep = f) = 0 /\ One(~Idle /\ call.handle = f) = 0
      BY <1>3 DEF One
    <2>4. One(releasing = f) = 0
      BY <1>3, Distinct DEF One
    <2>5. Cardinality({}) = 0
      BY FS_EmptySet
    <2> QED
      BY <2>1, <2>2, <2>3, <2>4, <2>5 DEF UsesOf
  <1>6. Len(handles) = 0
    BY <1>3
  <1>7. Counted /\ HandlesOK
    BY <1>5, <1>6 DEF Counted, HandlesOK, OneHandlePerFile, UsesCounted
  <1>8. CallInv /\ WalkInv
    BY <1>3 DEF CallInv, WalkInv, Walking, NoWalk
  <1>9. ListsOnce
    BY <1>2 DEF ListsOnce
  <1> QED
    BY <1>4, <1>7, <1>8, <1>9 DEF IInv

LEMMA StepRight == IInv /\ [Next]_vars => IInv'
  BY NextKeeps, CallKeeps, WalkKeeps, ListsKeep DEF IInv, HandlesNow

\* What the client has open, and what a call is about to return, is open.
LEMMA UsedIsOpen ==
    ASSUME TypeOK, Counted, NEW f \in Module, HeldOf(f) > 0 \/ (~Idle /\ call.handle = f)
    PROVE  Open(f)
  <1>1. /\ HeldOf(f) \in Nat /\ One(~Idle /\ call.dep = f) \in Nat
        /\ One(~Idle /\ call.handle = f) \in Nat /\ One(releasing = f) \in Nat
    BY HeldNat, OneNat DEF TypeOK
  <1>2. Cardinality({j \in 1..Len(handles) : handles[j].dep = f}) \in Nat
    BY NeedFinite DEF NeedOf, Needing, TypeOK
  <1>3. HeldOf(f) > 0 \/ One(~Idle /\ call.handle = f) > 0
    BY DEF One
  <1>4. UsesOf(f) > 0
    BY <1>1, <1>2, <1>3 DEF UsesOf
  <1> QED
    BY <1>4 DEF Counted

LEMMA OpenedFacts ==
    ASSUME IInv, Opened
    PROVE  /\ ~Idle /\ call \in Call /\ CallShape /\ Open(call.handle)
           /\ call.handle \in File => OpenedRight /\ LaFromFirst
  <1>1. ~Idle /\ call \in Call
    BY Busy DEF IInv, Opened, Ended
  <1>2. Open(call.handle)
    BY <1>1, UsedIsOpen DEF IInv, Opened
  <1>3. CallShape /\ (call.handle \in File => OpenedRight)
    BY <1>1 DEF IInv, CallInv
  <1>4. call.handle \in File => LaFromFirst
    BY <1>1, <1>3, Distinct DEF IInv, CallInv, CallShape
  <1> QED
    BY <1>1, <1>2, <1>3, <1>4

(***************************************************************************)
(* ltdl.c tryall_dlopen and lt_dlclose: there is one handle for each open  *)
(* file, its count is the uses that the client, the dependent libraries,   *)
(* the call under way and a release still owe it, and what is in use is    *)
(* open.                                                                   *)
(***************************************************************************)
THEOREM HandlesAreRight == Spec => []HandlesRight
  <1>1. IInv => HandlesRight
    BY DEF IInv, Counted, HandlesRight, OpenInUse, Mentioned
  <1> QED
    BY <1>1, InitRight, StepRight, PTL DEF Spec

(***************************************************************************)
(* ltdl.c try_dlopen and lt_dlopenadvise: when a call hands a handle to    *)
(* the client, the error string is the one the call found, whatever failed *)
(* on the way.                                                             *)
(***************************************************************************)
THEOREM ErrorIsKept == Spec => []SuccessKeepsError
  <1>1. IInv => SuccessKeepsError
    BY OpenedFacts DEF SuccessKeepsError, CallShape, Opened
  <1> QED
    BY <1>1, InitRight, StepRight, PTL DEF Spec

(***************************************************************************)
(* ltdl.c try_dlopen, find_module and find_handle: the handle a call       *)
(* returns is that of the first candidate that could be opened, preopened  *)
(* modules before files, the directories in the order of the search path,  *)
(* and the .la file read is the first there is.                            *)
(***************************************************************************)
THEOREM FileIsRight == Spec => []RightFile
  <1>1. ASSUME IInv PROVE RightFile
    <2>1. OpenedFile => Opened
      BY DEF OpenedFile, Opened, Module
    <2>2. OpenedFile => OpenedRight /\ LaFromFirst
      BY <1>1, <2>1, OpenedFacts DEF OpenedFile
    <2>3. PreloadHintKept
      <3> SUFFICES ASSUME OpenedFile, PreloadOnly
                   PROVE  HandleOf(call.handle).vtable = PreopenLoader
        BY DEF PreloadHintKept, PreloadOnly
      <3>1. /\ Open(call.handle) /\ call.handle = ArchiveOf(Attempted) /\ call.handle \in File
        BY <1>1, <2>1, <2>2, OpenedFacts DEF OpenedRight, OpenedFile
      <3>2. call.handle.ext = "a"
        BY <3>1 DEF ArchiveOf
      <3>3. PICK k \in 1..Len(handles) :
               HandleOf(call.handle) = handles[k] /\ handles[k].file = call.handle
        BY <3>1, PlaceFound
      <3>4. HandleOK(handles[k])
        BY <1>1 DEF IInv, HandlesOK
      <3> QED
        BY <3>1, <3>2, <3>3, <3>4 DEF HandleOK
    <2>4. FirstInPath /\ PreopenedFirst
      BY <2>2 DEF FirstInPath, PreopenedFirst, OpenedRight
    <2>5. FirstLaRead
      BY <2>2 DEF FirstLaRead, LaFromFirst
    <2> QED
      BY <2>3, <2>4, <2>5 DEF RightFile
  <1> QED
    BY <1>1, InitRight, StepRight, PTL DEF Spec

\* A mangled symbol that a list has for a module is among that module's.
LEMMA MangledInSection ==
    ASSUME NEW l \in SymList, NEW f \in File, f = ArchiveOf(f), NEW s \in Symbols,
           vm_sym(l, Mangled(f.name, s)) # NULL
    PROVE  vm_sym(l, Mangled(f.name, s)) \in Section(l, f)
  <1> DEFINE name == Mangled(f.name, s)
             first == IF Len(Entries[l]) > 1 /\ Entries[l][2].name = InitMark THEN 4 ELSE 3
             hits == {k \in first..Len(Entries[l]) : Entries[l][k].name = name}
             k == Least(hits)
  <1>1. hits # {} /\ vm_sym(l, name) = Entries[l][k].address
    BY DEF vm_sym
  <1>2. first \in {3, 4} /\ Len(Entries[l]) \in Nat
    BY EntriesAssumption
  <1> HIDE DEF first
  <1>3. k \in hits
    <2>1. hits \subseteq Nat
      BY <1>2
    <2> HIDE DEF hits
    <2> QED
      BY <1>1, <2>1, LeastIn
  <1>4. k \in 2..Len(Entries[l]) /\ Entries[l][k].name = name /\ f.name \in Name
    BY <1>2, <1>3, Files
  <1> HIDE DEF k, hits
  <1>5. PICK h \in 1..(k - 1) : /\ IsHeader(Entries[l][h])
                                /\ Entries[l][h].name = ArchiveOf([name |-> f.name])
                                /\ \A i \in (h + 1)..k : ~IsHeader(Entries[l][i])
    BY <1>4, ListAssumption DEF name
  <1>6. Entries[l][h].name = f
    BY <1>5 DEF ArchiveOf
  <1>7. h \in Nat /\ h < Len(Entries[l]) /\ h + 1 \in (h + 1)..k /\ k \in 1..Len(Entries[l])
    BY <1>2, <1>4, <1>5
  <1>8. HeaderOf(l, h, f)
    BY <1>5, <1>6, <1>7 DEF HeaderOf
  <1> QED
    BY <1>1, <1>5, <1>7, <1>8 DEF Section

(***************************************************************************)
(* loaders/preopen.c vm_open and vm_sym, with ltdl.c lt_dlsym: a preopened *)
(* handle belongs to a list that offers its file, and a symbol the list    *)
(* has for that module under its mangled name is looked up in that         *)
(* module's own section.                                                   *)
(***************************************************************************)
THEOREM PreloadedIsRight == Spec => []PreloadedRight
  <1>1. ASSUME IInv PROVE PreloadedRight
    <2>1. ASSUME NEW k \in 1..Len(handles),
                 handles[k].vtable = PreopenLoader, handles[k].file # Self
          PROVE  LET h == handles[k] IN
                 /\ Offers(h.module, h.file)
                 /\ \A s \in Symbols :
                       vm_sym(h.module, Mangled(h.name, s)) # NULL =>
                           lt_dlsym(h, s) \in Section(h.module, h.file)
      <3> DEFINE h == handles[k]
      <3>1. h \in Handle /\ HandleOK(h)
        BY <1>1 DEF IInv, TypeOK, HandlesOK
      <3>2. h.file \in File
        BY <2>1, <3>1, HandleFields DEF Module
      <3>3. /\ h.module \in SymList /\ Offers(h.module, h.file)
            /\ h.file = ArchiveOf(h.file) /\ h.name = h.file.name
        BY <2>1, <3>1, <3>2 DEF HandleOK
      <3>4. h.name # NULL
        BY <3>2, <3>3, Files, NameAssumption
      <3>5. \A s \in Symbols : vm_sym(h.module, Mangled(h.name, s)) # NULL =>
                lt_dlsym(h, s) = vm_sym(h.module, Mangled(h.file.name, s))
        BY <3>3, <3>4 DEF lt_dlsym
      <3> HIDE DEF h
      <3>6. \A s \in Symbols : vm_sym(h.module, Mangled(h.name, s)) # NULL =>
                lt_dlsym(h, s) \in Section(h.module, h.file)
        BY <3>2, <3>3, <3>5, MangledInSection
      <3> QED
        BY <3>3, <3>6 DEF h
    <2>2. OwnSymbols
      BY <2>1 DEF OwnSymbols
    <2> QED
      BY <1>1, <2>2 DEF PreloadedRight, IInv
  <1> QED
    BY <1>1, InitRight, StepRight, PTL DEF Spec

(***************************************************************************)
(* loaders/preopen.c lt_dlpreload_open: a walk that ends without an error  *)
(* has opened each module the lists named for the originator.              *)
(***************************************************************************)
THEOREM WalkOpensAll == Spec => PreloadedAllOpened
  <1> DEFINE Ends == walk # NoWalk /\ walk' = NoWalk /\ ~walk.errors =>
                         \A f \in walk.promised : Open(f)
  <1>1. ASSUME IInv, Next PROVE Ends
    <2> SUFFICES ASSUME walk # NoWalk, walk' = NoWalk, ~walk.errors, NEW f \in walk.promised
                 PROVE  Open(f)
      OBVIOUS
    <2>1. TypeOK /\ Counted /\ walk \in Walk /\ Walking /\ WalkInv
      BY <1>1 DEF IInv, TypeOK, Walk, Walking
    <2>2. WalkEnd
      <3>1. CASE Release
        BY <3>1 DEF Release
      <3>2. CASE Client
        BY <3>2 DEF Client, lt_dlopenadvise, lt_dlpreload_open, Preload, PreloadDefault, Restart,
           Close, Sym, lt_dlerror, Quiet
      <3>3. \A i : [walk EXCEPT !.idx = i].at = "list"
        BY ONLY <2>1 DEF Walk
      <3>4. \A t : [walk EXCEPT !.lists = t, !.idx = FirstEntry].at = "list"
        BY ONLY <2>1 DEF Walk
      <3>5. \A b : [walk EXCEPT !.errors = b].at = "list"
        BY ONLY <2>1 DEF Walk
      <3>6. walk'.at # "list"
        BY DEF NoWalk
      <3>7. ~WalkOpen
        BY <3>3, <3>6 DEF WalkOpen
      <3>8. ~WalkList
        BY <3>4, <3>6 DEF WalkList
      <3>9. ~WalkCallback
        BY <3>5, <3>6 DEF WalkCallback
      <3>10. CASE Step /\ ~WalkEnd
        <4>1. walk' = walk
          BY <3>7, <3>8, <3>9, <3>10 DEF Step, OpenSelf, PreloadFirst, NoMemory,
             NoMemoryForArchive, ReadLa, LoadDeplibs, PlanModule, PlanFile, NextDir, Attempt,
             NoneOpened, EndSearch, NextExt, NoExtLeft, Return, StepVars
        <4> QED
          BY <4>1
      <3> QED
        BY <1>1, <3>1, <3>2, <3>10 DEF Next
    <2>3. ~ToCome(f) /\ Idle
      <3>1. walk.lists = <<>> /\ Len(walk.lists) = 0 /\ Idle
        BY <2>2 DEF WalkEnd
      <3> QED
        BY <3>1 DEF ToCome
    <2>4. HeldOf(f) > 0 /\ f \in Module
      BY <2>1, <2>3, Distinct DEF WalkInv, Walk
    <2> QED
      BY <2>1, <2>4, UsedIsOpen
  <1>2. IInv /\ [Next]_vars => [Ends]_vars
    BY <1>1
  <1>3. Spec => [][Ends]_vars
    BY <1>2, InitRight, StepRight, PTL DEF Spec
  <1> QED
    BY <1>3 DEF PreloadedAllOpened
=============================================================================
