----------------------------- MODULE WalkProofs -----------------------------
(***************************************************************************)
(* Theorems about the walks that run the client's code and go on: over the *)
(* list of open modules (HandleIter), while modules are opened and closed  *)
(* under it, for any interface check and any mapped function; over the     *)
(* files of the search path (SearchPath), while the path is changed.       *)
(***************************************************************************)
EXTENDS HandleIter, SequenceTheorems, WellFoundedInduction, TLAPS

(***************************************************************************)
(* The inductive invariant.  What a walk has visited is said by the order  *)
(* of the list, which openings and closings keep.                          *)
(***************************************************************************)
\* g is in front of h in the list.
Before(g, h) ==
    \E i, j \in 1..Len(handles) : i < j /\ handles[i] = g /\ handles[j] = h

OnceListed == \A i, j \in 1..Len(handles) : handles[i] = handles[j] => i = j

\* While the body runs, what the loop has visited and is still open is the module
\* it is at and others in front of it, and what it owes a visit comes after.
LoopInv ==
    /\ loop = "body" =>
           /\ place \in Listed
           /\ \A g \in seen : g = place \/ Before(g, place) \/ g \notin Listed
           /\ \A h \in stayed : h \in seen \/ Before(place, h)
    /\ VisitsOnce /\ VisitsAll

\* While lt_dlhandle_map runs, what it owes a call is the module it is at, and
\* others after it.
MapInv ==
    /\ map \in {"skip", "call"} =>
           /\ cur # NULL => cur \in Listed /\ \A h \in owed : h = cur \/ Before(cur, h)
           /\ cur = NULL => owed = {}
    /\ map = "call" => cur \in Matching \cup {NULL}
    /\ map = "done" => cur = NULL /\ (result = 0 => owed = {})

IterInv == TypeOK /\ OnceListed /\ LoopInv /\ MapInv

(***************************************************************************)
(* The list.                                                               *)
(***************************************************************************)
LEMMA LeastNumber ==
    ASSUME NEW T, T \subseteq Nat, T # {}
    PROVE  \E m \in T : \A n \in T : m <= n
  <1> DEFINE Less == OpToRel(<, Nat)
  <1>1. /\ IsWellFoundedOn(Less, Nat)
        /\ \A m, n \in Nat : n < m => <<n, m>> \in Less
    BY NatLessThanWellFounded DEF OpToRel
  <1> HIDE DEF Less
  <1>2. PICK m \in T : \A n \in T : <<n, m>> \notin Less
    BY <1>1, WFMin
  <1>3. \A n \in T : ~(n < m)
    BY <1>1, <1>2
  <1> QED
    BY <1>2, <1>3

LEMMA IndexFound ==
    ASSUME NEW h \in Listed
    PROVE  IndexOf(h) \in 1..Len(handles) /\ handles[IndexOf(h)] = h
  BY DEF Listed, IndexOf

LEMMA BeforeListed ==
    ASSUME TypeOK, NEW f, NEW g, Before(f, g)
    PROVE  f \in Listed /\ g \in Listed
  BY DEF Before, Listed, TypeOK

\* The order of the list is strict.
LEMMA BeforeStrict ==
    ASSUME TypeOK, OnceListed
    PROVE  /\ \A h : ~Before(h, h)
           /\ \A f, g, h : Before(f, g) /\ Before(g, h) => Before(f, h)
  <1>1. ASSUME NEW h, Before(h, h) PROVE FALSE
    BY <1>1 DEF Before, OnceListed, TypeOK
  <1>2. ASSUME NEW f, NEW g, NEW h, Before(f, g), Before(g, h) PROVE Before(f, h)
    <2>1. PICK i, j \in 1..Len(handles) : i < j /\ handles[i] = f /\ handles[j] = g
      BY <1>2 DEF Before
    <2>2. PICK k, l \in 1..Len(handles) : k < l /\ handles[k] = g /\ handles[l] = h
      BY <1>2 DEF Before
    <2>3. j = k
      BY <2>1, <2>2 DEF OnceListed
    <2> QED
      BY <2>1, <2>2, <2>3 DEF Before, TypeOK
  <1> QED
    BY <1>1, <1>2

\* What the walk finds from the k-th handle on: the first that passes the check.
LEMMA FirstMatch ==
    ASSUME TypeOK, NEW k \in Nat \ {0}
    PROVE  \/ /\ MatchFrom(k) = NULL
              /\ \A i \in k..Len(handles) : handles[i] \notin Matching
           \/ \E j \in k..Len(handles) :
                  /\ MatchFrom(k) = handles[j] /\ handles[j] \in Matching
                  /\ \A i \in k..Len(handles) : handles[i] \in Matching => j <= i
  <1> DEFINE at == {j \in k..Len(handles) : handles[j] \in Matching}
  <1>1. CASE at = {}
    BY <1>1 DEF MatchFrom
  <1>2. CASE at # {}
    <2>1. Len(handles) \in Nat /\ at \subseteq Nat
      BY DEF TypeOK
    <2>2. PICK l \in at : \A i \in at : l <= i
      BY <1>2, <2>1, LeastNumber
    <2> DEFINE first(j) == /\ handles[j] \in Matching
                           /\ \A i \in k..(j - 1) : handles[i] \notin Matching
    <2>3. first(l)
      <3>1. ASSUME NEW i \in k..(l - 1) PROVE handles[i] \notin Matching
        <4>1. i \in k..Len(handles) /\ ~(l <= i)
          BY <2>1, <2>2
        <4> QED
          BY <2>2, <4>1
      <3> QED
        BY <2>2, <3>1
    <2> DEFINE j == CHOOSE j \in k..Len(handles) : first(j)
    <2>4. j \in k..Len(handles) /\ first(j)
      <3>1. l \in k..Len(handles)
        BY <2>2
      <3> HIDE DEF first
      <3> QED
        BY <2>3, <3>1
    <2>5. MatchFrom(k) = handles[j]
      BY <1>2 DEF MatchFrom
    <2> HIDE DEF j
    <2>6. ASSUME NEW i \in k..Len(handles), handles[i] \in Matching PROVE j <= i
      BY <2>1, <2>4, <2>6
    <2> QED
      BY <2>4, <2>5, <2>6
  <1> QED
    BY <1>1, <1>2

\* The next module after h: no other that passes the check is between them.
LEMMA NextMatch ==
    ASSUME TypeOK, OnceListed, NEW h \in Listed
    PROVE  LET m == lt_dlhandle_iterate(h) IN
           /\ m = NULL => \A g \in Matching : ~Before(h, g)
           /\ m # NULL =>
                  /\ m \in Matching /\ Before(h, m)
                  /\ \A g \in Matching : Before(h, g) => g = m \/ Before(m, g)
  <1> DEFINE k == IndexOf(h)
             m == MatchFrom(k + 1)
  <1>1. k \in 1..Len(handles) /\ handles[k] = h /\ Len(handles) \in Nat
    BY IndexFound DEF TypeOK
  <1>2. lt_dlhandle_iterate(h) = m
    BY HandleAssumption, <1>1 DEF lt_dlhandle_iterate, TypeOK
  <1> HIDE DEF k
  <1>3. ASSUME NEW g \in Matching, Before(h, g)
        PROVE  \E i \in (k + 1)..Len(handles) : handles[i] = g
    BY <1>1, <1>3 DEF Before, OnceListed
  <1>4. k + 1 \in Nat \ {0}
    BY <1>1
  <1>5. CASE m = NULL /\ \A i \in (k + 1)..Len(handles) : handles[i] \notin Matching
    BY <1>2, <1>3, <1>5
  <1>6. CASE \E j \in (k + 1)..Len(handles) :
                 /\ m = handles[j] /\ handles[j] \in Matching
                 /\ \A i \in (k + 1)..Len(handles) : handles[i] \in Matching => j <= i
    <2>1. PICK j \in (k + 1)..Len(handles) :
                 /\ m = handles[j] /\ handles[j] \in Matching
                 /\ \A i \in (k + 1)..Len(handles) : handles[i] \in Matching => j <= i
      BY <1>6
    <2> HIDE DEF m
    <2>2. Before(h, m)
      BY <1>1, <2>1 DEF Before
    <2>3. ASSUME NEW g \in Matching, Before(h, g) PROVE g = m \/ Before(m, g)
      <3>1. PICK i \in (k + 1)..Len(handles) : handles[i] = g
        BY <1>3, <2>3
      <3>2. j <= i /\ i \in 1..Len(handles) /\ j \in 1..Len(handles)
        BY <1>1, <2>1, <3>1
      <3> QED
        BY <2>1, <3>1, <3>2 DEF Before
    <2>4. m # NULL
      BY <2>1, HandleAssumption
    <2> QED
      BY <1>2, <2>1, <2>2, <2>3, <2>4
  <1> QED
    BY <1>4, <1>5, <1>6, FirstMatch

\* The same of a search that begins at the module it is at, or at the head.
LEMMA MatchHere ==
    ASSUME TypeOK, OnceListed, NEW k \in Nat \ {0}
    PROVE  LET m == MatchFrom(k) IN
           /\ m = NULL => \A i \in k..Len(handles) : handles[i] \notin Matching
           /\ m # NULL =>
                  /\ m \in Matching /\ m \in Listed
                  /\ \A i \in k..Len(handles) :
                         handles[i] \in Matching => handles[i] = m \/ Before(m, handles[i])
  <1> DEFINE m == MatchFrom(k)
  <1>1. CASE m = NULL /\ \A i \in k..Len(handles) : handles[i] \notin Matching
    BY <1>1
  <1>2. CASE \E j \in k..Len(handles) :
                 /\ m = handles[j] /\ handles[j] \in Matching
                 /\ \A i \in k..Len(handles) : handles[i] \in Matching => j <= i
    <2>1. PICK j \in k..Len(handles) :
                 /\ m = handles[j] /\ handles[j] \in Matching
                 /\ \A i \in k..Len(handles) : handles[i] \in Matching => j <= i
      BY <1>2
    <2> HIDE DEF m
    <2>2. m # NULL /\ m \in Matching /\ Len(handles) \in Nat
      BY <2>1, HandleAssumption DEF TypeOK
    <2>3. j \in 1..Len(handles) /\ m \in Listed
      BY <2>1, <2>2 DEF Listed
    <2>4. ASSUME NEW i \in k..Len(handles), handles[i] \in Matching
          PROVE  handles[i] = m \/ Before(m, handles[i])
      <3>1. j <= i /\ i \in 1..Len(handles)
        BY <2>1, <2>2, <2>4
      <3> QED
        BY <2>1, <2>3, <3>1 DEF Before
    <2> QED
      BY <2>2, <2>3, <2>4 DEF m
  <1> QED
    BY <1>1, <1>2, FirstMatch

(***************************************************************************)
(* What opening and closing do to the list.                                *)
(***************************************************************************)
\* An opened module comes before the others, whose order stays.
LEMMA OpenList ==
    ASSUME TypeOK, OnceListed, NEW h \in Handle, Open(h)
    PROVE  /\ handles' \in Seq(Handle) /\ OnceListed'
           /\ Listed' = Listed \cup {h} /\ h \notin Listed
           /\ \A f, g : Before(f, g) => Before(f, g)'
           /\ \A g \in Listed : Before(h, g)'
  <1> DEFINE n == Len(handles)
  <1>1. /\ h \notin Listed /\ n \in Nat
        /\ handles' \in Seq(Handle) /\ Len(handles') = n + 1 /\ handles'[1] = h
        /\ \A i \in 1..n : handles'[i + 1] = handles[i]
        /\ \A i \in 2..(n + 1) : handles'[i] = handles[i - 1]
    BY DEF Open, TypeOK
  <1> HIDE DEF n
  <1>2. \A i \in 1..n : i + 1 \in 1..(n + 1) /\ i + 1 # 1
    BY <1>1
  <1>3. \A i \in 1..(n + 1) : i # 1 => i \in 2..(n + 1) /\ i - 1 \in 1..n
    BY <1>1
  <1>4. Listed' = Listed \cup {h}
    <2>1. ASSUME NEW g \in Listed PROVE g \in Listed'
      <3>1. PICK i \in 1..n : handles[i] = g
        BY <2>1 DEF Listed, n
      <3> QED
        BY <1>1, <1>2, <3>1 DEF Listed
    <2>2. ASSUME NEW g \in Listed' PROVE g \in Listed \cup {h}
      <3>1. PICK i \in 1..(n + 1) : handles'[i] = g
        BY <1>1, <2>2 DEF Listed
      <3>2. CASE i = 1
        BY <1>1, <3>1, <3>2
      <3>3. CASE i # 1
        BY <1>1, <1>3, <3>1, <3>3 DEF Listed, n
      <3> QED
        BY <3>2, <3>3
    <2>3. h \in Listed'
      BY <1>1 DEF Listed
    <2> QED
      BY <2>1, <2>2, <2>3
  <1>5. OnceListed'
    <2> SUFFICES ASSUME NEW i \in 1..(n + 1), NEW j \in 1..(n + 1), handles'[i] = handles'[j]
                 PROVE  i = j
      BY <1>1 DEF OnceListed
    <2>1. CASE i # 1 /\ j # 1
      <3>1. i - 1 = j - 1
        BY <1>1, <1>3, <2>1 DEF OnceListed, n
      <3> QED
        BY <3>1
    <2>2. \A k \in 1..(n + 1) : k # 1 => handles'[k] # h
      <3>1. \A l \in 1..n : handles[l] # h
        BY <1>1 DEF Listed, n
      <3> QED
        BY <1>1, <1>3, <3>1
    <2> QED
      BY <1>1, <2>1, <2>2
  <1>6. ASSUME NEW f, NEW g, Before(f, g) PROVE Before(f, g)'
    <2>1. PICK i, j \in 1..n : i < j /\ handles[i] = f /\ handles[j] = g
      BY <1>6 DEF Before, n
    <2>2. /\ i + 1 \in 1..Len(handles') /\ j + 1 \in 1..Len(handles') /\ i + 1 < j + 1
          /\ handles'[i + 1] = f /\ handles'[j + 1] = g
      BY <1>1, <2>1
    <2> QED
      BY <2>2 DEF Before
  <1>7. ASSUME NEW g \in Listed PROVE Before(h, g)'
    <2>1. PICK i \in 1..n : handles[i] = g
      BY <1>7 DEF Listed, n
    <2>2. /\ 1 \in 1..Len(handles') /\ i + 1 \in 1..Len(handles') /\ 1 < i + 1
          /\ handles'[1] = h /\ handles'[i + 1] = g
      BY <1>1, <2>1
    <2> QED
      BY <2>2 DEF Before
  <1> QED
    BY <1>1, <1>4, <1>5, <1>6, <1>7

\* A closed module is gone, and the order of the others stays.
LEMMA CloseList ==
    ASSUME TypeOK, OnceListed, NEW h \in Handle, Close(h)
    PROVE  /\ handles' \in Seq(Handle) /\ OnceListed'
           /\ Listed' = Listed \ {h}
           /\ \A f, g : f # h /\ g # h /\ Before(f, g) => Before(f, g)'
  <1> DEFINE n == Len(handles)
             k == IndexOf(h)
  <1>1. k \in 1..n /\ handles[k] = h /\ n \in Nat
    BY IndexFound DEF Close, TypeOK
  <1> HIDE DEF k
  <1>2. /\ handles' \in Seq(Handle) /\ Len(handles') = n - 1
        /\ \A j \in 1..(n - 1) : handles'[j] = handles[IF j < k THEN j ELSE j + 1]
    <2>1. handles' = [j \in 1..(n - 1) |-> handles[IF j < k THEN j ELSE j + 1]]
      BY DEF Close, Unlink, k
    <2>2. \A j \in 1..(n - 1) : handles[IF j < k THEN j ELSE j + 1] \in Handle
      BY <1>1 DEF TypeOK
    <2>3. n - 1 \in Nat
      BY <1>1
    <2> QED
      BY <2>1, <2>2, <2>3
  <1> HIDE DEF n
  <1> DEFINE to(i) == IF i < k THEN i ELSE i - 1
  <1>3. ASSUME NEW i \in 1..n, handles[i] # h
        PROVE  to(i) \in 1..Len(handles') /\ handles'[to(i)] = handles[i] /\ i # k
    <2>1. CASE i < k
      BY <1>1, <1>2, <2>1
    <2>2. CASE i > k
      <3>1. i - 1 \in 1..(n - 1) /\ ~(i - 1 < k) /\ (i - 1) + 1 = i
        BY <1>1, <2>2
      <3> QED
        BY <1>1, <1>2, <2>2, <3>1
    <2> QED
      BY <1>1, <1>3, <2>1, <2>2
  <1>4. Listed' = Listed \ {h}
    <2>1. ASSUME NEW g \in Listed, g # h PROVE g \in Listed'
      <3>1. PICK i \in 1..n : handles[i] = g
        BY <2>1 DEF Listed, n
      <3>2. to(i) \in 1..Len(handles') /\ handles'[to(i)] = g
        BY <1>3, <2>1, <3>1
      <3> HIDE DEF to
      <3> QED
        BY <3>2 DEF Listed
    <2>2. ASSUME NEW g \in Listed' PROVE g \in Listed /\ g # h
      <3>1. PICK j \in 1..(n - 1) : handles'[j] = g
        BY <1>2, <2>2 DEF Listed
      <3>2. PICK i \in 1..n : i # k /\ handles[i] = g
        BY <1>1, <1>2, <3>1
      <3> QED
        BY <1>1, <3>2 DEF Listed, OnceListed, n
    <2> QED
      BY <2>1, <2>2
  <1>5. OnceListed'
    <2> SUFFICES ASSUME NEW i \in 1..(n - 1), NEW j \in 1..(n - 1), handles'[i] = handles'[j]
                 PROVE  i = j
      BY <1>2 DEF OnceListed
    <2> DEFINE from(l) == IF l < k THEN l ELSE l + 1
    <2>1. /\ from(i) \in 1..n /\ handles'[i] = handles[from(i)]
          /\ from(j) \in 1..n /\ handles'[j] = handles[from(j)]
      BY <1>1, <1>2
    <2>2. from(i) = from(j)
      <3> HIDE DEF from
      <3> QED
        BY <2>1 DEF OnceListed, n
    <2> QED
      BY <1>1, <2>2
  <1>6. ASSUME NEW f, NEW g, f # h, g # h, Before(f, g) PROVE Before(f, g)'
    <2>1. PICK i, j \in 1..n : i < j /\ handles[i] = f /\ handles[j] = g
      BY <1>6 DEF Before, n
    <2>2. /\ to(i) \in 1..Len(handles') /\ handles'[to(i)] = f /\ i # k
          /\ to(j) \in 1..Len(handles') /\ handles'[to(j)] = g /\ j # k
      BY <1>3, <1>6, <2>1
    <2>3. to(i) < to(j)
      BY <1>1, <2>1, <2>2
    <2> HIDE DEF to
    <2> QED
      BY <2>2, <2>3 DEF Before
  <1> QED
    BY <1>2, <1>4, <1>5, <1>6

(***************************************************************************)
(* One lemma for each kind of step.                                        *)
(***************************************************************************)
LEMMA OpenInv ==
    ASSUME IterInv, NEW h \in Handle, Open(h)
    PROVE  IterInv'
  <1>0. TypeOK /\ OnceListed /\ UNCHANGED <<loopVars, mapVars>>
    BY DEF IterInv, Open
  <1>1. /\ handles' \in Seq(Handle) /\ OnceListed'
        /\ Listed' = Listed \cup {h} /\ h \notin Listed
        /\ \A f, g : Before(f, g) => Before(f, g)'
        /\ \A g \in Listed : Before(h, g)'
    BY <1>0, OpenList
  <1>2. TypeOK'
    BY <1>0, <1>1 DEF TypeOK, loopVars, mapVars
  <1>3. LoopInv'
    <2>1. LoopInv /\ UNCHANGED <<loop, place, seen, again, stayed>>
      BY <1>0 DEF IterInv, loopVars
    <2> QED
      BY <1>1, <2>1 DEF LoopInv, VisitsOnce, VisitsAll
  <1>4. MapInv'
    <2>1. MapInv /\ UNCHANGED <<map, cur, called, owed, result>>
      BY <1>0 DEF IterInv, mapVars
    <2> QED
      BY <1>1, <2>1 DEF MapInv
  <1> QED
    BY <1>1, <1>2, <1>3, <1>4 DEF IterInv

LEMMA CloseInv ==
    ASSUME IterInv, NEW h \in Handle, Close(h)
    PROVE  IterInv'
  <1>0. TypeOK /\ OnceListed
    BY DEF IterInv
  <1>1. /\ handles' \in Seq(Handle) /\ OnceListed'
        /\ Listed' = Listed \ {h}
        /\ \A f, g : f # h /\ g # h /\ Before(f, g) => Before(f, g)'
    BY <1>0, CloseList
  <1>2. /\ h # place /\ h # cur
        /\ stayed' = stayed \ {h} /\ owed' = owed \ {h}
        /\ UNCHANGED <<loop, place, seen, again, map, cur, called, result>>
    BY DEF Close
  <1>3. TypeOK'
    BY <1>0, <1>1, <1>2 DEF TypeOK
  <1>4. LoopInv'
    BY <1>1, <1>2 DEF IterInv, LoopInv, VisitsOnce, VisitsAll
  <1>5. MapInv'
    BY <1>1, <1>2 DEF IterInv, MapInv
  <1> QED
    BY <1>1, <1>3, <1>4, <1>5 DEF IterInv

\* The list, the mapped function and what it owes stay.
LEMMA SameList ==
    ASSUME handles' = handles
    PROVE  Listed' = Listed /\ (OnceListed' <=> OnceListed)
           /\ \A f, g : Before(f, g)' <=> Before(f, g)
  BY DEF Listed, OnceListed, Before

LEMMA LoopStartInv ==
    ASSUME IterInv, LoopStart
    PROVE  IterInv'
  <1> DEFINE m == MatchFrom(1)
  <1>0. TypeOK /\ OnceListed /\ MapInv
    BY DEF IterInv
  <1>1. /\ place' = m /\ loop' = (IF m = NULL THEN "done" ELSE "body")
        /\ seen' = {m} \ {NULL} /\ again' = FALSE
        /\ stayed' = Listed \cap Matching
        /\ UNCHANGED <<handles, map, cur, called, owed, result>>
    BY DEF LoopStart, Visit, lt_dlhandle_iterate, mapVars
  <1>2. /\ m = NULL => \A i \in 1..Len(handles) : handles[i] \notin Matching
        /\ m # NULL =>
               /\ m \in Matching /\ m \in Listed
               /\ \A i \in 1..Len(handles) :
                      handles[i] \in Matching => handles[i] = m \/ Before(m, handles[i])
    BY <1>0, MatchHere
  <1> HIDE DEF m
  <1>3. TypeOK'
    BY <1>0, <1>1, <1>2 DEF TypeOK
  <1>4. \A g \in stayed' : m # NULL /\ (g = m \/ Before(m, g))
    BY <1>1, <1>2 DEF Listed
  <1>5. LoopInv'
    BY <1>1, <1>2, <1>4, SameList DEF LoopInv, VisitsOnce, VisitsAll
  <1>6. MapInv'
    BY <1>0, <1>1, SameList DEF MapInv
  <1> QED
    BY <1>0, <1>1, <1>3, <1>5, <1>6, SameList DEF IterInv

LEMMA LoopNextInv ==
    ASSUME IterInv, LoopNext
    PROVE  IterInv'
  <1> DEFINE m == lt_dlhandle_iterate(place)
  <1>0. TypeOK /\ OnceListed /\ MapInv /\ LoopInv
    BY DEF IterInv
  <1>1. /\ loop = "body"
        /\ place' = m /\ loop' = (IF m = NULL THEN "done" ELSE "body")
        /\ seen' = seen \cup ({m} \ {NULL}) /\ again' = (again \/ m \in seen)
        /\ UNCHANGED <<handles, stayed, map, cur, called, owed, result>>
    BY DEF LoopNext, Visit, mapVars
  <1>2. place \in Listed
    BY <1>0, <1>1 DEF LoopInv
  <1>3. /\ m = NULL => \A g \in Matching : ~Before(place, g)
        /\ m # NULL =>
               /\ m \in Matching /\ Before(place, m)
               /\ \A g \in Matching : Before(place, g) => g = m \/ Before(m, g)
    BY <1>0, <1>2, NextMatch
  <1> HIDE DEF m
  <1>4. m \notin seen
    <2>1. CASE m = NULL
      BY <1>0, <2>1, HandleAssumption DEF TypeOK
    <2>2. CASE m # NULL
      <3>1. Before(place, m) /\ m \in Listed
        BY <1>0, <1>3, <2>2, BeforeListed
      <3>2. m # place /\ ~Before(m, place)
        BY <1>0, <3>1, BeforeStrict
      <3> QED
        BY <1>0, <1>1, <3>1, <3>2 DEF LoopInv
    <2> QED
      BY <2>1, <2>2
  <1>5. ~again'
    BY <1>0, <1>1, <1>4 DEF LoopInv, VisitsOnce
  <1>6. TypeOK'
    BY <1>0, <1>1, <1>3, <1>5 DEF TypeOK
  <1>7. m # NULL => \A g \in seen' : g = m \/ Before(g, m) \/ g \notin Listed
    BY <1>0, <1>1, <1>3, BeforeStrict DEF LoopInv
  <1>8. \A g \in stayed : g \in seen' \/ (m # NULL /\ Before(m, g))
    BY <1>0, <1>1, <1>3 DEF LoopInv, TypeOK
  <1>9. LoopInv'
    <2>1. m # NULL => m \in Listed
      BY <1>0, <1>3, BeforeListed
    <2> QED
      BY <1>1, <1>5, <1>7, <1>8, <2>1, SameList DEF LoopInv, VisitsOnce, VisitsAll
  <1>10. MapInv'
    BY <1>0, <1>1, SameList DEF MapInv
  <1> QED
    BY <1>0, <1>1, <1>6, <1>9, <1>10, SameList DEF IterInv

LEMMA MapStartInv ==
    ASSUME IterInv, MapStart
    PROVE  IterInv'
  <1>0. TypeOK /\ OnceListed /\ LoopInv
    BY DEF IterInv
  <1>1. /\ cur' = (IF handles = <<>> THEN NULL ELSE handles[1])
        /\ map' = "skip" /\ called' = {} /\ owed' = Listed \cap Matching
        /\ UNCHANGED <<handles, loop, place, seen, again, stayed, result>>
    BY DEF MapStart, loopVars
  <1>2. CASE handles = <<>>
    <2>1. cur' = NULL /\ owed' = {}
      BY <1>1, <1>2 DEF Listed
    <2> QED
      BY <1>0, <1>1, <2>1, SameList DEF IterInv, TypeOK, LoopInv, MapInv, VisitsOnce, VisitsAll
  <1>3. CASE handles # <<>>
    <2>1. Len(handles) \in Nat /\ 1 \in 1..Len(handles)
      BY <1>0, <1>3 DEF TypeOK
    <2>2. cur' = handles[1] /\ cur' \in Listed /\ cur' \in Handle
      BY <1>0, <1>1, <1>3, <2>1 DEF Listed, TypeOK
    <2>3. ASSUME NEW g \in owed' PROVE g = cur' \/ Before(cur', g)
      <3>1. PICK i \in 1..Len(handles) : handles[i] = g
        BY <1>1, <2>3 DEF Listed
      <3>2. i = 1 \/ 1 < i
        BY <2>1
      <3> QED
        BY <2>1, <2>2, <3>1, <3>2 DEF Before
    <2>4. TypeOK'
      BY <1>0, <1>1, <2>2 DEF TypeOK
    <2>5. MapInv'
      BY <1>1, <2>2, <2>3, HandleAssumption, SameList DEF MapInv
    <2>6. LoopInv'
      BY <1>0, <1>1, SameList DEF LoopInv, VisitsOnce, VisitsAll
    <2> QED
      BY <1>0, <1>1, <2>4, <2>5, <2>6, SameList DEF IterInv
  <1> QED
    BY <1>2, <1>3

LEMMA MapSkipInv ==
    ASSUME IterInv, MapSkip
    PROVE  IterInv'
  <1> DEFINE k == IndexOf(cur)
             m == MatchFrom(k)
  <1>0. TypeOK /\ OnceListed /\ LoopInv /\ MapInv
    BY DEF IterInv
  <1>1. /\ map = "skip" /\ cur # NULL /\ cur' = m /\ map' = "call"
        /\ UNCHANGED <<handles, called, owed, result, loop, place, seen, again, stayed>>
    BY DEF MapSkip, loopVars
  <1>2. cur \in Listed /\ \A g \in owed : g = cur \/ Before(cur, g)
    BY <1>0, <1>1 DEF MapInv
  <1>3. k \in 1..Len(handles) /\ handles[k] = cur /\ Len(handles) \in Nat
    BY <1>0, <1>2, IndexFound DEF TypeOK
  <1> HIDE DEF k
  <1>4. /\ m = NULL => \A i \in k..Len(handles) : handles[i] \notin Matching
        /\ m # NULL =>
               /\ m \in Matching /\ m \in Listed
               /\ \A i \in k..Len(handles) :
                      handles[i] \in Matching => handles[i] = m \/ Before(m, handles[i])
    BY <1>0, <1>3, MatchHere
  <1> HIDE DEF m
  <1>5. ASSUME NEW g \in owed PROVE m # NULL /\ (g = m \/ Before(m, g))
    <2>1. PICK i \in k..Len(handles) : handles[i] = g
      <3>1. CASE g = cur
        BY <1>3, <3>1
      <3>2. CASE Before(cur, g)
        BY <1>0, <1>3, <3>2 DEF Before, OnceListed
      <3> QED
        BY <1>2, <3>1, <3>2
    <2>2. g \in Matching
      BY <1>0 DEF TypeOK
    <2> QED
      BY <1>4, <2>1, <2>2
  <1>6. TypeOK'
    BY <1>0, <1>1, <1>4, HandleAssumption DEF TypeOK
  <1>7. MapInv'
    BY <1>1, <1>4, <1>5, SameList DEF MapInv
  <1>8. LoopInv'
    BY <1>0, <1>1, SameList DEF LoopInv, VisitsOnce, VisitsAll
  <1> QED
    BY <1>0, <1>1, <1>6, <1>7, <1>8, SameList DEF IterInv

\* The mapped function is called, or the walk ends.
LEMMA MapCallEndInv ==
    ASSUME IterInv, MapCall \/ MapEnd
    PROVE  IterInv'
  <1>0. TypeOK /\ OnceListed /\ LoopInv /\ MapInv
    BY DEF IterInv
  <1>1. UNCHANGED <<handles, owed, loop, place, seen, again, stayed>>
    BY DEF MapCall, MapEnd, loopVars
  <1>2. LoopInv' /\ OnceListed'
    BY <1>0, <1>1, SameList DEF LoopInv, VisitsOnce, VisitsAll
  <1>3. CASE MapCall
    <2>1. /\ map = "call" /\ called' = called \cup {cur}
          /\ \/ map' = "done" /\ result' = 1 /\ cur' = NULL
             \/ map' = "skip" /\ UNCHANGED <<cur, result>>
      BY <1>3 DEF MapCall
    <2>2. TypeOK'
      BY <1>0, <1>1, <2>1 DEF TypeOK, MapInv
    <2>3. MapInv'
      BY <1>0, <1>1, <2>1, SameList DEF MapInv
    <2> QED
      BY <1>2, <2>2, <2>3 DEF IterInv
  <1>4. CASE MapEnd
    <2>1. /\ map = "skip" /\ cur = NULL /\ map' = "done" /\ result' = 0
          /\ UNCHANGED <<cur, called>>
      BY <1>4 DEF MapEnd
    <2>2. TypeOK'
      BY <1>0, <1>1, <2>1 DEF TypeOK
    <2>3. MapInv'
      BY <1>0, <1>1, <2>1, SameList DEF MapInv
    <2> QED
      BY <1>2, <2>2, <2>3 DEF IterInv
  <1> QED
    BY <1>3, <1>4

LEMMA IterInit == Init => IterInv
  <1> SUFFICES ASSUME Init PROVE IterInv
    OBVIOUS
  <1>1. Len(handles) = 0 /\ Listed = {}
    BY DEF Init, Listed
  <1>2. TypeOK
    <2>1. handles \in Seq(Handle) /\ result \in {0, 1}
      BY DEF Init
    <2> QED
      BY <2>1, Zenon DEF Init, TypeOK
  <1>3. OnceListed /\ LoopInv /\ MapInv
    BY <1>1 DEF Init, OnceListed, LoopInv, MapInv, VisitsOnce, VisitsAll
  <1> QED
    BY <1>2, <1>3 DEF IterInv

LEMMA IterStep ==
    ASSUME IterInv, [Next]_vars
    PROVE  IterInv'
  <1>1. CASE UNCHANGED vars
    <2>1. UNCHANGED <<handles, loop, place, seen, again, stayed>>
          /\ UNCHANGED <<map, cur, called, owed, result>>
      BY <1>1 DEF vars, loopVars, mapVars
    <2>2. TypeOK'
      BY <2>1 DEF IterInv, TypeOK
    <2>3. LoopInv'
      BY <2>1, SameList DEF IterInv, LoopInv, VisitsOnce, VisitsAll
    <2>4. MapInv'
      BY <2>1, SameList DEF IterInv, MapInv
    <2> QED
      BY <2>1, <2>2, <2>3, <2>4, SameList DEF IterInv
  <1>2. CASE Next
    BY <1>2, OpenInv, CloseInv, LoopStartInv, LoopNextInv, MapStartInv, MapSkipInv,
       MapCallEndInv DEF Next, Map
  <1> QED
    BY <1>1, <1>2

\* However many modules are opened and closed under a walk: a loop on
\* lt_dlhandle_iterate visits no module twice and misses none that stays open,
\* and lt_dlhandle_map returns 0 only when it owes no module a call.
THEOREM WalksAreRight == Spec => []VisitsRight
  <1>1. Init => IterInv
    BY IterInit
  <1>2. IterInv /\ [Next]_vars => IterInv'
    BY IterStep
  <1>3. IterInv => VisitsRight
    BY DEF IterInv, LoopInv, MapInv, VisitsRight, ZeroMeansAll
  <1> QED
    BY <1>1, <1>2, <1>3, PTL DEF Spec

(***************************************************************************)
(* lt_dlforeachfile and the search path.                                   *)
(***************************************************************************)
CONSTANTS
    Name, Spelling, Path, Defaults, Contents, LibDirs, LoadsUnset,
    MaxDirs, MaxLoads, MaxChanges
VARIABLES
    user_search_path, saved, call, walk, log, last, asked, skipped

SP == INSTANCE SearchPath

\* A walk has these fields.
Fields(w) == w = [paths |-> w.paths, dirs |-> w.dirs, files |-> w.files, dir |-> w.dir,
                  calling |-> w.calling, is_done |-> w.is_done, changes |-> w.changes]

\* What a walk remembers of func's last answer: while func runs every answer before
\* was 0, and after one that was not there is nothing left to call it with.
Heeded(w, answer) ==
    /\ Fields(w) /\ w.calling \in BOOLEAN
    /\ w.calling => w.is_done = 0 /\ answer = 0
    /\ ~w.calling => w.is_done = answer
    /\ w.is_done # 0 => w.files = <<>> /\ w.dirs = <<>>

WalkInv == walk # NULL => Heeded(walk, last)

\* A change of fields the walk remembers nothing in.
LEMMA StillHeeded ==
    ASSUME walk # NULL, Heeded(walk, last), NEW w, Fields(w), w.calling = walk.calling,
           w.is_done = walk.is_done,
           walk.is_done = 0 \/ (w.files = walk.files /\ w.dirs = walk.dirs)
    PROVE  Heeded(w, last)
  BY DEF Heeded

LEMMA MayChangeKeeps ==
    ASSUME WalkInv, SP!MayChange PROVE WalkInv'
<1>1. CASE walk = NULL
  BY <1>1 DEF SP!MayChange, SP!walkvars, WalkInv
<1>2. CASE walk # NULL
  <2>1. /\ walk' = [walk EXCEPT !.changes = walk.changes + 1] /\ last' = last
        /\ Heeded(walk, last)
    BY <1>2 DEF SP!MayChange, WalkInv
  <2>2. walk' = [paths |-> walk.paths, dirs |-> walk.dirs, files |-> walk.files,
                 dir |-> walk.dir, calling |-> walk.calling, is_done |-> walk.is_done,
                 changes |-> walk.changes + 1]
    BY <2>1, Zenon DEF Heeded, Fields
  <2>3. /\ Fields(walk') /\ walk'.calling = walk.calling /\ walk'.is_done = walk.is_done
        /\ walk'.files = walk.files /\ walk'.dirs = walk.dirs
    BY ONLY <2>2 DEF Fields
  <2>4. Heeded(walk', last)
    BY <1>2, <2>1, <2>3, StillHeeded
  <2> QED
    BY <2>1, <2>4 DEF WalkInv
<1> QED
  BY <1>1, <1>2

\* A step of the walk that keeps what it remembers.
LEMMA WalkStepKeeps ==
    ASSUME WalkInv, last' = last, walk # NULL, walk' = NULL \/ Heeded(walk', last)
    PROVE  WalkInv'
  BY DEF WalkInv

LEMMA ForEachKeeps ==
    ASSUME NEW path, SP!lt_dlforeachfile(path) PROVE WalkInv'
<1>1. PICK paths : walk' = [paths |-> paths, dirs |-> <<>>, files |-> <<>>,
                       dir |-> <<>>, calling |-> FALSE, is_done |-> 0, changes |-> 0]
  BY DEF SP!lt_dlforeachfile
<1>2. last' = 0
  BY DEF SP!lt_dlforeachfile
<1>3. Heeded(walk', 0)
  BY ONLY <1>1 DEF Heeded, Fields
<1> QED
  BY <1>2, <1>3 DEF WalkInv

LEMMA FreeFacts ==
    ASSUME WalkInv, SP!Free
    PROVE  /\ walk # NULL /\ Heeded(walk, last) /\ ~walk.calling /\ walk.files = <<>>
           /\ walk.is_done = last
  BY DEF WalkInv, SP!Free, Heeded

LEMMA WalkPathKeeps ==
    ASSUME WalkInv, SP!WalkPath PROVE WalkInv'
<1>1. /\ walk # NULL /\ Heeded(walk, last) /\ ~walk.calling /\ walk.files = <<>>
  BY FreeFacts DEF SP!WalkPath
<1>2. PICK paths, dirs : walk' = [walk EXCEPT !.paths = paths, !.dirs = dirs]
  BY Zenon DEF SP!WalkPath
<1>3. walk.is_done = 0 /\ last' = last
  BY DEF SP!WalkPath
<1>4. walk' = [paths |-> paths, dirs |-> dirs, files |-> walk.files, dir |-> walk.dir,
               calling |-> walk.calling, is_done |-> walk.is_done, changes |-> walk.changes]
  BY <1>1, <1>2, Zenon DEF Heeded, Fields
<1>5. /\ Fields(walk') /\ walk'.calling = walk.calling /\ walk'.is_done = walk.is_done
  BY ONLY <1>4 DEF Fields
<1>6. Heeded(walk', last)
  BY <1>1, <1>3, <1>5, StillHeeded
<1> QED
  BY <1>1, <1>3, <1>6, WalkStepKeeps

LEMMA WalkPathFailsKeeps ==
    ASSUME WalkInv, SP!WalkPathFails PROVE WalkInv'
<1>1. /\ walk # NULL /\ Heeded(walk, last) /\ ~walk.calling /\ walk.files = <<>>
  BY FreeFacts DEF SP!WalkPathFails
<1>2. walk.is_done = 0 /\ last' = last
  BY DEF SP!WalkPathFails
<1>3. CASE walk' = [walk EXCEPT !.dirs = <<>>]
  <2>1. walk' = [paths |-> walk.paths, dirs |-> <<>>, files |-> walk.files, dir |-> walk.dir,
                 calling |-> walk.calling, is_done |-> walk.is_done, changes |-> walk.changes]
    BY <1>1, <1>3, Zenon DEF Heeded, Fields
  <2>2. /\ Fields(walk') /\ walk'.calling = walk.calling /\ walk'.is_done = walk.is_done
    BY ONLY <2>1 DEF Fields
  <2>3. Heeded(walk', last)
    BY <1>1, <1>2, <2>2, StillHeeded
  <2> QED
    BY <1>1, <1>2, <2>3, WalkStepKeeps
<1>4. CASE walk' = [walk EXCEPT !.paths = Tail(walk.paths)]
  <2>1. walk' = [paths |-> Tail(walk.paths), dirs |-> walk.dirs, files |-> walk.files,
                 dir |-> walk.dir, calling |-> walk.calling, is_done |-> walk.is_done,
                 changes |-> walk.changes]
    BY <1>1, <1>4, Zenon DEF Heeded, Fields
  <2>2. /\ Fields(walk') /\ walk'.calling = walk.calling /\ walk'.is_done = walk.is_done
    BY ONLY <2>1 DEF Fields
  <2>3. Heeded(walk', last)
    BY <1>1, <1>2, <2>2, StillHeeded
  <2> QED
    BY <1>1, <1>2, <2>3, WalkStepKeeps
<1> QED
  BY <1>3, <1>4, Zenon DEF SP!WalkPathFails

\* While directories are left, every answer was 0.
LEMMA DirsLeft ==
    ASSUME WalkInv, SP!Free, walk.dirs # <<>> PROVE walk.is_done = 0
  BY FreeFacts DEF Heeded

LEMMA WalkDirKeeps ==
    ASSUME WalkInv, SP!WalkDir PROVE WalkInv'
<1>1. /\ walk # NULL /\ Heeded(walk, last) /\ ~walk.calling /\ walk.is_done = 0 /\ last' = last
  BY FreeFacts, DirsLeft DEF SP!WalkDir
<1>2. PICK dirs, fs, d : walk' = [walk EXCEPT !.dirs = dirs, !.files = fs, !.dir = d]
  BY Zenon DEF SP!WalkDir
<1>4. walk' = [paths |-> walk.paths, dirs |-> dirs, files |-> fs, dir |-> d,
               calling |-> walk.calling, is_done |-> walk.is_done, changes |-> walk.changes]
  BY <1>1, <1>2, Zenon DEF Heeded, Fields
<1>5. /\ Fields(walk') /\ walk'.calling = walk.calling /\ walk'.is_done = walk.is_done
  BY ONLY <1>4 DEF Fields
<1>6. Heeded(walk', last)
  BY <1>1, <1>5, StillHeeded
<1> QED
  BY <1>1, <1>6, WalkStepKeeps

LEMMA WalkDirFailsKeeps ==
    ASSUME WalkInv, SP!WalkDirFails PROVE WalkInv'
<1>1. /\ walk # NULL /\ Heeded(walk, last) /\ ~walk.calling /\ walk.is_done = 0 /\ last' = last
  BY FreeFacts, DirsLeft DEF SP!WalkDirFails
<1>2. PICK dirs : walk' = [walk EXCEPT !.dirs = dirs]
  BY Zenon DEF SP!WalkDirFails
<1>4. walk' = [paths |-> walk.paths, dirs |-> dirs, files |-> walk.files, dir |-> walk.dir,
               calling |-> walk.calling, is_done |-> walk.is_done, changes |-> walk.changes]
  BY <1>1, <1>2, Zenon DEF Heeded, Fields
<1>5. /\ Fields(walk') /\ walk'.calling = walk.calling /\ walk'.is_done = walk.is_done
  BY ONLY <1>4 DEF Fields
<1>6. Heeded(walk', last)
  BY <1>1, <1>5, StillHeeded
<1> QED
  BY <1>1, <1>6, WalkStepKeeps

\* Files are left only if every answer was 0.
LEMMA CallFuncKeeps ==
    ASSUME WalkInv, SP!CallFunc PROVE WalkInv'
<1>1. /\ walk # NULL /\ Heeded(walk, last) /\ ~walk.calling /\ walk.files # <<>> /\ last' = last
      /\ walk' = [walk EXCEPT !.calling = TRUE]
  BY DEF WalkInv, SP!CallFunc
<1>2. walk.is_done = 0 /\ last = 0
  BY <1>1 DEF Heeded
<1>3. walk' = [paths |-> walk.paths, dirs |-> walk.dirs, files |-> walk.files, dir |-> walk.dir,
               calling |-> TRUE, is_done |-> walk.is_done, changes |-> walk.changes]
  BY <1>1, Zenon DEF Heeded, Fields
<1>4. /\ Fields(walk') /\ walk'.calling = TRUE /\ walk'.is_done = walk.is_done
  BY ONLY <1>3 DEF Fields
<1>5. Heeded(walk', last)
  BY <1>2, <1>4 DEF Heeded
<1> QED
  BY <1>1, <1>5, WalkStepKeeps

LEMMA FuncReturnsKeeps ==
    ASSUME WalkInv, NEW answer \in {0, 1}, SP!FuncReturns(answer) PROVE WalkInv'
<1>1. /\ walk # NULL /\ Heeded(walk, last) /\ walk.calling /\ last' = answer
  BY DEF WalkInv, SP!FuncReturns
<1>2. walk.is_done = 0
  BY <1>1 DEF Heeded
<1>3. CASE /\ answer = 0
           /\ walk' = [walk EXCEPT !.calling = FALSE, !.files = Tail(walk.files)]
  <2>1. walk' = [paths |-> walk.paths, dirs |-> walk.dirs, files |-> Tail(walk.files),
                 dir |-> walk.dir, calling |-> FALSE, is_done |-> walk.is_done,
                 changes |-> walk.changes]
    BY <1>1, <1>3, Zenon DEF Heeded, Fields
  <2>2. Heeded(walk', 0)
    BY ONLY <2>1, <1>2 DEF Heeded, Fields
  <2> QED
    BY <1>1, <1>3, <2>2 DEF WalkInv
<1>4. CASE walk' = [walk EXCEPT !.calling = FALSE, !.is_done = answer,
                                !.files = <<>>, !.dirs = <<>>]
  <2>1. walk' = [paths |-> walk.paths, dirs |-> <<>>, files |-> <<>>, dir |-> walk.dir,
                 calling |-> FALSE, is_done |-> answer, changes |-> walk.changes]
    BY <1>1, <1>4, Zenon DEF Heeded, Fields
  <2>2. Heeded(walk', answer)
    BY ONLY <2>1 DEF Heeded, Fields
  <2> QED
    BY <1>1, <2>2 DEF WalkInv
<1> QED
  BY <1>3, <1>4, Zenon DEF SP!FuncReturns

LEMMA WalkInvKept ==
    ASSUME WalkInv, [SP!Next]_SP!vars PROVE WalkInv'
<1> USE DEF SP!MayCall
<1>1. ASSUME NEW dir, SP!lt_dladdsearchdir(dir) PROVE WalkInv'
  BY <1>1, MayChangeKeeps DEF SP!lt_dladdsearchdir
<1>2. ASSUME NEW n, NEW dir, SP!lt_dlinsertsearchdir(n, dir) PROVE WalkInv'
  BY <1>2, MayChangeKeeps DEF SP!lt_dlinsertsearchdir
<1>3. CASE SP!insertdir_fails
  BY <1>3, MayChangeKeeps DEF SP!insertdir_fails
<1>4. ASSUME NEW path, SP!lt_dlsetsearchpath(path) PROVE WalkInv'
  BY <1>4, MayChangeKeeps DEF SP!lt_dlsetsearchpath
<1>5. CASE SP!setsearchpath_fails
  BY <1>5, MayChangeKeeps DEF SP!setsearchpath_fails
<1>6. ASSUME NEW dirs, SP!load_deplibs(dirs) PROVE WalkInv'
  BY <1>6, MayChangeKeeps DEF SP!load_deplibs
<1>7. CASE SP!load_deplibs_returns
  BY <1>7 DEF SP!load_deplibs_returns, SP!walkvars, WalkInv
<1>8. CASE SP!WalkReturns
  BY <1>8 DEF SP!WalkReturns, WalkInv
<1>9. CASE UNCHANGED SP!vars
  BY <1>9 DEF SP!vars, WalkInv
<1> QED
  BY <1>1, <1>2, <1>3, <1>4, <1>5, <1>6, <1>7, <1>8, <1>9, ForEachKeeps, WalkPathKeeps,
     WalkPathFailsKeeps, WalkDirKeeps, WalkDirFailsKeeps, CallFuncKeeps, FuncReturnsKeeps, Zenon
     DEF SP!Next, SP!Internal

\* "lt_dlforeachfile returns the value returned by the last call made to func",
\* and calls func no more after an answer that is not 0, whatever func does to the
\* search path and whatever directories cannot be read.
THEOREM AnswersHeeded == SP!Spec => []SP!ResultOfLastCall
<1>1. SP!Init => WalkInv
  BY DEF SP!Init, WalkInv
<1>2. WalkInv /\ [SP!Next]_SP!vars => WalkInv'
  BY WalkInvKept
<1>3. WalkInv => SP!ResultOfLastCall
  BY DEF WalkInv, Heeded, SP!ResultOfLastCall
<1> QED
  BY <1>1, <1>2, <1>3, PTL DEF SP!Spec

(***************************************************************************)
(* The path load_deplibs saves.                                            *)
(***************************************************************************)
\* What was saved are texts and NULLs, in a stack.
PathsSaved == \E S : saved \in Seq(S)

\* A load of deplibs begins or returns, or keeps what was saved.
LEMMA SavedChanges ==
    ASSUME [SP!Next]_SP!vars
    PROVE  \/ \E dirs \in LibDirs : SP!load_deplibs(dirs)
           \/ SP!load_deplibs_returns
           \/ saved' = saved
<1> USE DEF SP!MayCall
<1> QED
  BY Zenon DEF SP!Next, SP!Internal, SP!vars, SP!lt_dladdsearchdir, SP!lt_dlinsertsearchdir,
     SP!insertdir_fails, SP!lt_dlsetsearchpath, SP!setsearchpath_fails, SP!lt_dlforeachfile,
     SP!WalkPath, SP!WalkPathFails, SP!WalkDir, SP!WalkDirFails, SP!CallFunc, SP!FuncReturns,
     SP!WalkReturns

\* The step that OnlyClientsChangePath allows.
PathStep ==
    \/ SP!ClientPath' = SP!ClientPath
    \/ saved = <<>> /\ saved' = <<>>
    \/ saved = <<NULL>> /\ saved' = <<>>

\* One more load_deplibs saves what the clients see, or what the one below added.
LEMMA LoadKeepsPath ==
    ASSUME PathsSaved, NEW dirs, SP!load_deplibs(dirs)
    PROVE  PathsSaved' /\ PathStep
<1>1. PICK S : saved \in Seq(S)
  BY DEF PathsSaved
<1>2. saved' = Append(saved, user_search_path)
  BY DEF SP!load_deplibs
<1> DEFINE T == S \cup {user_search_path}
<1>3. saved \in Seq(T) /\ user_search_path \in T
  BY <1>1
<1> HIDE DEF T
<1>4. /\ saved' \in Seq(T) /\ saved' # <<>>
      /\ saved = <<>> => saved'[1] = user_search_path
      /\ saved # <<>> => saved'[1] = saved[1]
  BY <1>2, <1>3
<1> QED
  BY <1>4 DEF PathsSaved, PathStep, SP!ClientPath

\* The return of an inner one leaves what the outermost saved, and that of the
\* outermost puts it back, if it is a path.
LEMMA ReturnKeepsPath ==
    ASSUME PathsSaved, SP!load_deplibs_returns
    PROVE  PathsSaved' /\ PathStep
<1> DEFINE n == Len(saved)
<1>1. PICK S : saved \in Seq(S)
  BY DEF PathsSaved
<1>2. saved # <<>> /\ saved' = SubSeq(saved, 1, n - 1)
  BY DEF SP!load_deplibs_returns, SP!Front
<1>3. n \in Nat /\ n >= 1
  BY <1>1, <1>2
<1>4. user_search_path' = IF saved[n] # NULL THEN saved[n] ELSE user_search_path
  BY DEF SP!load_deplibs_returns, SP!Last
<1>5. /\ saved' \in Seq(S) /\ Len(saved') = n - 1
      /\ \A i \in 1..n - 1 : saved'[i] = saved[i]
  <2>1. /\ 1 \in Int /\ n - 1 \in Int /\ \A i \in 1..n - 1 : saved[i] \in S
        /\ saved' = SubSeq(saved, 1, n - 1)
    BY <1>1, <1>2, <1>3
  <2> HIDE DEF n
  <2> QED
    BY ONLY <2>1, <1>3, SubSeqProperties
<1>6. PathsSaved'
  BY <1>5 DEF PathsSaved
<1>7. CASE n = 1
  <2>1. saved' = <<>> /\ SP!ClientPath = saved[1] /\ SP!ClientPath' = user_search_path'
    BY <1>2, <1>5, <1>7 DEF SP!ClientPath
  <2>2. saved[1] = NULL => saved = <<NULL>>
    BY <1>1, <1>7
  <2> QED
    BY <1>4, <1>6, <1>7, <2>1, <2>2 DEF PathStep
<1>8. CASE n > 1
  <2>1. saved' # <<>> /\ saved'[1] = saved[1]
    BY <1>3, <1>5, <1>8
  <2> QED
    BY <1>2, <1>6, <2>1 DEF PathStep, SP!ClientPath
<1> QED
  BY <1>3, <1>7, <1>8

LEMMA SavedKept ==
    ASSUME PathsSaved, [SP!Next]_SP!vars
    PROVE  PathsSaved' /\ (PathStep \/ UNCHANGED SP!vars)
<1>1. CASE saved' = saved /\ saved # <<>>
  BY <1>1 DEF PathsSaved, PathStep, SP!ClientPath
<1>2. CASE saved' = saved /\ saved = <<>>
  BY <1>2 DEF PathsSaved, PathStep
<1> QED
  BY <1>1, <1>2, LoadKeepsPath, ReturnKeepsPath, SavedChanges

\* Whatever nests of load_deplibs run, whatever directories their modules add and
\* wherever memory runs out: the search path that clients see changes by calls of
\* theirs only, except that it keeps what was added where there was none.
THEOREM PathIsClients == SP!Spec => SP!OnlyClientsChangePath
<1>1. SP!Init => PathsSaved
  <2>1. <<>> \in Seq({})
    OBVIOUS
  <2> QED
    BY <2>1 DEF SP!Init, PathsSaved
<1>2. PathsSaved /\ [SP!Next]_SP!vars => PathsSaved'
  BY SavedKept
<1>3. PathsSaved /\ [SP!Next]_SP!vars =>
          [\/ SP!ClientPath' = SP!ClientPath
           \/ saved = <<>> /\ saved' = <<>>
           \/ saved = <<NULL>> /\ saved' = <<>>]_SP!vars
  BY SavedKept DEF PathStep
<1> QED
  BY <1>1, <1>2, <1>3, PTL DEF SP!Spec, SP!OnlyClientsChangePath
=============================================================================
