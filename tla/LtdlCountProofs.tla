--------------------------- MODULE LtdlCountProofs ---------------------------
(***************************************************************************)
(* Theorems about Ltdl's reference counts, for every set of handles,       *)
(* modules, deplibs and loaders: a module is counted exactly as often as   *)
(* it is used, and none is unloaded that another one depends on; and about *)
(* lt_dlexit, which closes by these counts: it keeps to that order and     *)
(* leaves nothing behind.                                                  *)
(***************************************************************************)
EXTENDS LtdlProofs, FiniteSetTheorems, FunctionTheorems

(***************************************************************************)
(* The uses of a module, in a heap, a set of handles in use, a stack of    *)
(* calls and the client's holds that are parameters: a step is followed    *)
(* here through the moments at which a use is in nobody's hands.           *)
(***************************************************************************)
DepSet(hp, R, h) ==
    {p \in R \X Nat : p[2] \in 1..Len(hp[p[1]].deplibs) /\ hp[p[1]].deplibs[p[2]] = h}
RetSet(s, h) == {k \in 1..Len(s) : s[k].ret = h}
UsesIn(hp, R, s, hd, h) == hd[h] + Cardinality(DepSet(hp, R, h)) + Cardinality(RetSet(s, h))

\* x uses of h are in hand: counted, and not yet, or no longer, with a user.
CountIn(hp, R, s, hd, h, x) ==
    /\ IsFiniteSet(DepSet(hp, R, h))
    /\ hp[h].ref >= UsesIn(hp, R, s, hd, h) + x
    /\ hp[h].resident \/ hp[h].ref = UsesIn(hp, R, s, hd, h) + x
    /\ hp[h].resident \/ hp[h].ref > 0

InHand(h, o) == IF h = o THEN 1 ELSE 0

\* The modules Rg of the list, among the handles R in use: what is held,
\* depended on or returned is in the list, and is counted; a use of o is in
\* hand.
Ledger(hp, Rg, R, s, hd, o) ==
    /\ \A h \in Handle \ Rg : hd[h] = 0
    /\ \A g \in R : SeqRange(hp[g].deplibs) \subseteq Rg
    /\ \A k \in 1..Len(s) : s[k].ret # NULL => s[k].op = "undo" /\ s[k].ret \in Rg
    /\ \A h \in Rg : CountIn(hp, R, s, hd, h, InHand(h, o))

\* The invariant, from lt_dlinit to lt_dlexit; after it nothing is held, and
\* once lt_dlexit has closed the modules no call is pending.
ServeInv ==
    Serving => /\ initialized > 0
               /\ Ledger(heap, Registered, Reachable, stack, held, NULL)
OffInv ==
    /\ phase \in {"loaders", "off"} => stack = <<>>
    /\ phase = "off" => \A h \in Handle : held[h] = 0

(***************************************************************************)
(* Counting.                                                               *)
(***************************************************************************)
LEMMA AppendFacts ==
    ASSUME NEW s \in Seq(Handle), NEW d \in Handle
    PROVE  /\ Append(s, d) \in Seq(Handle) /\ Len(s) \in Nat
           /\ Len(Append(s, d)) = Len(s) + 1 /\ Append(s, d)[Len(s) + 1] = d
           /\ \A k \in 1..Len(s) : Append(s, d)[k] = s[k]
  OBVIOUS

LEMMA DepMember ==
    ASSUME NEW hp, NEW R, NEW h, NEW g, NEW k
    PROVE  <<g, k>> \in DepSet(hp, R, h) <=>
               g \in R /\ k \in Nat /\ k \in 1..Len(hp[g].deplibs) /\ hp[g].deplibs[k] = h
  BY DEF DepSet

LEMMA DepPairs ==
    ASSUME NEW hp, NEW R, NEW h, NEW p \in DepSet(hp, R, h)
    PROVE  /\ p = <<p[1], p[2]>> /\ p[1] \in R /\ p[2] \in Nat
           /\ p[2] \in 1..Len(hp[p[1]].deplibs) /\ hp[p[1]].deplibs[p[2]] = h
  BY DEF DepSet

\* The uses do not change with handles that have no deplibs.
LEMMA DepsSame ==
    ASSUME NEW hp, NEW hq, NEW R, NEW S, NEW h,
           \A g \in R \cap S : hq[g].deplibs = hp[g].deplibs,
           \A g \in R \ S : hp[g].deplibs = <<>>,
           \A g \in S \ R : hq[g].deplibs = <<>>
    PROVE  DepSet(hq, S, h) = DepSet(hp, R, h)
  <1>1. \A k : k \notin 1..Len(<<>>)
    OBVIOUS
  <1>2. ASSUME NEW p \in DepSet(hp, R, h) PROVE p \in DepSet(hq, S, h)
    <2>1. /\ p = <<p[1], p[2]>> /\ p[1] \in R /\ p[2] \in Nat
          /\ p[2] \in 1..Len(hp[p[1]].deplibs) /\ hp[p[1]].deplibs[p[2]] = h
      BY DepPairs
    <2>2. p[1] \in S
      BY <1>1, <2>1
    <2> QED
      BY <2>1, <2>2, DepMember
  <1>3. ASSUME NEW p \in DepSet(hq, S, h) PROVE p \in DepSet(hp, R, h)
    <2>1. /\ p = <<p[1], p[2]>> /\ p[1] \in S /\ p[2] \in Nat
          /\ p[2] \in 1..Len(hq[p[1]].deplibs) /\ hq[p[1]].deplibs[p[2]] = h
      BY DepPairs
    <2>2. p[1] \in R
      BY <1>1, <2>1
    <2> QED
      BY <2>1, <2>2, DepMember
  <1> QED
    BY <1>2, <1>3

\* One more use, at the end of g's deplibs.
LEMMA DepsAppend ==
    ASSUME NEW hp, NEW hq, NEW R, NEW g \in R, NEW d \in Handle, NEW h,
           hp[g].deplibs \in Seq(Handle),
           hq[g].deplibs = Append(hp[g].deplibs, d),
           \A x \in R \ {g} : hq[x].deplibs = hp[x].deplibs,
           IsFiniteSet(DepSet(hp, R, h))
    PROVE  /\ IsFiniteSet(DepSet(hq, R, h))
           /\ Cardinality(DepSet(hq, R, h)) =
                  Cardinality(DepSet(hp, R, h)) + InHand(h, d)
  <1> DEFINE n == Len(hp[g].deplibs)
             D == DepSet(hp, R, h)
             E == DepSet(hq, R, h)
  <1>1. /\ n \in Nat /\ Len(hq[g].deplibs) = n + 1 /\ hq[g].deplibs[n + 1] = d
        /\ \A k \in 1..n : hq[g].deplibs[k] = hp[g].deplibs[k]
    BY AppendFacts
  <1>2. \A x \in R, k \in Nat :
            <<x, k>> \in E <=> <<x, k>> \in D \/ (x = g /\ k = n + 1 /\ h = d)
    <2> TAKE x \in R, k \in Nat
    <2>1. CASE x # g
      BY <2>1, DepMember
    <2>2. CASE x = g
      <3>1. <<x, k>> \in E <=> k \in 1..(n + 1) /\ hq[g].deplibs[k] = h
        <4>1. <<g, k>> \in E <=> k \in 1..Len(hq[g].deplibs) /\ hq[g].deplibs[k] = h
          <5>1. /\ <<g, k>> \in DepSet(hq, R, h) <=>
                      g \in R /\ k \in Nat /\ k \in 1..Len(hq[g].deplibs)
                      /\ hq[g].deplibs[k] = h
            BY DEF DepSet
          <5> QED
            BY <5>1, Zenon
        <4> HIDE DEF n, E
        <4> QED
          BY <1>1, <2>2, <4>1
      <3>2. <<x, k>> \in D <=> k \in 1..n /\ hp[g].deplibs[k] = h
        BY <2>2, DepMember
      <3>3. k \in 1..(n + 1) <=> k \in 1..n \/ k = n + 1
        BY <1>1
      <3>4. n + 1 \notin 1..n
        BY <1>1
      <3> HIDE DEF n, D, E
      <3> QED
        BY <1>1, <2>2, <3>1, <3>2, <3>3, <3>4
    <2> QED
      BY <2>1, <2>2
  <1>3. <<g, n + 1>> \notin D
    <2>1. n + 1 \notin 1..n
      BY <1>1
    <2> QED
      BY <2>1, DepMember
  <1>4. \A p \in D \cup E : p = <<p[1], p[2]>> /\ p[1] \in R /\ p[2] \in Nat
    BY DepPairs
  <1>5. CASE h = d
    <2>1. E = D \cup {<<g, n + 1>>}
      <3>1. n + 1 \in Nat
        BY <1>1
      <3> HIDE DEF n, D, E
      <3> QED
        BY <1>2, <1>4, <1>5, <3>1
    <2> HIDE DEF n, D, E
    <2>2. IsFiniteSet(D \cup {<<g, n + 1>>})
          /\ Cardinality(D \cup {<<g, n + 1>>}) = Cardinality(D) + 1
      BY <1>3, FS_AddElement DEF D
    <2> QED
      BY <1>5, <2>1, <2>2 DEF InHand, D, E
  <1>6. CASE h # d
    <2>1. E = D
      <3>1. \A p \in D \cup E : p \in E <=> p \in D
        <4> HIDE DEF n, D, E
        <4> QED
          BY <1>2, <1>4, <1>6
      <3> HIDE DEF n, D, E
      <3> QED
        BY <3>1
    <2>2. Cardinality(D) \in Nat
      BY FS_CardinalityType
    <2> QED
      BY <1>6, <2>1, <2>2 DEF InHand
  <1> QED
    BY <1>5, <1>6

\* The first of g's deplibs is taken off, and one use of it.
LEMMA DepsTail ==
    ASSUME NEW hp, NEW hq, NEW R, NEW g \in R, NEW h,
           hp[g].deplibs \in Seq(Handle), hp[g].deplibs # <<>>,
           hq[g].deplibs = Tail(hp[g].deplibs),
           \A x \in R \ {g} : hq[x].deplibs = hp[x].deplibs,
           IsFiniteSet(DepSet(hp, R, h))
    PROVE  /\ IsFiniteSet(DepSet(hq, R, h))
           /\ Cardinality(DepSet(hp, R, h)) =
                  Cardinality(DepSet(hq, R, h)) + InHand(h, Head(hp[g].deplibs))
  <1> DEFINE a == hp[g].deplibs
             b == hq[g].deplibs
             D == DepSet(hp, R, h)
             E == DepSet(hq, R, h)
             T == D \ {<<g, 1>>}
             F == [p \in T |-> IF p[1] = g THEN <<g, p[2] - 1>> ELSE p]
  <1>1. /\ Len(a) \in Nat /\ Len(a) >= 1 /\ Len(b) = Len(a) - 1
        /\ \A k \in 1..(Len(a) - 1) : b[k] = a[k + 1]
        /\ Head(a) = a[1]
    BY TailType
  <1>2. \A p \in D \cup E : p = <<p[1], p[2]>> /\ p[1] \in R /\ p[2] \in Nat
    BY DepPairs
  <1>0. (\A k \in 1..Len(a) : k \in Nat) /\ (\A k \in 1..Len(b) : k \in Nat)
    <2> HIDE DEF a, b
    <2> QED
      BY <1>1
  <1>3. \A k : <<g, k>> \in D <=> k \in 1..Len(a) /\ a[k] = h
    <2> TAKE k
    <2>1. <<g, k>> \in DepSet(hp, R, h) <=>
              g \in R /\ k \in Nat /\ k \in 1..Len(hp[g].deplibs) /\ hp[g].deplibs[k] = h
      BY DEF DepSet
    <2> QED
      BY <1>0, <2>1, Zenon
  <1>4. \A k : <<g, k>> \in E <=> k \in 1..Len(b) /\ b[k] = h
    <2> TAKE k
    <2>1. <<g, k>> \in DepSet(hq, R, h) <=>
              g \in R /\ k \in Nat /\ k \in 1..Len(hq[g].deplibs) /\ hq[g].deplibs[k] = h
      BY DEF DepSet
    <2> QED
      BY <1>0, <2>1, Zenon
  <1>5. \A x \in R \ {g} : \A k : <<x, k>> \in D <=> <<x, k>> \in E
    BY DEF DepSet
  <1>6. IsFiniteSet(T) /\ Cardinality(T) = IF <<g, 1>> \in D THEN Cardinality(D) - 1
                                           ELSE Cardinality(D)
    BY FS_RemoveElement
  <1> HIDE DEF a, b, D, E
  <1>7. \A k \in Int : <<g, k>> \in T <=> <<g, k - 1>> \in E
    <2> TAKE k \in Int
    <2>1. <<g, k>> \in T <=> k \in 1..Len(a) /\ a[k] = h /\ k # 1
      BY <1>3
    <2>2. <<g, k - 1>> \in E <=> k - 1 \in 1..Len(b) /\ b[k - 1] = h
      BY <1>4
    <2>3. k \in 1..Len(a) /\ k # 1 <=> k - 1 \in 1..Len(b)
      BY <1>1
    <2>4. k - 1 \in 1..Len(b) => b[k - 1] = a[k]
      BY <1>1
    <2> QED
      BY <2>1, <2>2, <2>3, <2>4
  <1>8. ASSUME NEW p \in T
        PROVE  F[p] \in E
    <2>1. p = <<p[1], p[2]>> /\ p[1] \in R /\ p[2] \in Int /\ p \in D
      BY <1>2
    <2>2. CASE p[1] = g
      BY <1>7, <2>1, <2>2
    <2>3. CASE p[1] # g
      BY <1>5, <2>1, <2>3
    <2> QED
      BY <2>2, <2>3
  <1>9. ASSUME NEW p \in T, NEW q \in T, F[p] = F[q]
        PROVE  p = q
    <2>1. /\ p = <<p[1], p[2]>> /\ p[2] \in Int /\ q = <<q[1], q[2]>> /\ q[2] \in Int
      BY <1>2
    <2>2. CASE p[1] = g /\ q[1] = g
      <3>1. <<g, p[2] - 1>> = <<g, q[2] - 1>>
        BY <1>9, <2>2
      <3>2. p[2] - 1 = q[2] - 1
        BY <3>1
      <3>3. p[2] = q[2]
        BY <2>1, <3>2
      <3> QED
        BY <2>1, <2>2, <3>3
    <2>3. CASE p[1] # g /\ q[1] # g
      BY <1>9, <2>3
    <2>4. CASE p[1] = g /\ q[1] # g
      <3>1. <<g, p[2] - 1>> = q
        BY <1>9, <2>4
      <3> QED
        BY <2>4, <3>1
    <2>5. CASE p[1] # g /\ q[1] = g
      <3>1. <<g, q[2] - 1>> = p
        BY <1>9, <2>5
      <3> QED
        BY <2>5, <3>1
    <2> QED
      BY <2>2, <2>3, <2>4, <2>5
  <1>10. ASSUME NEW q \in E
         PROVE  \E p \in T : F[p] = q
    <2>1. q = <<q[1], q[2]>> /\ q[1] \in R /\ q[2] \in Int
      BY <1>2
    <2>2. CASE q[1] = g
      <3>1. (q[2] + 1) - 1 = q[2] /\ q[2] + 1 \in Int
        BY <2>1
      <3>2. <<g, q[2] + 1>> \in T
        BY <1>7, <2>1, <2>2, <3>1
      <3>3. F[<<g, q[2] + 1>>] = <<g, (q[2] + 1) - 1>>
        BY <3>2
      <3> QED
        BY <2>1, <2>2, <3>1, <3>2, <3>3
    <2>3. CASE q[1] # g
      <3>1. q \in T
        BY <1>5, <2>1, <2>3
      <3> QED
        BY <2>3, <3>1
    <2> QED
      BY <2>2, <2>3
  <1>11. F \in Bijection(T, E)
    <2>1. F \in [T -> E]
      BY <1>8
    <2> HIDE DEF F, T
    <2> QED
      BY <1>9, <1>10, <2>1 DEF Bijection, Injection, Surjection, IsInjective
  <1>12. IsFiniteSet(E) /\ Cardinality(E) = Cardinality(T)
    BY <1>6, <1>11, FS_Bijection DEF ExistsBijection
  <1>13. <<g, 1>> \in D <=> h = Head(a)
    BY <1>1, <1>3
  <1>14. Cardinality(D) \in Nat
    BY FS_CardinalityType DEF D
  <1>15. Cardinality(D) = Cardinality(E) + InHand(h, Head(a))
    BY <1>6, <1>12, <1>13, <1>14 DEF InHand
  <1> QED
    BY <1>12, <1>15 DEF D, E, a

(***************************************************************************)
(* The frames that return a module.                                        *)
(***************************************************************************)
LEMMA RetFinite ==
    ASSUME NEW s \in Seq(Frame), NEW h
    PROVE  IsFiniteSet(RetSet(s, h)) /\ Cardinality(RetSet(s, h)) \in Nat
  <1>1. Len(s) \in Nat /\ RetSet(s, h) \in SUBSET (1..Len(s))
    BY DEF RetSet
  <1>2. IsFiniteSet(1..Len(s))
    BY <1>1, FS_Interval
  <1> QED
    BY <1>1, <1>2, FS_Subset, FS_CardinalityType

LEMMA RetPush ==
    ASSUME NEW s \in Seq(Frame), NEW fr \in Frame, NEW h
    PROVE  Cardinality(RetSet(<<fr>> \o s, h)) = Cardinality(RetSet(s, h)) + InHand(h, fr.ret)
  <1> DEFINE t == <<fr>> \o s
             A == RetSet(s, h)
             B == RetSet(t, h)
             T == B \ {1}
             F == [k \in A |-> k + 1]
  <1>1. /\ Len(t) = Len(s) + 1 /\ t[1] = fr /\ Len(s) \in Nat /\ t \in Seq(Frame)
        /\ \A k \in 2..(Len(s) + 1) : t[k] = s[k - 1]
    BY PushType
  <1>2. IsFiniteSet(A) /\ IsFiniteSet(B) /\ Cardinality(A) \in Nat /\ Cardinality(B) \in Nat
    BY <1>1, RetFinite
  <1>3. Cardinality(T) = IF 1 \in B THEN Cardinality(B) - 1 ELSE Cardinality(B)
    BY <1>2, FS_RemoveElement
  <1> HIDE DEF t
  <1>4. 1 \in B <=> h = fr.ret
    BY <1>1 DEF RetSet
  <1>5. ASSUME NEW k \in A PROVE k + 1 \in T /\ k \in Nat
    BY <1>1 DEF RetSet
  <1>6. ASSUME NEW k \in T PROVE k - 1 \in A /\ (k - 1) + 1 = k
    BY <1>1 DEF RetSet
  <1> HIDE DEF A, B, T
  <1>7. F \in Bijection(A, T)
    <2>1. F \in [A -> T]
      BY <1>5
    <2>2. \A j, k \in A : F[j] = F[k] => j = k
      BY <1>5
    <2>3. \A k \in T : \E j \in A : F[j] = k
      BY <1>6
    <2> HIDE DEF F
    <2> QED
      BY <2>1, <2>2, <2>3 DEF Bijection, Injection, Surjection, IsInjective
  <1>8. Cardinality(T) = Cardinality(A)
    BY <1>2, <1>7, FS_Bijection DEF ExistsBijection
  <1>9. Cardinality(B) = Cardinality(A) + InHand(h, fr.ret)
    BY <1>2, <1>3, <1>4, <1>8 DEF InHand
  <1> QED
    BY <1>9 DEF A, B, t

LEMMA RetPop ==
    ASSUME NEW s \in Seq(Frame), s # <<>>, NEW h
    PROVE  Cardinality(RetSet(s, h)) = Cardinality(RetSet(Tail(s), h)) + InHand(h, s[1].ret)
  <1>1. s[1] \in Frame /\ Tail(s) \in Seq(Frame) /\ s = <<s[1]>> \o Tail(s)
    OBVIOUS
  <1> QED
    BY <1>1, RetPush

(***************************************************************************)
(* The moments of the ledger.                                              *)
(***************************************************************************)
LedgerTypes(hp, Rg, R, s, hd) ==
    /\ hp \in [Handle -> HandleRec] /\ hd \in [Handle -> Nat] /\ s \in Seq(Frame)
    /\ Rg \subseteq R /\ R \subseteq Handle

LEMMA Numbers ==
    ASSUME NEW hp, NEW Rg, NEW R, NEW s, NEW hd, LedgerTypes(hp, Rg, R, s, hd),
           NEW h \in Handle
    PROVE  /\ hp[h] \in HandleRec /\ hp[h].ref \in Int /\ hp[h].deplibs \in Seq(Handle)
           /\ hd[h] \in Nat /\ Cardinality(RetSet(s, h)) \in Nat
           /\ IsFiniteSet(DepSet(hp, R, h)) =>
                  /\ Cardinality(DepSet(hp, R, h)) \in Nat
                  /\ UsesIn(hp, R, s, hd, h) \in Nat
           /\ InHand(h, NULL) = 0
  <1>1. hp[h] \in HandleRec
    BY DEF LedgerTypes
  <1>2. hp[h].ref \in Int /\ hp[h].deplibs \in Seq(Handle)
    BY <1>1 DEF HandleRec
  <1>3. hd[h] \in Nat /\ Cardinality(RetSet(s, h)) \in Nat
    BY RetFinite DEF LedgerTypes
  <1>4. ASSUME IsFiniteSet(DepSet(hp, R, h))
        PROVE  /\ Cardinality(DepSet(hp, R, h)) \in Nat
               /\ UsesIn(hp, R, s, hd, h) \in Nat
    <2>1. Cardinality(DepSet(hp, R, h)) \in Nat
      BY <1>4, FS_CardinalityType
    <2> QED
      BY <1>3, <2>1 DEF UsesIn
  <1>5. InHand(h, NULL) = 0
    BY NullAssumption DEF InHand
  <1> QED
    BY <1>1, <1>2, <1>3, <1>4, <1>5

\* Counts and uses that change alike.
LEMMA Balanced ==
    ASSUME NEW hp, NEW hq, NEW R, NEW S, NEW s, NEW t, NEW hd, NEW he, NEW h,
           NEW x \in Nat, NEW y \in Nat,
           CountIn(hp, R, s, hd, h, x),
           IsFiniteSet(DepSet(hq, S, h)),
           hp[h].ref \in Int, UsesIn(hp, R, s, hd, h) \in Nat,
           hq[h].ref \in Int, UsesIn(hq, S, t, he, h) \in Nat,
           hq[h].ref + UsesIn(hp, R, s, hd, h) + x = hp[h].ref + UsesIn(hq, S, t, he, h) + y,
           hp[h].resident => hq[h].resident,
           hq[h].resident \/ hq[h].ref > 0
    PROVE  CountIn(hq, S, t, he, h, y)
  <1>1. hp[h].ref >= UsesIn(hp, R, s, hd, h) + x
        /\ (hp[h].resident \/ hp[h].ref = UsesIn(hp, R, s, hd, h) + x)
    BY DEF CountIn
  <1> DEFINE m == hp[h].ref
             n == hq[h].ref
             u == UsesIn(hp, R, s, hd, h)
             v == UsesIn(hq, S, t, he, h)
  <1>2. m >= u + x /\ m \in Int /\ n \in Int /\ u \in Nat /\ v \in Nat /\ n + u + x = m + v + y
    BY <1>1
  <1>3. m = u + x \/ hq[h].resident
    BY <1>1
  <1> HIDE DEF m, n, u, v
  <1>4. n >= v + y
    BY <1>2
  <1>5. m = u + x => n = v + y
    BY <1>2
  <1> QED
    BY <1>3, <1>4, <1>5 DEF CountIn, m, n, u, v

\* The heap changes elsewhere, and handles without deplibs come or go.
LEMMA LedgerHeap ==
    ASSUME NEW hp, NEW hq, NEW Rg, NEW R, NEW S, NEW s, NEW hd, NEW o,
           LedgerTypes(hp, Rg, R, s, hd), LedgerTypes(hq, Rg, S, s, hd),
           Ledger(hp, Rg, R, s, hd, o),
           \A g \in R \cap S : hq[g].deplibs = hp[g].deplibs,
           \A g \in R \ S : hp[g].deplibs = <<>>,
           \A g \in S \ R : hq[g].deplibs = <<>>,
           \A h \in Rg : hq[h].ref = hp[h].ref /\ (hp[h].resident => hq[h].resident)
    PROVE  Ledger(hq, Rg, S, s, hd, o)
  <1>1. ASSUME NEW g \in S PROVE SeqRange(hq[g].deplibs) \subseteq Rg
    <2>1. CASE g \in R
      BY <2>1 DEF Ledger
    <2>2. CASE g \notin R
      BY <2>2 DEF SeqRange
    <2> QED
      BY <2>1, <2>2
  <1>2. ASSUME NEW h \in Rg PROVE CountIn(hq, S, s, hd, h, InHand(h, o))
    <2>1. DepSet(hq, S, h) = DepSet(hp, R, h)
      BY DepsSame
    <2>2. CountIn(hp, R, s, hd, h, InHand(h, o))
      BY DEF Ledger
    <2>3. hq[h].ref = hp[h].ref /\ (hp[h].resident => hq[h].resident)
      OBVIOUS
    <2> QED
      BY <2>1, <2>2, <2>3 DEF CountIn, UsesIn
  <1> QED
    BY <1>1, <1>2 DEF Ledger

\* Other calls are pending, which return the same modules.
LEMMA LedgerFrames ==
    ASSUME NEW hp, NEW Rg, NEW R, NEW s, NEW t, NEW hd, NEW o,
           Ledger(hp, Rg, R, s, hd, o),
           Len(t) = Len(s), \A k \in 1..Len(s) : t[k].ret = s[k].ret /\ t[k].op = s[k].op
    PROVE  Ledger(hp, Rg, R, t, hd, o)
  <1>1. \A h : RetSet(t, h) = RetSet(s, h)
    BY DEF RetSet
  <1> QED
    BY <1>1 DEF Ledger, CountIn, UsesIn

LEMMA LedgerPush ==
    ASSUME NEW hp, NEW Rg, NEW R, NEW s, NEW hd, NEW o, NEW fr \in Frame,
           LedgerTypes(hp, Rg, R, s, hd), Ledger(hp, Rg, R, s, hd, o), fr.ret = NULL
    PROVE  Ledger(hp, Rg, R, <<fr>> \o s, hd, o)
  <1> DEFINE t == <<fr>> \o s
  <1>1. /\ Len(t) = Len(s) + 1 /\ t[1] = fr /\ Len(s) \in Nat /\ s \in Seq(Frame)
        /\ \A k \in 2..(Len(s) + 1) : t[k] = s[k - 1]
    BY PushType DEF LedgerTypes
  <1>2. ASSUME NEW h \in Rg PROVE CountIn(hp, R, t, hd, h, InHand(h, o))
    <2>1. h \in Handle /\ Cardinality(RetSet(s, h)) \in Nat /\ InHand(h, NULL) = 0
      BY Numbers DEF LedgerTypes
    <2>2. Cardinality(RetSet(t, h)) = Cardinality(RetSet(s, h))
      BY <1>1, <2>1, RetPush
    <2> HIDE DEF t
    <2> QED
      BY <2>2 DEF Ledger, CountIn, UsesIn
  <1> HIDE DEF t
  <1>3. ASSUME NEW k \in 1..Len(t), t[k].ret # NULL PROVE t[k].op = "undo" /\ t[k].ret \in Rg
    <2>1. k # 1
      BY <1>1, <1>3
    <2>2. k - 1 \in 1..Len(s) /\ t[k] = s[k - 1]
      BY <1>1, <2>1
    <2> QED
      BY <1>3, <2>2 DEF Ledger
  <1>4. Ledger(hp, Rg, R, t, hd, o)
    BY <1>2, <1>3 DEF Ledger
  <1> QED
    BY <1>4 DEF t

\* A call ends, and hands over the module it returns, if any.
LEMMA LedgerPop ==
    ASSUME NEW hp, NEW Rg, NEW R, NEW s, NEW hd,
           LedgerTypes(hp, Rg, R, s, hd), Ledger(hp, Rg, R, s, hd, NULL), s # <<>>
    PROVE  /\ s[1].ret \in Rg \cup {NULL}
           /\ Ledger(hp, Rg, R, Tail(s), hd, s[1].ret)
  <1> DEFINE t == Tail(s)
             r == s[1].ret
  <1>1. /\ t \in Seq(Frame) /\ Len(s) \in Nat /\ Len(s) >= 1 /\ s \in Seq(Frame)
        /\ Len(t) = Len(s) - 1
        /\ \A k \in 1..(Len(s) - 1) : t[k] = s[k + 1]
    BY TailType DEF LedgerTypes
  <1>2. r \in Rg \cup {NULL}
    <2>1. 1 \in 1..Len(s)
      BY <1>1
    <2> QED
      BY <2>1 DEF Ledger
  <1>3. ASSUME NEW h \in Rg PROVE CountIn(hp, R, t, hd, h, InHand(h, r))
    <2>1. CountIn(hp, R, s, hd, h, InHand(h, NULL)) /\ h \in Handle
      BY DEF Ledger, LedgerTypes
    <2>2. /\ InHand(h, NULL) = 0 /\ hd[h] \in Nat /\ InHand(h, r) \in Nat
          /\ Cardinality(DepSet(hp, R, h)) \in Nat
          /\ Cardinality(RetSet(t, h)) \in Nat
      BY <1>1, <2>1, Numbers, RetFinite DEF CountIn, InHand
    <2>3. Cardinality(RetSet(s, h)) = Cardinality(RetSet(t, h)) + InHand(h, r)
      BY <1>1, RetPop
    <2> HIDE DEF t, r
    <2>4. UsesIn(hp, R, s, hd, h) + InHand(h, NULL) = UsesIn(hp, R, t, hd, h) + InHand(h, r)
      BY <2>2, <2>3 DEF UsesIn
    <2> QED
      BY <2>1, <2>4 DEF CountIn
  <1>4. ASSUME NEW k \in 1..Len(t), t[k].ret # NULL PROVE t[k].op = "undo" /\ t[k].ret \in Rg
    <2> HIDE DEF t
    <2>1. k + 1 \in 1..Len(s) /\ t[k] = s[k + 1]
      BY <1>1
    <2> QED
      BY <1>4, <2>1 DEF Ledger
  <1> HIDE DEF t, r
  <1>5. Ledger(hp, Rg, R, t, hd, r)
    BY <1>3, <1>4 DEF Ledger
  <1> QED
    BY <1>2, <1>5 DEF t, r

\* An open that gives its handle up returns the module in hand.
LEMMA LedgerKeep ==
    ASSUME NEW hp, NEW Rg, NEW R, NEW s, NEW hd, NEW e \in Rg, NEW fr \in Frame,
           LedgerTypes(hp, Rg, R, s, hd), Ledger(hp, Rg, R, s, hd, e),
           fr.op = "undo", fr.ret = e
    PROVE  Ledger(hp, Rg, R, <<fr>> \o s, hd, NULL)
  <1> DEFINE t == <<fr>> \o s
  <1>1. /\ Len(t) = Len(s) + 1 /\ t[1] = fr /\ Len(s) \in Nat /\ s \in Seq(Frame)
        /\ t \in Seq(Frame) /\ \A k \in 2..(Len(s) + 1) : t[k] = s[k - 1]
    BY PushType DEF LedgerTypes
  <1>2. ASSUME NEW h \in Rg PROVE CountIn(hp, R, t, hd, h, InHand(h, NULL))
    <2>1. CountIn(hp, R, s, hd, h, InHand(h, e)) /\ h \in Handle
      BY DEF Ledger, LedgerTypes
    <2>2. /\ InHand(h, NULL) = 0 /\ hd[h] \in Nat /\ InHand(h, e) \in Nat
          /\ Cardinality(DepSet(hp, R, h)) \in Nat
          /\ Cardinality(RetSet(s, h)) \in Nat
      BY <2>1, Numbers DEF CountIn, InHand
    <2>3. Cardinality(RetSet(t, h)) = Cardinality(RetSet(s, h)) + InHand(h, e)
      BY <1>1, RetPush
    <2> HIDE DEF t
    <2>4. UsesIn(hp, R, t, hd, h) + InHand(h, NULL) = UsesIn(hp, R, s, hd, h) + InHand(h, e)
      BY <2>2, <2>3 DEF UsesIn
    <2> QED
      BY <2>1, <2>4 DEF CountIn
  <1> HIDE DEF t
  <1>3. ASSUME NEW k \in 1..Len(t), t[k].ret # NULL PROVE t[k].op = "undo" /\ t[k].ret \in Rg
    <2>1. CASE k = 1
      BY <1>1, <2>1
    <2>2. CASE k # 1
      <3>1. k - 1 \in 1..Len(s) /\ t[k] = s[k - 1]
        BY <1>1, <2>2
      <3> QED
        BY <1>3, <3>1 DEF Ledger
    <2> QED
      BY <2>1, <2>2
  <1>4. Ledger(hp, Rg, R, t, hd, NULL)
    BY <1>2, <1>3 DEF Ledger
  <1> QED
    BY <1>4 DEF t

\* The client gets the module in hand.
LEMMA LedgerHold ==
    ASSUME NEW hp, NEW Rg, NEW R, NEW s, NEW hd, NEW e \in Rg,
           LedgerTypes(hp, Rg, R, s, hd), Ledger(hp, Rg, R, s, hd, e)
    PROVE  Ledger(hp, Rg, R, s, [hd EXCEPT ![e] = @ + 1], NULL)
  <1> DEFINE he == [hd EXCEPT ![e] = @ + 1]
  <1>1. e \in Handle /\ hd \in [Handle -> Nat]
    BY DEF LedgerTypes
  <1>2. \A h \in Handle : he[h] = hd[h] + InHand(h, e)
    BY <1>1 DEF InHand
  <1> HIDE DEF he
  <1>3. ASSUME NEW h \in Rg PROVE CountIn(hp, R, s, he, h, InHand(h, NULL))
    <2>1. CountIn(hp, R, s, hd, h, InHand(h, e)) /\ h \in Handle
      BY DEF Ledger, LedgerTypes
    <2>2. /\ InHand(h, NULL) = 0 /\ hd[h] \in Nat /\ InHand(h, e) \in Nat
          /\ Cardinality(DepSet(hp, R, h)) \in Nat
          /\ Cardinality(RetSet(s, h)) \in Nat
      BY <2>1, Numbers DEF CountIn, InHand
    <2>3. UsesIn(hp, R, s, he, h) + InHand(h, NULL) = UsesIn(hp, R, s, hd, h) + InHand(h, e)
      BY <1>2, <2>1, <2>2 DEF UsesIn
    <2> QED
      BY <2>1, <2>3 DEF CountIn
  <1>4. \A h \in Handle \ Rg : he[h] = 0
    BY <1>1, <1>2 DEF Ledger, InHand
  <1>5. Ledger(hp, Rg, R, s, he, NULL)
    BY <1>3, <1>4 DEF Ledger
  <1> QED
    BY <1>5 DEF he

\* The client gives back a module that it held.
LEMMA LedgerSpend ==
    ASSUME NEW hp, NEW Rg, NEW R, NEW s, NEW hd, NEW e \in Handle,
           LedgerTypes(hp, Rg, R, s, hd), Ledger(hp, Rg, R, s, hd, NULL), hd[e] > 0
    PROVE  /\ e \in Rg
           /\ [hd EXCEPT ![e] = @ - 1] \in [Handle -> Nat]
           /\ Ledger(hp, Rg, R, s, [hd EXCEPT ![e] = @ - 1], e)
  <1> DEFINE he == [hd EXCEPT ![e] = @ - 1]
  <1>1. hd \in [Handle -> Nat]
    BY DEF LedgerTypes
  <1>2. \A h \in Handle : he[h] = hd[h] - InHand(h, e)
    BY <1>1 DEF InHand
  <1>3. he \in [Handle -> Nat]
    BY <1>1
  <1> HIDE DEF he
  <1>4. e \in Rg
    BY <1>1 DEF Ledger
  <1>5. ASSUME NEW h \in Rg PROVE CountIn(hp, R, s, he, h, InHand(h, e))
    <2>1. CountIn(hp, R, s, hd, h, InHand(h, NULL)) /\ h \in Handle
      BY DEF Ledger, LedgerTypes
    <2>2. /\ InHand(h, NULL) = 0 /\ hd[h] \in Nat /\ InHand(h, e) \in Nat
          /\ Cardinality(DepSet(hp, R, h)) \in Nat
          /\ Cardinality(RetSet(s, h)) \in Nat
      BY <2>1, Numbers DEF CountIn, InHand
    <2>3. UsesIn(hp, R, s, he, h) + InHand(h, e) = UsesIn(hp, R, s, hd, h) + InHand(h, NULL)
      BY <1>2, <2>1, <2>2 DEF UsesIn
    <2> QED
      BY <2>1, <2>3 DEF CountIn
  <1>6. \A h \in Handle \ Rg : he[h] = 0
    BY <1>1, <1>2, <1>4 DEF Ledger, InHand
  <1>7. Ledger(hp, Rg, R, s, he, e)
    BY <1>5, <1>6 DEF Ledger
  <1> QED
    BY <1>3, <1>4, <1>7 DEF he

\* A heap with the same modules in it, and the same counts.
SameCounts(hp, hq, Rg) ==
    \A h \in Rg : hq[h].ref = hp[h].ref /\ (hp[h].resident => hq[h].resident)

\* The module in hand becomes a deplib of g.
LEMMA LedgerAppend ==
    ASSUME NEW hp, NEW hq, NEW Rg, NEW R, NEW s, NEW hd, NEW e \in Rg, NEW g \in R,
           LedgerTypes(hp, Rg, R, s, hd), Ledger(hp, Rg, R, s, hd, e),
           SameCounts(hp, hq, Rg),
           hq[g].deplibs = Append(hp[g].deplibs, e),
           \A x \in R \ {g} : hq[x].deplibs = hp[x].deplibs
    PROVE  Ledger(hq, Rg, R, s, hd, NULL)
  <1>1. e \in Handle /\ g \in Handle /\ hp[g].deplibs \in Seq(Handle)
    BY Numbers DEF LedgerTypes
  <1>2. ASSUME NEW x \in R PROVE SeqRange(hq[x].deplibs) \subseteq Rg
    <2>1. CASE x = g
      <3>1. /\ Len(hq[g].deplibs) = Len(hp[g].deplibs) + 1 /\ Len(hp[g].deplibs) \in Nat
            /\ hq[g].deplibs[Len(hp[g].deplibs) + 1] = e
            /\ \A k \in 1..Len(hp[g].deplibs) : hq[g].deplibs[k] = hp[g].deplibs[k]
        BY <1>1, AppendFacts
      <3>2. \A k \in 1..Len(hp[g].deplibs) : hp[g].deplibs[k] \in Rg
        BY DEF Ledger, SeqRange
      <3> DEFINE b == hq[g].deplibs
      <3>3. \A k \in 1..Len(b) : k \in 1..Len(hp[g].deplibs) \/ k = Len(hp[g].deplibs) + 1
        BY <3>1
      <3>4. \A k \in 1..Len(b) : b[k] \in Rg
        BY <3>1, <3>2, <3>3
      <3> QED
        BY <2>1, <3>4 DEF SeqRange
    <2>2. CASE x # g
      BY <2>2 DEF Ledger
    <2> QED
      BY <2>1, <2>2
  <1>3. ASSUME NEW h \in Rg PROVE CountIn(hq, R, s, hd, h, InHand(h, NULL))
    <2>1. CountIn(hp, R, s, hd, h, InHand(h, e)) /\ h \in Handle
      BY DEF Ledger, LedgerTypes
    <2>2. /\ IsFiniteSet(DepSet(hq, R, h))
          /\ Cardinality(DepSet(hq, R, h)) = Cardinality(DepSet(hp, R, h)) + InHand(h, e)
      BY <1>1, <2>1, DepsAppend DEF CountIn
    <2>3. /\ InHand(h, NULL) = 0 /\ hd[h] \in Nat /\ InHand(h, e) \in Nat
          /\ Cardinality(DepSet(hp, R, h)) \in Nat
          /\ Cardinality(RetSet(s, h)) \in Nat
      BY <2>1, Numbers DEF CountIn, InHand
    <2>4. UsesIn(hq, R, s, hd, h) + InHand(h, NULL) = UsesIn(hp, R, s, hd, h) + InHand(h, e)
      BY <2>2, <2>3 DEF UsesIn
    <2>5. hq[h].ref = hp[h].ref /\ (hp[h].resident => hq[h].resident)
      BY DEF SameCounts
    <2> QED
      BY <2>1, <2>2, <2>4, <2>5 DEF CountIn
  <1> QED
    BY <1>2, <1>3 DEF Ledger

\* The first deplib of g comes in hand.
LEMMA LedgerTail ==
    ASSUME NEW hp, NEW hq, NEW Rg, NEW R, NEW s, NEW hd, NEW g \in R,
           LedgerTypes(hp, Rg, R, s, hd), Ledger(hp, Rg, R, s, hd, NULL),
           SameCounts(hp, hq, Rg),
           hp[g].deplibs # <<>>, hq[g].deplibs = Tail(hp[g].deplibs),
           \A x \in R \ {g} : hq[x].deplibs = hp[x].deplibs
    PROVE  /\ Head(hp[g].deplibs) \in Rg
           /\ Ledger(hq, Rg, R, s, hd, Head(hp[g].deplibs))
  <1> DEFINE a == hp[g].deplibs
             d == Head(a)
  <1>1. g \in Handle /\ a \in Seq(Handle)
    BY Numbers DEF LedgerTypes
  <1>2. /\ Len(Tail(a)) = Len(a) - 1 /\ Len(a) \in Nat /\ Len(a) >= 1 /\ d = a[1]
        /\ \A k \in 1..(Len(a) - 1) : Tail(a)[k] = a[k + 1]
    BY <1>1, TailType
  <1>3. \A k \in 1..Len(a) : a[k] \in Rg
    BY DEF Ledger, SeqRange
  <1>4. d \in Rg
    BY <1>2, <1>3
  <1>5. ASSUME NEW x \in R PROVE SeqRange(hq[x].deplibs) \subseteq Rg
    <2>1. CASE x = g
      <3> HIDE DEF a
      <3>1. \A k \in 1..Len(Tail(a)) : Tail(a)[k] \in Rg
        BY <1>2, <1>3
      <3> QED
        BY <2>1, <3>1, ZenonT(60) DEF SeqRange, a
    <2>2. CASE x # g
      BY <2>2 DEF Ledger
    <2> QED
      BY <2>1, <2>2
  <1>6. ASSUME NEW h \in Rg PROVE CountIn(hq, R, s, hd, h, InHand(h, d))
    <2>1. CountIn(hp, R, s, hd, h, InHand(h, NULL)) /\ h \in Handle
      BY DEF Ledger, LedgerTypes
    <2>2. /\ IsFiniteSet(DepSet(hq, R, h))
          /\ Cardinality(DepSet(hp, R, h)) = Cardinality(DepSet(hq, R, h)) + InHand(h, d)
      BY <1>1, <2>1, DepsTail DEF CountIn
    <2>3. /\ InHand(h, NULL) = 0 /\ hd[h] \in Nat /\ InHand(h, d) \in Nat
          /\ Cardinality(DepSet(hq, R, h)) \in Nat
          /\ Cardinality(RetSet(s, h)) \in Nat
      BY <2>1, <2>2, Numbers, FS_CardinalityType DEF InHand
    <2>5. hq[h].ref = hp[h].ref /\ (hp[h].resident => hq[h].resident)
      BY DEF SameCounts
    <2> HIDE DEF d, a
    <2>4. UsesIn(hq, R, s, hd, h) + InHand(h, d) = UsesIn(hp, R, s, hd, h) + InHand(h, NULL)
      BY <2>2, <2>3 DEF UsesIn
    <2> QED
      BY <2>1, <2>2, <2>4, <2>5 DEF CountIn
  <1>7. Ledger(hq, Rg, R, s, hd, d)
    BY <1>5, <1>6 DEF Ledger
  <1> QED
    BY <1>4, <1>7

SameDeps(hp, hq, R) == \A g \in R : hq[g].deplibs = hp[g].deplibs

\* The counts alone change the ledger like this.
LEMMA LedgerRef ==
    ASSUME NEW hp, NEW hq, NEW Rg, NEW R, NEW s, NEW hd, NEW o, NEW q,
           LedgerTypes(hp, Rg, R, s, hd), LedgerTypes(hq, Rg, R, s, hd),
           Ledger(hp, Rg, R, s, hd, o), SameDeps(hp, hq, R),
           \A h \in Rg : /\ hq[h].ref + InHand(h, o) = hp[h].ref + InHand(h, q)
                         /\ hp[h].resident => hq[h].resident
                         /\ hq[h].resident \/ hq[h].ref > 0
    PROVE  Ledger(hq, Rg, R, s, hd, q)
  <1>1. \A h : DepSet(hq, R, h) = DepSet(hp, R, h)
    BY DepsSame DEF SameDeps
  <1>2. ASSUME NEW h \in Rg PROVE CountIn(hq, R, s, hd, h, InHand(h, q))
    <2>1. CountIn(hp, R, s, hd, h, InHand(h, o)) /\ h \in Handle
      BY DEF Ledger, LedgerTypes
    <2>2. /\ IsFiniteSet(DepSet(hq, R, h)) /\ UsesIn(hp, R, s, hd, h) \in Nat
          /\ hp[h].ref \in Int /\ hq[h].ref \in Int
          /\ InHand(h, o) \in Nat /\ InHand(h, q) \in Nat
      BY <1>1, <2>1, Numbers DEF CountIn, InHand
    <2>3. UsesIn(hq, R, s, hd, h) = UsesIn(hp, R, s, hd, h)
      BY <1>1 DEF UsesIn
    <2>4. /\ hq[h].ref + InHand(h, o) = hp[h].ref + InHand(h, q)
          /\ hp[h].resident => hq[h].resident
          /\ hq[h].resident \/ hq[h].ref > 0
      OBVIOUS
    <2>5. hq[h].ref + UsesIn(hp, R, s, hd, h) + InHand(h, o)
              = hp[h].ref + UsesIn(hq, R, s, hd, h) + InHand(h, q)
      BY <2>2, <2>3, <2>4
    <2> QED
      BY <2>1, <2>2, <2>3, <2>4, <2>5, Balanced
  <1>3. \A g \in R : SeqRange(hq[g].deplibs) \subseteq Rg
    BY DEF Ledger, SameDeps
  <1> QED
    BY <1>2, <1>3 DEF Ledger

\* A module that is open already is counted once more: the use is in hand.
LEMMA LedgerCount ==
    ASSUME NEW hp, NEW hq, NEW Rg, NEW R, NEW s, NEW hd, NEW e \in Rg,
           LedgerTypes(hp, Rg, R, s, hd), LedgerTypes(hq, Rg, R, s, hd),
           Ledger(hp, Rg, R, s, hd, NULL), SameDeps(hp, hq, R),
           hq[e].ref = hp[e].ref + 1, hp[e].resident => hq[e].resident,
           SameCounts(hp, hq, Rg \ {e})
    PROVE  Ledger(hq, Rg, R, s, hd, e)
  <1>1. ASSUME NEW h \in Rg
        PROVE  /\ hq[h].ref + InHand(h, NULL) = hp[h].ref + InHand(h, e)
               /\ hp[h].resident => hq[h].resident
               /\ hq[h].resident \/ hq[h].ref > 0
    <2>1. CountIn(hp, R, s, hd, h, InHand(h, NULL)) /\ h \in Handle
      BY DEF Ledger, LedgerTypes
    <2>2. hp[h].ref \in Int /\ InHand(h, NULL) = 0 /\ (hp[h].resident \/ hp[h].ref > 0)
      BY <2>1, Numbers DEF CountIn
    <2>3. CASE h = e
      <3>1. hp[h].ref > 0 => hq[h].ref > 0
        BY <2>2, <2>3
      <3>2. hq[h].ref + InHand(h, NULL) = hp[h].ref + InHand(h, e)
        BY <2>2, <2>3 DEF InHand
      <3> QED
        BY <2>2, <2>3, <3>1, <3>2
    <2>4. CASE h # e
      <3>1. hq[h].ref = hp[h].ref /\ (hp[h].resident => hq[h].resident)
        BY <2>4 DEF SameCounts
      <3>2. hq[h].ref + InHand(h, NULL) = hp[h].ref + InHand(h, e)
        BY <2>2, <2>4, <3>1 DEF InHand
      <3> QED
        BY <2>2, <3>1, <3>2
    <2> QED
      BY <2>3, <2>4
  <1> QED
    BY <1>1, LedgerRef

\* lt_dlclose of the module in hand, when others use it or it is resident.
LEMMA LedgerClose ==
    ASSUME NEW hp, NEW hq, NEW Rg, NEW R, NEW s, NEW hd, NEW e \in Rg,
           LedgerTypes(hp, Rg, R, s, hd), LedgerTypes(hq, Rg, R, s, hd),
           Ledger(hp, Rg, R, s, hd, e), SameDeps(hp, hq, R),
           hq[e].ref = hp[e].ref - 1, hp[e].resident => hq[e].resident,
           hp[e].ref > 1 \/ hp[e].resident,
           SameCounts(hp, hq, Rg \ {e})
    PROVE  Ledger(hq, Rg, R, s, hd, NULL)
  <1>1. ASSUME NEW h \in Rg
        PROVE  /\ hq[h].ref + InHand(h, e) = hp[h].ref + InHand(h, NULL)
               /\ hp[h].resident => hq[h].resident
               /\ hq[h].resident \/ hq[h].ref > 0
    <2>1. CountIn(hp, R, s, hd, h, InHand(h, e)) /\ h \in Handle
      BY DEF Ledger, LedgerTypes
    <2>2. hp[h].ref \in Int /\ InHand(h, NULL) = 0 /\ (hp[h].resident \/ hp[h].ref > 0)
      BY <2>1, Numbers DEF CountIn
    <2>3. CASE h = e
      <3>1. hp[h].ref > 1 => hq[h].ref > 0
        BY <2>2, <2>3
      <3>2. hq[h].ref + InHand(h, e) = hp[h].ref + InHand(h, NULL)
        BY <2>2, <2>3 DEF InHand
      <3> QED
        BY <2>3, <3>1, <3>2
    <2>4. CASE h # e
      <3>1. hq[h].ref = hp[h].ref /\ (hp[h].resident => hq[h].resident)
        BY <2>4 DEF SameCounts
      <3>2. hq[h].ref + InHand(h, e) = hp[h].ref + InHand(h, NULL)
        BY <2>2, <2>4, <3>1 DEF InHand
      <3> QED
        BY <2>2, <3>1, <3>2
    <2> QED
      BY <2>3, <2>4
  <1> QED
    BY <1>1, LedgerRef

\* unload_deplibs keeps the use of a resident module.
LEMMA LedgerResident ==
    ASSUME NEW hp, NEW Rg, NEW R, NEW s, NEW hd, NEW e \in Rg,
           LedgerTypes(hp, Rg, R, s, hd), Ledger(hp, Rg, R, s, hd, e), hp[e].resident
    PROVE  Ledger(hp, Rg, R, s, hd, NULL)
  <1>1. ASSUME NEW h \in Rg PROVE CountIn(hp, R, s, hd, h, InHand(h, NULL))
    <2>1. CountIn(hp, R, s, hd, h, InHand(h, e)) /\ h \in Handle
      BY DEF Ledger, LedgerTypes
    <2>2. InHand(h, NULL) = 0 /\ UsesIn(hp, R, s, hd, h) \in Nat /\ hp[h].ref \in Int
      BY <2>1, Numbers DEF CountIn
    <2>3. CASE h = e
      <3>1. hp[h].ref >= UsesIn(hp, R, s, hd, h) + 1
        BY <2>1, <2>3 DEF CountIn, InHand
      <3>2. hp[h].ref >= UsesIn(hp, R, s, hd, h) + InHand(h, NULL)
        BY <2>2, <3>1
      <3> QED
        BY <2>1, <2>3, <3>2 DEF CountIn
    <2>4. CASE h # e
      <3>1. InHand(h, e) = InHand(h, NULL)
        BY <2>2, <2>4 DEF InHand
      <3> QED
        BY <2>1, <3>1
    <2> QED
      BY <2>3, <2>4
  <1> QED
    BY <1>1 DEF Ledger

\* The last use of a module is in hand: it leaves the list, and no module left
\* in use depends on it.
LEMMA LedgerRemove ==
    ASSUME NEW hp, NEW hq, NEW Rg, NEW R, NEW s, NEW hd, NEW e \in Rg,
           LedgerTypes(hp, Rg, R, s, hd), LedgerTypes(hq, Rg, R, s, hd),
           Ledger(hp, Rg, R, s, hd, e), SameDeps(hp, hq, R),
           hp[e].ref <= 1, ~hp[e].resident,
           SameCounts(hp, hq, Rg \ {e})
    PROVE  Ledger(hq, Rg \ {e}, R, s, hd, NULL)
  <1>1. e \in Handle /\ CountIn(hp, R, s, hd, e, InHand(e, e))
    BY DEF Ledger, LedgerTypes
  <1>2. /\ IsFiniteSet(DepSet(hp, R, e)) /\ Cardinality(DepSet(hp, R, e)) \in Nat
        /\ hd[e] \in Nat /\ Cardinality(RetSet(s, e)) \in Nat /\ hp[e].ref \in Int
    BY <1>1, Numbers DEF CountIn
  <1>3. hp[e].ref = UsesIn(hp, R, s, hd, e) + 1
    BY <1>1 DEF CountIn, InHand
  <1>4. hd[e] = 0 /\ Cardinality(DepSet(hp, R, e)) = 0 /\ Cardinality(RetSet(s, e)) = 0
    BY <1>2, <1>3 DEF UsesIn
  <1>5. DepSet(hp, R, e) = {} /\ RetSet(s, e) = {}
    <2>1. IsFiniteSet(RetSet(s, e))
      BY RetFinite DEF LedgerTypes
    <2> QED
      BY <1>2, <1>4, <2>1, FS_EmptySet
  <1>6. ASSUME NEW g \in R PROVE SeqRange(hq[g].deplibs) \subseteq Rg \ {e}
    <2>1. hp[g].deplibs \in Seq(Handle)
      BY Numbers DEF LedgerTypes
    <2>2. ASSUME NEW k \in 1..Len(hp[g].deplibs) PROVE hp[g].deplibs[k] \in Rg \ {e}
      <3>1. hp[g].deplibs[k] \in Rg
        BY DEF Ledger, SeqRange
      <3>2. k \in Nat
        BY <2>1
      <3>3. <<g, k>> \notin DepSet(hp, R, e)
        BY <1>5
      <3>4. hp[g].deplibs[k] # e
        BY <3>2, <3>3 DEF DepSet
      <3> QED
        BY <3>1, <3>4
    <2>3. hq[g].deplibs = hp[g].deplibs
      BY DEF SameDeps
    <2> QED
      BY <2>2, <2>3 DEF SeqRange
  <1>7. ASSUME NEW h \in Rg \ {e} PROVE CountIn(hq, R, s, hd, h, InHand(h, NULL))
    <2>1. CountIn(hp, R, s, hd, h, InHand(h, e)) /\ h \in Handle /\ InHand(h, NULL) = 0
      BY Numbers DEF Ledger, LedgerTypes
    <2>2. InHand(h, e) = 0
      BY DEF InHand
    <2>3. DepSet(hq, R, h) = DepSet(hp, R, h)
      BY DepsSame DEF SameDeps
    <2>4. hq[h].ref = hp[h].ref /\ (hp[h].resident => hq[h].resident)
      BY DEF SameCounts
    <2> QED
      BY <2>1, <2>2, <2>3, <2>4 DEF CountIn, UsesIn
  <1>8. ASSUME NEW k \in 1..Len(s), s[k].ret # NULL
        PROVE  s[k].op = "undo" /\ s[k].ret \in Rg \ {e}
    <2>1. s[k].op = "undo" /\ s[k].ret \in Rg
      BY <1>8 DEF Ledger
    <2>2. s[k].ret # e
      BY <1>5 DEF RetSet
    <2> QED
      BY <2>1, <2>2
  <1>9. \A h \in Handle \ (Rg \ {e}) : hd[h] = 0
    BY <1>4 DEF Ledger
  <1> QED
    BY <1>6, <1>7, <1>8, <1>9 DEF Ledger

\* A new module enters the list with its first use, which is in hand.
LEMMA LedgerAdd ==
    ASSUME NEW hp, NEW hq, NEW Rg, NEW R, NEW s, NEW hd, NEW e \in R \ Rg,
           LedgerTypes(hp, Rg, R, s, hd), LedgerTypes(hq, Rg, R, s, hd),
           Ledger(hp, Rg, R, s, hd, NULL), SameDeps(hp, hq, R), SameCounts(hp, hq, Rg),
           hq[e].ref = 1
    PROVE  Ledger(hq, Rg \cup {e}, R, s, hd, e)
  <1>1. e \in Handle /\ InHand(e, e) = 1
    BY DEF LedgerTypes, InHand
  <1>2. DepSet(hp, R, e) = {}
    <2>1. ASSUME NEW p \in DepSet(hp, R, e) PROVE FALSE
      <3>1. p[1] \in R /\ p[2] \in 1..Len(hp[p[1]].deplibs) /\ hp[p[1]].deplibs[p[2]] = e
        BY DepPairs
      <3> QED
        BY <3>1 DEF Ledger, SeqRange
    <2> QED
      BY <2>1
  <1>3. RetSet(s, e) = {}
    <2>1. e # NULL
      BY <1>1, NullAssumption
    <2> QED
      BY <2>1 DEF Ledger, RetSet
  <1>4. \A h : DepSet(hq, R, h) = DepSet(hp, R, h)
    BY DepsSame DEF SameDeps
  <1>5. UsesIn(hq, R, s, hd, e) = 0
    <2>1. hd[e] = 0 /\ Cardinality({}) = 0
      BY <1>1, FS_EmptySet DEF Ledger
    <2> QED
      BY <1>2, <1>3, <1>4, <2>1 DEF UsesIn
  <1>6. CountIn(hq, R, s, hd, e, InHand(e, e))
    <2>1. IsFiniteSet({})
      BY FS_EmptySet
    <2> QED
      BY <1>1, <1>2, <1>4, <1>5, <2>1 DEF CountIn
  <1>7. ASSUME NEW h \in Rg PROVE CountIn(hq, R, s, hd, h, InHand(h, e))
    <2>1. CountIn(hp, R, s, hd, h, InHand(h, NULL)) /\ h \in Handle /\ InHand(h, NULL) = 0
      BY Numbers DEF Ledger, LedgerTypes
    <2>2. InHand(h, e) = 0
      BY DEF InHand
    <2>3. hq[h].ref = hp[h].ref /\ (hp[h].resident => hq[h].resident)
      BY DEF SameCounts
    <2> QED
      BY <1>4, <2>1, <2>2, <2>3 DEF CountIn, UsesIn
  <1>8. \A g \in R : SeqRange(hq[g].deplibs) \subseteq Rg \cup {e}
    BY DEF Ledger, SameDeps
  <1>9. \A h \in Rg \cup {e} : CountIn(hq, R, s, hd, h, InHand(h, e))
    BY <1>6, <1>7
  <1> QED
    BY <1>8, <1>9 DEF Ledger

(***************************************************************************)
(* The ledger of the state, and what the steps do to it.                   *)
(***************************************************************************)
Now == Ledger(heap, Registered, Reachable, stack, held, NULL)

LEMMA NowTypes ==
    ASSUME TypeOK
    PROVE  LedgerTypes(heap, Registered, Reachable, stack, held)
  <1>1. Registered \subseteq Handle /\ Pending \subseteq Handle
    BY RegisteredType, PendingType
  <1> QED
    BY <1>1 DEF LedgerTypes, TypeOK, Reachable

LEMMA ThenTypes ==
    ASSUME TypeOK'
    PROVE  LedgerTypes(heap', Registered', Reachable', stack', held')
  <1>1. handles' \in Seq(Handle) /\ stack' \in Seq(Frame)
    BY DEF TypeOK
  <1>2. Registered' \subseteq Handle
    BY <1>1, RangeType DEF Registered
  <1>3. Pending' \subseteq Handle
    BY <1>1, FrameAt DEF Pending
  <1> QED
    BY <1>2, <1>3 DEF LedgerTypes, TypeOK, Reachable

\* Handles that are not allocated are not in use.
LEMMA NotInUse ==
    ASSUME IInv, NEW h, ~heap[h].live
    PROVE  h \notin Registered /\ h \notin Pending
  <1>1. h \notin Registered
    BY DEF IInv, ListOK
  <1>2. h \notin Pending
    BY DEF IInv, StackOK, WellStacked, Pending
  <1> QED
    BY <1>1, <1>2

\* A frame whose todo is counted down stays the same frame otherwise.
LEMMA FrameOne ==
    ASSUME NEW s \in Seq(Frame), s # <<>>
    PROVE  LET t == [s EXCEPT ![1].todo = @ - 1]
           IN  /\ Len(t) = Len(s)
               /\ \A k \in 1..Len(s) : /\ t[k].ret = s[k].ret /\ t[k].op = s[k].op
                                       /\ t[k].h = s[k].h
  <1> DEFINE t == [s EXCEPT ![1].todo = @ - 1]
             fr == [s[1] EXCEPT !.todo = @ - 1]
  <1>1. Len(s) \in Nat /\ 1 \in 1..Len(s) /\ s[1] \in Frame
    OBVIOUS
  <1>2. fr.h = s[1].h /\ fr.op = s[1].op /\ fr.ret = s[1].ret
    BY <1>1 DEF Frame
  <1>3. /\ Len(t) = Len(s) /\ t[1] = fr
        /\ \A k \in 1..Len(s) : k # 1 => t[k] = s[k]
    BY <1>1
  <1> HIDE DEF t, fr
  <1>4. \A k \in 1..Len(s) : /\ t[k].ret = s[k].ret /\ t[k].op = s[k].op
                             /\ t[k].h = s[k].h
    BY <1>2, <1>3
  <1> QED
    BY <1>3, <1>4 DEF t

LEMMA BeginOpenNow ==
    ASSUME IInv, IInv', Now, NEW f \in File, NEW adv \in Advice,
           BeginOpen(f, adv), UNCHANGED <<handles, held>>
    PROVE  Now'
  <1>1. PICK h \in Handle :
            /\ ~heap[h].live
            /\ heap' = [heap EXCEPT ![h] = Zalloc(f)]
            /\ stack' = <<LoadFrame(h, f, adv)>> \o stack
    BY DEF BeginOpen
  <1> DEFINE fr == LoadFrame(h, f, adv)
  <1>2. fr \in Frame /\ fr.h = h /\ fr.ret = NULL
    BY LoadFrameType DEF LoadFrame
  <1>3. stack \in Seq(Frame) /\ heap \in [Handle -> HandleRec]
    BY DEF IInv, TypeOK
  <1>4. h \notin Reachable
    BY <1>1, NotInUse DEF Reachable
  <1>5. stack' = <<fr>> \o stack
    BY <1>1
  <1> HIDE DEF fr
  <1>6. Registered' = Registered /\ Reachable' = {h} \cup Reachable
    <2>1. Pending' = {h} \cup Pending
      BY <1>2, <1>3, <1>5, PushPending
    <2>2. Registered' = Registered
      BY DEF Registered
    <2> QED
      BY <2>1, <2>2 DEF Reachable
  <1>7. /\ heap'[h].deplibs = <<>>
        /\ \A g \in Handle \ {h} : heap'[g] = heap[g]
    BY <1>1, <1>3 DEF Zalloc, Freed
  <1>8. /\ LedgerTypes(heap, Registered, Reachable, stack, held)
        /\ LedgerTypes(heap', Registered, Reachable', stack, held)
    BY <1>3, <1>6, NowTypes, ThenTypes DEF IInv, LedgerTypes
  <1>9. Reachable \subseteq Handle /\ Registered \subseteq Reachable
    BY <1>8 DEF LedgerTypes
  <1>10. Ledger(heap', Registered, Reachable', stack, held, NULL)
    <2>1. /\ \A g \in Reachable \cap Reachable' : heap'[g].deplibs = heap[g].deplibs
          /\ \A g \in Reachable \ Reachable' : heap[g].deplibs = <<>>
          /\ \A g \in Reachable' \ Reachable : heap'[g].deplibs = <<>>
          /\ \A g \in Registered : /\ heap'[g].ref = heap[g].ref
                                   /\ heap[g].resident => heap'[g].resident
      BY <1>4, <1>6, <1>7, <1>9
    <2> QED
      BY <1>8, <2>1, LedgerHeap DEF Now
  <1>11. Ledger(heap', Registered, Reachable', <<fr>> \o stack, held, NULL)
    BY <1>2, <1>8, <1>10, LedgerPush
  <1> QED
    BY <1>5, <1>6, <1>11 DEF Now

\* What an open returns is counted with its caller.
LEMMA ReturnNow ==
    ASSUME NEW hp, NEW Rg, NEW R, NEW r \in Rg \cup {NULL},
           stack \in Seq(Frame), stack # <<>>,
           LedgerTypes(hp, Rg, R, Below, held), Ledger(hp, Rg, R, Below, held, r),
           Below # <<>> => Below[1].h \in R,
           Return(r, hp)
    PROVE  Ledger(heap', Rg, R, stack', held', NULL)
  <1>1. Below \in Seq(Frame) /\ Rg \subseteq Handle /\ R \subseteq Handle
        /\ hp \in [Handle -> HandleRec]
    BY DEF LedgerTypes
  <1>2. r = NULL <=> r \notin Rg
    BY <1>1, NullAssumption
  <1>3. CASE Below = <<>>
    <2>1. stack' = Below /\ heap' = hp
      BY <1>3 DEF Return
    <2>2. CASE r = NULL
      BY <1>3, <2>1, <2>2 DEF Return
    <2>3. CASE r # NULL
      <3>1. held' = [held EXCEPT ![r] = @ + 1]
        BY <1>3, <2>3 DEF Return
      <3> QED
        BY <2>1, <2>3, <3>1, LedgerHold
    <2> QED
      BY <2>2, <2>3
  <1>4. CASE Below # <<>>
    <2>1. stack' = [Below EXCEPT ![1].todo = @ - 1] /\ held' = held
      BY <1>4 DEF Return
    <2>2. /\ Len(stack') = Len(Below)
          /\ \A k \in 1..Len(Below) : stack'[k].ret = Below[k].ret /\ stack'[k].op = Below[k].op
      BY <1>1, <1>4, <2>1, FrameOne
    <2>3. CASE r = NULL
      <3>1. heap' = hp
        BY <1>4, <2>3 DEF Return
      <3> QED
        BY <2>1, <2>2, <2>3, <3>1, LedgerFrames
    <2>4. CASE r # NULL
      <3> DEFINE g == Below[1].h
      <3>1. heap' = [hp EXCEPT ![g].deplibs = Append(@, r)]
        BY <1>4, <2>4 DEF Return
      <3>2. g \in R /\ g \in Handle
        BY <1>1, <1>4
      <3> HIDE DEF g
      <3>3. hp[g] \in HandleRec
        BY <1>1, <3>2
      <3>4. /\ heap'[g].deplibs = Append(hp[g].deplibs, r)
            /\ heap'[g].ref = hp[g].ref /\ heap'[g].resident = hp[g].resident
            /\ \A x \in Handle \ {g} : heap'[x] = hp[x]
        <4>1. heap'[g] = [hp[g] EXCEPT !.deplibs = Append(@, r)]
          BY <1>1, <3>1, <3>2
        <4>2. \A x \in Handle \ {g} : heap'[x] = hp[x]
          BY <1>1, <3>1
        <4> QED
          BY <3>3, <4>1, <4>2 DEF HandleRec
      <3>5. SameCounts(hp, heap', Rg)
        BY <1>1, <3>4 DEF SameCounts
      <3>6. \A x \in R \ {g} : heap'[x].deplibs = hp[x].deplibs
        BY <1>1, <3>4
      <3>7. Ledger(heap', Rg, R, Below, held, NULL)
        BY <2>4, <3>2, <3>4, <3>5, <3>6, LedgerAppend
      <3> QED
        BY <2>1, <2>2, <3>7, LedgerFrames
    <2> QED
      BY <2>3, <2>4
  <1> QED
    BY <1>3, <1>4

\* The handles of the calls in s.
HandlesOf(s) == {s[k].h : k \in 1..Len(s)}

LEMMA PushHandles ==
    ASSUME NEW s \in Seq(Frame), NEW fr \in Frame
    PROVE  HandlesOf(<<fr>> \o s) = {fr.h} \cup HandlesOf(s)
  <1> DEFINE t == <<fr>> \o s
  <1>1. /\ Len(t) = Len(s) + 1 /\ t[1] = fr /\ Len(s) \in Nat
        /\ \A k \in 2..(Len(s) + 1) : t[k] = s[k - 1]
    BY PushType
  <1> HIDE DEF t
  <1>2. ASSUME NEW k \in 1..Len(t) PROVE t[k].h \in {fr.h} \cup HandlesOf(s)
    <2>1. CASE k = 1
      BY <1>1, <2>1
    <2>2. CASE k # 1
      <3>1. k - 1 \in 1..Len(s) /\ t[k] = s[k - 1]
        BY <1>1, <2>2
      <3> QED
        BY <3>1 DEF HandlesOf
    <2> QED
      BY <2>1, <2>2
  <1>3. fr.h \in HandlesOf(t)
    <2>1. 1 \in 1..Len(t)
      BY <1>1
    <2> QED
      BY <1>1, <2>1 DEF HandlesOf
  <1>4. ASSUME NEW k \in 1..Len(s) PROVE s[k].h \in HandlesOf(t)
    <2>1. k + 1 \in 1..Len(t) /\ t[k + 1] = s[k]
      <3>1. k + 1 \in 2..(Len(s) + 1) /\ (k + 1) - 1 = k
        BY <1>1
      <3> QED
        BY <1>1, <3>1
    <2> QED
      BY <2>1 DEF HandlesOf
  <1>5. HandlesOf(t) = {fr.h} \cup HandlesOf(s)
    BY <1>2, <1>3, <1>4 DEF HandlesOf
  <1> QED
    BY <1>5 DEF t

LEMMA PopHandles ==
    ASSUME NEW s \in Seq(Frame), s # <<>>
    PROVE  HandlesOf(s) = {s[1].h} \cup HandlesOf(Tail(s))
  <1>1. s[1] \in Frame /\ Tail(s) \in Seq(Frame) /\ s = <<s[1]>> \o Tail(s)
    OBVIOUS
  <1> QED
    BY <1>1, PushHandles

\* The call on top is over, and hands over the module it returns.
LEMMA PopLedger ==
    ASSUME IInv, stack # <<>>, NEW hd,
           LedgerTypes(heap, Registered, Reachable, stack, hd),
           Ledger(heap, Registered, Reachable, stack, hd, NULL)
    PROVE  /\ LedgerTypes(heap, Registered, Reachable, Below, hd)
           /\ Top.ret \in Registered \cup {NULL}
           /\ Ledger(heap, Registered, Reachable, Below, hd, Top.ret)
           /\ Top.op # "undo" => Top.ret = NULL
           /\ Top.h \in Handle /\ Top.h \in Reachable
           /\ Top.h \notin Registered /\ Top.h \notin HandlesOf(Below)
           /\ Reachable = Registered \cup {Top.h} \cup HandlesOf(Below)
           /\ Below # <<>> => Below[1].h \in HandlesOf(Below)
           /\ Below \in Seq(Frame)
  <1>1. stack \in Seq(Frame) /\ LedgerTypes(heap, Registered, Reachable, stack, hd)
    BY DEF IInv, TypeOK
  <1>2. Below \in Seq(Frame)
    BY <1>1, TailType DEF Below
  <1>3. LedgerTypes(heap, Registered, Reachable, Below, hd)
    BY <1>1, <1>2 DEF LedgerTypes
  <1>4. /\ Top.ret \in Registered \cup {NULL}
        /\ Ledger(heap, Registered, Reachable, Below, hd, Top.ret)
    BY <1>1, LedgerPop DEF Top, Below
  <1>5. 1 \in 1..Len(stack)
    BY <1>1
  <1>6. Top.op # "undo" => Top.ret = NULL
    BY <1>5 DEF Ledger, Top
  <1>7. /\ Top.h \in Handle /\ Top.h \in Pending /\ Top.h \notin Registered
        /\ Top.h \notin HandlesOf(Below)
    BY TopFacts DEF IInv, ListOK, HandlesOf
  <1>8. Pending = {Top.h} \cup HandlesOf(Below)
    <2>1. Pending = HandlesOf(stack)
      BY DEF Pending, HandlesOf
    <2> QED
      BY <1>1, <2>1, PopHandles DEF Top, Below
  <1>9. Below # <<>> => Below[1].h \in HandlesOf(Below)
    <2>1. Below # <<>> => 1 \in 1..Len(Below)
      BY <1>2
    <2> QED
      BY <2>1 DEF HandlesOf
  <1> QED
    BY <1>2, <1>3, <1>4, <1>6, <1>7, <1>8, <1>9 DEF Reachable

LEMMA PopNow ==
    ASSUME IInv, Now, stack # <<>>
    PROVE  /\ LedgerTypes(heap, Registered, Reachable, Below, held)
           /\ Top.ret \in Registered \cup {NULL}
           /\ Ledger(heap, Registered, Reachable, Below, held, Top.ret)
           /\ Top.op # "undo" => Top.ret = NULL
           /\ Top.h \in Handle /\ Top.h \in Reachable
           /\ Top.h \notin Registered /\ Top.h \notin HandlesOf(Below)
           /\ Reachable = Registered \cup {Top.h} \cup HandlesOf(Below)
           /\ Below # <<>> => Below[1].h \in HandlesOf(Below)
           /\ Below \in Seq(Frame)
  BY NowTypes, PopLedger DEF Now, IInv

LEMMA ServeUnlessOver ==
    ASSUME UNCHANGED <<phase, initialized>>, ServeInv, OffInv,
           stack # <<>> \/ phase = "running",
           Serving /\ Now => Now'
    PROVE  ServeInv' /\ OffInv'
  <1>1. ServeInv'
    <2>1. Serving' => Serving
      BY DEF Serving
    <2>2. initialized' = initialized
      OBVIOUS
    <2> QED
      BY <2>1, <2>2 DEF ServeInv, Now
  <1>2. phase' \notin {"loaders", "off"}
    BY DEF OffInv
  <1>3. OffInv'
    BY <1>2 DEF OffInv
  <1> QED
    BY <1>1, <1>3

LEMMA ClientOpenNow ==
    ASSUME IInv, IInv', ServeInv, OffInv,
           NEW f \in ClientFiles, NEW adv \in Advice, ClientOpen(f, adv)
    PROVE  ServeInv' /\ OffInv'
  <1>1. f \in File
    BY FileAssumption DEF File
  <1>2. /\ phase = "running" /\ BeginOpen(f, adv)
        /\ UNCHANGED <<handles, held, phase, initialized>>
    BY DEF ClientOpen, Idle
  <1>3. Now => Now'
    BY <1>1, <1>2, BeginOpenNow
  <1> QED
    BY <1>2, <1>3, ServeUnlessOver

LEMMA LoadDepNow ==
    ASSUME IInv, IInv', ServeInv, OffInv, LoadDep
    PROVE  ServeInv' /\ OffInv'
  <1> DEFINE f == DepLibs[heap[Top.h].file][Top.todo]
  <1>1. stack # <<>> /\ Top.op = "load" /\ Top.todo > 0
    BY DEF LoadDep, Running, Top
  <1>2. f \in Module
    <2>1. /\ heap[Top.h].file \in Module /\ Top.todo \in Nat
          /\ Top.todo <= Len(DepLibs[heap[Top.h].file])
      BY <1>1, TopFacts DEF IInv
    <2>2. DepLibs[heap[Top.h].file] \in Seq(Module)
      BY <2>1, DepLibsAssumption
    <2> QED
      BY <1>1, <2>1, <2>2
  <1>3. /\ f \in File /\ "plain" \in Advice /\ BeginOpen(f, "plain")
        /\ UNCHANGED <<handles, held, phase, initialized>>
    BY <1>2 DEF File, Advice, LoadDep
  <1> HIDE DEF f
  <1>4. Now => Now'
    BY <1>3, BeginOpenNow
  <1> QED
    BY <1>1, <1>3, <1>4, ServeUnlessOver

LEMMA SkipDepNow ==
    ASSUME IInv, IInv', ServeInv, OffInv, SkipDep
    PROVE  ServeInv' /\ OffInv'
  <1>1. /\ stack # <<>> /\ stack \in Seq(Frame)
        /\ stack' = [stack EXCEPT ![1].todo = @ - 1]
        /\ UNCHANGED <<handles, heap, held, phase, initialized>>
    BY DEF SkipDep, Running, IInv, TypeOK
  <1>2. /\ Len(stack') = Len(stack)
        /\ \A k \in 1..Len(stack) : /\ stack'[k].ret = stack[k].ret
                                     /\ stack'[k].op = stack[k].op
                                     /\ stack'[k].h = stack[k].h
    BY <1>1, FrameOne
  <1>3. Registered' = Registered /\ Reachable' = Reachable
    BY <1>1, <1>2 DEF Registered, Reachable, Pending
  <1>4. Now => Now'
    BY <1>1, <1>2, <1>3, LedgerFrames DEF Now
  <1> QED
    BY <1>1, <1>4, ServeUnlessOver

\* An open that gives its handle up keeps it until its deplibs are released.
LEMMA UndoReachable ==
    ASSUME IInv, stack # <<>>, NEW r \in Handle \cup {NULL}, UNCHANGED handles,
           stack' = <<UndoFrame(Top.h, r)>> \o Below
    PROVE  Registered' = Registered /\ Reachable' = Reachable
  <1>1. stack \in Seq(Frame) /\ Below \in Seq(Frame) /\ Top.h \in Handle
    BY TopFacts DEF IInv, TypeOK
  <1>2. Pending' = {Top.h} \cup HandlesOf(Below)
    <2>1. Pending' = HandlesOf(stack')
      BY DEF Pending, HandlesOf
    <2>2. UndoFrame(Top.h, r) \in Frame /\ UndoFrame(Top.h, r).h = Top.h
      BY <1>1, FrameType
    <2> QED
      BY <1>1, <2>1, <2>2, PushHandles
  <1>3. Pending = {Top.h} \cup HandlesOf(Below)
    <2>1. Pending = HandlesOf(stack)
      BY DEF Pending, HandlesOf
    <2> QED
      BY <1>1, <2>1, PopHandles DEF Top, Below
  <1> QED
    BY <1>2, <1>3 DEF Registered, Reachable

LEMMA FindExistingNow ==
    ASSUME IInv, IInv', ServeInv, OffInv, FindExisting
    PROVE  ServeInv' /\ OffInv'
  <1>1. PICK e \in Registered :
            /\ heap' = [heap EXCEPT ![e].ref = @ + 1]
            /\ stack' = <<UndoFrame(Top.h, e)>> \o Below
    BY DEF FindExisting
  <1>2. /\ stack # <<>> /\ Top.op = "load"
        /\ UNCHANGED <<handles, held, phase, initialized>>
    BY DEF FindExisting, Running, Top
  <1>3. ASSUME Now PROVE Now'
    <2>1. /\ LedgerTypes(heap, Registered, Reachable, Below, held)
          /\ Ledger(heap, Registered, Reachable, Below, held, NULL)
          /\ Top.h \in Handle /\ Below \in Seq(Frame)
      BY <1>2, <1>3, PopNow
    <2>2. e \in Handle /\ heap \in [Handle -> HandleRec] /\ heap' \in [Handle -> HandleRec]
      BY <2>1, RegisteredType DEF IInv, TypeOK
    <2>3. Registered' = Registered /\ Reachable' = Reachable
      BY <1>1, <1>2, <2>2, UndoReachable
    <2>4. /\ heap'[e].ref = heap[e].ref + 1 /\ heap'[e].resident = heap[e].resident
          /\ heap'[e].deplibs = heap[e].deplibs
          /\ \A g \in Handle \ {e} : heap'[g] = heap[g]
      <3>1. heap'[e] = [heap[e] EXCEPT !.ref = @ + 1] /\ heap[e] \in HandleRec
        BY <1>1, <2>2
      <3>2. \A g \in Handle \ {e} : heap'[g] = heap[g]
        BY <1>1, <2>2
      <3> QED
        BY <3>1, <3>2 DEF HandleRec
    <2>5. Registered \subseteq Handle /\ Reachable \subseteq Handle
      BY <2>1 DEF LedgerTypes
    <2>6. LedgerTypes(heap', Registered, Reachable, Below, held)
      BY <2>1, <2>2 DEF LedgerTypes
    <2>7. SameDeps(heap, heap', Reachable) /\ SameCounts(heap, heap', Registered \ {e})
      BY <2>4, <2>5 DEF SameDeps, SameCounts
    <2>8. Ledger(heap', Registered, Reachable, Below, held, e)
      BY <2>1, <2>4, <2>6, <2>7, LedgerCount
    <2>9. UndoFrame(Top.h, e) \in Frame /\ UndoFrame(Top.h, e).op = "undo"
          /\ UndoFrame(Top.h, e).ret = e
      BY <2>1, <2>2, FrameType
    <2>10. Ledger(heap', Registered, Reachable, <<UndoFrame(Top.h, e)>> \o Below, held, NULL)
      BY <2>6, <2>8, <2>9, LedgerKeep
    <2> QED
      BY <1>1, <1>2, <2>3, <2>10 DEF Now
  <1> QED
    BY <1>2, <1>3, ServeUnlessOver

LEMMA OpenFailsNow ==
    ASSUME IInv, IInv', ServeInv, OffInv, OpenFails
    PROVE  ServeInv' /\ OffInv'
  <1>1. /\ stack # <<>> /\ Top.op = "load"
        /\ stack' = <<UndoFrame(Top.h, NULL)>> \o Below
        /\ UNCHANGED <<handles, heap, held, phase, initialized>>
    BY DEF OpenFails, Running, Top
  <1>2. ASSUME Now PROVE Now'
    <2>1. /\ LedgerTypes(heap, Registered, Reachable, Below, held)
          /\ Ledger(heap, Registered, Reachable, Below, held, NULL)
          /\ Top.h \in Handle
      BY <1>1, <1>2, PopNow
    <2>2. Registered' = Registered /\ Reachable' = Reachable
      BY <1>1, UndoReachable
    <2>3. UndoFrame(Top.h, NULL) \in Frame /\ UndoFrame(Top.h, NULL).ret = NULL
      BY <2>1, FrameType
    <2>4. Ledger(heap, Registered, Reachable, <<UndoFrame(Top.h, NULL)>> \o Below, held, NULL)
      BY <2>1, <2>3, LedgerPush
    <2> QED
      BY <1>1, <2>2, <2>4 DEF Now
  <1> QED
    BY <1>1, <1>2, ServeUnlessOver

LEMMA ReturnHandles ==
    ASSUME stack \in Seq(Frame), stack # <<>>, NEW r, NEW hp, Return(r, hp)
    PROVE  Pending' = HandlesOf(Below)
  <1>1. Below \in Seq(Frame)
    BY TailType DEF Below
  <1>2. Pending' = HandlesOf(stack')
    BY DEF Pending, HandlesOf
  <1>3. CASE Below = <<>>
    BY <1>2, <1>3 DEF Return
  <1>4. CASE Below # <<>>
    <2>1. stack' = [Below EXCEPT ![1].todo = @ - 1]
      BY <1>4 DEF Return
    <2>2. Len(stack') = Len(Below) /\ \A k \in 1..Len(Below) : stack'[k].h = Below[k].h
      BY <1>1, <1>4, <2>1, FrameOne
    <2> QED
      BY <1>2, <2>2 DEF HandlesOf
  <1> QED
    BY <1>3, <1>4

LEMMA LoaderOpensNow ==
    ASSUME IInv, IInv', ServeInv, OffInv, LoaderOpens
    PROVE  ServeInv' /\ OffInv'
  <1> DEFINE h == Top.h
             opened(k) == Opened(h, loaders[k].name, Top.adv)
             hp(k) == [heap EXCEPT ![h] = opened(k)]
  <1>1. PICK k \in 1..Len(loaders) :
            /\ loaders[k].live
            /\ handles' = <<h>> \o handles
            /\ Return(h, hp(k))
    BY DEF LoaderOpens
  <1>2. /\ stack # <<>> /\ stack[1].op = "load" /\ Top.op # "undo"
        /\ UNCHANGED <<phase, initialized>>
    BY DEF LoaderOpens, Running, Top
  <1>3. ASSUME Now PROVE Now'
    <2>1. /\ LedgerTypes(heap, Registered, Reachable, Below, held)
          /\ Ledger(heap, Registered, Reachable, Below, held, NULL)
          /\ h \in Handle /\ h \in Reachable /\ h \notin Registered /\ h \notin HandlesOf(Below)
          /\ Reachable = Registered \cup {h} \cup HandlesOf(Below)
          /\ Below # <<>> => Below[1].h \in HandlesOf(Below)
          /\ Below \in Seq(Frame)
      BY <1>2, <1>3, PopNow
    <2>2. heap \in [Handle -> HandleRec] /\ handles \in Seq(Handle) /\ stack \in Seq(Frame)
      BY DEF IInv, TypeOK
    <2>3. heap[h] \in HandleRec /\ loaders[k].name \in LoaderName
      <3>1. loaders \in Seq(LoaderItem)
        BY DEF IInv, TypeOK, LoaderItem
      <3>2. loaders[k] \in LoaderItem
        BY <3>1
      <3>3. loaders[k].name \in LoaderName
        BY <3>2 DEF LoaderItem
      <3>4. heap[h] \in HandleRec
        BY <2>1, <2>2
      <3> QED
        BY <3>3, <3>4
    <2>4. /\ opened(k) \in HandleRec /\ opened(k).ref = 1
          /\ opened(k).deplibs = heap[h].deplibs
      BY <2>3, OpenedType, ZenonT(60) DEF Opened, HandleRec
    <2> DEFINE hq == hp(k)
    <2>5. hq \in [Handle -> HandleRec] /\ hq[h].ref = 1 /\ hq[h].deplibs = heap[h].deplibs
          /\ \A g \in Handle \ {h} : hq[g] = heap[g]
      BY <2>1, <2>2, <2>4
    <2>6. Return(h, hq)
      BY <1>1
    <2> HIDE DEF h, hq
    <2>7. /\ Registered \subseteq Handle /\ Reachable \subseteq Handle
          /\ Registered \subseteq Reachable
      BY <2>1 DEF LedgerTypes
    <2>8. /\ LedgerTypes(hq, Registered, Reachable, Below, held)
          /\ LedgerTypes(hq, Registered \cup {h}, Reachable, Below, held)
      BY <2>1, <2>5 DEF LedgerTypes
    <2>9. SameDeps(heap, hq, Reachable) /\ SameCounts(heap, hq, Registered)
      BY <2>1, <2>5, <2>7 DEF SameDeps, SameCounts
    <2>10. Ledger(hq, Registered \cup {h}, Reachable, Below, held, h)
      BY <2>1, <2>5, <2>8, <2>9, LedgerAdd
    <2>11. Ledger(heap', Registered \cup {h}, Reachable, stack', held', NULL)
      BY <1>2, <2>1, <2>2, <2>6, <2>8, <2>10, ReturnNow
    <2>12. Registered' = Registered \cup {h}
      BY <1>1, <2>1, <2>2, PushRange DEF Registered
    <2>13. Reachable' = Reachable
      BY <1>2, <2>1, <2>2, <2>6, <2>12, ReturnHandles DEF Reachable
    <2> QED
      BY <2>11, <2>12, <2>13 DEF Now
  <1> QED
    BY <1>2, <1>3, ServeUnlessOver

LEMMA UndoDoneNow ==
    ASSUME IInv, IInv', ServeInv, OffInv, UndoDone
    PROVE  ServeInv' /\ OffInv'
  <1> DEFINE h == Top.h
             hq == Free(h)
  <1>1. /\ stack # <<>> /\ heap[h].deplibs = <<>> /\ Return(Top.ret, hq)
        /\ UNCHANGED <<handles, phase, initialized>>
    BY DEF UndoDone, Running
  <1>2. ASSUME Now PROVE Now'
    <2>1. /\ LedgerTypes(heap, Registered, Reachable, Below, held)
          /\ Top.ret \in Registered \cup {NULL}
          /\ Ledger(heap, Registered, Reachable, Below, held, Top.ret)
          /\ h \in Handle /\ h \in Reachable /\ h \notin Registered /\ h \notin HandlesOf(Below)
          /\ Reachable = Registered \cup {h} \cup HandlesOf(Below)
          /\ Below # <<>> => Below[1].h \in HandlesOf(Below)
          /\ Below \in Seq(Frame)
      BY <1>1, <1>2, PopNow
    <2>2. stack \in Seq(Frame)
      BY DEF IInv, TypeOK
    <2>3. hq \in [Handle -> HandleRec] /\ \A g \in Handle \ {h} : hq[g] = heap[g]
      BY <2>1, FreeType DEF IInv
    <2> DEFINE S == Registered \cup HandlesOf(Below)
    <2> HIDE DEF h, hq
    <2>4. /\ Registered \subseteq Handle /\ Reachable \subseteq Handle
          /\ Registered \subseteq Reachable
      BY <2>1 DEF LedgerTypes
    <2>5. S \subseteq Reachable /\ Reachable \ S = {h} /\ Registered \subseteq S
      BY <2>1
    <2> HIDE DEF S
    <2>6. LedgerTypes(hq, Registered, S, Below, held)
      BY <2>1, <2>3, <2>4, <2>5 DEF LedgerTypes
    <2>7. Ledger(hq, Registered, S, Below, held, Top.ret)
      <3>1. /\ \A g \in Reachable \cap S : hq[g].deplibs = heap[g].deplibs
            /\ \A g \in Reachable \ S : heap[g].deplibs = <<>>
            /\ \A g \in S \ Reachable : hq[g].deplibs = <<>>
            /\ \A g \in Registered : /\ hq[g].ref = heap[g].ref
                                     /\ heap[g].resident => hq[g].resident
        BY <1>1, <2>1, <2>3, <2>4, <2>5
      <3> QED
        BY <2>1, <2>6, <3>1, LedgerHeap
    <2>8. Ledger(heap', Registered, S, stack', held', NULL)
      BY <1>1, <2>1, <2>2, <2>6, <2>7, ReturnNow DEF S
    <2>9. Registered' = Registered /\ Reachable' = S
      <3>1. Registered' = Registered
        BY <1>1 DEF Registered
      <3> QED
        BY <1>1, <2>2, <3>1, ReturnHandles DEF Reachable, S
    <2> QED
      BY <2>8, <2>9 DEF Now
  <1> QED
    BY <1>1, <1>2, ServeUnlessOver

LEMMA DropDoneLedger ==
    ASSUME IInv, DropDone, NEW hd, LedgerTypes(heap, Registered, Reachable, stack, hd),
           Ledger(heap, Registered, Reachable, stack, hd, NULL)
    PROVE  Ledger(heap', Registered', Reachable', stack', hd, NULL)
  <1> DEFINE h == Top.h
  <1>1. /\ stack # <<>> /\ Top.op = "drop" /\ heap[h].deplibs = <<>>
        /\ stack' = Below /\ heap' = Free(h) /\ UNCHANGED handles
    BY DEF DropDone, Running, Top
  <1>2. /\ LedgerTypes(heap, Registered, Reachable, Below, hd)
        /\ Ledger(heap, Registered, Reachable, Below, hd, NULL)
        /\ h \in Handle /\ h \in Reachable /\ h \notin Registered /\ h \notin HandlesOf(Below)
        /\ Reachable = Registered \cup {h} \cup HandlesOf(Below)
    BY <1>1, PopLedger
  <1>3. Registered' = Registered /\ Reachable' = Registered \cup HandlesOf(Below)
    BY <1>1 DEF Registered, Reachable, Pending, HandlesOf
  <1>4. heap' \in [Handle -> HandleRec] /\ \A g \in Handle \ {h} : heap'[g] = heap[g]
    BY <1>1, <1>2, FreeType DEF IInv
  <1> HIDE DEF h
  <1>5. /\ Registered \subseteq Handle /\ Reachable \subseteq Handle
        /\ Registered \subseteq Reachable
    BY <1>2 DEF LedgerTypes
  <1>6. /\ Reachable' \subseteq Reachable /\ Reachable \ Reachable' = {h}
        /\ Registered \subseteq Reachable'
    BY <1>2, <1>3
  <1>7. LedgerTypes(heap', Registered, Reachable', Below, hd)
    BY <1>2, <1>4, <1>5, <1>6 DEF LedgerTypes
  <1>8. /\ \A g \in Reachable \cap Reachable' : heap'[g].deplibs = heap[g].deplibs
        /\ \A g \in Reachable \ Reachable' : heap[g].deplibs = <<>>
        /\ \A g \in Reachable' \ Reachable : heap'[g].deplibs = <<>>
        /\ \A g \in Registered : /\ heap'[g].ref = heap[g].ref
                                 /\ heap[g].resident => heap'[g].resident
    BY <1>1, <1>2, <1>4, <1>5, <1>6
  <1>9. Ledger(heap', Registered, Reachable', Below, hd, NULL)
    BY <1>2, <1>7, <1>8, LedgerHeap
  <1> QED
    BY <1>1, <1>3, <1>9

LEMMA DropDoneNow ==
    ASSUME IInv, ServeInv, OffInv, DropDone
    PROVE  ServeInv' /\ OffInv'
  <1>1. stack # <<>> /\ UNCHANGED <<held, phase, initialized>>
    BY DEF DropDone, Running
  <1>2. Now => Now'
    BY <1>1, NowTypes, DropDoneLedger DEF Now, IInv
  <1> QED
    BY <1>1, <1>2, ServeUnlessOver

\* lt_dlclose of a module of which a use is in hand.
LEMMA CloseNow ==
    ASSUME IInv, NEW hp, NEW hd, NEW d \in Registered,
           LedgerTypes(hp, Registered, Reachable, stack, hd),
           Ledger(hp, Registered, Reachable, stack, hd, d),
           Close(d, hp)
    PROVE  Ledger(heap', Registered', Reachable', stack', hd, NULL)
  <1> DEFINE counted == [hp EXCEPT ![d].ref = @ - 1]
  <1>1. /\ hp \in [Handle -> HandleRec] /\ stack \in Seq(Frame) /\ d \in Handle
        /\ Registered \subseteq Handle /\ Reachable \subseteq Handle
        /\ Registered \subseteq Reachable
    BY DEF LedgerTypes
  <1>2. hp[d] \in HandleRec /\ hp[d].ref \in Int
    BY <1>1 DEF HandleRec
  <1>3. [hp[d] EXCEPT !.ref = @ - 1] \in HandleRec
    <2>1. hp[d].ref - 1 \in Int
      BY <1>2
    <2> QED
      BY <1>2, <2>1 DEF HandleRec
  <1>4. /\ counted \in [Handle -> HandleRec]
        /\ counted[d] = [hp[d] EXCEPT !.ref = @ - 1]
        /\ \A g \in Handle \ {d} : counted[g] = hp[g]
    BY <1>1, <1>3
  <1>5. /\ counted[d].ref = hp[d].ref - 1 /\ counted[d].resident = hp[d].resident
        /\ counted[d].deplibs = hp[d].deplibs
    BY <1>2, <1>4 DEF HandleRec
  <1>6. \/ /\ hp[d].ref > 1 \/ hp[d].resident
           /\ heap' = counted /\ UNCHANGED <<handles, stack>>
        \/ /\ hp[d].ref <= 1 /\ ~hp[d].resident
           /\ handles' = DeleteAt(handles, IndexOf(handles, d))
           /\ heap' = counted /\ stack' = <<DropFrame(d)>> \o stack
    BY DEF Close
  <1> HIDE DEF counted
  <1>7. LedgerTypes(counted, Registered, Reachable, stack, hd)
    BY <1>4 DEF LedgerTypes
  <1>8. SameDeps(hp, counted, Reachable) /\ SameCounts(hp, counted, Registered \ {d})
    BY <1>1, <1>4, <1>5 DEF SameDeps, SameCounts
  <1>9. CASE /\ hp[d].ref > 1 \/ hp[d].resident
             /\ heap' = counted /\ UNCHANGED <<handles, stack>>
    <2>1. Ledger(counted, Registered, Reachable, stack, hd, NULL)
      BY <1>5, <1>7, <1>8, <1>9, LedgerClose
    <2>2. Registered' = Registered /\ Reachable' = Reachable
      BY <1>9 DEF Registered, Reachable, Pending
    <2> QED
      BY <1>9, <2>1, <2>2
  <1>10. CASE /\ hp[d].ref <= 1 /\ ~hp[d].resident
              /\ handles' = DeleteAt(handles, IndexOf(handles, d))
              /\ heap' = counted /\ stack' = <<DropFrame(d)>> \o stack
    <2>1. Ledger(counted, Registered \ {d}, Reachable, stack, hd, NULL)
      BY <1>7, <1>8, <1>10, LedgerRemove
    <2>2. DropFrame(d) \in Frame /\ DropFrame(d).h = d /\ DropFrame(d).ret = NULL
      BY <1>1, FrameType DEF DropFrame, UndoFrame
    <2>3. LedgerTypes(counted, Registered \ {d}, Reachable, stack, hd)
      BY <1>7 DEF LedgerTypes
    <2>4. Ledger(counted, Registered \ {d}, Reachable, <<DropFrame(d)>> \o stack, hd, NULL)
      BY <2>1, <2>2, <2>3, LedgerPush
    <2>5. Registered' = Registered \ {d}
      <3>1. IndexOf(handles, d) \in 1..Len(handles) /\ handles[IndexOf(handles, d)] = d
        BY IndexProp DEF Registered
      <3>2. /\ handles \in Seq(Handle)
            /\ \A i, j \in 1..Len(handles) : handles[i] = handles[j] => i = j
        BY DEF IInv, TypeOK, ListOK
      <3> QED
        BY <1>10, <3>1, <3>2, DeleteRange DEF Registered
    <2>6. Reachable' = Reachable
      <3>1. Pending' = {d} \cup Pending
        BY <1>1, <1>10, <2>2, PushPending
      <3> QED
        BY <2>5, <3>1 DEF Reachable
    <2> QED
      BY <1>10, <2>4, <2>5, <2>6
  <1> QED
    BY <1>6, <1>9, <1>10

LEMMA ReleaseDepLedger ==
    ASSUME IInv, ReleaseDep, NEW hd, LedgerTypes(heap, Registered, Reachable, stack, hd),
           Ledger(heap, Registered, Reachable, stack, hd, NULL)
    PROVE  /\ Ledger(heap', Registered', Reachable', stack', hd, NULL)
           /\ Head(heap[Top.h].deplibs) \in Registered
  <1> DEFINE t == Top.h
             d == Head(heap[t].deplibs)
             rest == [heap EXCEPT ![t].deplibs = Tail(@)]
  <1>1. stack # <<>> /\ heap[t].deplibs # <<>>
    BY DEF ReleaseDep, Running
  <1>2. PICK resident \in ResidentRead(d) :
            IF resident THEN heap' = rest /\ UNCHANGED <<handles, stack, errs>>
                        ELSE Close(d, rest)
    BY DEF ReleaseDep
  <1>3. /\ LedgerTypes(heap, Registered, Reachable, stack, hd)
        /\ t \in Handle /\ t \in Reachable /\ t \notin Registered
    BY <1>1, PopLedger
  <1>4. heap \in [Handle -> HandleRec] /\ heap[t] \in HandleRec
        /\ heap[t].deplibs \in Seq(Handle)
    BY <1>3, Numbers DEF IInv, TypeOK
  <1>5. /\ rest[t] = [heap[t] EXCEPT !.deplibs = Tail(@)]
        /\ \A g \in Handle \ {t} : rest[g] = heap[g]
    BY <1>3, <1>4
  <1>6. Tail(heap[t].deplibs) \in Seq(Handle)
    BY <1>1, <1>4, TailType
  <1>7. rest[t] \in HandleRec /\ rest[t].deplibs = Tail(heap[t].deplibs)
    <2> DEFINE a == heap[t]
    <2>1. a \in HandleRec /\ Tail(a.deplibs) \in Seq(Handle)
          /\ rest[t] = [a EXCEPT !.deplibs = Tail(a.deplibs)]
      BY <1>4, <1>5, <1>6
    <2> HIDE DEF a, t, d, rest
    <2> QED
      BY <2>1 DEF HandleRec, a
  <1>8. rest \in [Handle -> HandleRec]
    BY <1>3, <1>4, <1>5, <1>7
  <1> HIDE DEF t, rest
  <1>9. Registered \subseteq Handle /\ Reachable \subseteq Handle
    BY <1>3 DEF LedgerTypes
  <1>10. /\ SameCounts(heap, rest, Registered)
         /\ \A g \in Reachable \ {t} : rest[g].deplibs = heap[g].deplibs
    BY <1>3, <1>5, <1>9 DEF SameCounts
  <1>11. d \in Registered /\ Ledger(rest, Registered, Reachable, stack, hd, d)
    BY <1>1, <1>3, <1>7, <1>10, LedgerTail
  <1>12. LedgerTypes(rest, Registered, Reachable, stack, hd)
    BY <1>3, <1>8 DEF LedgerTypes
  <1> HIDE DEF d
  <1>13. rest[d] = heap[d] /\ resident \in {heap[d].resident}
    <2>1. heap[d].live
      BY <1>11 DEF IInv, ListOK
    <2>2. rest[d] = heap[d]
      BY <1>3, <1>5, <1>9, <1>11
    <2> QED
      BY <2>1, <2>2 DEF ResidentRead
  <1>14. CASE resident
    <2>1. rest[d].resident
      BY <1>13, <1>14
    <2>2. Ledger(rest, Registered, Reachable, stack, hd, NULL)
      BY <1>11, <1>12, <2>1, LedgerResident
    <2>3. heap' = rest /\ UNCHANGED <<handles, stack>>
      BY <1>2, <1>14
    <2>4. Registered' = Registered /\ Reachable' = Reachable
      BY <2>3 DEF Registered, Reachable, Pending
    <2> QED
      BY <1>11, <2>2, <2>3, <2>4 DEF d, t
  <1>15. CASE ~resident
    <2>1. Close(d, rest)
      BY <1>2, <1>15
    <2>2. Ledger(heap', Registered', Reachable', stack', hd, NULL)
      BY <1>11, <1>12, <2>1, CloseNow
    <2> QED
      BY <1>11, <2>2 DEF d, t
  <1> QED
    BY <1>14, <1>15

LEMMA ReleaseDepNow ==
    ASSUME IInv, ServeInv, OffInv, ReleaseDep
    PROVE  ServeInv' /\ OffInv'
  <1>1. stack # <<>> /\ UNCHANGED <<held, phase, initialized>>
    BY DEF ReleaseDep, Running
  <1>2. Now => Now'
    BY <1>1, NowTypes, ReleaseDepLedger DEF Now, IInv
  <1> QED
    BY <1>1, <1>2, ServeUnlessOver

LEMMA ClientCloseNow ==
    ASSUME IInv, IInv', ServeInv, OffInv, NEW h \in Handle, ClientClose(h)
    PROVE  ServeInv' /\ OffInv'
  <1>1. /\ phase = "running" /\ held[h] > 0 /\ held' = [held EXCEPT ![h] = @ - 1]
        /\ Close(h, heap) /\ UNCHANGED <<phase, initialized>>
    BY DEF ClientClose, Idle
  <1>2. ASSUME Now PROVE Now'
    <2>1. LedgerTypes(heap, Registered, Reachable, stack, held)
      BY NowTypes DEF IInv
    <2>2. /\ h \in Registered /\ held' \in [Handle -> Nat]
          /\ Ledger(heap, Registered, Reachable, stack, held', h)
      BY <1>1, <1>2, <2>1, LedgerSpend DEF Now
    <2>3. LedgerTypes(heap, Registered, Reachable, stack, held')
      BY <2>1, <2>2 DEF LedgerTypes
    <2> QED
      BY <1>1, <2>2, <2>3, CloseNow DEF Now
  <1> QED
    BY <1>1, <1>2, ServeUnlessOver

LEMMA MakeResidentNow ==
    ASSUME IInv, IInv', ServeInv, OffInv, NEW h \in Handle, MakeResident(h)
    PROVE  ServeInv' /\ OffInv'
  <1>1. /\ phase = "running" /\ heap' = [heap EXCEPT ![h].resident = TRUE]
        /\ UNCHANGED <<handles, stack, held, phase, initialized>>
    BY DEF MakeResident, Idle
  <1>2. ASSUME Now PROVE Now'
    <2>1. Registered' = Registered /\ Reachable' = Reachable
      BY <1>1 DEF Registered, Reachable, Pending
    <2>2. /\ LedgerTypes(heap, Registered, Reachable, stack, held)
          /\ LedgerTypes(heap', Registered', Reachable', stack', held')
      BY NowTypes, ThenTypes DEF IInv
    <2>3. heap \in [Handle -> HandleRec] /\ heap[h] \in HandleRec
      BY DEF IInv, TypeOK
    <2>4. \A g \in Handle : /\ heap'[g].deplibs = heap[g].deplibs
                            /\ heap'[g].ref = heap[g].ref
                            /\ heap[g].resident => heap'[g].resident
      <3>1. heap'[h] = [heap[h] EXCEPT !.resident = TRUE]
            /\ \A g \in Handle \ {h} : heap'[g] = heap[g]
        BY <1>1, <2>3
      <3>2. /\ heap'[h].deplibs = heap[h].deplibs /\ heap'[h].ref = heap[h].ref
            /\ heap'[h].resident
        BY <2>3, <3>1 DEF HandleRec
      <3> QED
        BY <3>1, <3>2
    <2>5. Registered \subseteq Handle /\ Reachable \subseteq Handle
      BY <2>2 DEF LedgerTypes
    <2>6. /\ \A g \in Reachable \cap Reachable : heap'[g].deplibs = heap[g].deplibs
          /\ \A g \in Registered : /\ heap'[g].ref = heap[g].ref
                                   /\ heap[g].resident => heap'[g].resident
      BY <2>4, <2>5
    <2> QED
      BY <1>1, <1>2, <2>1, <2>2, <2>6, LedgerHeap DEF Now
  <1> QED
    BY <1>1, <1>2, ServeUnlessOver

\* Steps on the loaders, and of lt_dlexit between its closes.
LEMMA QuietNow ==
    ASSUME ServeInv, OffInv, UNCHANGED <<handles, heap, stack, held, initialized>>,
           Serving' => Serving,
           phase' \in {"loaders", "off"} => stack = <<>>,
           phase' = "off" => phase = "off"
    PROVE  ServeInv' /\ OffInv'
  <1>1. Registered' = Registered /\ Reachable' = Reachable
    BY DEF Registered, Reachable, Pending
  <1>2. ServeInv'
    BY <1>1 DEF ServeInv
  <1>3. OffInv'
    BY DEF OffInv
  <1> QED
    BY <1>2, <1>3

LEMMA LoaderListNow ==
    ASSUME ServeInv, OffInv, NEW l \in LoaderName, LoaderRemove(l) \/ LoaderAdd(l)
    PROVE  ServeInv' /\ OffInv'
  <1>1. /\ phase = "running" /\ phase' = phase
        /\ UNCHANGED <<handles, heap, stack, held, initialized>>
    BY DEF LoaderRemove, LoaderAdd, Idle
  <1>2. Serving' => Serving
    BY <1>1 DEF Serving
  <1> QED
    BY <1>1, <1>2, QuietNow

LEMMA BootStepNow ==
    ASSUME ServeInv, OffInv, BootLoaderFails \/ BootDone
    PROVE  ServeInv' /\ OffInv'
  <1>1. /\ phase = "boot" /\ phase' \in {"boot", "running"}
        /\ UNCHANGED <<handles, heap, stack, held, initialized>>
    BY DEF BootLoaderFails, BootDone
  <1>2. Serving' => Serving
    BY <1>1 DEF Serving
  <1> QED
    BY <1>1, <1>2, QuietNow

LEMMA ExitQuietNow ==
    ASSUME ServeInv, OffInv,
           \/ SweepRestart \/ SweepSkip \/ SweepNextLevel \/ SweepDone
           \/ KeepLoader \/ RemoveFails \/ FreeLoader \/ StaleLoader
    PROVE  ServeInv' /\ OffInv'
  <1>1. /\ \/ phase = "closing" /\ stack = <<>> /\ phase' \in {"closing", "loaders"}
           \/ phase = "loaders" /\ phase' = "loaders"
        /\ UNCHANGED <<handles, heap, stack, held, initialized>>
    BY DEF SweepRestart, SweepSkip, SweepNextLevel, SweepDone, Sweeping,
           KeepLoader, RemoveFails, FreeLoader, StaleLoader, ExitingLoader
  <1>2. Serving' => Serving
    BY <1>1 DEF Serving
  <1>3. phase' \in {"loaders", "off"} => stack = <<>>
    BY <1>1 DEF OffInv
  <1> QED
    BY <1>1, <1>2, <1>3, QuietNow

LEMMA SweepCloseNow ==
    ASSUME SweepClose
    PROVE  ServeInv' /\ OffInv'
  <1>1. phase = "closing" /\ phase' = phase
    BY DEF SweepClose, Sweeping
  <1> QED
    BY <1>1 DEF ServeInv, OffInv, Serving

LEMMA ExitDoneNow ==
    ASSUME OffInv, ExitDone
    PROVE  ServeInv' /\ OffInv'
  <1>1. /\ phase = "loaders" /\ phase' = "off" /\ stack' = stack
        /\ held' = [h \in Handle |-> 0]
    BY DEF ExitDone
  <1>2. stack' = <<>>
    BY <1>1 DEF OffInv
  <1> QED
    BY <1>1, <1>2 DEF ServeInv, OffInv, Serving

LEMMA DlExitNow ==
    ASSUME IInv, ServeInv, OffInv, DlExit
    PROVE  ServeInv' /\ OffInv'
  <1>1. /\ phase = "running" /\ initialized' = initialized - 1 /\ initialized \in Nat
        /\ UNCHANGED <<heap, stack, held>>
        /\ \/ initialized > 1 /\ UNCHANGED <<handles, phase>>
           \/ initialized = 1 /\ phase' = "closing"
    BY DEF DlExit, Idle, IInv, TypeOK
  <1>2. CASE initialized > 1 /\ UNCHANGED <<handles, phase>>
    <2>1. initialized' > 0
      BY <1>1, <1>2
    <2>2. Registered' = Registered /\ Reachable' = Reachable
      BY <1>1, <1>2 DEF Registered, Reachable, Pending
    <2>3. Ledger(heap, Registered, Reachable, stack, held, NULL)
      BY <1>1 DEF ServeInv, Serving
    <2> QED
      BY <1>1, <1>2, <2>1, <2>2, <2>3 DEF ServeInv, OffInv
  <1>3. CASE phase' = "closing"
    BY <1>3 DEF ServeInv, OffInv, Serving
  <1> QED
    BY <1>1, <1>2, <1>3

\* lt_dlinit starts with no module.
LEMMA LedgerEmpty ==
    ASSUME NEW hp, NEW hd, \A h \in Handle : hd[h] = 0
    PROVE  Ledger(hp, {}, {}, <<>>, hd, NULL)
  BY DEF Ledger

LEMMA DlInitNow ==
    ASSUME IInv, ServeInv, OffInv, DlInit
    PROVE  ServeInv' /\ OffInv'
  <1>1. /\ phase \in {"off", "running"} /\ stack = <<>> /\ initialized \in Nat
        /\ initialized' = initialized + 1 /\ UNCHANGED <<heap, stack, held>>
        /\ \/ initialized > 0 /\ UNCHANGED <<handles, phase>>
           \/ initialized = 0 /\ handles' = <<>> /\ phase' \in {"boot", "running"}
    BY DEF DlInit, IInv, TypeOK
  <1>2. initialized' > 0
    BY <1>1
  <1>3. CASE initialized > 0 /\ UNCHANGED <<handles, phase>>
    <2>1. Registered' = Registered /\ Reachable' = Reachable
      BY <1>1, <1>3 DEF Registered, Reachable, Pending
    <2>2. Serving' => Ledger(heap, Registered, Reachable, stack, held, NULL)
      BY <1>3 DEF ServeInv, Serving
    <2> QED
      BY <1>1, <1>2, <1>3, <2>1, <2>2 DEF ServeInv, OffInv
  <1>4. CASE initialized = 0 /\ handles' = <<>> /\ phase' \in {"boot", "running"}
    <2>1. phase = "off"
      BY <1>1, <1>4 DEF ServeInv, Serving
    <2>2. \A h \in Handle : held[h] = 0
      BY <2>1 DEF OffInv
    <2>3. Registered' = {} /\ Reachable' = {}
      BY <1>1, <1>4 DEF Registered, Reachable, Pending, SeqRange
    <2>4. Ledger(heap', Registered', Reachable', stack', held', NULL)
      <3>1. Ledger(heap, {}, {}, <<>>, held, NULL)
        BY <2>2, LedgerEmpty
      <3>2. heap' = heap /\ stack' = <<>> /\ held' = held
        BY <1>1
      <3> QED
        BY <2>3, <3>1, <3>2
    <2> QED
      BY <1>2, <1>4, <2>4 DEF ServeInv, OffInv
  <1> QED
    BY <1>1, <1>3, <1>4

LEMMA BootLoaderNow ==
    ASSUME IInv, IInv', ServeInv, BootLoader
    PROVE  ServeInv' /\ OffInv'
  <1> DEFINE f == LinkedLoaders[pos]
  <1>1. PICK h \in Handle :
            /\ ~heap[h].live
            /\ heap' = [heap EXCEPT ![h] = [Zalloc(f) EXCEPT !.ref = 1, !.vtable = Preopen]]
            /\ handles' = <<h>> \o handles
            /\ held' = [held EXCEPT ![h] = 1]
    BY DEF BootLoader
  <1>2. phase = "boot" /\ UNCHANGED <<initialized, stack, phase>>
    BY DEF BootLoader
  <1>3. initialized > 0 /\ Ledger(heap, Registered, Reachable, stack, held, NULL)
    BY <1>2 DEF ServeInv, Serving
  <1>4. /\ heap \in [Handle -> HandleRec] /\ held \in [Handle -> Nat]
        /\ handles \in Seq(Handle)
        /\ LedgerTypes(heap, Registered, Reachable, stack, held)
        /\ heap' \in [Handle -> HandleRec]
    BY NowTypes DEF IInv, TypeOK
  <1>5. h \notin Registered /\ h \notin Reachable
    BY <1>1, NotInUse DEF Reachable
  <1>6. /\ heap'[h].ref = 1 /\ heap'[h].deplibs = <<>>
        /\ \A g \in Handle \ {h} : heap'[g] = heap[g]
    <2> DEFINE z == Zalloc(f)
               y == [z EXCEPT !.ref = 1]
    <2>1. heap'[h] = [y EXCEPT !.vtable = Preopen]
      BY <1>1, <1>4
    <2>2. y.ref = 1 /\ y.deplibs = <<>>
      BY DEF Zalloc, Freed
    <2>3. heap'[h].ref = 1 /\ heap'[h].deplibs = <<>>
      BY <2>1, <2>2 DEF Zalloc, Freed
    <2> QED
      BY <1>1, <1>4, <2>3
  <1> DEFINE Rh == Reachable \cup {h}
  <1>7. /\ Registered \subseteq Handle /\ Reachable \subseteq Handle
        /\ Registered \subseteq Reachable
    BY <1>4 DEF LedgerTypes
  <1>8. /\ LedgerTypes(heap', Registered, Rh, stack, held)
        /\ LedgerTypes(heap', Registered \cup {h}, Rh, stack, held)
    BY <1>4 DEF LedgerTypes
  <1>9. Ledger(heap', Registered, Rh, stack, held, NULL)
    <2>1. /\ \A g \in Reachable \cap Rh : heap'[g].deplibs = heap[g].deplibs
          /\ \A g \in Reachable \ Rh : heap[g].deplibs = <<>>
          /\ \A g \in Rh \ Reachable : heap'[g].deplibs = <<>>
          /\ \A g \in Registered : /\ heap'[g].ref = heap[g].ref
                                   /\ heap[g].resident => heap'[g].resident
      BY <1>5, <1>6, <1>7
    <2> QED
      BY <1>3, <1>4, <1>8, <2>1, LedgerHeap
  <1>10. Ledger(heap', Registered \cup {h}, Rh, stack, held, h)
    <2>1. SameDeps(heap', heap', Rh) /\ SameCounts(heap', heap', Registered)
      BY DEF SameDeps, SameCounts
    <2>2. h \in Rh \ Registered
      BY <1>5
    <2> QED
      BY <1>6, <1>8, <1>9, <2>1, <2>2, LedgerAdd
  <1>11. Ledger(heap', Registered \cup {h}, Rh, stack, held', NULL)
    <2>1. held[h] = 0
      BY <1>3, <1>5 DEF Ledger
    <2>2. held[h] + 1 = 1
      BY <2>1
    <2>3. held' = [held EXCEPT ![h] = @ + 1]
      BY <1>1, <2>2
    <2> QED
      BY <1>8, <1>10, <2>3, LedgerHold
  <1>12. Registered' = Registered \cup {h} /\ Reachable' = Rh
    <2>1. Registered' = Registered \cup {h}
      BY <1>1, <1>4, PushRange DEF Registered
    <2>2. Pending' = Pending
      BY <1>2 DEF Pending
    <2> QED
      BY <2>1, <2>2 DEF Reachable
  <1>13. Ledger(heap', Registered', Reachable', stack', held', NULL)
    BY <1>2, <1>11, <1>12
  <1> QED
    BY <1>2, <1>3, <1>13 DEF ServeInv, OffInv

LEMMA CountInit ==
    ASSUME Init
    PROVE  ServeInv /\ OffInv
  BY DEF Init, ServeInv, OffInv, Serving

LEMMA CountNext ==
    ASSUME IInv, IInv', ServeInv, OffInv, [Next]_vars
    PROVE  ServeInv' /\ OffInv'
  <1>1. CASE UNCHANGED vars
    <2>1. UNCHANGED <<handles, heap, stack, held, initialized, phase>>
      BY <1>1 DEF vars
    <2>2. Serving' => Serving
      BY <2>1 DEF Serving
    <2>3. phase' \in {"loaders", "off"} => stack = <<>>
      BY <2>1 DEF OffInv
    <2> QED
      BY <2>1, <2>2, <2>3, QuietNow
  <1>2. CASE Client
    BY <1>2, ClientOpenNow, ClientCloseNow, MakeResidentNow, LoaderListNow,
       DlInitNow, DlExitNow DEF Client
  <1>3. CASE OpenStep
    BY <1>3, LoadDepNow, SkipDepNow, FindExistingNow, LoaderOpensNow, OpenFailsNow
       DEF OpenStep
  <1>4. CASE CloseStep
    BY <1>4, ReleaseDepNow, DropDoneNow, UndoDoneNow DEF CloseStep
  <1>5. CASE InitStep
    BY <1>5, BootLoaderNow, BootStepNow DEF InitStep
  <1>6. CASE ExitStep
    BY <1>6, ExitQuietNow, SweepCloseNow DEF ExitStep
  <1>7. CASE LoaderStep
    BY <1>7, ExitQuietNow, ExitDoneNow DEF LoaderStep
  <1> QED
    BY <1>1, <1>2, <1>3, <1>4, <1>5, <1>6, <1>7 DEF Next, Internal

(***************************************************************************)
(* The theorems.                                                           *)
(***************************************************************************)
CountInv == IInv /\ ServeInv /\ OffInv

\* The inductive invariant: the ledger of the modules' uses balances.
THEOREM LedgerBalances == Spec => []CountInv
  <1>1. Init => CountInv
    BY InitInv, CountInit DEF CountInv
  <1>2. CountInv /\ [Next]_vars => CountInv'
    BY NextInv, CountNext DEF CountInv
  <1> QED
    BY <1>1, <1>2, PTL DEF Spec

\* The uses of a module are those of RefCountExact.
LEMMA UsesAgree ==
    ASSUME TypeOK, NEW h
    PROVE  Uses(h) = UsesIn(heap, Reachable, stack, held, h)
  <1>1. DepUses(h) = DepSet(heap, Reachable, h)
    <2>1. ASSUME NEW p \in DepUses(h) PROVE p \in DepSet(heap, Reachable, h)
      <3>1. PICK g \in Reachable :
                p \in {<<g, k>> : k \in {j \in 1..Len(heap[g].deplibs) : heap[g].deplibs[j] = h}}
        BY DEF DepUses
      <3>2. PICK k \in 1..Len(heap[g].deplibs) : heap[g].deplibs[k] = h /\ p = <<g, k>>
        BY <3>1
      <3>3. heap[g].deplibs \in Seq(Handle)
        BY NowTypes, Numbers DEF LedgerTypes
      <3>4. k \in Nat
        BY <3>3
      <3> QED
        BY <3>2, <3>4 DEF DepSet
    <2>2. ASSUME NEW p \in DepSet(heap, Reachable, h) PROVE p \in DepUses(h)
      <3>1. /\ p = <<p[1], p[2]>> /\ p[1] \in Reachable
            /\ p[2] \in 1..Len(heap[p[1]].deplibs) /\ heap[p[1]].deplibs[p[2]] = h
        BY DepPairs
      <3> QED
        BY <3>1 DEF DepUses
    <2> QED
      BY <2>1, <2>2
  <1>2. ReturnUses(h) = RetSet(stack, h)
    BY DEF ReturnUses, RetSet
  <1> QED
    BY <1>1, <1>2 DEF Uses, UsesIn

\* A module's reference count is the number of its users at every moment of
\* every recursion of opens and closes, for a resident one at least that.
THEOREM CountsExact == Spec => []RefCountExact
  <1>1. CountInv => RefCountExact
    <2> SUFFICES ASSUME CountInv, Serving, NEW h \in Registered
                 PROVE  /\ heap[h].ref >= Uses(h)
                        /\ ~heap[h].resident => heap[h].ref = Uses(h) /\ heap[h].ref > 0
      BY DEF RefCountExact
    <2>1. TypeOK /\ h \in Handle
      BY RegisteredType DEF CountInv, IInv
    <2>2. CountIn(heap, Reachable, stack, held, h, InHand(h, NULL))
      BY DEF CountInv, ServeInv, Ledger
    <2>3. /\ InHand(h, NULL) = 0 /\ UsesIn(heap, Reachable, stack, held, h) \in Nat
      BY <2>1, <2>2, NowTypes, Numbers DEF CountIn
    <2>4. UsesIn(heap, Reachable, stack, held, h) + InHand(h, NULL) = Uses(h)
      BY <2>1, <2>3, UsesAgree
    <2> QED
      BY <2>2, <2>4 DEF CountIn
  <1> QED
    BY <1>1, LedgerBalances, PTL

\* As long as libltdl is initialised, the deplibs of every module in use, those
\* of pending opens and closes included, are open.
THEOREM DepsStayOpen == Spec => []DepsOpenInUse
  <1>1. CountInv => DepsOpenInUse
    BY DEF CountInv, ServeInv, Ledger, DepsOpenInUse, DepsAreOpen
  <1> QED
    BY <1>1, LedgerBalances, PTL


(***************************************************************************)
(* The end: lt_dlexit, for clients that keep to three rules.  Without one  *)
(* of them TLC finds a counterexample.                                     *)
(***************************************************************************)
\* The client opens no module a second time before it has closed it: lt_dlexit
\* would close the deplibs of a module with two holds before the module.
OpenedOnce == MaxHeld <= 1

\* No module with deplibs is made resident: lt_dlexit would close its deplibs.
ResidentsBare == DlopenDeplibs => \A m \in MayBeResident : DepLibs[m] = <<>>

\* lt_dlinit finds no loader of an earlier session: one that a resident module
\* needed would be there twice.
FreshStart == MaxSessions <= 1 \/ (MayBeResident = {} /\ Self \notin ClientFiles)

\* The files that can have deplibs, and those whose modules can be resident.
MayDepend(f) == DlopenDeplibs /\ f \in Module /\ DepLibs[f] # <<>>
MayStay(f) == f \in MayBeResident \/ (f = Self /\ Self \in ClientFiles)

\* What a step leaves alone in every handle of a heap.
SameMarks(hp, hq) ==
    \A g \in Handle : /\ hq[g].live = hp[g].live
                      /\ hq[g].file = hp[g].file
                      /\ hq[g].resident = hp[g].resident

LEMMA CountDown ==
    ASSUME NEW s \in Seq(Frame), s # <<>>
    PROVE  LET t == [s EXCEPT ![1].todo = @ - 1]
           IN  /\ Len(t) = Len(s)
               /\ \A k \in 1..Len(s) : /\ t[k].ret = s[k].ret /\ t[k].op = s[k].op
                                       /\ t[k].h = s[k].h /\ t[k].adv = s[k].adv
                                       /\ t[k].todo <= s[k].todo
  <1> DEFINE t == [s EXCEPT ![1].todo = @ - 1]
             fr == [s[1] EXCEPT !.todo = @ - 1]
  <1>1. Len(s) \in Nat /\ 1 \in 1..Len(s) /\ s[1] \in Frame
    OBVIOUS
  <1>2. /\ fr.h = s[1].h /\ fr.op = s[1].op /\ fr.ret = s[1].ret /\ fr.adv = s[1].adv
        /\ fr.todo <= s[1].todo
    BY <1>1 DEF Frame
  <1>3. /\ Len(t) = Len(s) /\ t[1] = fr
        /\ \A k \in 1..Len(s) : k # 1 => t[k] = s[k]
    BY <1>1
  <1>4. \A k \in 1..Len(s) : s[k].todo \in Nat
    BY FrameAt
  <1> HIDE DEF t, fr
  <1>5. \A k \in 1..Len(s) : /\ t[k].ret = s[k].ret /\ t[k].op = s[k].op
                             /\ t[k].h = s[k].h /\ t[k].adv = s[k].adv
                             /\ t[k].todo <= s[k].todo
    BY <1>2, <1>3, <1>4
  <1> QED
    BY <1>3, <1>5 DEF t

\* try_dlopen: a handle that was not in use, and its frame.
LEMMA BeginOpenEffect ==
    ASSUME IInv, NEW f \in File, NEW adv, BeginOpen(f, adv)
    PROVE  \E h \in Handle :
               /\ ~heap[h].live /\ h \notin Registered /\ h \notin Pending
               /\ heap'[h] = Zalloc(f)
               /\ \A g \in Handle \ {h} : heap'[g] = heap[g]
               /\ stack' = <<LoadFrame(h, f, adv)>> \o stack
  <1>1. PICK h \in Handle :
            /\ ~heap[h].live
            /\ heap' = [heap EXCEPT ![h] = Zalloc(f)]
            /\ stack' = <<LoadFrame(h, f, adv)>> \o stack
    BY DEF BeginOpen
  <1>2. heap \in [Handle -> HandleRec]
    BY DEF IInv, TypeOK
  <1> QED
    BY <1>1, <1>2, NotInUse

\* The result r of an lt_dlopen becomes a deplib of the caller, if there is one.
LEMMA ReturnEffect ==
    ASSUME IInv, stack # <<>>, NEW r, NEW hp \in [Handle -> HandleRec],
           r \in Handle \cup {NULL}, Return(r, hp)
    PROVE  /\ SameMarks(hp, heap')
           /\ \A g \in Handle : hp[g].deplibs = heap'[g].deplibs \/
                  (Below # <<>> /\ g = Below[1].h)
           /\ Len(stack') = Len(Below)
           /\ \A k \in 1..Len(Below) :
                  /\ stack'[k].ret = Below[k].ret /\ stack'[k].op = Below[k].op
                  /\ stack'[k].h = Below[k].h /\ stack'[k].adv = Below[k].adv
                  /\ stack'[k].todo <= Below[k].todo
  <1>1. Below \in Seq(Frame)
    BY TailType DEF IInv, TypeOK, Below
  <1>2. \A k \in 1..Len(Below) : Below[k].todo \in Nat
    BY <1>1, FrameAt
  <1>3. CASE Below = <<>>
    <2>1. stack' = Below /\ heap' = hp
      BY <1>3 DEF Return
    <2> QED
      BY <1>2, <2>1 DEF SameMarks
  <1>4. CASE Below # <<>>
    <2> DEFINE d == Below[1].h
    <2>1. /\ stack' = [Below EXCEPT ![1].todo = @ - 1]
          /\ heap' = IF r = NULL THEN hp ELSE [hp EXCEPT ![d].deplibs = Append(@, r)]
      BY <1>4 DEF Return
    <2>2. /\ Len(stack') = Len(Below)
          /\ \A k \in 1..Len(Below) :
                 /\ stack'[k].ret = Below[k].ret /\ stack'[k].op = Below[k].op
                 /\ stack'[k].h = Below[k].h /\ stack'[k].adv = Below[k].adv
                 /\ stack'[k].todo <= Below[k].todo
      BY <1>1, <1>4, <2>1, CountDown
    <2>3. CASE r = NULL
      <3>1. heap' = hp
        BY <2>1, <2>3
      <3> QED
        BY <2>2, <3>1 DEF SameMarks
    <2>4. CASE r # NULL
      <3>1. 1 \in 1..Len(Below)
        BY <1>1, <1>4
      <3>2. d \in Handle
        BY <1>1, <3>1, FrameAt
      <3>3. heap' = [hp EXCEPT ![d].deplibs = Append(@, r)]
        BY <2>1, <2>4
      <3> HIDE DEF d
      <3>4. /\ heap'[d] = [hp[d] EXCEPT !.deplibs = Append(@, r)]
            /\ \A g \in Handle \ {d} : heap'[g] = hp[g]
        BY <3>2, <3>3
      <3>5. hp[d] \in HandleRec
        BY <3>2
      <3>6. /\ heap'[d].live = hp[d].live /\ heap'[d].file = hp[d].file
            /\ heap'[d].resident = hp[d].resident
        BY ONLY <3>4, <3>5 DEF HandleRec
      <3>7. SameMarks(hp, heap')
        BY <3>4, <3>6 DEF SameMarks
      <3> QED
        BY <1>4, <2>2, <3>4, <3>7 DEF d
    <2> QED
      BY <2>3, <2>4
  <1> QED
    BY <1>3, <1>4

\* lt_dlclose changes the count of its handle, and may unlink it.
LEMMA CloseEffect ==
    ASSUME NEW h \in Handle, NEW hp \in [Handle -> HandleRec], errs \in BOOLEAN,
           Close(h, hp)
    PROVE  /\ SameMarks(hp, heap')
           /\ \A g \in Handle : heap'[g].deplibs = hp[g].deplibs
           /\ \/ UNCHANGED <<handles, stack>>
              \/ /\ h \in Registered /\ ~hp[h].resident
                 /\ handles' = DeleteAt(handles, IndexOf(handles, h))
                 /\ stack' = <<DropFrame(h)>> \o stack
           /\ phase # "closing" \/ (h \in Registered /\ ~hp[h].resident) => errs' = errs
  <1> DEFINE counted == [hp EXCEPT ![h].ref = @ - 1]
  <1>1. hp[h] \in HandleRec
    OBVIOUS
  <1>2. /\ counted[h] = [hp[h] EXCEPT !.ref = @ - 1]
        /\ \A g \in Handle \ {h} : counted[g] = hp[g]
    OBVIOUS
  <1> HIDE DEF counted
  <1>3. /\ counted[h].live = hp[h].live /\ counted[h].file = hp[h].file
        /\ counted[h].resident = hp[h].resident /\ counted[h].deplibs = hp[h].deplibs
    BY ONLY <1>1, <1>2 DEF HandleRec
  <1>4. SameMarks(hp, counted) /\ \A g \in Handle : counted[g].deplibs = hp[g].deplibs
    BY <1>2, <1>3 DEF SameMarks
  <1>5. SameMarks(hp, hp)
    BY DEF SameMarks
  <1>6. \/ /\ h \notin Registered /\ heap' = hp /\ UNCHANGED <<handles, stack>>
           /\ phase # "closing" => errs' = errs
        \/ /\ h \in Registered /\ heap' = counted /\ UNCHANGED <<handles, stack>>
           /\ phase # "closing" \/ ~hp[h].resident => errs' = errs
        \/ /\ h \in Registered /\ heap' = counted /\ ~hp[h].resident
           /\ handles' = DeleteAt(handles, IndexOf(handles, h))
           /\ stack' = <<DropFrame(h)>> \o stack
           /\ errs' = errs
    <2>1. hp[h].resident \in BOOLEAN
      BY <1>1 DEF HandleRec
    <2> QED
      BY <2>1, Zenon DEF Close, counted
  <1> QED
    BY <1>4, <1>5, <1>6

(***************************************************************************)
(* Which modules can be resident, and which can have deplibs.              *)
(***************************************************************************)
HandleOK(x) == /\ x.resident => MayStay(x.file)
               /\ x.deplibs # <<>> => MayDepend(x.file)
FrameOK(fr, hp) == fr.op = "load" =>
    /\ fr.adv = "resident" => hp[fr.h].file \in MayBeResident
    /\ fr.todo > 0 => MayDepend(hp[fr.h].file)
FramesOK(s, hp) == \A k \in 1..Len(s) : FrameOK(s[k], hp)
MarkInv == (\A h \in Handle : HandleOK(heap[h])) /\ FramesOK(stack, heap)

LEMMA FramesHeap ==
    ASSUME NEW s \in Seq(Frame), NEW hp, NEW hq, FramesOK(s, hp),
           \A k \in 1..Len(s) : hq[s[k].h].file = hp[s[k].h].file
    PROVE  FramesOK(s, hq)
  BY DEF FramesOK, FrameOK

LEMMA FramesSame ==
    ASSUME NEW s \in Seq(Frame), NEW t, NEW hp, FramesOK(s, hp), Len(t) = Len(s),
           \A k \in 1..Len(s) : /\ t[k].op = s[k].op /\ t[k].h = s[k].h
                                /\ t[k].adv = s[k].adv /\ t[k].todo <= s[k].todo,
           \A k \in 1..Len(s) : t[k].todo \in Int
    PROVE  FramesOK(t, hp)
  <1> SUFFICES ASSUME NEW k \in 1..Len(s) PROVE FrameOK(t[k], hp)
    BY DEF FramesOK
  <1>1. s[k].todo \in Nat /\ FrameOK(s[k], hp)
    BY FrameAt DEF FramesOK
  <1>2. t[k].todo > 0 => s[k].todo > 0
    BY <1>1
  <1> QED
    BY <1>1, <1>2 DEF FrameOK

LEMMA FramesPush ==
    ASSUME NEW s \in Seq(Frame), NEW fr \in Frame, NEW hp, FramesOK(s, hp), FrameOK(fr, hp)
    PROVE  FramesOK(<<fr>> \o s, hp)
  <1> DEFINE t == <<fr>> \o s
  <1>1. /\ Len(t) = Len(s) + 1 /\ t[1] = fr /\ Len(s) \in Nat
        /\ \A k \in 2..(Len(s) + 1) : t[k] = s[k - 1]
    BY PushType
  <1> HIDE DEF t
  <1>2. ASSUME NEW k \in 1..Len(t) PROVE FrameOK(t[k], hp)
    <2>1. CASE k = 1
      BY <1>1, <2>1
    <2>2. CASE k # 1
      <3>1. k - 1 \in 1..Len(s) /\ t[k] = s[k - 1]
        BY <1>1, <2>2
      <3> QED
        BY <3>1 DEF FramesOK
    <2> QED
      BY <2>1, <2>2
  <1> QED
    BY <1>2 DEF FramesOK, t

LEMMA FramesTail ==
    ASSUME NEW s \in Seq(Frame), s # <<>>, NEW hp, FramesOK(s, hp)
    PROVE  FramesOK(Tail(s), hp)
  <1>1. /\ Len(Tail(s)) = Len(s) - 1 /\ Len(s) \in Nat
        /\ \A k \in 1..(Len(s) - 1) : Tail(s)[k] = s[k + 1]
    BY TailType
  <1>2. ASSUME NEW k \in 1..Len(Tail(s)) PROVE FrameOK(Tail(s)[k], hp)
    <2>1. k + 1 \in 1..Len(s) /\ Tail(s)[k] = s[k + 1]
      BY <1>1
    <2> QED
      BY <2>1 DEF FramesOK
  <1> QED
    BY <1>2 DEF FramesOK

\* What the frames below the running one may have, whatever replaces that one.
LEMMA BelowFrames ==
    ASSUME IInv, MarkInv, stack # <<>>
    PROVE  /\ Below \in Seq(Frame) /\ FramesOK(Below, heap)
           /\ \A k \in 1..Len(Below) : Below[k].h \in Handle \ {Top.h}
  <1>1. stack \in Seq(Frame)
    BY DEF IInv, TypeOK
  <1>2. FramesOK(Below, heap)
    BY <1>1, FramesTail DEF MarkInv, Below
  <1> QED
    BY <1>2, TopFacts DEF IInv

\* A step that marks no module resident and lists no deplib.
LEMMA HandlesSame ==
    ASSUME MarkInv, NEW hp,
           \A g \in Handle : /\ hp[g].file = heap[g].file
                             /\ hp[g].resident => heap[g].resident
                             /\ hp[g].deplibs # <<>> => heap[g].deplibs # <<>>
    PROVE  \A g \in Handle : HandleOK(hp[g])
  BY DEF MarkInv, HandleOK

LEMMA QuietMarks ==
    ASSUME MarkInv, UNCHANGED <<heap, stack>>
    PROVE  MarkInv'
  BY DEF MarkInv, HandleOK, FramesOK, FrameOK

LEMMA BeginOpenMarks ==
    ASSUME IInv, MarkInv, NEW f \in File, NEW adv \in Advice, BeginOpen(f, adv),
           f = Self => Self \in ClientFiles, adv = "resident" => f \in MayBeResident
    PROVE  MarkInv'
  <1>1. PICK h \in Handle :
            /\ ~heap[h].live /\ h \notin Registered /\ h \notin Pending
            /\ heap'[h] = Zalloc(f)
            /\ \A g \in Handle \ {h} : heap'[g] = heap[g]
            /\ stack' = <<LoadFrame(h, f, adv)>> \o stack
    BY BeginOpenEffect
  <1> DEFINE fr == LoadFrame(h, f, adv)
  <1>2. stack \in Seq(Frame)
    BY DEF IInv, TypeOK
  <1>3. Zalloc(f).file = f /\ Zalloc(f).resident = (f = Self) /\ Zalloc(f).deplibs = <<>>
    BY Zenon DEF Zalloc, Freed
  <1>4. HandleOK(heap'[h])
    BY <1>1, <1>3 DEF HandleOK, MayStay
  <1>5. /\ fr \in Frame /\ fr.h = h /\ fr.op = "load" /\ fr.adv = adv
        /\ fr.todo > 0 => MayDepend(f)
    <2>1. fr.todo > 0 => DlopenDeplibs /\ f \in Module /\ fr.todo <= Len(DepLibs[f])
      BY DEF LoadFrame
    <2>2. f \in Module => DepLibs[f] \in Seq(Module)
      BY DepLibsAssumption
    <2>3. fr \in Frame /\ fr.h = h /\ fr.op = "load" /\ fr.todo \in Nat
      BY LoadFrameType DEF Frame
    <2>4. fr.adv = adv
      BY DEF LoadFrame
    <2> HIDE DEF fr
    <2>5. fr.todo > 0 => MayDepend(f)
      BY <2>1, <2>2, <2>3 DEF MayDepend
    <2> QED
      BY <2>3, <2>4, <2>5
  <1> HIDE DEF fr
  <1>6. FramesOK(stack, heap')
    <2>1. \A k \in 1..Len(stack) : stack[k].h \in Handle \ {h}
      BY <1>1, <1>2, FrameAt DEF Pending
    <2>2. \A k \in 1..Len(stack) : heap'[stack[k].h].file = heap[stack[k].h].file
      BY <1>1, <2>1
    <2> QED
      BY <1>2, <2>2, FramesHeap DEF MarkInv
  <1>7. FrameOK(fr, heap')
    BY <1>1, <1>3, <1>5 DEF FrameOK
  <1>8. FramesOK(stack', heap')
    BY <1>1, <1>2, <1>5, <1>6, <1>7, FramesPush DEF fr
  <1> QED
    BY <1>1, <1>4, <1>8 DEF MarkInv

LEMMA ClientOpenMarks ==
    ASSUME IInv, MarkInv, NEW f \in ClientFiles, NEW adv \in Advice, ClientOpen(f, adv)
    PROVE  MarkInv'
  <1>1. f \in File
    BY FileAssumption DEF File
  <1> QED
    BY <1>1, BeginOpenMarks DEF ClientOpen

\* The file of the next deplib.
LEMMA NextDep ==
    ASSUME IInv, LoadDep
    PROVE  DepLibs[heap[Top.h].file][Top.todo] \in Module
  <1>1. stack # <<>> /\ Top.op = "load" /\ Top.todo > 0
    BY DEF LoadDep, Running, Top
  <1>2. /\ heap[Top.h].file \in Module /\ Top.todo \in Nat
        /\ Top.todo <= Len(DepLibs[heap[Top.h].file])
    BY <1>1, TopFacts DEF IInv
  <1>3. DepLibs[heap[Top.h].file] \in Seq(Module)
    BY <1>2, DepLibsAssumption
  <1>4. Top.todo \in 1..Len(DepLibs[heap[Top.h].file])
    BY <1>1, <1>2, <1>3
  <1> QED
    BY <1>3, <1>4

LEMMA LoadDepMarks ==
    ASSUME IInv, MarkInv, LoadDep
    PROVE  MarkInv'
  <1> DEFINE f == DepLibs[heap[Top.h].file][Top.todo]
  <1>1. BeginOpen(f, "plain") /\ "plain" \in Advice
    BY DEF LoadDep, Advice
  <1>2. f \in Module
    BY NextDep
  <1> HIDE DEF f
  <1>3. f \in File /\ f # Self
    BY <1>2, FileAssumption DEF File
  <1> QED
    BY <1>1, <1>3, BeginOpenMarks

LEMMA SkipDepMarks ==
    ASSUME IInv, MarkInv, IInv', SkipDep
    PROVE  MarkInv'
  <1>1. /\ stack # <<>> /\ stack' = [stack EXCEPT ![1].todo = @ - 1] /\ heap' = heap
        /\ stack \in Seq(Frame) /\ stack' \in Seq(Frame)
    BY DEF SkipDep, Running, IInv, TypeOK
  <1>2. /\ Len(stack') = Len(stack)
        /\ \A k \in 1..Len(stack) :
               /\ stack'[k].op = stack[k].op /\ stack'[k].h = stack[k].h
               /\ stack'[k].adv = stack[k].adv /\ stack'[k].todo <= stack[k].todo
    BY <1>1, CountDown
  <1>3. \A k \in 1..Len(stack) : stack'[k].todo \in Int
    BY <1>1, <1>2, FrameAt
  <1>4. FramesOK(stack', heap)
    BY <1>1, <1>2, <1>3, FramesSame DEF MarkInv
  <1> QED
    BY <1>1, <1>4 DEF MarkInv

\* A frame that gives up an open, or finishes a close, in the place of another.
LEMMA UndoMarks ==
    ASSUME IInv, MarkInv, stack # <<>>, NEW r \in Handle \cup {NULL},
           stack' = <<UndoFrame(Top.h, r)>> \o Below,
           \A g \in Handle : /\ heap'[g].file = heap[g].file
                             /\ heap'[g].resident = heap[g].resident
                             /\ heap'[g].deplibs = heap[g].deplibs
    PROVE  MarkInv'
  <1>1. /\ Below \in Seq(Frame) /\ FramesOK(Below, heap)
        /\ \A k \in 1..Len(Below) : Below[k].h \in Handle \ {Top.h}
    BY BelowFrames
  <1>2. FramesOK(Below, heap')
    BY <1>1, FramesHeap
  <1>3. UndoFrame(Top.h, r) \in Frame /\ UndoFrame(Top.h, r).op = "undo"
    BY TopFacts, FrameType DEF IInv
  <1>4. FramesOK(stack', heap')
    BY <1>1, <1>2, <1>3, FramesPush DEF FrameOK
  <1> QED
    BY <1>4, HandlesSame DEF MarkInv

\* A count changes, and nothing else of the heap.
SameCount(x, y) ==
    /\ y.live = x.live /\ y.file = x.file
    /\ y.resident = x.resident /\ y.deplibs = x.deplibs

LEMMA CountedHeap ==
    ASSUME NEW hp \in [Handle -> HandleRec], NEW e \in Handle, NEW hq,
           SameCount(hp[e], hq[e]), \A g \in Handle \ {e} : hq[g] = hp[g]
    PROVE  SameMarks(hp, hq) /\ \A g \in Handle : hq[g].deplibs = hp[g].deplibs
  BY DEF SameMarks, SameCount

\* tryall_dlopen counts the module that is open already.
LEMMA FindExistingEffect ==
    ASSUME IInv, FindExisting
    PROVE  \E e \in Registered :
               /\ e \in Handle
               /\ heap[e].file = heap[Top.h].file
               /\ SameMarks(heap, heap')
               /\ \A g \in Handle : heap'[g].deplibs = heap[g].deplibs
               /\ stack' = <<UndoFrame(Top.h, e)>> \o Below
  <1>1. PICK e \in Registered :
            /\ heap[e].file = heap[Top.h].file
            /\ heap' = [heap EXCEPT ![e].ref = @ + 1]
            /\ stack' = <<UndoFrame(Top.h, e)>> \o Below
    BY DEF FindExisting
  <1>2. e \in Handle /\ heap \in [Handle -> HandleRec]
    BY RegisteredType DEF IInv, TypeOK
  <1>3. /\ heap'[e] = [heap[e] EXCEPT !.ref = @ + 1]
        /\ \A g \in Handle \ {e} : heap'[g] = heap[g]
    BY <1>1, <1>2
  <1>4. heap[e] \in HandleRec
    BY <1>2
  <1>5. SameCount(heap[e], heap'[e])
    BY ONLY <1>3, <1>4 DEF HandleRec, SameCount
  <1>6. SameMarks(heap, heap') /\ \A g \in Handle : heap'[g].deplibs = heap[g].deplibs
    BY <1>2, <1>3, <1>5, CountedHeap
  <1> QED
    BY <1>1, <1>2, <1>6

LEMMA FindExistingMarks ==
    ASSUME IInv, MarkInv, FindExisting
    PROVE  MarkInv'
  <1>1. PICK e \in Registered :
            /\ e \in Handle
            /\ SameMarks(heap, heap')
            /\ \A g \in Handle : heap'[g].deplibs = heap[g].deplibs
            /\ stack' = <<UndoFrame(Top.h, e)>> \o Below
    BY FindExistingEffect
  <1>2. stack # <<>>
    BY DEF FindExisting, Running
  <1> QED
    BY <1>1, <1>2, UndoMarks DEF SameMarks

LEMMA OpenFailsMarks ==
    ASSUME IInv, MarkInv, OpenFails
    PROVE  MarkInv'
  BY UndoMarks DEF OpenFails, Running

\* The end of an open keeps the marks of every handle.
LEMMA ReturnMarks ==
    ASSUME IInv, IInv', MarkInv, stack # <<>>, Top.op # "drop",
           NEW r \in Handle \cup {NULL}, NEW hp \in [Handle -> HandleRec],
           \A g \in Handle : HandleOK(hp[g]),
           \A g \in Handle \ {Top.h} : hp[g].file = heap[g].file,
           Return(r, hp)
    PROVE  MarkInv'
  <1>1. /\ Below \in Seq(Frame) /\ FramesOK(Below, heap)
        /\ \A k \in 1..Len(Below) : Below[k].h \in Handle \ {Top.h}
    BY BelowFrames
  <1>2. Below # <<>> => Below[1].op = "load" /\ Below[1].todo > 0
    BY TopFacts DEF IInv, Calls
  <1>3. /\ SameMarks(hp, heap')
        /\ \A g \in Handle : hp[g].deplibs = heap'[g].deplibs \/
               (Below # <<>> /\ g = Below[1].h)
        /\ Len(stack') = Len(Below)
        /\ \A k \in 1..Len(Below) :
               /\ stack'[k].ret = Below[k].ret /\ stack'[k].op = Below[k].op
               /\ stack'[k].h = Below[k].h /\ stack'[k].adv = Below[k].adv
               /\ stack'[k].todo <= Below[k].todo
    BY ReturnEffect
  <1>4. \A k \in 1..Len(Below) : heap'[Below[k].h].file = heap[Below[k].h].file
    BY <1>1, <1>3 DEF SameMarks
  <1>5. FramesOK(Below, heap')
    BY <1>1, <1>4, FramesHeap
  <1>6. \A k \in 1..Len(Below) : stack'[k].todo \in Int
    <2>1. stack' \in Seq(Frame)
      BY DEF IInv, TypeOK
    <2> QED
      BY <1>3, <2>1, FrameAt
  <1>7. FramesOK(stack', heap')
    BY <1>1, <1>3, <1>5, <1>6, FramesSame
  <1>8. ASSUME NEW g \in Handle PROVE HandleOK(heap'[g])
    <2>1. CASE heap'[g].deplibs = hp[g].deplibs
      BY <1>3, <2>1 DEF SameMarks, HandleOK
    <2>2. CASE Below # <<>> /\ g = Below[1].h
      <3>1. 1 \in 1..Len(Below)
        BY <1>1, <2>2
      <3>2. MayDepend(heap'[g].file)
        BY <1>2, <1>5, <2>2, <3>1 DEF FramesOK, FrameOK
      <3> QED
        BY <1>3, <3>2 DEF SameMarks, HandleOK
    <2> QED
      BY <1>3, <2>1, <2>2
  <1> QED
    BY <1>7, <1>8 DEF MarkInv

\* A loader opens the file of the running open: hp is the heap it returns.
LEMMA LoaderOpensEffect ==
    ASSUME IInv, LoaderOpens
    PROVE  /\ stack # <<>> /\ Top.op = "load" /\ Top.h \in Handle /\ Top.h \notin Registered
           /\ handles' = <<Top.h>> \o handles
           /\ \E hp \in [Handle -> HandleRec] :
                  /\ Return(Top.h, hp)
                  /\ \A g \in Handle \ {Top.h} : hp[g] = heap[g]
                  /\ hp[Top.h].live
                  /\ hp[Top.h].file = heap[Top.h].file
                  /\ hp[Top.h].deplibs = heap[Top.h].deplibs
                  /\ hp[Top.h].resident => heap[Top.h].resident \/ Top.adv = "resident"
  <1> DEFINE h == Top.h
             opened(k) == Opened(h, loaders[k].name, Top.adv)
             hp(k) == [heap EXCEPT ![h] = opened(k)]
  <1>1. PICK k \in 1..Len(loaders) :
            /\ loaders[k].live
            /\ handles' = <<h>> \o handles
            /\ Return(h, hp(k))
    BY DEF LoaderOpens
  <1>2. stack # <<>> /\ Top.op = "load"
    BY DEF LoaderOpens, Running, Top
  <1>3. /\ h \in Handle /\ h \in Pending /\ heap[h].live
        /\ heap \in [Handle -> HandleRec]
        /\ loaders[k].name \in LoaderName
    <2>1. loaders \in Seq(LoaderItem)
      BY DEF IInv, TypeOK, LoaderItem
    <2>2. loaders[k] \in LoaderItem
      BY <2>1
    <2>3. loaders[k].name \in LoaderName
      BY <2>2 DEF LoaderItem
    <2> QED
      BY <1>2, <2>3, TopFacts DEF IInv, TypeOK
  <1>4. heap[h] \in HandleRec /\ h \notin Registered
    BY <1>3 DEF IInv, ListOK
  <1>5. /\ opened(k) \in HandleRec
        /\ opened(k).live = heap[h].live /\ opened(k).file = heap[h].file
        /\ opened(k).deplibs = heap[h].deplibs
        /\ opened(k).resident = IF Top.adv = "none" THEN heap[h].resident
                                ELSE Top.adv = "resident"
    <2>1. heap[h] \in HandleRec /\ loaders[k].name \in LoaderName
      BY <1>3, <1>4
    <2> HIDE DEF h
    <2>2. /\ opened(k) \in HandleRec
          /\ opened(k).live = heap[h].live /\ opened(k).file = heap[h].file
      BY <2>1, OpenedType
    <2>3. /\ opened(k).deplibs = heap[h].deplibs
          /\ opened(k).resident = IF Top.adv = "none" THEN heap[h].resident
                                  ELSE Top.adv = "resident"
      BY <2>1, ZenonT(60) DEF Opened, HandleRec
    <2> QED
      BY <2>2, <2>3
  <1> HIDE DEF opened
  <1>6. /\ hp(k) \in [Handle -> HandleRec] /\ hp(k)[h] = opened(k)
        /\ \A g \in Handle \ {h} : hp(k)[g] = heap[g]
    BY <1>3, <1>5
  <1>7. hp(k)[h].resident => heap[h].resident \/ Top.adv = "resident"
    BY <1>5, <1>6
  <1> HIDE DEF hp
  <1>8. /\ hp(k)[h].live /\ hp(k)[h].file = heap[h].file /\ hp(k)[h].deplibs = heap[h].deplibs
    BY <1>3, <1>5, <1>6
  <1> QED
    BY <1>1, <1>2, <1>3, <1>4, <1>6, <1>7, <1>8

LEMMA LoaderOpensMarks ==
    ASSUME IInv, IInv', MarkInv, LoaderOpens
    PROVE  MarkInv'
  <1> DEFINE h == Top.h
  <1>1. /\ stack # <<>> /\ Top.op = "load" /\ h \in Handle
    BY LoaderOpensEffect
  <1>2. PICK hp \in [Handle -> HandleRec] :
            /\ Return(h, hp)
            /\ \A g \in Handle \ {h} : hp[g] = heap[g]
            /\ hp[h].file = heap[h].file
            /\ hp[h].deplibs = heap[h].deplibs
            /\ hp[h].resident => heap[h].resident \/ Top.adv = "resident"
    BY LoaderOpensEffect
  <1>3. Top.adv = "resident" => heap[h].file \in MayBeResident
    <2>1. 1 \in 1..Len(stack)
      BY <1>1 DEF IInv, TypeOK
    <2> QED
      BY <1>1, <2>1 DEF MarkInv, FramesOK, FrameOK, Top
  <1>4. ASSUME NEW g \in Handle PROVE HandleOK(hp[g])
    <2>1. HandleOK(heap[g])
      BY DEF MarkInv
    <2> HIDE DEF h
    <2>2. CASE g # h
      BY <1>2, <2>1, <2>2
    <2>3. CASE g = h
      BY <1>2, <1>3, <2>1, <2>3 DEF HandleOK, MayStay
    <2> QED
      BY <2>2, <2>3
  <1>5. \A g \in Handle \ {Top.h} : hp[g].file = heap[g].file
    BY <1>2
  <1>6. Top.op # "drop" /\ h \in Handle \cup {NULL}
    BY <1>1
  <1> QED
    BY <1>1, <1>2, <1>4, <1>5, <1>6, ReturnMarks

\* try_dlopen frees the handle it gave up: hp is the heap it returns.
LEMMA UndoDoneEffect ==
    ASSUME IInv, UndoDone
    PROVE  /\ stack # <<>> /\ Top.op = "undo" /\ Top.h \in Handle
           /\ Top.ret \in Handle \cup {NULL}
           /\ Return(Top.ret, Free(Top.h))
           /\ Free(Top.h) \in [Handle -> HandleRec]
           /\ Free(Top.h)[Top.h] = Freed
           /\ \A g \in Handle \ {Top.h} : Free(Top.h)[g] = heap[g]
  <1>1. stack # <<>> /\ Top.op = "undo" /\ Return(Top.ret, Free(Top.h))
    BY DEF UndoDone, Running, Top
  <1>2. Top.h \in Handle /\ Top.ret \in Handle \cup {NULL}
    BY <1>1, TopFacts DEF IInv
  <1>3. /\ Free(Top.h) \in [Handle -> HandleRec]
        /\ \A g \in Handle \ {Top.h} : Free(Top.h)[g] = heap[g]
    BY <1>2, FreeType DEF IInv
  <1>4. Free(Top.h)[Top.h] = Freed
    BY <1>2 DEF Free, IInv, TypeOK
  <1> QED
    BY <1>1, <1>2, <1>3, <1>4

LEMMA FreedOK == ~Freed.live /\ ~Freed.resident /\ Freed.deplibs = <<>> /\ HandleOK(Freed)
  <1>1. ~Freed.live /\ ~Freed.resident /\ Freed.deplibs = <<>>
    BY Zenon DEF Freed
  <1> QED
    BY <1>1 DEF HandleOK

LEMMA UndoDoneMarks ==
    ASSUME IInv, IInv', MarkInv, UndoDone
    PROVE  MarkInv'
  <1>1. /\ stack # <<>> /\ Top.op # "drop" /\ Top.h \in Handle
        /\ Top.ret \in Handle \cup {NULL}
        /\ Return(Top.ret, Free(Top.h))
        /\ Free(Top.h) \in [Handle -> HandleRec]
        /\ Free(Top.h)[Top.h] = Freed
        /\ \A g \in Handle \ {Top.h} : Free(Top.h)[g] = heap[g]
    BY UndoDoneEffect
  <1>2. ASSUME NEW g \in Handle PROVE HandleOK(Free(Top.h)[g])
    <2>1. HandleOK(heap[g])
      BY DEF MarkInv
    <2> QED
      BY <1>1, <2>1, FreedOK
  <1>3. \A g \in Handle \ {Top.h} : Free(Top.h)[g].file = heap[g].file
    BY <1>1
  <1> QED
    BY <1>1, <1>2, <1>3, ReturnMarks

\* A close of d, whoever calls it.
LEMMA CloseMarks ==
    ASSUME IInv, MarkInv, NEW d \in Handle, SameMarks(heap, heap'),
           \A g \in Handle : heap'[g].deplibs # <<>> => heap[g].deplibs # <<>>,
           UNCHANGED stack \/ stack' = <<DropFrame(d)>> \o stack
    PROVE  MarkInv'
  <1>1. stack \in Seq(Frame)
    BY DEF IInv, TypeOK
  <1>2. \A k \in 1..Len(stack) : heap'[stack[k].h].file = heap[stack[k].h].file
    BY <1>1, FrameAt DEF SameMarks
  <1>3. FramesOK(stack, heap')
    BY <1>1, <1>2, FramesHeap DEF MarkInv
  <1>4. DropFrame(d) \in Frame /\ DropFrame(d).op = "drop"
    BY FrameType
  <1>5. FramesOK(<<DropFrame(d)>> \o stack, heap')
    BY <1>1, <1>3, <1>4, FramesPush DEF FrameOK
  <1>6. FramesOK(stack', heap')
    BY <1>3, <1>5
  <1>7. \A g \in Handle : HandleOK(heap'[g])
    BY HandlesSame DEF SameMarks
  <1> QED
    BY <1>6, <1>7 DEF MarkInv

\* A close the client or lt_dlexit begins.
LEMMA FirstCloseMarks ==
    ASSUME IInv, MarkInv, NEW h \in Handle, Close(h, heap)
    PROVE  MarkInv'
  <1>1. heap \in [Handle -> HandleRec] /\ errs \in BOOLEAN
    BY DEF IInv, TypeOK
  <1>2. /\ SameMarks(heap, heap')
        /\ \A g \in Handle : heap'[g].deplibs = heap[g].deplibs
        /\ UNCHANGED stack \/ stack' = <<DropFrame(h)>> \o stack
    BY <1>1, CloseEffect
  <1> QED
    BY <1>2, CloseMarks

\* unload_deplibs: the first deplib leaves the list, and may be closed.
LEMMA ReleaseDepEffect ==
    ASSUME IInv, ReleaseDep
    PROVE  /\ stack # <<>> /\ Top.op \in {"drop", "undo"} /\ Top.h \in Handle
           /\ heap[Top.h].deplibs \in Seq(Handle) /\ heap[Top.h].deplibs # <<>>
           /\ SameMarks(heap, heap')
           /\ heap'[Top.h].deplibs = Tail(heap[Top.h].deplibs)
           /\ \A g \in Handle \ {Top.h} : heap'[g].deplibs = heap[g].deplibs
           /\ LET d == Head(heap[Top.h].deplibs)
              IN  /\ d \in Handle
                  /\ \/ UNCHANGED <<handles, stack>>
                     \/ /\ d \in Registered
                        /\ handles' = DeleteAt(handles, IndexOf(handles, d))
                        /\ stack' = <<DropFrame(d)>> \o stack
                  /\ d \in Registered => errs' = errs
  <1> DEFINE t == Top.h
             d == Head(heap[t].deplibs)
             rest == [heap EXCEPT ![t].deplibs = Tail(@)]
  <1>1. /\ stack # <<>> /\ Top.op \in {"drop", "undo"} /\ t \in Handle
        /\ heap \in [Handle -> HandleRec] /\ heap[t].deplibs # <<>>
        /\ errs \in BOOLEAN
    BY TopFacts DEF ReleaseDep, Running, Top, IInv, TypeOK
  <1>2. heap[t] \in HandleRec /\ heap[t].deplibs \in Seq(Handle)
    BY <1>1 DEF HandleRec
  <1>3. d \in Handle /\ Tail(heap[t].deplibs) \in Seq(Handle)
    BY <1>1, <1>2
  <1>4. /\ rest[t] = [heap[t] EXCEPT !.deplibs = Tail(@)]
        /\ \A g \in Handle \ {t} : rest[g] = heap[g]
    BY <1>1
  <1>5. /\ rest[t] \in HandleRec /\ rest[t].live = heap[t].live /\ rest[t].file = heap[t].file
        /\ rest[t].resident = heap[t].resident /\ rest[t].deplibs = Tail(heap[t].deplibs)
    <2> DEFINE a == heap[t]
               b == rest[t]
    <2>1. a \in HandleRec /\ Tail(a.deplibs) \in Seq(Handle)
          /\ b = [a EXCEPT !.deplibs = Tail(a.deplibs)]
      BY <1>2, <1>3, <1>4
    <2> HIDE DEF a, b, t, d, rest
    <2>2. /\ b \in HandleRec /\ b.live = a.live /\ b.file = a.file
          /\ b.resident = a.resident /\ b.deplibs = Tail(a.deplibs)
      BY ONLY <2>1 DEF HandleRec
    <2> QED
      BY <2>2 DEF a, b
  <1>6. rest \in [Handle -> HandleRec]
    BY <1>1, <1>4, <1>5
  <1>7. PICK resident \in ResidentRead(d) :
            IF resident THEN heap' = rest /\ UNCHANGED <<handles, stack, errs>>
                        ELSE Close(d, rest)
    BY DEF ReleaseDep
  <1> HIDE DEF t, rest
  <1>8. SameMarks(heap, rest)
    BY <1>4, <1>5 DEF SameMarks
  <1>9. d \in Registered => resident = heap[d].resident /\ rest[d].resident = heap[d].resident
    <2>1. d \in Registered => heap[d].live
      BY DEF IInv, ListOK
    <2> QED
      BY <1>3, <1>7, <1>8, <2>1 DEF ResidentRead, SameMarks
  <1> HIDE DEF d
  <1>10. /\ SameMarks(rest, heap')
         /\ \A g \in Handle : heap'[g].deplibs = rest[g].deplibs
         /\ \/ UNCHANGED <<handles, stack>>
            \/ /\ d \in Registered
               /\ handles' = DeleteAt(handles, IndexOf(handles, d))
               /\ stack' = <<DropFrame(d)>> \o stack
         /\ d \in Registered => errs' = errs
    <2>1. CASE resident
      <3>1. heap' = rest /\ UNCHANGED <<handles, stack, errs>>
        BY <1>7, <2>1
      <3> QED
        BY <3>1 DEF SameMarks
    <2>2. CASE ~resident
      <3>1. Close(d, rest)
        BY <1>7, <2>2
      <3>2. d \in Registered => ~rest[d].resident
        BY <1>9, <2>2
      <3> QED
        BY <1>1, <1>3, <1>6, <3>1, <3>2, CloseEffect
    <2> QED
      BY <2>1, <2>2
  <1>11. SameMarks(heap, heap')
    BY <1>8, <1>10 DEF SameMarks
  <1>12. /\ heap'[t].deplibs = Tail(heap[t].deplibs)
         /\ \A g \in Handle \ {t} : heap'[g].deplibs = heap[g].deplibs
    BY <1>1, <1>4, <1>5, <1>10
  <1> QED
    BY <1>1, <1>2, <1>3, <1>10, <1>11, <1>12 DEF d, t

LEMMA ReleaseDepMarks ==
    ASSUME IInv, MarkInv, ReleaseDep
    PROVE  MarkInv'
  <1> DEFINE t == Top.h
             d == Head(heap[t].deplibs)
  <1>1. /\ t \in Handle /\ d \in Handle /\ heap[t].deplibs # <<>>
        /\ SameMarks(heap, heap')
        /\ \A g \in Handle \ {t} : heap'[g].deplibs = heap[g].deplibs
        /\ UNCHANGED stack \/ stack' = <<DropFrame(d)>> \o stack
    BY ReleaseDepEffect
  <1> HIDE DEF t, d
  <1>2. \A g \in Handle : heap'[g].deplibs # <<>> => heap[g].deplibs # <<>>
    BY <1>1
  <1> QED
    BY <1>1, <1>2, CloseMarks

\* lt_dlclose frees the handle at the end.
LEMMA DropDoneEffect ==
    ASSUME IInv, DropDone
    PROVE  /\ stack # <<>> /\ Top.op = "drop" /\ Top.h \in Handle
           /\ heap[Top.h].deplibs = <<>> /\ stack' = Below
           /\ heap'[Top.h] = Freed /\ \A g \in Handle \ {Top.h} : heap'[g] = heap[g]
  <1>1. /\ stack # <<>> /\ Top.op = "drop" /\ heap[Top.h].deplibs = <<>>
        /\ stack' = Below /\ heap' = Free(Top.h)
    BY DEF DropDone, Running, Top
  <1>2. Top.h \in Handle
    BY <1>1, TopFacts DEF IInv
  <1> QED
    BY <1>1, <1>2 DEF Free, IInv, TypeOK

LEMMA DropDoneMarks ==
    ASSUME IInv, MarkInv, DropDone
    PROVE  MarkInv'
  <1>1. /\ stack # <<>> /\ Top.h \in Handle /\ stack' = Below
        /\ heap'[Top.h] = Freed /\ \A g \in Handle \ {Top.h} : heap'[g] = heap[g]
    BY DropDoneEffect
  <1>2. /\ Below \in Seq(Frame) /\ FramesOK(Below, heap)
        /\ \A k \in 1..Len(Below) : Below[k].h \in Handle \ {Top.h}
    BY <1>1, BelowFrames
  <1>3. FramesOK(stack', heap')
    <2>1. \A k \in 1..Len(Below) : heap'[Below[k].h].file = heap[Below[k].h].file
      BY <1>1, <1>2
    <2> QED
      BY <1>1, <1>2, <2>1, FramesHeap
  <1>4. ASSUME NEW g \in Handle PROVE HandleOK(heap'[g])
    <2>1. HandleOK(heap[g])
      BY DEF MarkInv
    <2> QED
      BY <1>1, <2>1, FreedOK
  <1> QED
    BY <1>3, <1>4 DEF MarkInv

\* lt_dlmakeresident.
LEMMA MakeResidentEffect ==
    ASSUME IInv, NEW h \in Handle, MakeResident(h)
    PROVE  /\ \A g \in Handle \ {h} : heap'[g] = heap[g]
           /\ heap'[h].live = heap[h].live /\ heap'[h].file = heap[h].file
           /\ heap'[h].resident /\ heap'[h].deplibs = heap[h].deplibs
           /\ heap[h].file \in MayBeResident /\ stack = <<>>
           /\ UNCHANGED <<handles, stack>>
  <1>1. /\ heap' = [heap EXCEPT ![h].resident = TRUE] /\ heap[h].file \in MayBeResident
        /\ stack = <<>> /\ UNCHANGED <<handles, stack>>
    BY DEF MakeResident, Idle
  <1>2. heap \in [Handle -> HandleRec] /\ heap[h] \in HandleRec
    BY DEF IInv, TypeOK
  <1>3. /\ heap'[h] = [heap[h] EXCEPT !.resident = TRUE]
        /\ \A g \in Handle \ {h} : heap'[g] = heap[g]
    BY <1>1, <1>2
  <1>4. /\ heap'[h].live = heap[h].live /\ heap'[h].file = heap[h].file
        /\ heap'[h].resident /\ heap'[h].deplibs = heap[h].deplibs
    BY ONLY <1>2, <1>3 DEF HandleRec
  <1> QED
    BY <1>1, <1>3, <1>4

LEMMA MakeResidentMarks ==
    ASSUME IInv, MarkInv, NEW h \in Handle, MakeResident(h)
    PROVE  MarkInv'
  <1>1. /\ \A g \in Handle \ {h} : heap'[g] = heap[g]
        /\ heap'[h].file = heap[h].file /\ heap'[h].deplibs = heap[h].deplibs
        /\ heap[h].file \in MayBeResident /\ stack' = <<>>
    BY MakeResidentEffect
  <1>2. FramesOK(stack', heap')
    BY <1>1 DEF FramesOK
  <1>3. ASSUME NEW g \in Handle PROVE HandleOK(heap'[g])
    <2>1. HandleOK(heap[g])
      BY DEF MarkInv
    <2> QED
      BY <1>1, <2>1 DEF HandleOK, MayStay
  <1> QED
    BY <1>2, <1>3 DEF MarkInv

\* lt_dlinit opens the next loader.
LEMMA BootLoaderEffect ==
    ASSUME IInv, BootLoader
    PROVE  \E h \in Handle :
               /\ ~heap[h].live /\ h \notin Registered /\ h \notin Pending
               /\ heap'[h].live /\ ~heap'[h].resident /\ heap'[h].deplibs = <<>>
               /\ \A g \in Handle \ {h} : heap'[g] = heap[g]
               /\ handles' = <<h>> \o handles
               /\ held' = [held EXCEPT ![h] = 1]
  <1> DEFINE z(h) == [Zalloc(LinkedLoaders[pos]) EXCEPT !.ref = 1, !.vtable = Preopen]
  <1>1. PICK h \in Handle :
            /\ ~heap[h].live
            /\ heap' = [heap EXCEPT ![h] = z(h)]
            /\ handles' = <<h>> \o handles
            /\ held' = [held EXCEPT ![h] = 1]
    BY DEF BootLoader
  <1>2. /\ heap'[h] = z(h) /\ \A g \in Handle \ {h} : heap'[g] = heap[g]
    BY <1>1 DEF IInv, TypeOK
  <1>3. LinkedLoaders[pos] # Self
    <2>1. pos \in 1..Len(LinkedLoaders)
      BY DEF BootLoader, IInv, TypeOK
    <2>2. LinkedLoaders \in Seq(LoaderName \ {Preopen})
      BY LoaderAssumption
    <2> QED
      BY <2>1, <2>2, FileAssumption
  <1>4. z(h).live /\ ~z(h).resident /\ z(h).deplibs = <<>>
    BY <1>3, Zenon DEF Zalloc, Freed
  <1> QED
    BY <1>1, <1>2, <1>4, NotInUse

LEMMA BootLoaderMarks ==
    ASSUME IInv, MarkInv, BootLoader
    PROVE  MarkInv'
  <1>1. PICK h \in Handle :
            /\ ~heap'[h].resident /\ heap'[h].deplibs = <<>>
            /\ \A g \in Handle \ {h} : heap'[g] = heap[g]
    BY BootLoaderEffect
  <1>2. stack' = <<>>
    BY DEF BootLoader, IInv, BootOK
  <1>3. FramesOK(stack', heap')
    BY <1>2 DEF FramesOK
  <1>4. ASSUME NEW g \in Handle PROVE HandleOK(heap'[g])
    <2>1. HandleOK(heap[g])
      BY DEF MarkInv
    <2> QED
      BY <1>1, <2>1 DEF HandleOK
  <1> QED
    BY <1>3, <1>4 DEF MarkInv

LEMMA SweepCloseMarks ==
    ASSUME IInv, MarkInv, SweepClose
    PROVE  MarkInv'
  <1>1. Close(sweep.cur, heap) /\ sweep.cur \in Handle
    BY RegisteredType DEF SweepClose, IInv
  <1> QED
    BY <1>1, FirstCloseMarks

LEMMA MarkInit ==
    ASSUME Init
    PROVE  MarkInv
  <1>1. ASSUME NEW h \in Handle PROVE HandleOK(heap[h])
    BY FreedOK DEF Init
  <1>2. FramesOK(stack, heap)
    BY DEF Init, FramesOK
  <1> QED
    BY <1>1, <1>2 DEF MarkInv

LEMMA MarkNext ==
    ASSUME IInv, IInv', MarkInv, [Next]_vars
    PROVE  MarkInv'
  <1>1. CASE UNCHANGED vars
    BY <1>1, QuietMarks DEF vars
  <1>2. CASE Client
    <2>1. \A h \in Handle : ClientClose(h) => MarkInv'
      BY FirstCloseMarks DEF ClientClose
    <2>2. \A l \in LoaderName : LoaderRemove(l) \/ LoaderAdd(l) => MarkInv'
      BY QuietMarks DEF LoaderRemove, LoaderAdd
    <2>3. DlInit \/ DlExit => MarkInv'
      BY QuietMarks DEF DlInit, DlExit
    <2> QED
      BY <1>2, <2>1, <2>2, <2>3, ClientOpenMarks, MakeResidentMarks DEF Client
  <1>3. CASE OpenStep
    BY <1>3, LoadDepMarks, SkipDepMarks, FindExistingMarks, LoaderOpensMarks, OpenFailsMarks
       DEF OpenStep
  <1>4. CASE CloseStep
    BY <1>4, ReleaseDepMarks, DropDoneMarks, UndoDoneMarks DEF CloseStep
  <1>5. CASE InitStep
    <2>1. BootLoaderFails \/ BootDone => MarkInv'
      BY QuietMarks DEF BootLoaderFails, BootDone
    <2> QED
      BY <1>5, <2>1, BootLoaderMarks DEF InitStep
  <1>6. CASE ExitStep
    <2>1. SweepRestart \/ SweepSkip \/ SweepNextLevel \/ SweepDone => MarkInv'
      BY QuietMarks DEF SweepRestart, SweepSkip, SweepNextLevel, SweepDone
    <2> QED
      BY <1>6, <2>1, SweepCloseMarks DEF ExitStep
  <1>7. CASE LoaderStep
    BY <1>7, QuietMarks DEF LoaderStep, KeepLoader, RemoveFails, FreeLoader, StaleLoader, ExitDone
  <1> QED
    BY <1>1, <1>2, <1>3, <1>4, <1>5, <1>6, <1>7 DEF Next, Internal

(***************************************************************************)
(* The order of the list: no module is listed before one it depends on has *)
(* been, so that the newest module is nobody's deplib.                     *)
(***************************************************************************)
Ordered == \A j \in 1..Len(handles) : \A i \in 1..j :
    handles[i] \notin SeqRange(heap[handles[j]].deplibs)

\* lt_dlexit undoes no open.
CallsInv == phase = "closing" => \A k \in 1..Len(stack) : stack[k].op = "drop"

SameDepsOf(R) == \A g \in R : heap'[g].deplibs = heap[g].deplibs

LEMMA RunningCalls ==
    ASSUME IInv, OffInv, CallsInv, stack # <<>>, Top.op # "drop"
    PROVE  phase = "running"
  <1>1. 1 \in 1..Len(stack)
    BY DEF IInv, TypeOK
  <1> QED
    BY <1>1 DEF OffInv, CallsInv, IInv, BootOK, TypeOK, Top

LEMMA PendingApart ==
    ASSUME IInv, stack # <<>>
    PROVE  /\ Top.h \in Handle /\ Top.h \notin Registered
           /\ Below # <<>> => Below[1].h \notin Registered /\ Below[1].h # Top.h
  <1>1. /\ Top.h \in Handle /\ Top.h \in Pending /\ Below \in Seq(Frame)
        /\ \A k \in 1..Len(Below) : Below[k].h # Top.h /\ Below[k].h \in Pending
    BY TopFacts DEF IInv
  <1>2. Below # <<>> => 1 \in 1..Len(Below)
    BY <1>1
  <1> QED
    BY <1>1, <1>2 DEF IInv, ListOK

LEMMA OrderedSame ==
    ASSUME Ordered, UNCHANGED handles, SameDepsOf(Registered)
    PROVE  Ordered'
  <1>1. ASSUME NEW j \in 1..Len(handles), NEW i \in 1..j
        PROVE  handles[i] \notin SeqRange(heap'[handles[j]].deplibs)
    <2>1. handles[j] \in Registered
      BY DEF Registered, SeqRange
    <2> QED
      BY <2>1 DEF Ordered, SameDepsOf
  <1> QED
    BY <1>1 DEF Ordered

LEMMA OrderedDelete ==
    ASSUME IInv, Ordered, NEW n \in 1..Len(handles), handles' = DeleteAt(handles, n),
           SameDepsOf(Registered)
    PROVE  Ordered'
  <1>1. handles \in Seq(Handle) /\ Len(handles) \in Nat
    BY DEF IInv, TypeOK
  <1>2. /\ Len(handles') = Len(handles) - 1
        /\ \A j \in 1..(Len(handles) - 1) :
               handles'[j] = IF j < n THEN handles[j] ELSE handles[j + 1]
    BY <1>1, DeleteType
  <1>3. ASSUME NEW j \in 1..Len(handles'), NEW i \in 1..j
        PROVE  handles'[i] \notin SeqRange(heap'[handles'[j]].deplibs)
    <2> DEFINE a == IF i < n THEN i ELSE i + 1
               b == IF j < n THEN j ELSE j + 1
    <2>1. b \in 1..Len(handles) /\ a \in 1..b
      BY <1>1, <1>2
    <2>2. handles'[i] = handles[a] /\ handles'[j] = handles[b]
      BY <1>1, <1>2
    <2> HIDE DEF a, b
    <2>3. handles[b] \in Registered
      BY <2>1 DEF Registered, SeqRange
    <2> QED
      BY <2>1, <2>2, <2>3 DEF Ordered, SameDepsOf
  <1> QED
    BY <1>3 DEF Ordered

LEMMA OrderedPush ==
    ASSUME IInv, Ordered, NEW h \in Handle, handles' = <<h>> \o handles,
           SameDepsOf(Registered), h \notin SeqRange(heap'[h].deplibs),
           \A g \in Registered : h \notin SeqRange(heap[g].deplibs)
    PROVE  Ordered'
  <1>1. handles \in Seq(Handle) /\ Len(handles) \in Nat
    BY DEF IInv, TypeOK
  <1>2. /\ Len(handles') = Len(handles) + 1 /\ handles'[1] = h
        /\ \A k \in 2..(Len(handles) + 1) : handles'[k] = handles[k - 1]
    BY <1>1, PushType
  <1>3. ASSUME NEW j \in 1..Len(handles'), NEW i \in 1..j
        PROVE  handles'[i] \notin SeqRange(heap'[handles'[j]].deplibs)
    <2>1. CASE j = 1
      <3>1. i = 1
        BY <2>1
      <3> QED
        BY <1>2, <2>1, <3>1
    <2>2. CASE j # 1
      <3>1. j - 1 \in 1..Len(handles) /\ handles'[j] = handles[j - 1]
        BY <1>1, <1>2, <2>2
      <3>2. handles[j - 1] \in Registered
        BY <3>1 DEF Registered, SeqRange
      <3>3. CASE i = 1
        BY <1>2, <3>1, <3>2, <3>3 DEF SameDepsOf
      <3>4. CASE i # 1
        <4>1. i - 1 \in 1..(j - 1) /\ handles'[i] = handles[i - 1]
          BY <1>1, <1>2, <3>4
        <4> QED
          BY <3>1, <3>2, <4>1 DEF Ordered, SameDepsOf
      <3> QED
        BY <3>3, <3>4
    <2> QED
      BY <2>1, <2>2
  <1> QED
    BY <1>3 DEF Ordered

LEMMA OrderedSuffix ==
    ASSUME IInv, Ordered, NEW n \in 1..(Len(handles) + 1),
           handles' = SubSeq(handles, n, Len(handles)), SameDepsOf(Registered)
    PROVE  Ordered'
  <1>1. handles \in Seq(Handle) /\ Len(handles) \in Nat
    BY DEF IInv, TypeOK
  <1>2. /\ Len(handles') = Len(handles) - n + 1
        /\ \A j \in 1..Len(handles') : handles'[j] = handles[n + j - 1]
    BY <1>1
  <1>3. ASSUME NEW j \in 1..Len(handles'), NEW i \in 1..j
        PROVE  handles'[i] \notin SeqRange(heap'[handles'[j]].deplibs)
    <2> DEFINE a == n + i - 1
               b == n + j - 1
    <2>1. b \in 1..Len(handles) /\ a \in 1..b
      BY <1>1, <1>2
    <2>2. handles'[i] = handles[a] /\ handles'[j] = handles[b]
      BY <1>1, <1>2
    <2> HIDE DEF a, b
    <2>3. handles[b] \in Registered
      BY <2>1 DEF Registered, SeqRange
    <2> QED
      BY <2>1, <2>2, <2>3 DEF Ordered, SameDepsOf
  <1> QED
    BY <1>3 DEF Ordered

\* The list lt_dlexit begins with: the resident modules in front are left out.
LEMMA StripEffect ==
    ASSUME IInv
    PROVE  \E n \in 1..(Len(handles) + 1) :
               /\ StripResidents = SubSeq(handles, n, Len(handles))
               /\ \A j \in 1..(n - 1) : heap[handles[j]].resident
  <1> DEFINE P(n) == /\ \A j \in 1..(n - 1) : heap[handles[j]].resident
                     /\ n <= Len(handles) => ~heap[handles[n]].resident
             m == CHOOSE n \in 1..(Len(handles) + 1) : P(n)
  <1>1. handles \in Seq(Handle) /\ Len(handles) \in Nat
    BY DEF IInv, TypeOK
  <1>2. \E n \in 1..(Len(handles) + 1) : P(n)
    <2> DEFINE T == {n \in 1..(Len(handles) + 1) :
                        n <= Len(handles) => ~heap[handles[n]].resident}
    <2>1. T \subseteq Nat /\ Len(handles) + 1 \in T
      BY <1>1
    <2>2. PICK n \in T : \A j \in T : n <= j
      BY <2>1, LeastNat
    <2>3. ASSUME NEW j \in 1..(n - 1) PROVE heap[handles[j]].resident
      <3>1. j \in 1..Len(handles) /\ ~(n <= j)
        BY <1>1, <2>2
      <3> QED
        BY <2>2, <3>1
    <2> QED
      BY <2>2, <2>3
  <1>3. m \in 1..(Len(handles) + 1) /\ P(m)
    <2> HIDE DEF P
    <2> QED
      BY <1>2
  <1>4. StripResidents = SubSeq(handles, m, Len(handles))
    BY DEF StripResidents
  <1> QED
    BY <1>3, <1>4

\* The deplibs of the modules that were in use are listed (ServeInv).
LEMMA NewIsNobodysDep ==
    ASSUME ServeInv, Serving, NEW h, h \notin Registered
    PROVE  \A g \in Reachable : h \notin SeqRange(heap[g].deplibs)
  BY DEF ServeInv, Ledger

LEMMA QuietOrdered ==
    ASSUME Ordered, UNCHANGED <<handles, heap>>
    PROVE  Ordered'
  BY OrderedSame DEF SameDepsOf

LEMMA CloseOrdered ==
    ASSUME IInv, Ordered, NEW d, SameDepsOf(Registered),
           \/ UNCHANGED handles
           \/ d \in Registered /\ handles' = DeleteAt(handles, IndexOf(handles, d))
    PROVE  Ordered'
  <1>1. CASE UNCHANGED handles
    BY <1>1, OrderedSame
  <1>2. CASE d \in Registered /\ handles' = DeleteAt(handles, IndexOf(handles, d))
    <2>1. IndexOf(handles, d) \in 1..Len(handles)
      BY <1>2, IndexProp DEF Registered
    <2> QED
      BY <1>2, <2>1, OrderedDelete
  <1> QED
    BY <1>1, <1>2

LEMMA FirstCloseOrdered ==
    ASSUME IInv, Ordered, NEW h \in Handle, Close(h, heap)
    PROVE  Ordered'
  <1>1. heap \in [Handle -> HandleRec] /\ errs \in BOOLEAN /\ Registered \subseteq Handle
    BY RegisteredType DEF IInv, TypeOK
  <1>2. /\ \A g \in Handle : heap'[g].deplibs = heap[g].deplibs
        /\ \/ UNCHANGED handles
           \/ h \in Registered /\ handles' = DeleteAt(handles, IndexOf(handles, h))
    BY <1>1, CloseEffect
  <1>3. SameDepsOf(Registered)
    BY <1>1, <1>2 DEF SameDepsOf
  <1> QED
    BY <1>2, <1>3, CloseOrdered

LEMMA BeginOpenOrdered ==
    ASSUME IInv, Ordered, NEW f \in File, NEW adv, BeginOpen(f, adv), UNCHANGED handles
    PROVE  Ordered'
  <1>1. PICK h \in Handle :
            h \notin Registered /\ \A g \in Handle \ {h} : heap'[g] = heap[g]
    BY BeginOpenEffect
  <1>2. SameDepsOf(Registered)
    BY <1>1, RegisteredType DEF SameDepsOf, IInv
  <1> QED
    BY <1>2, OrderedSame

LEMMA FindExistingOrdered ==
    ASSUME IInv, Ordered, FindExisting
    PROVE  Ordered'
  <1>1. SameDepsOf(Registered)
    BY FindExistingEffect, RegisteredType DEF SameDepsOf, IInv
  <1> QED
    BY <1>1, OrderedSame DEF FindExisting

LEMMA LoaderOpensOrdered ==
    ASSUME IInv, ServeInv, OffInv, CallsInv, Ordered, LoaderOpens
    PROVE  Ordered'
  <1> DEFINE h == Top.h
  <1>1. /\ stack # <<>> /\ Top.op = "load" /\ h \in Handle /\ h \notin Registered
        /\ handles' = <<h>> \o handles
    BY LoaderOpensEffect
  <1>2. PICK hp \in [Handle -> HandleRec] :
            /\ Return(h, hp)
            /\ \A g \in Handle \ {h} : hp[g] = heap[g]
            /\ hp[h].deplibs = heap[h].deplibs
    BY LoaderOpensEffect
  <1>3. \A g \in Handle : hp[g].deplibs = heap'[g].deplibs \/ (Below # <<>> /\ g = Below[1].h)
    BY <1>1, <1>2, ReturnEffect
  <1>4. Below # <<>> => Below[1].h \notin Registered /\ Below[1].h # h
    BY <1>1, PendingApart
  <1>5. h \in Reachable /\ Registered \subseteq Handle
    BY <1>1, TopFacts, RegisteredType DEF Reachable, IInv
  <1>6. \A g \in Reachable : h \notin SeqRange(heap[g].deplibs)
    BY <1>1, RunningCalls, NewIsNobodysDep DEF Serving
  <1> HIDE DEF h
  <1>7. SameDepsOf(Registered) /\ heap'[h].deplibs = heap[h].deplibs
    BY <1>1, <1>2, <1>3, <1>4, <1>5 DEF SameDepsOf
  <1>8. \A g \in Registered : h \notin SeqRange(heap[g].deplibs)
    BY <1>6 DEF Reachable
  <1> QED
    BY <1>1, <1>5, <1>6, <1>7, <1>8, OrderedPush

LEMMA UndoDoneOrdered ==
    ASSUME IInv, Ordered, UndoDone
    PROVE  Ordered'
  <1>1. /\ stack # <<>> /\ Top.ret \in Handle \cup {NULL}
        /\ Return(Top.ret, Free(Top.h)) /\ Free(Top.h) \in [Handle -> HandleRec]
        /\ \A g \in Handle \ {Top.h} : Free(Top.h)[g] = heap[g]
    BY UndoDoneEffect
  <1>2. \A g \in Handle : Free(Top.h)[g].deplibs = heap'[g].deplibs \/
            (Below # <<>> /\ g = Below[1].h)
    BY <1>1, ReturnEffect
  <1>3. Top.h \notin Registered /\ (Below # <<>> => Below[1].h \notin Registered)
    BY <1>1, PendingApart
  <1>4. SameDepsOf(Registered)
    BY <1>1, <1>2, <1>3, RegisteredType DEF SameDepsOf, IInv
  <1> QED
    BY <1>4, OrderedSame DEF UndoDone

LEMMA ReleaseDepOrdered ==
    ASSUME IInv, Ordered, ReleaseDep
    PROVE  Ordered'
  <1> DEFINE d == Head(heap[Top.h].deplibs)
  <1>1. /\ stack # <<>>
        /\ \A g \in Handle \ {Top.h} : heap'[g].deplibs = heap[g].deplibs
        /\ \/ UNCHANGED handles
           \/ d \in Registered /\ handles' = DeleteAt(handles, IndexOf(handles, d))
    BY ReleaseDepEffect
  <1> HIDE DEF d
  <1>2. SameDepsOf(Registered)
    BY <1>1, PendingApart, RegisteredType DEF SameDepsOf, IInv
  <1> QED
    BY <1>1, <1>2, CloseOrdered

LEMMA DropDoneOrdered ==
    ASSUME IInv, Ordered, DropDone
    PROVE  Ordered'
  <1>1. stack # <<>> /\ \A g \in Handle \ {Top.h} : heap'[g] = heap[g]
    BY DropDoneEffect
  <1>2. SameDepsOf(Registered)
    BY <1>1, PendingApart, RegisteredType DEF SameDepsOf, IInv
  <1> QED
    BY <1>2, OrderedSame DEF DropDone

LEMMA MakeResidentOrdered ==
    ASSUME IInv, Ordered, NEW h \in Handle, MakeResident(h)
    PROVE  Ordered'
  <1>1. /\ \A g \in Handle \ {h} : heap'[g] = heap[g]
        /\ heap'[h].deplibs = heap[h].deplibs /\ UNCHANGED handles
    BY MakeResidentEffect
  <1>2. SameDepsOf(Registered)
    BY <1>1, RegisteredType DEF SameDepsOf, IInv
  <1> QED
    BY <1>1, <1>2, OrderedSame

LEMMA BootLoaderOrdered ==
    ASSUME IInv, ServeInv, Ordered, BootLoader
    PROVE  Ordered'
  <1>1. PICK h \in Handle :
            /\ h \notin Registered /\ heap'[h].deplibs = <<>>
            /\ \A g \in Handle \ {h} : heap'[g] = heap[g]
            /\ handles' = <<h>> \o handles
    BY BootLoaderEffect
  <1>2. SameDepsOf(Registered)
    BY <1>1, RegisteredType DEF SameDepsOf, IInv
  <1>3. Serving
    BY DEF BootLoader, Serving
  <1>4. \A g \in Registered : h \notin SeqRange(heap[g].deplibs)
    BY <1>1, <1>3, NewIsNobodysDep DEF Reachable
  <1>5. h \notin SeqRange(heap'[h].deplibs)
    BY <1>1 DEF SeqRange
  <1> QED
    BY <1>1, <1>2, <1>4, <1>5, OrderedPush

LEMMA DlExitOrdered ==
    ASSUME IInv, Ordered, DlExit
    PROVE  Ordered'
  <1>1. SameDepsOf(Registered)
    BY DEF DlExit, SameDepsOf
  <1>2. UNCHANGED handles \/ handles' = StripResidents
    BY DEF DlExit
  <1>3. CASE UNCHANGED handles
    BY <1>1, <1>3, OrderedSame
  <1>4. CASE handles' = StripResidents
    BY <1>1, <1>4, StripEffect, OrderedSuffix
  <1> QED
    BY <1>2, <1>3, <1>4

LEMMA DlInitOrdered ==
    ASSUME Ordered, DlInit
    PROVE  Ordered'
  <1>1. CASE UNCHANGED handles
    BY <1>1, QuietOrdered DEF DlInit
  <1>2. CASE handles' = <<>>
    BY <1>2 DEF Ordered
  <1> QED
    BY <1>1, <1>2 DEF DlInit

LEMMA OrderedNext ==
    ASSUME IInv, ServeInv, OffInv, CallsInv, Ordered, [Next]_vars
    PROVE  Ordered'
  <1>1. CASE UNCHANGED vars
    BY <1>1, QuietOrdered DEF vars
  <1>2. CASE Client
    <2>1. \A h \in Handle : ClientClose(h) => Ordered'
      BY FirstCloseOrdered DEF ClientClose
    <2>2. \A l \in LoaderName : LoaderRemove(l) \/ LoaderAdd(l) => Ordered'
      BY QuietOrdered DEF LoaderRemove, LoaderAdd
    <2>3. \A f \in ClientFiles, adv \in Advice : ClientOpen(f, adv) => Ordered'
      <3>1. \A f \in ClientFiles : f \in File
        BY FileAssumption DEF File
      <3> QED
        BY <3>1, BeginOpenOrdered DEF ClientOpen
    <2> QED
      BY <1>2, <2>1, <2>2, <2>3, MakeResidentOrdered, DlInitOrdered, DlExitOrdered DEF Client
  <1>3. CASE OpenStep
    <2>1. LoadDep => Ordered'
      <3>1. LoadDep => DepLibs[heap[Top.h].file][Top.todo] \in File
        BY NextDep DEF File
      <3> QED
        BY <3>1, BeginOpenOrdered DEF LoadDep
    <2>2. SkipDep \/ OpenFails => Ordered'
      BY QuietOrdered DEF SkipDep, OpenFails
    <2> QED
      BY <1>3, <2>1, <2>2, FindExistingOrdered, LoaderOpensOrdered DEF OpenStep
  <1>4. CASE CloseStep
    BY <1>4, ReleaseDepOrdered, DropDoneOrdered, UndoDoneOrdered DEF CloseStep
  <1>5. CASE InitStep
    <2>1. BootLoaderFails \/ BootDone => Ordered'
      BY QuietOrdered DEF BootLoaderFails, BootDone
    <2> QED
      BY <1>5, <2>1, BootLoaderOrdered DEF InitStep
  <1>6. CASE ExitStep
    <2>1. SweepRestart \/ SweepSkip \/ SweepNextLevel \/ SweepDone => Ordered'
      BY QuietOrdered DEF SweepRestart, SweepSkip, SweepNextLevel, SweepDone
    <2>2. SweepClose => Ordered'
      BY FirstCloseOrdered, RegisteredType DEF SweepClose, IInv
    <2> QED
      BY <1>6, <2>1, <2>2 DEF ExitStep
  <1>7. CASE LoaderStep
    BY <1>7, QuietOrdered DEF LoaderStep, KeepLoader, RemoveFails, FreeLoader, StaleLoader, ExitDone
  <1> QED
    BY <1>1, <1>2, <1>3, <1>4, <1>5, <1>6, <1>7 DEF Next, Internal

\* lt_dlexit pushes no call but closes.
LEMMA ClosePushed ==
    ASSUME IInv, NEW d \in Handle, \A k \in 1..Len(stack) : stack[k].op = "drop",
           UNCHANGED stack \/ stack' = <<DropFrame(d)>> \o stack
    PROVE  \A k \in 1..Len(stack') : stack'[k].op = "drop"
  <1>1. CASE UNCHANGED stack
    BY <1>1
  <1>2. CASE stack' = <<DropFrame(d)>> \o stack
    <2>1. stack \in Seq(Frame) /\ Len(stack) \in Nat
      BY DEF IInv, TypeOK
    <2>2. DropFrame(d) \in Frame /\ DropFrame(d).op = "drop"
      BY FrameType
    <2>3. /\ Len(stack') = Len(stack) + 1 /\ stack'[1] = DropFrame(d)
          /\ \A k \in 2..(Len(stack) + 1) : stack'[k] = stack[k - 1]
      BY <1>2, <2>1, <2>2, PushType
    <2>4. ASSUME NEW k \in 1..Len(stack') PROVE stack'[k].op = "drop"
      <3>1. CASE k = 1
        BY <2>2, <2>3, <3>1
      <3>2. CASE k # 1
        <4>1. k - 1 \in 1..Len(stack) /\ stack'[k] = stack[k - 1]
          BY <2>1, <2>3, <3>2
        <4> QED
          BY <4>1
      <3> QED
        BY <3>1, <3>2
    <2> QED
      BY <2>4
  <1> QED
    BY <1>1, <1>2

LEMMA CallsNext ==
    ASSUME IInv, OffInv, CallsInv, [Next]_vars
    PROVE  CallsInv'
  <1>1. CASE UNCHANGED <<phase, stack>>
    BY <1>1 DEF CallsInv
  <1>2. CASE UNCHANGED phase /\ phase = "running"
    BY <1>2 DEF CallsInv
  <1>3. CASE stack' = <<>>
    BY <1>3 DEF CallsInv
  <1>4. CASE Client
    <2>1. \A l \in LoaderName : LoaderRemove(l) \/ LoaderAdd(l) => UNCHANGED <<phase, stack>>
      BY DEF LoaderRemove, LoaderAdd
    <2>2. \A h \in Handle :
              ClientClose(h) \/ MakeResident(h) => UNCHANGED phase /\ phase = "running"
      BY DEF ClientClose, MakeResident, Idle
    <2>3. \A f \in ClientFiles, adv \in Advice :
              ClientOpen(f, adv) => UNCHANGED phase /\ phase = "running"
      BY DEF ClientOpen, Idle
    <2>4. DlInit \/ DlExit => stack' = <<>>
      BY DEF DlInit, DlExit, Idle
    <2> QED
      BY <1>1, <1>2, <1>3, <1>4, <2>1, <2>2, <2>3, <2>4 DEF Client
  <1>5. CASE OpenStep \/ UndoDone
    <2>1. stack # <<>> /\ Top.op # "drop" /\ UNCHANGED phase
      BY <1>5 DEF OpenStep, LoadDep, SkipDep, FindExisting, LoaderOpens, OpenFails, UndoDone,
                  Running, Top
    <2> QED
      BY <1>2, <2>1, RunningCalls
  <1>6. CASE ReleaseDep
    <2> DEFINE d == Head(heap[Top.h].deplibs)
    <2>1. /\ d \in Handle
          /\ UNCHANGED stack \/ stack' = <<DropFrame(d)>> \o stack
      BY <1>6, ReleaseDepEffect
    <2>2. UNCHANGED phase
      BY <1>6 DEF ReleaseDep
    <2> HIDE DEF d
    <2> QED
      BY <2>1, <2>2, ClosePushed DEF CallsInv
  <1>7. CASE DropDone
    <2>1. stack # <<>> /\ stack' = Tail(stack) /\ UNCHANGED phase /\ stack \in Seq(Frame)
      BY <1>7 DEF DropDone, Running, Below, IInv, TypeOK
    <2>2. /\ Len(stack') = Len(stack) - 1 /\ Len(stack) \in Nat
          /\ \A k \in 1..(Len(stack) - 1) : stack'[k] = stack[k + 1]
      BY <2>1, TailType
    <2>3. ASSUME phase = "closing", NEW k \in 1..Len(stack') PROVE stack'[k].op = "drop"
      <3>1. k + 1 \in 1..Len(stack) /\ stack'[k] = stack[k + 1]
        BY <2>2
      <3> QED
        BY <2>3, <3>1 DEF CallsInv
    <2> QED
      BY <2>1, <2>3 DEF CallsInv
  <1>8. CASE InitStep
    <2>1. stack' = <<>>
      BY <1>8 DEF InitStep, BootLoader, BootLoaderFails, BootDone, IInv, BootOK
    <2> QED
      BY <1>3, <2>1
  <1>9. CASE ExitStep
    <2>1. SweepRestart \/ SweepSkip \/ SweepNextLevel \/ SweepDone => stack' = <<>>
      BY DEF SweepRestart, SweepSkip, SweepNextLevel, SweepDone, Sweeping
    <2>2. CASE SweepClose
      <3>1. Close(sweep.cur, heap) /\ sweep.cur \in Handle /\ stack = <<>>
        BY <2>2, RegisteredType DEF SweepClose, Sweeping, IInv
      <3>2. heap \in [Handle -> HandleRec] /\ errs \in BOOLEAN
        BY DEF IInv, TypeOK
      <3>3. UNCHANGED stack \/ stack' = <<DropFrame(sweep.cur)>> \o stack
        BY <3>1, <3>2, CloseEffect
      <3>4. \A k \in 1..Len(stack) : stack[k].op = "drop"
        BY <3>1
      <3> QED
        BY <3>1, <3>3, <3>4, ClosePushed DEF CallsInv
    <2> QED
      BY <1>3, <1>9, <2>1, <2>2 DEF ExitStep
  <1>10. CASE LoaderStep
    <2>1. stack' = <<>>
      BY <1>10 DEF LoaderStep, KeepLoader, RemoveFails, FreeLoader, StaleLoader, ExitDone, ExitingLoader,
                   OffInv
    <2> QED
      BY <1>3, <2>1
  <1> QED
    BY <1>1, <1>4, <1>5, <1>6, <1>7, <1>8, <1>9, <1>10 DEF Next, Internal, CloseStep, vars

(***************************************************************************)
(* The holds of the client: with MaxHeld = 1, none is held twice, and the  *)
(* open in progress will not return one that is held.                      *)
(***************************************************************************)
Bottom(s) == s[Len(s)]
BottomOK(s, hp, Rg, hd) ==
    s # <<>> => /\ Bottom(s).op = "load" => \A e \in Rg :
                       hp[e].file = hp[Bottom(s).h].file => hd[e] = 0
                /\ Bottom(s).ret # NULL => hd[Bottom(s).ret] = 0
HeldInv ==
    /\ \A h \in Handle : held[h] \in 0..1
    /\ Serving => BottomOK(stack, heap, Registered, held)

LEMMA BottomPush ==
    ASSUME NEW s \in Seq(Frame), s # <<>>, NEW fr \in Frame
    PROVE  Bottom(<<fr>> \o s) = Bottom(s) /\ <<fr>> \o s # <<>>
  <1> DEFINE t == <<fr>> \o s
  <1>1. /\ t \in Seq(Frame) /\ Len(t) = Len(s) + 1 /\ Len(s) \in Nat /\ Len(s) >= 1
        /\ \A k \in 2..(Len(s) + 1) : t[k] = s[k - 1]
    BY PushType
  <1> HIDE DEF t
  <1>2. t[Len(t)] = s[Len(s)] /\ t # <<>>
    BY <1>1
  <1> QED
    BY <1>2 DEF Bottom, t

LEMMA BottomTail ==
    ASSUME NEW s \in Seq(Frame), s # <<>>, Tail(s) # <<>>
    PROVE  Bottom(Tail(s)) = Bottom(s)
  <1>1. /\ Tail(s) \in Seq(Frame) /\ Len(Tail(s)) = Len(s) - 1
        /\ \A k \in 1..(Len(s) - 1) : Tail(s)[k] = s[k + 1] /\ Len(s) \in Nat
    BY TailType
  <1>2. Len(Tail(s)) \in 1..(Len(s) - 1)
    BY <1>1
  <1> QED
    BY <1>1, <1>2 DEF Bottom

LEMMA BottomIn ==
    ASSUME NEW s \in Seq(Frame), s # <<>>
    PROVE  Bottom(s) \in Frame /\ Len(s) \in 1..Len(s)
  BY DEF Bottom

\* The same open is in progress, or none, and new modules are not held.
LEMMA BottomKept ==
    ASSUME NEW s, NEW t, NEW hp, NEW hq, NEW Rg, NEW Rh, NEW hd,
           BottomOK(s, hp, Rg, hd),
           t # <<>> => /\ s # <<>>
                       /\ Bottom(t).op = Bottom(s).op /\ Bottom(t).h = Bottom(s).h
                       /\ Bottom(t).ret = Bottom(s).ret
                       /\ hq[Bottom(s).h].file = hp[Bottom(s).h].file,
           \A e \in Rh : hd[e] = 0 \/ (e \in Rg /\ hq[e].file = hp[e].file)
    PROVE  BottomOK(t, hq, Rh, hd)
  BY DEF BottomOK

LEMMA BottomEmpty ==
    ASSUME NEW hp, NEW Rg, NEW hd
    PROVE  BottomOK(<<>>, hp, Rg, hd)
  BY DEF BottomOK

LEMMA QuietHeld ==
    ASSUME HeldInv, UNCHANGED <<handles, heap, stack, held>>,
           Serving' => Serving \/ stack = <<>>
    PROVE  HeldInv'
  <1>1. Registered' = Registered
    BY DEF Registered
  <1>2. stack = <<>> => BottomOK(stack, heap, Registered, held)
    BY BottomEmpty
  <1>3. Serving' => BottomOK(stack, heap, Registered, held)
    BY <1>2 DEF HeldInv
  <1> QED
    BY <1>1, <1>3 DEF HeldInv

\* The frames of an open or a close in progress, seen from the bottom.
LEMMA BottomHandle ==
    ASSUME IInv, stack # <<>>
    PROVE  /\ stack \in Seq(Frame) /\ Bottom(stack) \in Frame
           /\ Bottom(stack).h \in Handle /\ heap[Bottom(stack).h].live
           /\ Bottom(stack).h \in Pending
           /\ Below \in Seq(Frame)
           /\ Below # <<>> => Bottom(Below) = Bottom(stack) /\ Bottom(stack).h # Top.h
           /\ Below = <<>> => Bottom(stack) = Top
  <1>1. stack \in Seq(Frame) /\ WellStacked(stack, heap)
    BY DEF IInv, TypeOK, StackOK
  <1>2. Bottom(stack) \in Frame /\ Len(stack) \in 1..Len(stack)
    BY <1>1, BottomIn
  <1>3. Bottom(stack).h \in Handle
    BY <1>1, <1>2, FrameAt DEF Bottom
  <1>4. heap[Bottom(stack).h].live /\ Bottom(stack).h \in Pending
    BY <1>1, <1>2 DEF WellStacked, Bottom, Pending
  <1>5. /\ Below \in Seq(Frame) /\ Len(Below) = Len(stack) - 1 /\ Len(stack) \in Nat
        /\ \A k \in 1..Len(Below) : Below[k].h # Top.h
    BY <1>1, TailType, TopFacts DEF Below, IInv
  <1>6. Below # <<>> => Bottom(Below) = Bottom(stack) /\ Bottom(stack).h # Top.h
    <2>1. Below # <<>> => Bottom(Below) = Bottom(stack)
      BY <1>1, BottomTail DEF Below
    <2>2. Below # <<>> => Len(Below) \in 1..Len(Below)
      BY <1>5
    <2> QED
      BY <1>5, <2>1, <2>2 DEF Bottom
  <1>7. Below = <<>> => Len(stack) = 1
    BY <1>5
  <1> QED
    BY <1>1, <1>2, <1>3, <1>4, <1>5, <1>6, <1>7 DEF Bottom, Top

LEMMA ClientOpenHeld ==
    ASSUME OpenedOnce, IInv, HeldInv,
           NEW f \in ClientFiles, NEW adv \in Advice, ClientOpen(f, adv)
    PROVE  HeldInv'
  <1>1. f \in File
    BY FileAssumption DEF File
  <1>2. PICK h \in Handle :
            /\ h \notin Registered
            /\ heap'[h] = Zalloc(f)
            /\ \A g \in Handle \ {h} : heap'[g] = heap[g]
            /\ stack' = <<LoadFrame(h, f, adv)>> \o stack
    BY <1>1, BeginOpenEffect DEF ClientOpen
  <1> DEFINE fr == LoadFrame(h, f, adv)
  <1>3. fr \in Frame /\ fr.h = h /\ fr.ret = NULL
    <2>1. fr \in Frame /\ fr.h = h
      BY <1>1, LoadFrameType
    <2>2. fr.ret = NULL
      BY DEF LoadFrame
    <2> QED
      BY <2>1, <2>2
  <1> HIDE DEF fr
  <1>4. stack' = <<fr>> /\ Bottom(stack') = fr
    <2>1. stack = <<>>
      BY DEF ClientOpen, Idle
    <2>2. stack' = <<fr>>
      BY <1>2, <1>3, <2>1 DEF fr
    <2> QED
      BY <2>2 DEF Bottom
  <1>5. Registered' = Registered /\ held' = held /\ Registered \subseteq Handle
    BY RegisteredType DEF ClientOpen, Registered, IInv
  <1>6. heap'[h].file = f
    BY <1>1, <1>2, ZallocType
  <1>7. ASSUME NEW e \in Registered, heap'[e].file = heap'[h].file PROVE held[e] = 0
    <2>1. e \in Handle \ {h} /\ heap[e].file = f
      BY <1>2, <1>5, <1>6, <1>7
    <2>2. held[e] < MaxHeld
      BY <2>1 DEF ClientOpen
    <2>3. held[e] \in 0..1 /\ MaxHeld \in Nat
      BY <2>1, BoundsAssumption DEF HeldInv
    <2> QED
      BY <2>2, <2>3 DEF OpenedOnce
  <1>8. BottomOK(stack', heap', Registered', held')
    BY <1>3, <1>4, <1>5, <1>7 DEF BottomOK
  <1> QED
    BY <1>5, <1>8 DEF HeldInv

LEMMA LoadDepHeld ==
    ASSUME IInv, HeldInv, LoadDep
    PROVE  HeldInv'
  <1> DEFINE f == DepLibs[heap[Top.h].file][Top.todo]
  <1>1. /\ stack # <<>> /\ BeginOpen(f, "plain") /\ "plain" \in Advice
        /\ UNCHANGED <<handles, held, phase>>
    BY DEF LoadDep, Running, Advice
  <1>2. f \in File
    BY NextDep DEF File
  <1> HIDE DEF f
  <1>3. PICK h \in Handle :
            /\ ~heap[h].live /\ h \notin Registered
            /\ \A g \in Handle \ {h} : heap'[g] = heap[g]
            /\ stack' = <<LoadFrame(h, f, "plain")>> \o stack
    BY <1>1, <1>2, BeginOpenEffect
  <1>4. stack' # <<>> /\ Bottom(stack') = Bottom(stack)
    BY <1>1, <1>2, <1>3, BottomHandle, BottomPush, LoadFrameType
  <1>5. heap'[Bottom(stack).h] = heap[Bottom(stack).h]
    BY <1>1, <1>3, BottomHandle
  <1>6. \A e \in Registered : heap'[e] = heap[e]
    BY <1>3, RegisteredType DEF IInv
  <1>7. Serving' => BottomOK(stack', heap', Registered', held')
    <2>1. Serving' => BottomOK(stack, heap, Registered, held)
      BY <1>1 DEF HeldInv, Serving
    <2>2. Serving' => BottomOK(stack', heap', Registered, held)
      BY <1>1, <1>4, <1>5, <1>6, <2>1, BottomKept
    <2>3. Registered' = Registered
      BY <1>1 DEF Registered
    <2> QED
      BY <1>1, <2>2, <2>3
  <1> QED
    BY <1>1, <1>7 DEF HeldInv

LEMMA SkipDepHeld ==
    ASSUME IInv, HeldInv, SkipDep
    PROVE  HeldInv'
  <1>1. /\ stack # <<>> /\ stack' = [stack EXCEPT ![1].todo = @ - 1]
        /\ UNCHANGED <<handles, heap, held, phase>>
    BY DEF SkipDep, Running
  <1>2. stack \in Seq(Frame) /\ Len(stack) \in 1..Len(stack)
    BY <1>1, BottomHandle, BottomIn
  <1>3. /\ Len(stack') = Len(stack)
        /\ \A k \in 1..Len(stack) : /\ stack'[k].ret = stack[k].ret
                                    /\ stack'[k].op = stack[k].op /\ stack'[k].h = stack[k].h
    BY <1>1, <1>2, CountDown
  <1>4. /\ Bottom(stack').op = Bottom(stack).op /\ Bottom(stack').h = Bottom(stack).h
        /\ Bottom(stack').ret = Bottom(stack).ret
    BY <1>2, <1>3 DEF Bottom
  <1>5. Serving' => BottomOK(stack', heap', Registered', held')
    <2>1. Serving' => BottomOK(stack, heap, Registered, held)
      BY <1>1 DEF HeldInv, Serving
    <2>2. Serving' => BottomOK(stack', heap, Registered, held)
      BY <1>1, <1>4, <2>1, BottomKept
    <2>3. Registered' = Registered
      BY <1>1 DEF Registered
    <2> QED
      BY <1>1, <2>2, <2>3
  <1> QED
    BY <1>1, <1>5 DEF HeldInv

\* The open in progress gives up, and will return r, which the client does not
\* hold if the open is its own.
LEMMA UndoHeld ==
    ASSUME IInv, HeldInv, stack # <<>>, Top.op = "load",
           NEW r \in Handle \cup {NULL}, r # NULL => r \in Registered,
           r # NULL => heap[r].file = heap[Top.h].file,
           stack' = <<UndoFrame(Top.h, r)>> \o Below,
           SameMarks(heap, heap'), UNCHANGED <<handles, held, phase>>
    PROVE  HeldInv'
  <1> DEFINE fr == UndoFrame(Top.h, r)
  <1>1. Top.h \in Handle
    BY TopFacts DEF IInv
  <1>2. fr \in Frame /\ fr.ret = r /\ fr.op = "undo"
    BY <1>1, FrameType
  <1> HIDE DEF fr
  <1>3. stack' = <<fr>> \o Below /\ Below \in Seq(Frame) /\ Registered \subseteq Handle
    BY TopFacts, RegisteredType DEF IInv, fr
  <1>4. Registered' = Registered
    BY DEF Registered
  <1>5. ASSUME Serving PROVE BottomOK(stack', heap', Registered, held)
    <2>1. BottomOK(stack, heap, Registered, held)
      BY <1>5 DEF HeldInv
    <2>2. CASE Below = <<>>
      <3>1. Bottom(stack) = Top
        BY <2>2, BottomHandle
      <3>2. Len(stack') = 1 /\ stack'[1] = fr
        BY <1>2, <1>3, <2>2, PushType
      <3>3. Bottom(stack') = fr
        BY <3>2 DEF Bottom
      <3>4. r # NULL => held[r] = 0
        BY <2>1, <3>1 DEF BottomOK
      <3> QED
        BY <1>2, <3>3, <3>4 DEF BottomOK
    <2>3. CASE Below # <<>>
      <3>1. Bottom(stack') = Bottom(stack)
        BY <1>2, <1>3, <2>3, BottomPush, BottomHandle
      <3>2. /\ heap'[Bottom(stack).h].file = heap[Bottom(stack).h].file
            /\ \A e \in Registered : heap'[e].file = heap[e].file
        BY <1>3, BottomHandle DEF SameMarks
      <3> QED
        BY <2>1, <3>1, <3>2, BottomKept
    <2> QED
      BY <2>2, <2>3
  <1>6. Serving' => BottomOK(stack', heap', Registered', held')
    BY <1>4, <1>5 DEF Serving
  <1> QED
    BY <1>6 DEF HeldInv

LEMMA FindExistingHeld ==
    ASSUME IInv, HeldInv, FindExisting
    PROVE  HeldInv'
  <1>1. PICK e \in Registered :
            /\ e \in Handle
            /\ heap[e].file = heap[Top.h].file
            /\ SameMarks(heap, heap')
            /\ stack' = <<UndoFrame(Top.h, e)>> \o Below
    BY FindExistingEffect
  <1>2. stack # <<>> /\ Top.op = "load" /\ UNCHANGED <<handles, held, phase>>
    BY DEF FindExisting, Running, Top
  <1> QED
    BY <1>1, <1>2, UndoHeld

LEMMA OpenFailsHeld ==
    ASSUME IInv, HeldInv, OpenFails
    PROVE  HeldInv'
  <1>1. /\ stack # <<>> /\ Top.op = "load" /\ UNCHANGED <<handles, held, phase>>
        /\ stack' = <<UndoFrame(Top.h, NULL)>> \o Below
    BY DEF OpenFails, Running, Top
  <1>2. SameMarks(heap, heap')
    BY DEF OpenFails, SameMarks
  <1> QED
    BY <1>1, <1>2, UndoHeld

\* The result r of an open reaches its caller.
LEMMA ReturnHeld ==
    ASSUME IInv, HeldInv, Serving, UNCHANGED phase, stack # <<>>,
           NEW r \in Handle \cup {NULL}, NEW hp \in [Handle -> HandleRec],
           Return(r, hp), \A g \in Handle \ {Top.h} : hp[g] = heap[g],
           Below = <<>> /\ r # NULL => held[r] = 0,
           \A e \in Registered' : held[e] = 0 \/ e \in Registered
    PROVE  HeldInv'
  <1>1. /\ SameMarks(hp, heap') /\ Len(stack') = Len(Below)
        /\ \A k \in 1..Len(Below) :
               /\ stack'[k].ret = Below[k].ret /\ stack'[k].op = Below[k].op
               /\ stack'[k].h = Below[k].h
    BY ReturnEffect
  <1>2. Below \in Seq(Frame)
    BY BottomHandle
  <1>3. CASE Below = <<>>
    <2>1. stack' = <<>> /\ held' = IF r = NULL THEN held ELSE [held EXCEPT ![r] = @ + 1]
      BY <1>3 DEF Return
    <2>2. BottomOK(stack', heap', Registered', held')
      BY <2>1, BottomEmpty
    <2>3. held \in [Handle -> Nat] /\ \A h \in Handle : held[h] \in 0..1
      BY DEF IInv, TypeOK, HeldInv
    <2>4. ASSUME NEW h \in Handle PROVE held'[h] \in 0..1
      <3>1. CASE r = NULL
        BY <2>1, <2>3, <3>1
      <3>2. CASE r # NULL /\ r # h
        BY <2>1, <2>3, <3>2
      <3>3. CASE r # NULL /\ r = h
        BY <1>3, <2>1, <2>3, <3>3
      <3> QED
        BY <3>1, <3>2, <3>3
    <2> QED
      BY <2>2, <2>4 DEF HeldInv
  <1>4. CASE Below # <<>>
    <2>1. held' = held
      BY <1>4 DEF Return
    <2>2. Bottom(Below) = Bottom(stack) /\ Bottom(stack).h \in Handle \ {Top.h}
      BY <1>4, BottomHandle
    <2>3. Len(Below) \in 1..Len(Below)
      BY <1>2, <1>4, BottomIn
    <2>4. /\ Bottom(stack').op = Bottom(stack).op /\ Bottom(stack').h = Bottom(stack).h
          /\ Bottom(stack').ret = Bottom(stack).ret
      BY <1>1, <2>2, <2>3 DEF Bottom
    <2>5. \A g \in Handle \ {Top.h} : heap'[g].file = heap[g].file
      BY <1>1 DEF SameMarks
    <2>6. Registered \subseteq Handle \ {Top.h}
      BY PendingApart, RegisteredType DEF IInv
    <2>7. BottomOK(stack, heap, Registered, held)
      BY DEF HeldInv
    <2>8. heap'[Bottom(stack).h].file = heap[Bottom(stack).h].file
      BY <2>2, <2>5
    <2>9. \A e \in Registered' : held[e] = 0 \/
              (e \in Registered /\ heap'[e].file = heap[e].file)
      BY <2>5, <2>6
    <2>10. BottomOK(stack', heap', Registered', held)
      BY <2>4, <2>7, <2>8, <2>9, BottomKept
    <2> QED
      BY <2>1, <2>10 DEF HeldInv
  <1> QED
    BY <1>3, <1>4

LEMMA LoaderOpensHeld ==
    ASSUME IInv, ServeInv, OffInv, CallsInv, HeldInv, LoaderOpens
    PROVE  HeldInv'
  <1> DEFINE h == Top.h
  <1>1. /\ stack # <<>> /\ Top.op = "load" /\ h \in Handle /\ h \notin Registered
        /\ handles' = <<h>> \o handles
    BY LoaderOpensEffect
  <1>2. PICK hp \in [Handle -> HandleRec] :
            /\ Return(h, hp)
            /\ \A g \in Handle \ {h} : hp[g] = heap[g]
    BY LoaderOpensEffect
  <1>3. Serving /\ UNCHANGED phase
    BY <1>1, RunningCalls DEF Serving, LoaderOpens
  <1>4. held[h] = 0
    BY <1>1, <1>3 DEF ServeInv, Ledger
  <1>5. Registered' = {h} \cup Registered
    BY <1>1, PushRange DEF Registered, IInv, TypeOK
  <1> QED
    BY <1>1, <1>2, <1>3, <1>4, <1>5, ReturnHeld

LEMMA UndoDoneHeld ==
    ASSUME IInv, OffInv, CallsInv, HeldInv, UndoDone
    PROVE  HeldInv'
  <1>1. /\ stack # <<>> /\ Top.op = "undo" /\ Top.ret \in Handle \cup {NULL}
        /\ Return(Top.ret, Free(Top.h)) /\ Free(Top.h) \in [Handle -> HandleRec]
        /\ \A g \in Handle \ {Top.h} : Free(Top.h)[g] = heap[g]
    BY UndoDoneEffect
  <1>2. Serving /\ UNCHANGED phase
    BY <1>1, RunningCalls DEF Serving, UndoDone
  <1>3. Below = <<>> /\ Top.ret # NULL => held[Top.ret] = 0
    <2>1. BottomOK(stack, heap, Registered, held)
      BY <1>2 DEF HeldInv
    <2> QED
      BY <1>1, <2>1, BottomHandle DEF BottomOK
  <1>4. Registered' = Registered
    BY DEF UndoDone, Registered
  <1> QED
    BY <1>1, <1>2, <1>3, <1>4, ReturnHeld

LEMMA ClientCloseHeld ==
    ASSUME IInv, HeldInv, NEW h \in Handle, ClientClose(h)
    PROVE  HeldInv'
  <1>1. /\ stack = <<>> /\ held[h] > 0 /\ held' = [held EXCEPT ![h] = @ - 1]
        /\ Close(h, heap)
    BY DEF ClientClose, Idle
  <1>2. held \in [Handle -> Nat] /\ heap \in [Handle -> HandleRec] /\ errs \in BOOLEAN
    BY DEF IInv, TypeOK
  <1>3. \A g \in Handle : held'[g] \in 0..1
    BY <1>1, <1>2 DEF HeldInv
  <1>4. UNCHANGED stack \/ stack' = <<DropFrame(h)>> \o stack
    BY <1>1, <1>2, CloseEffect
  <1>5. DropFrame(h) \in Frame /\ DropFrame(h).op = "drop" /\ DropFrame(h).ret = NULL
    <2>1. DropFrame(h) \in Frame /\ DropFrame(h).op = "drop"
      BY FrameType
    <2>2. DropFrame(h).ret = NULL
      BY DEF DropFrame, UndoFrame
    <2> QED
      BY <2>1, <2>2
  <1>6. CASE UNCHANGED stack
    BY <1>1, <1>3, <1>6, BottomEmpty DEF HeldInv
  <1>7. CASE stack' = <<DropFrame(h)>> \o stack
    <2>1. stack' = <<DropFrame(h)>>
      BY <1>1, <1>5, <1>7
    <2>2. Bottom(stack') = DropFrame(h)
      BY <2>1 DEF Bottom
    <2>3. BottomOK(stack', heap', Registered', held')
      BY <1>5, <2>2 DEF BottomOK
    <2> QED
      BY <1>3, <2>3 DEF HeldInv
  <1> QED
    BY <1>4, <1>6, <1>7

LEMMA ReleaseDepHeld ==
    ASSUME IInv, HeldInv, IInv', ReleaseDep
    PROVE  HeldInv'
  <1> DEFINE d == Head(heap[Top.h].deplibs)
  <1>1. /\ stack # <<>> /\ d \in Handle /\ SameMarks(heap, heap')
        /\ \/ UNCHANGED <<handles, stack>>
           \/ /\ d \in Registered
              /\ handles' = DeleteAt(handles, IndexOf(handles, d))
              /\ stack' = <<DropFrame(d)>> \o stack
    BY ReleaseDepEffect
  <1>2. UNCHANGED <<held, phase>>
    BY DEF ReleaseDep
  <1> HIDE DEF d
  <1>3. stack' # <<>> /\ Bottom(stack') = Bottom(stack)
    <2>1. DropFrame(d) \in Frame
      BY <1>1, FrameType
    <2> QED
      BY <1>1, <2>1, BottomPush, BottomHandle
  <1>4. Registered' \subseteq Registered
    <2>1. CASE UNCHANGED handles
      BY <2>1 DEF Registered
    <2>2. CASE d \in Registered /\ handles' = DeleteAt(handles, IndexOf(handles, d))
      <3>1. IndexOf(handles, d) \in 1..Len(handles)
        BY <2>2, IndexProp DEF Registered
      <3>2. /\ handles \in Seq(Handle)
            /\ \A i, j \in 1..Len(handles) : handles[i] = handles[j] => i = j
        BY DEF IInv, TypeOK, ListOK
      <3>3. SeqRange(handles') = SeqRange(handles) \ {handles[IndexOf(handles, d)]}
        BY <2>2, <3>1, <3>2, DeleteRange
      <3> QED
        BY <3>3 DEF Registered
    <2> QED
      BY <1>1, <2>1, <2>2
  <1>5. heap'[Bottom(stack).h].file = heap[Bottom(stack).h].file
    BY <1>1, BottomHandle DEF SameMarks
  <1>6. \A e \in Registered' : e \in Registered /\ heap'[e].file = heap[e].file
    BY <1>1, <1>4, RegisteredType DEF SameMarks, IInv
  <1>7. Serving' => BottomOK(stack', heap', Registered', held)
    <2>1. Serving' => BottomOK(stack, heap, Registered, held)
      BY <1>2 DEF HeldInv, Serving
    <2> QED
      BY <1>1, <1>3, <1>5, <1>6, <2>1, BottomKept
  <1> QED
    BY <1>2, <1>7 DEF HeldInv

LEMMA DropDoneHeld ==
    ASSUME IInv, HeldInv, DropDone
    PROVE  HeldInv'
  <1>1. /\ stack # <<>> /\ Top.h \in Handle /\ stack' = Below
        /\ \A g \in Handle \ {Top.h} : heap'[g] = heap[g]
    BY DropDoneEffect
  <1>2. UNCHANGED <<handles, held, phase>>
    BY DEF DropDone
  <1>3. Registered' = Registered
    BY <1>2 DEF Registered
  <1>4. Registered \subseteq Handle \ {Top.h}
    BY <1>1, PendingApart, RegisteredType DEF IInv
  <1>5. stack' # <<>> => /\ Bottom(stack') = Bottom(stack)
                         /\ heap'[Bottom(stack).h] = heap[Bottom(stack).h]
    BY <1>1, BottomHandle
  <1>6. \A e \in Registered : e \in Registered /\ heap'[e].file = heap[e].file
    BY <1>1, <1>4
  <1>7. Serving' => BottomOK(stack', heap', Registered, held)
    <2>1. Serving' => BottomOK(stack, heap, Registered, held)
      BY <1>2 DEF HeldInv, Serving
    <2> QED
      BY <1>1, <1>5, <1>6, <2>1, BottomKept
  <1> QED
    BY <1>2, <1>3, <1>7 DEF HeldInv

LEMMA EmptyHeld ==
    ASSUME stack' = <<>>, \A h \in Handle : held'[h] \in 0..1
    PROVE  HeldInv'
  BY BottomEmpty DEF HeldInv

LEMMA HeldNext ==
    ASSUME OpenedOnce, IInv, IInv', ServeInv, OffInv, CallsInv, HeldInv, [Next]_vars
    PROVE  HeldInv'
  <1>1. \A h \in Handle : held[h] \in 0..1
    BY DEF HeldInv
  <1>2. CASE UNCHANGED vars
    BY <1>2, QuietHeld DEF vars, Serving
  <1>3. CASE UNCHANGED held /\ stack' = <<>>
    BY <1>1, <1>3, EmptyHeld
  <1>4. CASE Client
    <2>1. \A l \in LoaderName : LoaderRemove(l) \/ LoaderAdd(l) => held' = held /\ stack' = <<>>
      BY DEF LoaderRemove, LoaderAdd, Idle
    <2>2. DlInit \/ DlExit => held' = held /\ stack' = <<>>
      BY DEF DlInit, DlExit, Idle
    <2>3. \A h \in Handle : MakeResident(h) => held' = held /\ stack' = <<>>
      BY DEF MakeResident, Idle
    <2> QED
      BY <1>3, <1>4, <2>1, <2>2, <2>3, ClientOpenHeld, ClientCloseHeld DEF Client
  <1>5. CASE OpenStep
    BY <1>5, LoadDepHeld, SkipDepHeld, FindExistingHeld, LoaderOpensHeld, OpenFailsHeld
       DEF OpenStep
  <1>6. CASE CloseStep
    BY <1>6, ReleaseDepHeld, DropDoneHeld, UndoDoneHeld DEF CloseStep
  <1>7. CASE InitStep
    <2>1. stack' = <<>>
      BY <1>7 DEF InitStep, BootLoader, BootLoaderFails, BootDone, IInv, BootOK
    <2>2. BootLoader => \A h \in Handle : held'[h] \in 0..1
      BY <1>1 DEF BootLoader, IInv, TypeOK
    <2>3. BootLoaderFails \/ BootDone => UNCHANGED held
      BY DEF BootLoaderFails, BootDone
    <2> QED
      BY <1>3, <1>7, <2>1, <2>2, <2>3, EmptyHeld DEF InitStep
  <1>8. CASE ExitStep
    <2>1. held' = held /\ phase = "closing" /\ phase' \in {"closing", "loaders"}
      BY <1>8 DEF ExitStep, SweepRestart, SweepSkip, SweepClose, SweepNextLevel, SweepDone,
                  Sweeping
    <2> QED
      BY <1>1, <2>1 DEF HeldInv, Serving
  <1>9. CASE LoaderStep
    <2>1. stack' = <<>>
      BY <1>9 DEF LoaderStep, KeepLoader, RemoveFails, FreeLoader, StaleLoader, ExitDone, ExitingLoader,
                  OffInv
    <2>2. KeepLoader \/ RemoveFails \/ FreeLoader \/ StaleLoader => UNCHANGED held
      BY DEF KeepLoader, RemoveFails, FreeLoader, StaleLoader
    <2>3. ExitDone => \A h \in Handle : held'[h] \in 0..1
      BY DEF ExitDone
    <2> QED
      BY <1>3, <1>9, <2>1, <2>2, <2>3, EmptyHeld DEF LoaderStep
  <1> QED
    BY <1>2, <1>4, <1>5, <1>6, <1>7, <1>8, <1>9 DEF Next, Internal

(***************************************************************************)
(* lt_dlexit closes the modules: everything the sweep has passed is        *)
(* resident, so that the module it comes to is nobody's deplib.            *)
(***************************************************************************)
\* A hold of a module that is not listed any more counts for nothing.
HeldListed == [h \in Handle |-> IF h \in Registered THEN held[h] ELSE 0]

SweptTo(c, s, hp) ==
    /\ c = NULL => \A k \in 1..Len(s) : hp[s[k]].resident
    /\ \A j \in 1..Len(s) : s[j] = c => \A i \in 1..(j - 1) : hp[s[i]].resident

Exiting == Ledger(heap, Registered, Reachable, stack, HeldListed, NULL)

ClosingInv ==
    phase = "closing" =>
        /\ Exiting
        /\ sweep.level > 0
        /\ sweep.level > 1 => \A k \in 1..Len(handles) : heap[handles[k]].resident
        /\ SweptTo(sweep.cur, handles, heap)

LEMMA SweptFirst ==
    ASSUME IInv
    PROVE  SweptTo(First(handles), handles, heap)
  <1>1. handles \in Seq(Handle) /\ Len(handles) \in Nat
    BY DEF IInv, TypeOK
  <1>2. CASE handles = <<>>
    BY <1>2 DEF SweptTo
  <1>3. CASE handles # <<>>
    <2>1. 1 \in 1..Len(handles) /\ First(handles) = handles[1] /\ handles[1] \in Handle
      BY <1>1, <1>3 DEF First
    <2>2. First(handles) # NULL
      BY <2>1, NullAssumption
    <2>3. \A j \in 1..Len(handles) : handles[j] = First(handles) => j = 1
      BY <2>1 DEF IInv, ListOK
    <2> QED
      BY <2>2, <2>3 DEF SweptTo
  <1> QED
    BY <1>2, <1>3

\* The list of SweepSkip and SweepClose, at the position of sweep.cur.
LEMMA NextOf ==
    ASSUME IInv, NEW c \in Registered
    PROVE  \E n \in 1..Len(handles) :
               /\ handles[n] = c /\ n = IndexOf(handles, c)
               /\ n < Len(handles) => Next1(c) = handles[n + 1]
               /\ n = Len(handles) => Next1(c) = NULL
  <1>1. handles \in Seq(Handle) /\ Len(handles) \in Nat
    BY DEF IInv, TypeOK
  <1>2. IndexOf(handles, c) \in 1..Len(handles) /\ handles[IndexOf(handles, c)] = c
    BY IndexProp DEF Registered
  <1> QED
    BY <1>1, <1>2 DEF Next1

LEMMA SweptNext ==
    ASSUME IInv, NEW c \in Registered, SweptTo(c, handles, heap), heap[c].resident
    PROVE  SweptTo(Next1(c), handles, heap)
  <1>1. handles \in Seq(Handle) /\ Len(handles) \in Nat
    BY DEF IInv, TypeOK
  <1>2. PICK n \in 1..Len(handles) :
            /\ handles[n] = c
            /\ n < Len(handles) => Next1(c) = handles[n + 1]
            /\ n = Len(handles) => Next1(c) = NULL
    BY NextOf
  <1>3. \A i \in 1..n : heap[handles[i]].resident
    BY <1>1, <1>2 DEF SweptTo
  <1>4. \A h \in Registered : h # NULL
    BY NullAssumption, RegisteredType DEF IInv
  <1>5. \A j \in 1..Len(handles) : handles[j] \in Registered
    BY DEF Registered, SeqRange
  <1>6. CASE n < Len(handles)
    <2>1. \A j \in 1..Len(handles) : handles[j] = Next1(c) => j = n + 1
      BY <1>1, <1>2, <1>6 DEF IInv, ListOK
    <2>2. Next1(c) # NULL
      BY <1>1, <1>2, <1>4, <1>5, <1>6
    <2> QED
      BY <1>1, <1>3, <2>1, <2>2 DEF SweptTo
  <1>7. CASE n = Len(handles)
    <2>1. Next1(c) = NULL
      BY <1>2, <1>7
    <2>2. \A j \in 1..Len(handles) : handles[j] # Next1(c)
      BY <1>4, <1>5, <2>1
    <2> QED
      BY <1>3, <1>7, <2>2 DEF SweptTo
  <1> QED
    BY <1>1, <1>2, <1>6, <1>7

\* Closing sweep.cur takes it out of the list.
LEMMA SweptClosed ==
    ASSUME IInv, NEW c \in Registered, SweptTo(c, handles, heap),
           NEW t, t = DeleteAt(handles, IndexOf(handles, c)),
           NEW hp, SameMarks(heap, hp)
    PROVE  SweptTo(Next1(c), t, hp)
  <1>1. handles \in Seq(Handle) /\ Len(handles) \in Nat
    BY DEF IInv, TypeOK
  <1>2. PICK n \in 1..Len(handles) :
            /\ handles[n] = c /\ n = IndexOf(handles, c)
            /\ n < Len(handles) => Next1(c) = handles[n + 1]
            /\ n = Len(handles) => Next1(c) = NULL
    BY NextOf
  <1>3. \A j \in 1..Len(handles) : handles[j] \in Registered /\ handles[j] \in Handle
    BY <1>1 DEF Registered, SeqRange
  <1>4. \A i \in 1..(n - 1) : hp[handles[i]].resident
    <2>1. \A i \in 1..(n - 1) : heap[handles[i]].resident /\ handles[i] \in Handle
      BY <1>1, <1>2, <1>3 DEF SweptTo
    <2> QED
      BY <2>1 DEF SameMarks
  <1>5. /\ Len(t) = Len(handles) - 1
        /\ \A j \in 1..(Len(handles) - 1) :
               t[j] = IF j < n THEN handles[j] ELSE handles[j + 1]
    BY <1>1, <1>2, DeleteType
  <1>6. \A h \in Registered : h # NULL
    BY NullAssumption, RegisteredType DEF IInv
  <1>7. CASE n < Len(handles)
    <2>1. Next1(c) # NULL
      BY <1>1, <1>2, <1>3, <1>6, <1>7
    <2>2. ASSUME NEW j \in 1..Len(t), t[j] = Next1(c) PROVE j = n
      <3>1. \A i \in 1..Len(handles) : handles[i] = handles[n + 1] => i = n + 1
        BY <1>1, <1>2, <1>7 DEF IInv, ListOK
      <3>2. j \in 1..Len(handles) /\ j + 1 \in 1..Len(handles)
        BY <1>1, <1>5
      <3> QED
        BY <1>1, <1>2, <1>5, <1>7, <2>2, <3>1, <3>2
    <2>3. \A i \in 1..(n - 1) : t[i] = handles[i]
      BY <1>1, <1>2, <1>5
    <2>4. \A i \in 1..(n - 1) : hp[t[i]].resident
      BY <1>4, <2>3
    <2>5. \A j \in 1..Len(t) : t[j] = Next1(c) => \A i \in 1..(j - 1) : hp[t[i]].resident
      BY <2>2, <2>4
    <2> QED
      BY <2>1, <2>5 DEF SweptTo
  <1>8. CASE n = Len(handles)
    <2>1. \A i \in 1..Len(t) : t[i] = handles[i] /\ i \in 1..(n - 1)
      BY <1>1, <1>5, <1>8
    <2>2. \A i \in 1..Len(t) : hp[t[i]].resident
      BY <1>4, <2>1
    <2>3. \A j \in 1..Len(t) : \A i \in 1..(j - 1) : hp[t[i]].resident
      BY <1>1, <1>5, <2>2
    <2> QED
      BY <2>2, <2>3 DEF SweptTo
  <1> QED
    BY <1>1, <1>2, <1>7, <1>8

\* Unlinking another module leaves the sweep where it is.
LEMMA SweptKept ==
    ASSUME IInv, NEW c, SweptTo(c, handles, heap), NEW d, NEW t, NEW hp,
           \A g \in Registered : hp[g].resident = heap[g].resident,
           t = handles \/ (d \in Registered /\ t = DeleteAt(handles, IndexOf(handles, d)))
    PROVE  /\ SweptTo(c, t, hp)
           /\ (\A k \in 1..Len(handles) : heap[handles[k]].resident) =>
                  \A k \in 1..Len(t) : hp[t[k]].resident
  <1>1. handles \in Seq(Handle) /\ Len(handles) \in Nat
    BY DEF IInv, TypeOK
  <1>2. \A j \in 1..Len(handles) : hp[handles[j]].resident = heap[handles[j]].resident
    BY DEF Registered, SeqRange
  <1>3. CASE t = handles
    BY <1>1, <1>2, <1>3 DEF SweptTo
  <1>4. CASE d \in Registered /\ t = DeleteAt(handles, IndexOf(handles, d))
    <2> DEFINE n == IndexOf(handles, d)
               m(j) == IF j < n THEN j ELSE j + 1
    <2>1. n \in 1..Len(handles)
      BY <1>4, IndexProp DEF Registered
    <2>2. /\ Len(t) = Len(handles) - 1
          /\ \A j \in 1..(Len(handles) - 1) :
                 t[j] = IF j < n THEN handles[j] ELSE handles[j + 1]
      BY <1>1, <1>4, <2>1, DeleteType
    <2> HIDE DEF n
    <2>3. \A j \in 1..Len(t) : /\ m(j) \in 1..Len(handles) /\ t[j] = handles[m(j)]
                               /\ \A i \in 1..(j - 1) : m(i) \in 1..(m(j) - 1)
      BY <1>1, <2>1, <2>2
    <2>4. \A j \in 1..Len(t) : \A i \in 1..(j - 1) : i \in 1..Len(t)
      BY <1>1, <2>2
    <2> HIDE DEF m
    <2>5. \A j \in 1..Len(t) : hp[t[j]].resident = heap[handles[m(j)]].resident
      BY <1>2, <2>3
    <2>6. c = NULL => \A j \in 1..Len(t) : hp[t[j]].resident
      BY <2>3, <2>5 DEF SweptTo
    <2>7. ASSUME NEW j \in 1..Len(t), t[j] = c, NEW i \in 1..(j - 1)
          PROVE  hp[t[i]].resident
      <3>1. handles[m(j)] = c /\ m(j) \in 1..Len(handles) /\ m(i) \in 1..(m(j) - 1)
        BY <2>3, <2>7
      <3>2. heap[handles[m(i)]].resident
        BY <3>1 DEF SweptTo
      <3> QED
        BY <2>4, <2>5, <3>2
    <2>8. (\A k \in 1..Len(handles) : heap[handles[k]].resident) =>
              \A k \in 1..Len(t) : hp[t[k]].resident
      BY <2>3, <2>5
    <2> QED
      BY <2>6, <2>7, <2>8 DEF SweptTo
  <1> QED
    BY <1>3, <1>4

LEMMA HeldListedType ==
    ASSUME TypeOK
    PROVE  LedgerTypes(heap, Registered, Reachable, stack, HeldListed)
  <1>1. LedgerTypes(heap, Registered, Reachable, stack, held)
    BY NowTypes
  <1>2. HeldListed \in [Handle -> Nat]
    BY DEF HeldListed, TypeOK
  <1> QED
    BY <1>1, <1>2 DEF LedgerTypes

\* A module whose hold counts is not unlinked.
LEMMA HeldListedKept ==
    ASSUME held' = held, Registered' \subseteq Registered,
           \A h \in Handle \ Registered' : HeldListed[h] = 0
    PROVE  HeldListed' = HeldListed
  <1> DEFINE v(h) == IF h \in Registered THEN held[h] ELSE 0
             w(h) == IF h \in Registered' THEN held[h] ELSE 0
  <1>1. ASSUME NEW h \in Handle PROVE v(h) = w(h)
    BY DEF HeldListed
  <1>2. HeldListed = [h \in Handle |-> v(h)] /\ HeldListed' = [h \in Handle |-> w(h)]
    BY DEF HeldListed
  <1> HIDE DEF v, w
  <1> QED
    BY <1>1, <1>2

LEMMA UnlinkedRange ==
    ASSUME IInv, NEW d \in Registered, handles' = DeleteAt(handles, IndexOf(handles, d))
    PROVE  Registered' = Registered \ {d}
  <1>1. IndexOf(handles, d) \in 1..Len(handles) /\ handles[IndexOf(handles, d)] = d
    BY IndexProp DEF Registered
  <1>2. /\ handles \in Seq(Handle)
        /\ \A i, j \in 1..Len(handles) : handles[i] = handles[j] => i = j
    BY DEF IInv, TypeOK, ListOK
  <1> QED
    BY <1>1, <1>2, DeleteRange DEF Registered

\* A close inside lt_dlexit: of a deplib, or the end of one.
LEMMA ReleaseDepClosing ==
    ASSUME IInv, ClosingInv, ReleaseDep
    PROVE  ClosingInv'
  <1> DEFINE d == Head(heap[Top.h].deplibs)
  <1>1. UNCHANGED <<held, phase, sweep>>
    BY DEF ReleaseDep
  <1>2. SUFFICES ASSUME phase = "closing"
                 PROVE  ClosingInv'
    BY <1>1 DEF ClosingInv
  <1>3. Exiting
    BY <1>2 DEF ClosingInv
  <1>4. /\ d \in Registered
        /\ Ledger(heap', Registered', Reachable', stack', HeldListed, NULL)
    BY <1>3, HeldListedType, ReleaseDepLedger DEF IInv, Exiting
  <1>5. /\ SameMarks(heap, heap')
        /\ handles' = handles \/ handles' = DeleteAt(handles, IndexOf(handles, d))
    BY ReleaseDepEffect
  <1> HIDE DEF d
  <1>6. Registered' \subseteq Registered
    <2>1. UNCHANGED handles => Registered' = Registered
      BY DEF Registered
    <2> QED
      BY <1>4, <1>5, <2>1, UnlinkedRange
  <1>7. HeldListed' = HeldListed
    BY <1>1, <1>4, <1>6, HeldListedKept DEF Ledger
  <1>8. Exiting'
    BY <1>4, <1>7 DEF Exiting
  <1>9. \A g \in Registered : heap'[g].resident = heap[g].resident
    BY <1>5, RegisteredType DEF SameMarks, IInv
  <1>10. /\ SweptTo(sweep.cur, handles', heap')
         /\ (\A k \in 1..Len(handles) : heap[handles[k]].resident) =>
                \A k \in 1..Len(handles') : heap'[handles'[k]].resident
    <2>1. SweptTo(sweep.cur, handles, heap)
      BY <1>2 DEF ClosingInv
    <2> QED
      BY <1>4, <1>5, <1>9, <2>1, SweptKept
  <1> QED
    BY <1>1, <1>2, <1>8, <1>10 DEF ClosingInv

LEMMA DropDoneClosing ==
    ASSUME IInv, ClosingInv, DropDone
    PROVE  ClosingInv'
  <1>1. UNCHANGED <<handles, held, phase, sweep>>
    BY DEF DropDone
  <1>2. SUFFICES ASSUME phase = "closing"
                 PROVE  ClosingInv'
    BY <1>1 DEF ClosingInv
  <1>3. Exiting
    BY <1>2 DEF ClosingInv
  <1>4. Ledger(heap', Registered', Reachable', stack', HeldListed, NULL)
    BY <1>3, HeldListedType, DropDoneLedger DEF IInv, Exiting
  <1>5. Registered' = Registered
    BY <1>1 DEF Registered
  <1>6. HeldListed' = HeldListed
    BY <1>1, <1>5 DEF HeldListed
  <1>7. Exiting'
    BY <1>4, <1>6 DEF Exiting
  <1>8. \A g \in Registered : heap'[g] = heap[g]
    BY DropDoneEffect, PendingApart, RegisteredType DEF IInv
  <1>9. /\ SweptTo(sweep.cur, handles, heap')
        /\ (\A k \in 1..Len(handles) : heap[handles[k]].resident) =>
               \A k \in 1..Len(handles) : heap'[handles[k]].resident
    <2>1. SweptTo(sweep.cur, handles, heap)
      BY <1>2 DEF ClosingInv
    <2> QED
      BY <1>8, <2>1, SweptKept
  <1> QED
    BY <1>1, <1>2, <1>7, <1>9 DEF ClosingInv

\* Steps of the sweep that leave the modules as they are.
LEMMA QuietExiting ==
    ASSUME Exiting, UNCHANGED <<handles, heap, stack, held>>
    PROVE  Exiting'
  <1>1. Registered' = Registered /\ Reachable' = Reachable
    BY DEF Registered, Reachable, Pending
  <1>2. HeldListed' = HeldListed
    BY <1>1 DEF HeldListed
  <1> QED
    BY <1>1, <1>2 DEF Exiting

LEMMA SweepRestartClosing ==
    ASSUME IInv, ClosingInv, SweepRestart
    PROVE  ClosingInv'
  <1>1. /\ UNCHANGED <<handles, heap, stack, held, phase>> /\ phase = "closing"
        /\ sweep' = [sweep EXCEPT !.cur = First(handles)]
    BY DEF SweepRestart, Sweeping
  <1>2. sweep \in [level : Nat, cur : Handle \cup {NULL}, saw : BOOLEAN]
    BY DEF IInv, TypeOK
  <1>3. sweep'.level = sweep.level /\ sweep'.cur = First(handles)
    BY <1>1, <1>2
  <1>4. Exiting'
    BY <1>1, QuietExiting DEF ClosingInv
  <1> QED
    BY <1>1, <1>3, <1>4, SweptFirst DEF ClosingInv

LEMMA SweepNextLevelClosing ==
    ASSUME IInv, ClosingInv, SweepNextLevel
    PROVE  ClosingInv'
  <1>1. /\ UNCHANGED <<handles, heap, stack, held, phase>> /\ phase = "closing"
        /\ sweep' = [level |-> sweep.level + 1, cur |-> First(handles), saw |-> FALSE]
        /\ sweep.cur = NULL
    BY DEF SweepNextLevel, Sweeping
  <1>2. sweep.level \in Nat
    BY DEF IInv, TypeOK
  <1>3. sweep'.level = sweep.level + 1 /\ sweep'.cur = First(handles)
    BY <1>1
  <1>4. Exiting'
    BY <1>1, QuietExiting DEF ClosingInv
  <1>5. \A k \in 1..Len(handles) : heap[handles[k]].resident
    BY <1>1 DEF ClosingInv, SweptTo
  <1> QED
    BY <1>1, <1>2, <1>3, <1>4, <1>5, SweptFirst DEF ClosingInv

\* A resident module has no deplibs.
LEMMA BareResident ==
    ASSUME ResidentsBare, MarkInv, NEW h \in Handle, heap[h].resident
    PROVE  heap[h].deplibs = <<>>
  BY FileAssumption DEF MarkInv, HandleOK, MayStay, MayDepend, ResidentsBare

\* The module the sweep has come to is nobody's deplib.
LEMMA CurIsFree ==
    ASSUME ResidentsBare, IInv, MarkInv, Ordered, stack = <<>>,
           NEW c \in Registered, SweptTo(c, handles, heap)
    PROVE  DepSet(heap, Reachable, c) = {}
  <1>1. handles \in Seq(Handle) /\ Len(handles) \in Nat
    BY DEF IInv, TypeOK
  <1>2. Reachable = Registered
    BY DEF Reachable, Pending
  <1>3. SUFFICES ASSUME NEW p \in DepSet(heap, Registered, c) PROVE FALSE
    BY <1>2
  <1>4. /\ p[1] \in Registered /\ p[2] \in 1..Len(heap[p[1]].deplibs)
        /\ heap[p[1]].deplibs[p[2]] = c
    BY DepPairs
  <1>5. c \in SeqRange(heap[p[1]].deplibs)
    BY <1>4 DEF SeqRange
  <1>6. PICK n \in 1..Len(handles) : handles[n] = c
    BY RangeMember DEF Registered
  <1>7. PICK j \in 1..Len(handles) : handles[j] = p[1]
    BY <1>4, RangeMember DEF Registered
  <1>8. CASE j < n
    <2>1. heap[handles[j]].resident /\ handles[j] \in Handle
      BY <1>1, <1>6, <1>7, <1>8 DEF SweptTo
    <2>2. heap[p[1]].deplibs = <<>>
      BY <1>7, <2>1, BareResident
    <2> QED
      BY <1>4, <2>2
  <1>9. CASE n <= j
    <2>1. n \in 1..j
      BY <1>1, <1>6, <1>7, <1>9
    <2> QED
      BY <1>5, <1>6, <1>7, <2>1 DEF Ordered
  <1> QED
    BY <1>1, <1>6, <1>7, <1>8, <1>9

\* ... so that its count is the client's one hold of it.
LEMMA CurIsHeld ==
    ASSUME ResidentsBare, IInv, MarkInv, Ordered, HeldInv, Exiting, stack = <<>>,
           NEW c \in Registered, SweptTo(c, handles, heap), ~heap[c].resident
    PROVE  heap[c].ref = 1 /\ HeldListed[c] = 1
  <1>1. c \in Handle
    BY RegisteredType DEF IInv
  <1>2. LedgerTypes(heap, Registered, Reachable, stack, HeldListed)
    BY HeldListedType DEF IInv
  <1>3. /\ HeldListed[c] \in Nat /\ heap[c].ref \in Int /\ InHand(c, NULL) = 0
    BY <1>1, <1>2, Numbers
  <1>4. CountIn(heap, Reachable, stack, HeldListed, c, InHand(c, NULL))
    BY DEF Exiting, Ledger
  <1>5. Cardinality(DepSet(heap, Reachable, c)) = 0
    BY CurIsFree, FS_EmptySet
  <1>6. Cardinality(RetSet(stack, c)) = 0
    <2>1. RetSet(stack, c) = {}
      BY DEF RetSet
    <2> QED
      BY <2>1, FS_EmptySet
  <1>7. UsesIn(heap, Reachable, stack, HeldListed, c) = HeldListed[c]
    BY <1>3, <1>5, <1>6 DEF UsesIn
  <1>8. heap[c].ref = HeldListed[c] /\ heap[c].ref > 0
    BY <1>3, <1>4, <1>7 DEF CountIn
  <1>9. HeldListed[c] = held[c] /\ held[c] \in 0..1
    BY <1>1 DEF HeldListed, HeldInv
  <1> QED
    BY <1>8, <1>9

LEMMA SweepSkipClosing ==
    ASSUME ResidentsBare, IInv, MarkInv, Ordered, HeldInv, ClosingInv, SweepSkip
    PROVE  ClosingInv'
  <1> DEFINE c == sweep.cur
  <1>1. /\ UNCHANGED <<handles, heap, stack, held, phase>> /\ phase = "closing"
        /\ stack = <<>> /\ c \in Registered /\ ~Closable(c)
        /\ sweep' = [sweep EXCEPT !.cur = Next1(c), !.saw = @ \/ ~heap[c].resident]
    BY DEF SweepSkip, Sweeping
  <1>2. sweep \in [level : Nat, cur : Handle \cup {NULL}, saw : BOOLEAN]
    BY DEF IInv, TypeOK
  <1>3. sweep'.level = sweep.level /\ sweep'.cur = Next1(c)
    BY <1>1, <1>2
  <1>4. Exiting /\ sweep.level > 0 /\ SweptTo(c, handles, heap)
    BY <1>1 DEF ClosingInv
  <1>5. Exiting'
    BY <1>1, <1>4, QuietExiting
  <1>6. heap[c].resident
    <2>1. SUFFICES ASSUME ~heap[c].resident PROVE FALSE
      OBVIOUS
    <2>2. heap[c].ref = 1
      BY <1>1, <1>4, <2>1, CurIsHeld
    <2> QED
      BY <1>1, <1>2, <1>4, <2>1, <2>2 DEF Closable
  <1> HIDE DEF c
  <1>7. SweptTo(Next1(c), handles, heap)
    BY <1>1, <1>4, <1>6, SweptNext
  <1> QED
    BY <1>1, <1>3, <1>5, <1>7 DEF ClosingInv

LEMMA SweepCloseClosing ==
    ASSUME ResidentsBare, IInv, MarkInv, Ordered, HeldInv, ClosingInv, SweepClose
    PROVE  ClosingInv' /\ errs' = errs
  <1> DEFINE c == sweep.cur
             hd == [HeldListed EXCEPT ![c] = @ - 1]
  <1>1. /\ UNCHANGED <<held, phase>> /\ phase = "closing" /\ stack = <<>>
        /\ c \in Registered /\ Closable(c) /\ Close(c, heap)
        /\ sweep' = [sweep EXCEPT !.cur = Next1(c), !.saw = TRUE]
    BY DEF SweepClose, Sweeping
  <1>2. sweep \in [level : Nat, cur : Handle \cup {NULL}, saw : BOOLEAN]
    BY DEF IInv, TypeOK
  <1>3. sweep'.level = sweep.level /\ sweep'.cur = Next1(c)
    BY <1>1, <1>2
  <1>4. Exiting /\ sweep.level > 0 /\ SweptTo(c, handles, heap) /\ ~heap[c].resident
    BY <1>1 DEF ClosingInv, Closable
  <1>5. heap[c].ref = 1 /\ HeldListed[c] = 1
    BY <1>1, <1>4, CurIsHeld
  <1>6. ~(sweep.level > 1)
    <2>1. \E k \in 1..Len(handles) : handles[k] = c
      BY <1>1, RangeMember DEF Registered
    <2> QED
      BY <1>1, <1>4, <2>1 DEF ClosingInv
  <1>7. c \in Handle /\ LedgerTypes(heap, Registered, Reachable, stack, HeldListed)
    BY <1>1, HeldListedType, RegisteredType DEF IInv
  <1>8. heap \in [Handle -> HandleRec] /\ errs \in BOOLEAN
    BY DEF IInv, TypeOK
  <1> HIDE DEF c
  <1>9. hd \in [Handle -> Nat] /\ Ledger(heap, Registered, Reachable, stack, hd, c)
    <2>1. Ledger(heap, Registered, Reachable, stack, HeldListed, NULL)
      BY <1>4 DEF Exiting
    <2>2. HeldListed[c] > 0
      BY <1>5
    <2>3. /\ [HeldListed EXCEPT ![c] = @ - 1] \in [Handle -> Nat]
          /\ Ledger(heap, Registered, Reachable, stack, [HeldListed EXCEPT ![c] = @ - 1], c)
      BY <1>7, <2>1, <2>2, LedgerSpend, Zenon
    <2> QED
      BY <2>3, Zenon
  <1>10. \A h \in Handle \ {c} : hd[h] = HeldListed[h]
    BY <1>7 DEF LedgerTypes
  <1> HIDE DEF hd
  <1>11. LedgerTypes(heap, Registered, Reachable, stack, hd)
    BY <1>7, <1>9 DEF LedgerTypes
  <1>12. Ledger(heap', Registered', Reachable', stack', hd, NULL)
    BY <1>1, <1>9, <1>11, CloseNow
  <1>13. /\ SameMarks(heap, heap') /\ errs' = errs
         /\ handles' = DeleteAt(handles, IndexOf(handles, c))
    <2>1. SameMarks(heap, heap') /\ errs' = errs
      BY <1>1, <1>4, <1>7, <1>8, CloseEffect
    <2>2. handles' = DeleteAt(handles, IndexOf(handles, c))
      BY <1>1, <1>4, <1>5 DEF Close
    <2> QED
      BY <2>1, <2>2
  <1>14. Registered' = Registered \ {c}
    BY <1>1, <1>13, UnlinkedRange
  <1>15. HeldListed' = hd
    <2> DEFINE w(h) == IF h \in Registered' THEN held[h] ELSE 0
    <2>1. HeldListed' = [h \in Handle |-> w(h)]
      BY <1>1 DEF HeldListed
    <2>2. ASSUME NEW h \in Handle PROVE w(h) = hd[h]
      <3>1. CASE h \in Registered'
        BY <1>10, <1>14, <3>1 DEF HeldListed
      <3>2. CASE h \notin Registered'
        BY <1>12, <3>2 DEF Ledger
      <3> QED
        BY <3>1, <3>2
    <2> HIDE DEF w
    <2>3. hd = [h \in Handle |-> hd[h]]
      BY <1>9
    <2> QED
      BY <2>1, <2>2, <2>3
  <1>16. Exiting'
    BY <1>12, <1>15 DEF Exiting
  <1>17. SweptTo(Next1(c), handles', heap')
    BY <1>1, <1>4, <1>13, SweptClosed
  <1> QED
    BY <1>1, <1>2, <1>3, <1>4, <1>6, <1>13, <1>16, <1>17 DEF ClosingInv

\* The sweep begins at the first module of the list.
LEMMA SweptFrom ==
    ASSUME NEW s \in Seq(Handle), NEW hp,
           \A i, j \in 1..Len(s) : s[i] = s[j] => i = j
    PROVE  SweptTo(First(s), s, hp)
  <1>1. CASE s = <<>>
    BY <1>1 DEF SweptTo
  <1>2. CASE s # <<>>
    <2>1. 1 \in 1..Len(s) /\ First(s) = s[1] /\ s[1] \in Handle
      BY <1>2 DEF First
    <2>2. First(s) # NULL
      BY <2>1, NullAssumption
    <2>3. \A j \in 1..Len(s) : s[j] = First(s) => j = 1
      BY <2>1
    <2> QED
      BY <2>2, <2>3 DEF SweptTo
  <1> QED
    BY <1>1, <1>2

\* lt_dlexit leaves out resident modules only, and those have no deplibs.
LEMMA DlExitClosing ==
    ASSUME ResidentsBare, IInv, ServeInv, MarkInv, Ordered, DlExit
    PROVE  ClosingInv'
  <1>1. /\ phase = "running" /\ stack = <<>> /\ UNCHANGED <<heap, stack, held>>
    BY DEF DlExit, Idle
  <1>2. CASE UNCHANGED phase
    BY <1>1, <1>2 DEF ClosingInv
  <1>3. CASE /\ handles' = StripResidents /\ phase' = "closing"
             /\ sweep' = [level |-> 1, cur |-> First(handles'), saw |-> FALSE]
    <2>1. PICK n \in 1..(Len(handles) + 1) :
              /\ handles' = SubSeq(handles, n, Len(handles))
              /\ \A j \in 1..(n - 1) : heap[handles[j]].resident
      BY <1>3, StripEffect
    <2>2. handles \in Seq(Handle) /\ Len(handles) \in Nat
      BY DEF IInv, TypeOK
    <2>3. /\ handles' \in Seq(Handle) /\ Len(handles') = Len(handles) - n + 1
          /\ \A j \in 1..Len(handles') : handles'[j] = handles[n + j - 1]
      BY <2>1, <2>2
    <2>4. \A i, j \in 1..Len(handles) : handles[i] = handles[j] => i = j
      BY DEF IInv, ListOK
    <2>5. \A i, j \in 1..Len(handles') : handles'[i] = handles'[j] => i = j
      BY <2>2, <2>3, <2>4
    <2>6. Registered' \subseteq Registered
      <3>1. \A j \in 1..Len(handles') : n + j - 1 \in 1..Len(handles)
        BY <2>2, <2>3
      <3> QED
        BY <2>3, <3>1 DEF Registered, SeqRange
    <2>7. \A j \in n..Len(handles) : handles[j] \in Registered'
      <3>1. \A j \in n..Len(handles) :
                j - n + 1 \in 1..Len(handles') /\ handles'[j - n + 1] = handles[j]
        BY <2>2, <2>3
      <3> QED
        BY <3>1 DEF Registered, SeqRange
    <2>8. ASSUME NEW g \in Registered'
          PROVE  \E j \in n..Len(handles) : handles[j] = g
      <3>1. PICK k \in 1..Len(handles') : handles'[k] = g
        BY RangeMember DEF Registered
      <3>2. n + k - 1 \in n..Len(handles) /\ handles[n + k - 1] = g
        BY <2>2, <2>3, <3>1
      <3> QED
        BY <3>2
    <2>9. \A g \in Registered \ Registered' : heap[g].deplibs = <<>>
      <3> SUFFICES ASSUME NEW g \in Registered \ Registered'
                   PROVE  heap[g].deplibs = <<>>
        OBVIOUS
      <3>1. PICK j \in 1..Len(handles) : handles[j] = g
        BY RangeMember DEF Registered
      <3>2. j \in 1..(n - 1)
        BY <2>2, <2>7, <3>1
      <3>3. heap[g].resident /\ g \in Handle
        BY <2>1, <3>1, <3>2, RegisteredType DEF IInv
      <3> QED
        BY <3>3, BareResident
    <2>10. Reachable = Registered /\ Reachable' = Registered'
      BY <1>1 DEF Reachable, Pending
    <2>11. Ledger(heap, Registered, Registered, stack, held, NULL)
      BY <1>1, <2>10 DEF ServeInv, Serving
    <2>12. \A g \in Registered' : SeqRange(heap[g].deplibs) \subseteq Registered'
      <3> SUFFICES ASSUME NEW g \in Registered', NEW d \in SeqRange(heap[g].deplibs)
                   PROVE  d \in Registered'
        OBVIOUS
      <3>1. d \in Registered
        BY <2>6, <2>11 DEF Ledger
      <3>2. PICK i \in 1..Len(handles) : handles[i] = d
        BY <3>1, RangeMember DEF Registered
      <3>3. PICK j \in n..Len(handles) : handles[j] = g
        BY <2>8
      <3>4. j \in 1..Len(handles)
        BY <2>2, <3>3
      <3>5. ~(i \in 1..j)
        BY <3>2, <3>3, <3>4 DEF Ordered
      <3>6. i \in n..Len(handles)
        BY <2>2, <3>2, <3>3, <3>4, <3>5
      <3> QED
        BY <2>7, <3>2, <3>6
    <2>13. ASSUME NEW h \in Registered'
           PROVE  CountIn(heap, Registered', stack, HeldListed', h, InHand(h, NULL))
      <3>1. CountIn(heap, Registered, stack, held, h, InHand(h, NULL))
        BY <2>6, <2>11 DEF Ledger
      <3>2. DepSet(heap, Registered', h) = DepSet(heap, Registered, h)
        BY <2>6, <2>9, DepsSame
      <3>3. HeldListed'[h] = held[h]
        BY <1>1, <2>6, RegisteredType DEF HeldListed, IInv
      <3>4. UsesIn(heap, Registered', stack, HeldListed', h) =
                UsesIn(heap, Registered, stack, held, h)
        BY <3>2, <3>3 DEF UsesIn
      <3> QED
        BY <3>1, <3>2, <3>4 DEF CountIn
    <2>14. Exiting'
      <3>1. \A h \in Handle \ Registered' : HeldListed'[h] = 0
        BY DEF HeldListed
      <3>2. Ledger(heap, Registered', Registered', stack, HeldListed', NULL)
        BY <1>1, <2>12, <2>13, <3>1 DEF Ledger
      <3> QED
        BY <1>1, <2>10, <3>2 DEF Exiting
    <2>15. SweptTo(First(handles'), handles', heap')
      BY <2>3, <2>5, SweptFrom
    <2>16. sweep'.cur = First(handles') /\ sweep'.level = 1
      BY <1>3
    <2> QED
      BY <2>14, <2>15, <2>16 DEF ClosingInv
  <1> QED
    BY <1>2, <1>3 DEF DlExit

LEMMA ClosingNext ==
    ASSUME ResidentsBare, IInv, ServeInv, OffInv, MarkInv, CallsInv, Ordered, HeldInv,
           ClosingInv, [Next]_vars
    PROVE  ClosingInv'
  <1>1. CASE UNCHANGED vars
    <2>1. /\ UNCHANGED <<handles, heap, stack, held, phase, sweep>>
      BY <1>1 DEF vars
    <2>2. Exiting => Exiting'
      BY <2>1, QuietExiting
    <2> QED
      BY <2>1, <2>2 DEF ClosingInv
  <1>2. CASE phase' # "closing"
    BY <1>2 DEF ClosingInv
  <1>3. CASE Client
    <2>1. CASE DlExit
      BY <2>1, DlExitClosing
    <2>2. DlInit => phase' # "closing"
      BY DEF DlInit
    <2>3. \A l \in LoaderName : LoaderRemove(l) \/ LoaderAdd(l) => phase' # "closing"
      BY DEF LoaderRemove, LoaderAdd, Idle
    <2>4. \A h \in Handle : ClientClose(h) \/ MakeResident(h) => phase' # "closing"
      BY DEF ClientClose, MakeResident, Idle
    <2>5. \A f \in ClientFiles, adv \in Advice : ClientOpen(f, adv) => phase' # "closing"
      BY DEF ClientOpen, Idle
    <2> QED
      BY <1>2, <1>3, <2>1, <2>2, <2>3, <2>4, <2>5 DEF Client
  <1>4. CASE OpenStep \/ UndoDone
    <2>1. stack # <<>> /\ Top.op # "drop" /\ UNCHANGED phase
      BY <1>4 DEF OpenStep, LoadDep, SkipDep, FindExisting, LoaderOpens, OpenFails, UndoDone,
                  Running, Top
    <2> QED
      BY <1>2, <2>1, RunningCalls
  <1>5. CASE ReleaseDep \/ DropDone
    BY <1>5, ReleaseDepClosing, DropDoneClosing
  <1>6. CASE InitStep
    <2>1. phase' # "closing"
      BY <1>6 DEF InitStep, BootLoader, BootLoaderFails, BootDone
    <2> QED
      BY <1>2, <2>1
  <1>7. CASE ExitStep
    <2>1. SweepDone => phase' # "closing"
      BY DEF SweepDone
    <2> QED
      BY <1>2, <1>7, <2>1, SweepRestartClosing, SweepSkipClosing, SweepCloseClosing,
         SweepNextLevelClosing DEF ExitStep
  <1>8. CASE LoaderStep
    <2>1. phase' # "closing"
      BY <1>8 DEF LoaderStep, KeepLoader, RemoveFails, FreeLoader, StaleLoader, ExitDone, ExitingLoader
    <2> QED
      BY <1>2, <2>1
  <1> QED
    BY <1>1, <1>3, <1>4, <1>5, <1>6, <1>7, <1>8 DEF Next, Internal, CloseStep

(***************************************************************************)
(* The theorems about lt_dlexit.                                           *)
(***************************************************************************)
ExitInv == CountInv /\ MarkInv /\ CallsInv /\ Ordered /\ HeldInv /\ ClosingInv

LEMMA ExitInit == Init => ExitInv
  <1>1. SUFFICES ASSUME Init PROVE ExitInv
    OBVIOUS
  <1>2. CountInv /\ MarkInv
    BY <1>1, InitInv, CountInit, MarkInit DEF CountInv
  <1>3. stack = <<>> /\ handles = <<>> /\ phase = "off" /\ held = [h \in Handle |-> 0]
    BY <1>1 DEF Init
  <1>4. CallsInv /\ Ordered /\ ClosingInv
    BY <1>3 DEF CallsInv, Ordered, ClosingInv
  <1>5. \A h \in Handle : held[h] \in 0..1
    BY <1>3
  <1>6. HeldInv
    BY <1>3, <1>5 DEF HeldInv, Serving
  <1> QED
    BY <1>2, <1>4, <1>6 DEF ExitInv

LEMMA ExitNext ==
    ASSUME OpenedOnce, ResidentsBare, ExitInv, [Next]_vars
    PROVE  ExitInv'
  <1>1. IInv /\ ServeInv /\ OffInv /\ MarkInv /\ CallsInv /\ Ordered /\ HeldInv /\ ClosingInv
    BY DEF ExitInv, CountInv
  <1>2. IInv'
    BY <1>1, NextInv
  <1>3. CountInv'
    BY <1>1, <1>2, CountNext DEF CountInv
  <1>4. MarkInv' /\ Ordered' /\ CallsInv' /\ HeldInv' /\ ClosingInv'
    BY <1>1, <1>2, MarkNext, OrderedNext, CallsNext, HeldNext, ClosingNext
  <1> QED
    BY <1>3, <1>4 DEF ExitInv

\* While lt_dlexit closes the modules, level by level, every deplib of a module
\* that is still listed is still open: unload_deplibs finds none closed before.
THEOREM ExitInOrder ==
    ASSUME OpenedOnce, ResidentsBare
    PROVE  Spec => []DepsOpenAtExit
  <1>1. ExitInv => DepsOpenAtExit
    BY DEF ExitInv, ClosingInv, Exiting, Ledger, DepsOpenAtExit, Reachable
  <1>2. ExitInv /\ [Next]_vars => ExitInv'
    BY ExitNext
  <1> QED
    BY <1>1, <1>2, ExitInit, PTL DEF Spec

(***************************************************************************)
(* What lt_dlexit leaves behind.  A handle in memory that no list and no   *)
(* call knows is a resident module's.                                      *)
(***************************************************************************)
LiveInv == \A h \in Handle : heap[h].live => heap[h].resident \/ h \in Reachable

LEMMA LiveKept ==
    ASSUME LiveInv,
           \A g \in Handle \ Reachable' :
               heap'[g].live => heap[g].live /\ (heap[g].resident => heap'[g].resident),
           \A g \in Handle \cap (Reachable \ Reachable') :
               heap'[g].live => heap'[g].resident
    PROVE  LiveInv'
  BY Zenon DEF LiveInv

LEMMA LiveMarks ==
    ASSUME LiveInv, SameMarks(heap, heap'), Reachable \subseteq Reachable'
    PROVE  LiveInv'
  BY Zenon DEF LiveInv, SameMarks

LEMMA TopPending ==
    ASSUME IInv, stack # <<>>
    PROVE  Below \in Seq(Frame) /\ Pending = {Top.h} \cup HandlesOf(Below)
  <1>1. stack \in Seq(Frame) /\ Below \in Seq(Frame)
    BY TailType DEF IInv, TypeOK, Below
  <1>2. Pending = HandlesOf(stack)
    BY DEF Pending, HandlesOf
  <1> QED
    BY <1>1, <1>2, PopHandles DEF Top, Below

LEMMA BeginOpenLive ==
    ASSUME IInv, LiveInv, UNCHANGED handles, NEW f \in File, NEW adv \in Advice,
           BeginOpen(f, adv)
    PROVE  LiveInv'
  <1>1. PICK h \in Handle :
            /\ \A g \in Handle \ {h} : heap'[g] = heap[g]
            /\ stack' = <<LoadFrame(h, f, adv)>> \o stack
    BY BeginOpenEffect
  <1>2. LoadFrame(h, f, adv) \in Frame /\ LoadFrame(h, f, adv).h = h
    BY LoadFrameType
  <1>3. Pending' = {h} \cup Pending
    BY <1>1, <1>2, PushPending DEF IInv, TypeOK
  <1>4. Reachable' = Reachable \cup {h}
    BY <1>3 DEF Reachable, Registered
  <1> QED
    BY <1>1, <1>4, LiveKept

LEMMA UndoLive ==
    ASSUME IInv, LiveInv, stack # <<>>, NEW r \in Handle \cup {NULL},
           stack' = <<UndoFrame(Top.h, r)>> \o Below,
           SameMarks(heap, heap'), UNCHANGED handles
    PROVE  LiveInv'
  <1>1. Below \in Seq(Frame) /\ Pending = {Top.h} \cup HandlesOf(Below)
    BY TopPending
  <1>2. UndoFrame(Top.h, r) \in Frame /\ UndoFrame(Top.h, r).h = Top.h
    BY TopFacts, FrameType DEF IInv
  <1>3. HandlesOf(stack') = {Top.h} \cup HandlesOf(Below)
    BY <1>1, <1>2, PushHandles
  <1>4. Pending' = Pending
    BY <1>1, <1>3 DEF Pending, HandlesOf
  <1>5. Reachable' = Reachable
    BY <1>4 DEF Reachable, Registered
  <1> QED
    BY <1>5, LiveMarks

\* A call returns: its handle is listed, or freed.
LEMMA ReturnLive ==
    ASSUME IInv, LiveInv, stack # <<>>, NEW r \in Handle \cup {NULL},
           NEW hp \in [Handle -> HandleRec], Return(r, hp),
           \A g \in Handle \ {Top.h} : hp[g] = heap[g],
           Top.h \in Registered' \/ ~hp[Top.h].live,
           Registered \subseteq Registered'
    PROVE  LiveInv'
  <1>1. Below \in Seq(Frame) /\ Pending = {Top.h} \cup HandlesOf(Below)
    BY TopPending
  <1>2. /\ SameMarks(hp, heap') /\ Len(stack') = Len(Below)
        /\ \A k \in 1..Len(Below) : stack'[k].h = Below[k].h
    BY ReturnEffect
  <1>3. Pending' = HandlesOf(Below)
    BY <1>2 DEF Pending, HandlesOf
  <1>4. Reachable \subseteq Reachable' \cup {Top.h}
    BY <1>1, <1>3 DEF Reachable
  <1>5. Top.h \in Reachable' \/ ~heap'[Top.h].live
    <2>1. Top.h \in Handle
      BY TopFacts DEF IInv
    <2>2. heap'[Top.h].live = hp[Top.h].live
      BY <1>2, <2>1 DEF SameMarks
    <2> QED
      BY <2>2 DEF Reachable
  <1>6. ASSUME NEW g \in Handle \ {Top.h}
        PROVE  heap'[g].live = heap[g].live /\ heap'[g].resident = heap[g].resident
    BY <1>2 DEF SameMarks
  <1> QED
    BY <1>4, <1>5, <1>6, LiveKept, Zenon

LEMMA CloseLive ==
    ASSUME IInv, LiveInv, NEW d \in Handle, SameMarks(heap, heap'),
           \/ UNCHANGED <<handles, stack>>
           \/ /\ d \in Registered /\ handles' = DeleteAt(handles, IndexOf(handles, d))
              /\ stack' = <<DropFrame(d)>> \o stack
    PROVE  LiveInv'
  <1>1. CASE UNCHANGED <<handles, stack>>
    <2>1. Reachable' = Reachable
      BY <1>1 DEF Reachable, Registered, Pending
    <2> QED
      BY <2>1, LiveMarks
  <1>2. CASE /\ d \in Registered /\ handles' = DeleteAt(handles, IndexOf(handles, d))
             /\ stack' = <<DropFrame(d)>> \o stack
    <2>1. Registered' = Registered \ {d}
      BY <1>2, UnlinkedRange
    <2>2. Pending' = {d} \cup Pending
      <3>1. DropFrame(d) \in Frame /\ DropFrame(d).h = d /\ stack \in Seq(Frame)
        BY FrameType DEF IInv, TypeOK
      <3> QED
        BY <1>2, <3>1, PushPending
    <2>3. Reachable \subseteq Reachable'
      BY <2>1, <2>2 DEF Reachable
    <2> QED
      BY <2>3, LiveMarks
  <1> QED
    BY <1>1, <1>2

LEMMA FirstCloseLive ==
    ASSUME IInv, LiveInv, NEW h \in Handle, Close(h, heap)
    PROVE  LiveInv'
  <1>1. heap \in [Handle -> HandleRec] /\ errs \in BOOLEAN
    BY DEF IInv, TypeOK
  <1> QED
    BY <1>1, CloseEffect, CloseLive

LEMMA FindExistingLive ==
    ASSUME IInv, LiveInv, FindExisting
    PROVE  LiveInv'
  <1>1. PICK e \in Registered :
            /\ e \in Handle /\ SameMarks(heap, heap')
            /\ stack' = <<UndoFrame(Top.h, e)>> \o Below
    BY FindExistingEffect
  <1>2. stack # <<>> /\ UNCHANGED handles
    BY DEF FindExisting, Running
  <1> QED
    BY <1>1, <1>2, UndoLive

LEMMA OpenFailsLive ==
    ASSUME IInv, LiveInv, OpenFails
    PROVE  LiveInv'
  <1>1. /\ stack # <<>> /\ UNCHANGED <<handles, heap>>
        /\ stack' = <<UndoFrame(Top.h, NULL)>> \o Below
    BY DEF OpenFails, Running
  <1>2. SameMarks(heap, heap')
    BY <1>1 DEF SameMarks
  <1> QED
    BY <1>1, <1>2, UndoLive

LEMMA SkipDepLive ==
    ASSUME IInv, LiveInv, SkipDep
    PROVE  LiveInv'
  <1>1. /\ stack # <<>> /\ stack' = [stack EXCEPT ![1].todo = @ - 1]
        /\ UNCHANGED <<handles, heap>> /\ stack \in Seq(Frame)
    BY DEF SkipDep, Running, IInv, TypeOK
  <1>2. Len(stack') = Len(stack) /\ \A k \in 1..Len(stack) : stack'[k].h = stack[k].h
    BY <1>1, CountDown
  <1>3. Reachable' = Reachable
    BY <1>1, <1>2 DEF Reachable, Registered, Pending
  <1>4. SameMarks(heap, heap')
    BY <1>1 DEF SameMarks
  <1> QED
    BY <1>3, <1>4, LiveMarks

LEMMA LoaderOpensLive ==
    ASSUME IInv, LiveInv, LoaderOpens
    PROVE  LiveInv'
  <1>1. /\ stack # <<>> /\ Top.h \in Handle
        /\ handles' = <<Top.h>> \o handles
    BY LoaderOpensEffect
  <1>2. PICK hp \in [Handle -> HandleRec] :
            Return(Top.h, hp) /\ \A g \in Handle \ {Top.h} : hp[g] = heap[g]
    BY LoaderOpensEffect
  <1>3. Registered' = {Top.h} \cup Registered
    BY <1>1, PushRange DEF Registered, IInv, TypeOK
  <1>4. Top.h \in Registered' /\ Registered \subseteq Registered'
    BY <1>3
  <1>5. \A g \in Handle \ {Top.h} : hp[g] = heap[g]
    BY <1>2
  <1> QED
    BY <1>1, <1>2, <1>4, <1>5, ReturnLive

LEMMA UndoDoneLive ==
    ASSUME IInv, LiveInv, UndoDone
    PROVE  LiveInv'
  <1>1. /\ stack # <<>> /\ Top.ret \in Handle \cup {NULL} /\ Return(Top.ret, Free(Top.h))
        /\ Free(Top.h) \in [Handle -> HandleRec] /\ Free(Top.h)[Top.h] = Freed
        /\ \A g \in Handle \ {Top.h} : Free(Top.h)[g] = heap[g]
    BY UndoDoneEffect
  <1>2. ~Free(Top.h)[Top.h].live
    BY <1>1, FreedOK
  <1>3. Registered' = Registered
    BY DEF UndoDone, Registered
  <1> QED
    BY <1>1, <1>2, <1>3, ReturnLive

LEMMA DropDoneLive ==
    ASSUME IInv, LiveInv, DropDone
    PROVE  LiveInv'
  <1>1. /\ stack # <<>> /\ stack' = Below /\ heap'[Top.h] = Freed
        /\ \A g \in Handle \ {Top.h} : heap'[g] = heap[g]
    BY DropDoneEffect
  <1>2. Pending = {Top.h} \cup HandlesOf(Below)
    BY <1>1, TopPending
  <1>3. Pending' = HandlesOf(Below) /\ Registered' = Registered
    BY <1>1 DEF Pending, HandlesOf, Registered, DropDone
  <1>4. ~heap'[Top.h].live
    BY <1>1, FreedOK
  <1> QED
    BY <1>1, <1>2, <1>3, <1>4, LiveKept DEF Reachable

LEMMA MakeResidentLive ==
    ASSUME IInv, LiveInv, NEW h \in Handle, MakeResident(h)
    PROVE  LiveInv'
  <1>1. /\ \A g \in Handle \ {h} : heap'[g] = heap[g]
        /\ heap'[h].live = heap[h].live /\ heap'[h].resident
        /\ UNCHANGED <<handles, stack>>
    BY MakeResidentEffect
  <1>2. Reachable' = Reachable
    BY <1>1 DEF Reachable, Registered, Pending
  <1> QED
    BY <1>1, <1>2, LiveKept

LEMMA BootLoaderLive ==
    ASSUME IInv, LiveInv, BootLoader
    PROVE  LiveInv'
  <1>1. PICK h \in Handle :
            /\ \A g \in Handle \ {h} : heap'[g] = heap[g]
            /\ handles' = <<h>> \o handles
    BY BootLoaderEffect
  <1>2. Registered' = {h} \cup Registered
    BY <1>1, PushRange DEF Registered, IInv, TypeOK
  <1>3. Pending' = Pending
    BY DEF BootLoader, Pending
  <1>4. Reachable' = Reachable \cup {h}
    BY <1>2, <1>3 DEF Reachable
  <1> QED
    BY <1>1, <1>4, LiveKept

\* lt_dlexit leaves out resident modules.
LEMMA DlExitLive ==
    ASSUME IInv, LiveInv, DlExit
    PROVE  LiveInv'
  <1>1. UNCHANGED <<heap, stack>> /\ (UNCHANGED handles \/ handles' = StripResidents)
    BY DEF DlExit
  <1>2. SameMarks(heap, heap')
    BY <1>1 DEF SameMarks
  <1>3. Pending' = Pending
    BY <1>1 DEF Pending
  <1>4. CASE UNCHANGED handles
    <2>1. Reachable' = Reachable
      BY <1>3, <1>4 DEF Reachable, Registered
    <2> QED
      BY <1>2, <2>1, LiveMarks
  <1>5. CASE handles' = StripResidents
    <2>1. PICK n \in 1..(Len(handles) + 1) :
              /\ handles' = SubSeq(handles, n, Len(handles))
              /\ \A j \in 1..(n - 1) : heap[handles[j]].resident
      BY <1>5, StripEffect
    <2>2. handles \in Seq(Handle) /\ Len(handles) \in Nat
      BY DEF IInv, TypeOK
    <2>3. \A j \in n..Len(handles) :
              j - n + 1 \in 1..Len(handles') /\ handles'[j - n + 1] = handles[j]
      BY <2>1, <2>2
    <2>4. ASSUME NEW g \in Registered \ Registered' PROVE heap[g].resident
      <3>1. PICK j \in 1..Len(handles) : handles[j] = g
        BY RangeMember DEF Registered
      <3>2. CASE j \in n..Len(handles)
        BY <2>3, <3>1, <3>2 DEF Registered, SeqRange
      <3>3. CASE j \in 1..(n - 1)
        BY <2>1, <3>1, <3>3
      <3> QED
        BY <2>2, <3>1, <3>2, <3>3
    <2>5. \A g \in Reachable \ Reachable' : g \in Registered \ Registered'
      BY <1>3 DEF Reachable
    <2> QED
      BY <1>1, <2>4, <2>5, LiveKept
  <1> QED
    BY <1>1, <1>4, <1>5

(***************************************************************************)
(* The list of loaders: once lt_dlexit is at it, every module that is      *)
(* still listed is resident, and the loaders it has passed have users.     *)
(***************************************************************************)
LoaderInv ==
    /\ LoaderNamesUnique
    /\ \A k \in 1..Len(loaders) : loaders[k].live
    /\ phase = "boot" => \A k \in 1..Len(loaders) :
           \/ loaders[k].name = Preopen
           \/ \E j \in 1..Len(LinkedLoaders) : j < pos /\ loaders[k].name = LinkedLoaders[j]
    /\ phase \in {"loaders", "off"} => \A h \in Registered : heap[h].resident
    /\ phase = "loaders" => \A k \in 1..Len(loaders) :
           k < pos => Users(loaders[k].name) # {}
    /\ phase = "off" => \A k \in 1..Len(loaders) : Users(loaders[k].name) # {}
    /\ sessions = 0 => loaders = <<>> /\ phase = "off"
    /\ ~errs

LEMMA LoaderQuiet ==
    ASSUME LoaderInv, UNCHANGED <<loaders, sessions>>, phase # "off",
           phase' \in {"running", "closing"}, ~errs'
    PROVE  LoaderInv'
  BY DEF LoaderInv, LoaderNamesUnique

LEMMA AddLoaderUnique ==
    ASSUME TypeOK, LoaderInv, NEW l \in LoaderName,
           \A k \in 1..Len(loaders) : loaders[k].name # l,
           loaders' = AddLoader(l)
    PROVE  /\ LoaderNamesUnique' /\ \A k \in 1..Len(loaders') : loaders'[k].live
           /\ \A k \in 1..Len(loaders') : \/ loaders'[k].name = l
                  \/ \E j \in 1..Len(loaders) : loaders'[k] = loaders[j]
  <1>1. loaders \in Seq(LoaderItem) /\ Item(l) \in LoaderItem /\ Len(loaders) \in Nat
    BY DEF TypeOK, LoaderItem, Item
  <1>2. Item(l).name = l /\ Item(l).live
    BY DEF Item
  <1>3. \A j, k \in 1..Len(loaders) : loaders[j].name = loaders[k].name => j = k
    BY DEF LoaderInv, LoaderNamesUnique
  <1>4. CASE loaders' = Append(loaders, Item(l))
    <2>1. /\ Len(loaders') = Len(loaders) + 1 /\ loaders'[Len(loaders) + 1] = Item(l)
          /\ \A k \in 1..Len(loaders) : loaders'[k] = loaders[k]
      BY <1>1, <1>4
    <2>2. \A k \in 1..Len(loaders') : k \in 1..Len(loaders) \/ k = Len(loaders) + 1
      BY <1>1, <2>1
    <2>3. ASSUME NEW j \in 1..Len(loaders'), NEW k \in 1..Len(loaders'),
                 loaders'[j].name = loaders'[k].name
          PROVE  j = k
      BY <1>2, <1>3, <2>1, <2>2, <2>3
    <2>4. \A k \in 1..Len(loaders') : loaders'[k].live
      BY <1>2, <2>1, <2>2 DEF LoaderInv
    <2>5. \A k \in 1..Len(loaders') : \/ loaders'[k].name = l
              \/ \E j \in 1..Len(loaders) : loaders'[k] = loaders[j]
      BY <1>2, <2>1, <2>2
    <2> QED
      BY <2>3, <2>4, <2>5 DEF LoaderNamesUnique
  <1>5. CASE loaders' = <<Item(l)>> \o loaders
    <2>1. /\ Len(loaders') = Len(loaders) + 1 /\ loaders'[1] = Item(l)
          /\ \A k \in 2..(Len(loaders) + 1) : loaders'[k] = loaders[k - 1]
      BY <1>1, <1>5, PushType
    <2>2. \A k \in 1..Len(loaders') :
              k = 1 \/ (k - 1 \in 1..Len(loaders) /\ loaders'[k] = loaders[k - 1])
      BY <1>1, <2>1
    <2>3. ASSUME NEW j \in 1..Len(loaders'), NEW k \in 1..Len(loaders'),
                 loaders'[j].name = loaders'[k].name
          PROVE  j = k
      <3>1. CASE j = 1 /\ k = 1
        BY <3>1
      <3>2. CASE j = 1 /\ k # 1
        <4>1. k - 1 \in 1..Len(loaders) /\ loaders'[k] = loaders[k - 1]
          BY <2>2, <3>2
        <4>2. loaders[k - 1].name = l
          BY <1>2, <2>1, <2>3, <3>2, <4>1
        <4> QED
          BY <4>1, <4>2
      <3>3. CASE j # 1 /\ k = 1
        <4>1. j - 1 \in 1..Len(loaders) /\ loaders'[j] = loaders[j - 1]
          BY <2>2, <3>3
        <4>2. loaders[j - 1].name = l
          BY <1>2, <2>1, <2>3, <3>3, <4>1
        <4> QED
          BY <4>1, <4>2
      <3>4. CASE j # 1 /\ k # 1
        <4>1. /\ j - 1 \in 1..Len(loaders) /\ loaders'[j] = loaders[j - 1]
              /\ k - 1 \in 1..Len(loaders) /\ loaders'[k] = loaders[k - 1]
          BY <2>2, <3>4
        <4>2. j - 1 = k - 1
          BY <1>3, <2>3, <4>1
        <4>3. j \in Nat /\ k \in Nat
          BY <1>1, <2>1
        <4> QED
          BY <4>2, <4>3
      <3> QED
        BY <3>1, <3>2, <3>3, <3>4
    <2>4. \A k \in 1..Len(loaders') : loaders'[k].live
      BY <1>2, <2>1, <2>2 DEF LoaderInv
    <2>5. \A k \in 1..Len(loaders') : \/ loaders'[k].name = l
              \/ \E j \in 1..Len(loaders) : loaders'[k] = loaders[j]
      BY <1>2, <2>1, <2>2
    <2> QED
      BY <2>3, <2>4, <2>5 DEF LoaderNamesUnique
  <1> QED
    BY <1>4, <1>5 DEF AddLoader

\* slist_remove takes out one item: the first of the name.
LEMMA RemoveLoaderAt ==
    ASSUME TypeOK, LoaderInv, NEW l, NEW n \in 1..Len(loaders), loaders[n].name = l
    PROVE  RemoveLoader(l) = DeleteAt(loaders, n)
  <1> DEFINE P(k) == /\ loaders[k].name = l
                     /\ \A j \in 1..(k - 1) : loaders[j].name # l
             m == CHOOSE k \in 1..Len(loaders) : P(k)
  <1>1. loaders \in Seq(LoaderItem) /\ Len(loaders) \in Nat
    BY DEF TypeOK, LoaderItem
  <1>2. \A j, k \in 1..Len(loaders) : loaders[j].name = loaders[k].name => j = k
    BY DEF LoaderInv, LoaderNamesUnique
  <1>3. P(n)
    <2>1. ASSUME NEW j \in 1..(n - 1) PROVE loaders[j].name # l
      <3>1. j \in 1..Len(loaders) /\ j # n
        BY <1>1
      <3> QED
        BY <1>2, <3>1
    <2> QED
      BY <2>1
  <1>4. m \in 1..Len(loaders) /\ P(m)
    <2> HIDE DEF P
    <2> QED
      BY <1>3
  <1>5. m = n
    BY <1>2, <1>4
  <1> QED
    BY <1>5 DEF RemoveLoader

LEMMA RemoveLoaderUnique ==
    ASSUME TypeOK, LoaderInv, NEW n \in 1..Len(loaders),
           NEW t, t = DeleteAt(loaders, n)
    PROVE  /\ t \in Seq(LoaderItem) /\ Len(t) = Len(loaders) - 1
           /\ \A j, k \in 1..Len(t) : t[j].name = t[k].name => j = k
           /\ \A k \in 1..Len(t) : t[k].live /\ t[k].name # loaders[n].name
           /\ \A k \in 1..Len(t) : k < n => t[k] = loaders[k]
  <1>1. loaders \in Seq(LoaderItem) /\ Len(loaders) \in Nat
    BY DEF TypeOK, LoaderItem
  <1>2. \A j, k \in 1..Len(loaders) : loaders[j].name = loaders[k].name => j = k
    BY DEF LoaderInv, LoaderNamesUnique
  <1>3. /\ t \in Seq(LoaderItem) /\ Len(t) = Len(loaders) - 1
        /\ \A j \in 1..(Len(loaders) - 1) :
               t[j] = IF j < n THEN loaders[j] ELSE loaders[j + 1]
    BY <1>1, DeleteType
  <1> DEFINE at(j) == IF j < n THEN j ELSE j + 1
  <1>4. \A j \in 1..Len(t) : at(j) \in 1..Len(loaders) /\ at(j) # n /\ t[j] = loaders[at(j)]
    BY <1>1, <1>3
  <1>5. \A j, k \in 1..Len(t) : at(j) = at(k) => j = k
    BY <1>1, <1>3
  <1> HIDE DEF at
  <1>6. ASSUME NEW j \in 1..Len(t), NEW k \in 1..Len(t), t[j].name = t[k].name
        PROVE  j = k
    <2>1. loaders[at(j)].name = loaders[at(k)].name
      BY <1>4, <1>6
    <2>2. at(j) = at(k)
      BY <1>2, <1>4, <2>1
    <2> QED
      BY <1>5, <2>2
  <1>7. \A k \in 1..Len(t) : t[k].live /\ t[k].name # loaders[n].name
    BY <1>2, <1>4 DEF LoaderInv
  <1> QED
    BY <1>1, <1>3, <1>6, <1>7

LEMMA LoadersSame ==
    ASSUME LoaderInv, UNCHANGED <<handles, heap, loaders, phase, pos, sessions, errs>>
    PROVE  LoaderInv'
  <1>1. Registered' = Registered
    BY DEF Registered
  <1>2. \A l : Users(l)' = Users(l)
    BY <1>1 DEF Users
  <1> QED
    BY <1>1, <1>2 DEF LoaderInv, LoaderNamesUnique

LEMMA LoaderAddLoaders ==
    ASSUME IInv, LoaderInv, NEW l \in LoaderName, LoaderAdd(l)
    PROVE  LoaderInv'
  <1>1. /\ UNCHANGED <<phase, sessions, errs>> /\ phase = "running"
        /\ loaders' = AddLoader(l) /\ \A k \in 1..Len(loaders) : loaders[k].name # l
    BY DEF LoaderAdd, Idle
  <1>2. LoaderNamesUnique' /\ \A k \in 1..Len(loaders') : loaders'[k].live
    BY <1>1, AddLoaderUnique DEF IInv
  <1> QED
    BY <1>1, <1>2 DEF LoaderInv

LEMMA LoaderRemoveLoaders ==
    ASSUME IInv, LoaderInv, NEW l \in LoaderName, LoaderRemove(l)
    PROVE  LoaderInv'
  <1>1. /\ UNCHANGED <<phase, sessions, errs>> /\ phase = "running"
        /\ loaders' = RemoveLoader(l) /\ \E k \in 1..Len(loaders) : loaders[k].name = l
    BY DEF LoaderRemove, Idle
  <1>2. PICK n \in 1..Len(loaders) : loaders[n].name = l
    BY <1>1
  <1>3. loaders' = DeleteAt(loaders, n)
    BY <1>1, <1>2, RemoveLoaderAt DEF IInv
  <1>4. LoaderNamesUnique' /\ \A k \in 1..Len(loaders') : loaders'[k].live
    BY <1>3, RemoveLoaderUnique DEF IInv, LoaderNamesUnique
  <1> QED
    BY <1>1, <1>4 DEF LoaderInv

\* lt_dlinit begins with an empty list: FreshStart.
LEMMA DlInitLoaders ==
    ASSUME FreshStart, IInv, ServeInv, MarkInv, LoaderInv, DlInit
    PROVE  LoaderInv'
  <1>1. CASE UNCHANGED <<handles, loaders, phase, pos, errs, sessions>>
    BY <1>1, LoadersSame DEF DlInit
  <1>2. CASE /\ initialized = 0 /\ sessions < MaxSessions
             /\ loaders' \in {loaders, AddLoader(Preopen)}
             /\ phase' \in {"boot", "running"} /\ errs' = FALSE /\ sessions' = sessions + 1
    <2>1. sessions \in Nat
      BY DEF IInv, TypeOK
    <2>2. phase = "off"
      BY <1>2 DEF DlInit, ServeInv, Serving
    <2>3. loaders = <<>>
      <3>1. CASE MaxSessions <= 1
        <4>1. sessions = 0
          BY <1>2, <2>1, <3>1, BoundsAssumption
        <4> QED
          BY <4>1 DEF LoaderInv
      <3>2. CASE MayBeResident = {} /\ Self \notin ClientFiles
        <4>1. \A h \in Handle : ~heap[h].resident
          BY <3>2 DEF MarkInv, HandleOK, MayStay
        <4>2. Registered = {}
          BY <2>2, <4>1, RegisteredType DEF LoaderInv, IInv
        <4>3. \A l : Users(l) = {}
          BY <4>2 DEF Users
        <4>4. \A k \in 1..Len(loaders) : FALSE
          BY <2>2, <4>3 DEF LoaderInv
        <4>5. loaders \in Seq(LoaderItem)
          BY DEF IInv, TypeOK, LoaderItem
        <4> QED
          BY <4>4, <4>5
      <3> QED
        BY <3>1, <3>2 DEF FreshStart
    <2>4. Preopen \in LoaderName
      BY DEF LoaderName
    <2>5. \A k \in 1..Len(loaders) : loaders[k].name # Preopen
      BY <2>3
    <2>6. /\ LoaderNamesUnique' /\ \A k \in 1..Len(loaders') : loaders'[k].live
          /\ \A k \in 1..Len(loaders') : \/ loaders'[k].name = Preopen
                 \/ \E j \in 1..Len(loaders) : loaders'[k] = loaders[j]
      <3>1. CASE loaders' = loaders
        BY <2>3, <3>1 DEF LoaderNamesUnique
      <3>2. CASE loaders' = AddLoader(Preopen)
        BY <2>4, <2>5, <3>2, AddLoaderUnique DEF IInv
      <3> QED
        BY <1>2, <3>1, <3>2
    <2>7. \A k \in 1..Len(loaders') : loaders'[k].name = Preopen
      BY <2>3, <2>6
    <2>8. sessions' # 0
      BY <1>2, <2>1
    <2> QED
      BY <1>2, <2>6, <2>7, <2>8 DEF LoaderInv
  <1>3. \/ UNCHANGED <<handles, loaders, phase, pos, errs, sessions>>
        \/ /\ initialized = 0 /\ sessions < MaxSessions
           /\ loaders' \in {loaders, AddLoader(Preopen)}
           /\ phase' \in {"boot", "running"} /\ errs' = FALSE /\ sessions' = sessions + 1
    BY Zenon DEF DlInit
  <1> QED
    BY <1>1, <1>2, <1>3

LEMMA BootLoaderLoaders ==
    ASSUME IInv, LoaderInv, BootLoader
    PROVE  LoaderInv'
  <1> DEFINE l == LinkedLoaders[pos]
  <1>1. /\ phase = "boot" /\ UNCHANGED <<phase, sessions, errs>> /\ pos' = pos + 1
        /\ pos \in Nat \ {0} /\ pos <= Len(LinkedLoaders)
        /\ loaders' \in {loaders, AddLoader(l)}
    BY DEF BootLoader, IInv, TypeOK
  <1>2. Len(LinkedLoaders) \in Nat /\ pos \in 1..Len(LinkedLoaders)
    BY <1>1, LoaderAssumption
  <1>3. l \in LoaderName /\ l # Preopen
    BY <1>2, LoaderAssumption
  <1>4. \A k \in 1..Len(loaders) : \/ loaders[k].name = Preopen
            \/ \E j \in 1..Len(LinkedLoaders) : j < pos /\ loaders[k].name = LinkedLoaders[j]
    BY <1>1 DEF LoaderInv
  <1>5. \A k \in 1..Len(loaders) : loaders[k].name # l
    BY <1>2, <1>3, <1>4, LoaderAssumption
  <1>6. /\ LoaderNamesUnique' /\ \A k \in 1..Len(loaders') : loaders'[k].live
        /\ \A k \in 1..Len(loaders') : \/ loaders'[k].name = l
               \/ \E j \in 1..Len(loaders) : loaders'[k] = loaders[j]
    <2>1. CASE loaders' = loaders
      BY <2>1 DEF LoaderInv, LoaderNamesUnique
    <2>2. CASE loaders' = AddLoader(l)
      BY <1>3, <1>5, <2>2, AddLoaderUnique DEF IInv
    <2> QED
      BY <1>1, <2>1, <2>2
  <1>7. \A j \in 1..Len(LinkedLoaders) : j < pos => j < pos'
    BY <1>1, <1>2
  <1>8. pos < pos'
    BY <1>1, <1>2
  <1>9. ASSUME NEW k \in 1..Len(loaders')
        PROVE  \/ loaders'[k].name = Preopen
               \/ \E j \in 1..Len(LinkedLoaders) :
                      j < pos' /\ loaders'[k].name = LinkedLoaders[j]
    <2>1. CASE loaders'[k].name = l
      BY <1>2, <1>8, <2>1
    <2>2. CASE \E j \in 1..Len(loaders) : loaders'[k] = loaders[j]
      BY <1>4, <1>7, <2>2
    <2> QED
      BY <1>6, <2>1, <2>2
  <1> QED
    BY <1>1, <1>6, <1>9 DEF LoaderInv

LEMMA BootLoaderFailsLoaders ==
    ASSUME IInv, LoaderInv, BootLoaderFails
    PROVE  LoaderInv'
  <1>1. /\ phase = "boot" /\ UNCHANGED <<loaders, phase, sessions, errs>> /\ pos' = pos + 1
        /\ pos \in Nat
    BY DEF BootLoaderFails, IInv, TypeOK
  <1>2. \A j \in 1..Len(LinkedLoaders) : j < pos => j < pos'
    BY <1>1, LoaderAssumption
  <1> QED
    BY <1>1, <1>2 DEF LoaderInv, LoaderNamesUnique

\* The sweep ends when every module it has left is resident.
LEMMA SweepDoneLoaders ==
    ASSUME IInv, ClosingInv, LoaderInv, SweepDone
    PROVE  LoaderInv'
  <1>1. /\ phase = "closing" /\ sweep.cur = NULL /\ phase' = "loaders" /\ pos' = 1
        /\ UNCHANGED <<handles, heap, loaders, sessions, errs>>
    BY DEF SweepDone, Sweeping
  <1>2. \A h \in Registered : heap[h].resident
    BY <1>1, RangeMember DEF ClosingInv, SweptTo, Registered
  <1>3. Registered' = Registered
    BY <1>1 DEF Registered
  <1>4. \A k \in 1..Len(loaders) : ~(k < 1)
    BY DEF IInv, TypeOK
  <1> QED
    BY <1>1, <1>2, <1>3, <1>4 DEF LoaderInv, LoaderNamesUnique

\* A loader that is kept has a resident user: no error is counted.
LEMMA KeepLoaderLoaders ==
    ASSUME IInv, LoaderInv, KeepLoader
    PROVE  LoaderInv'
  <1>1. /\ phase = "loaders" /\ pos \in 1..Len(loaders) /\ pos' = pos + 1
        /\ Users(loaders[pos].name) # {}
        /\ errs' = (errs \/ \A h \in Users(loaders[pos].name) : ~heap[h].resident)
        /\ UNCHANGED <<handles, heap, loaders, phase, sessions>>
    BY DEF KeepLoader, ExitingLoader, IInv, TypeOK
  <1>2. Registered' = Registered
    BY <1>1 DEF Registered
  <1>3. \A l : Users(l)' = Users(l)
    BY <1>1, <1>2 DEF Users
  <1>4. \A h \in Registered : heap[h].resident
    BY <1>1 DEF LoaderInv
  <1>5. PICK h \in Users(loaders[pos].name) : heap[h].resident
    BY <1>1, <1>4 DEF Users
  <1>6. ~errs'
    BY <1>1, <1>5, Zenon DEF LoaderInv
  <1>7. \A k \in 1..Len(loaders') : k < pos' => Users(loaders[k].name) # {}
    <2>1. \A k \in 1..Len(loaders) : k < pos + 1 => k < pos \/ k = pos
      BY <1>1
    <2> QED
      BY <1>1, <2>1 DEF LoaderInv
  <1> QED
    BY <1>1, <1>2, <1>3, <1>4, <1>6, <1>7 DEF LoaderInv, LoaderNamesUnique

LEMMA FreeLoaderLoaders ==
    ASSUME IInv, LoaderInv, FreeLoader
    PROVE  LoaderInv'
  <1> DEFINE l == loaders[pos].name
             left == RemoveLoader(l)
             freed(k) == [left[k] EXCEPT !.live = @ /\ left[k].name # l]
  <1>1. /\ phase = "loaders" /\ pos \in 1..Len(loaders)
        /\ loaders' = [k \in 1..Len(left) |-> freed(k)]
        /\ UNCHANGED <<handles, heap, phase, pos, sessions, errs>>
    BY DEF FreeLoader, ExitingLoader, IInv, TypeOK
  <1>2. left = DeleteAt(loaders, pos)
    BY <1>1, RemoveLoaderAt DEF IInv
  <1>3. /\ left \in Seq(LoaderItem) /\ Len(left) = Len(loaders) - 1
        /\ \A j, k \in 1..Len(left) : left[j].name = left[k].name => j = k
        /\ \A k \in 1..Len(left) : left[k].live /\ left[k].name # l
        /\ \A k \in 1..Len(left) : k < pos => left[k] = loaders[k]
    BY <1>1, <1>2, RemoveLoaderUnique DEF IInv
  <1> HIDE DEF l, left
  <1>4. ASSUME NEW k \in 1..Len(left)
        PROVE  freed(k).name = left[k].name /\ freed(k).live
    <2>1. left[k] \in LoaderItem /\ left[k].live /\ left[k].name # l
      BY <1>3
    <2> QED
      BY ONLY <2>1 DEF LoaderItem
  <1>5. /\ Len(loaders') = Len(left) /\ \A k \in 1..Len(left) : loaders'[k] = freed(k)
    <2> HIDE DEF freed
    <2>1. Len(left) \in Nat
      BY <1>3
    <2> QED
      BY <1>1, <2>1
  <1> HIDE DEF freed
  <1>6. LoaderNamesUnique'
    BY <1>3, <1>4, <1>5 DEF LoaderNamesUnique
  <1>7. \A k \in 1..Len(loaders') : loaders'[k].live
    BY <1>4, <1>5
  <1>8. Registered' = Registered
    BY <1>1 DEF Registered
  <1>9. ASSUME NEW k \in 1..Len(loaders'), k < pos'
        PROVE  Users(loaders[k].name)' # {}
    <2>1. loaders'[k].name = loaders[k].name
      BY <1>1, <1>3, <1>4, <1>5, <1>9
    <2>2. k \in 1..Len(loaders)
      BY <1>3, <1>5 DEF IInv, TypeOK
    <2>3. Users(loaders[k].name) # {}
      BY <1>1, <1>9, <2>2 DEF LoaderInv
    <2>4. Users(loaders[k].name)' = Users(loaders[k].name)
      BY <1>1, <1>8, <2>1 DEF Users
    <2> QED
      BY <2>3, <2>4
  <1>10. \A k \in 1..Len(loaders') : k < pos' => Users(loaders[k].name)' # {}
    BY <1>9
  <1>11. sessions' # 0
    BY <1>1 DEF LoaderInv
  <1> QED
    BY <1>1, <1>6, <1>7, <1>8, <1>10, <1>11 DEF LoaderInv

LEMMA ExitDoneLoaders ==
    ASSUME IInv, LoaderInv, ExitDone
    PROVE  LoaderInv'
  <1>1. /\ phase = "loaders" /\ pos > Len(loaders) /\ phase' = "off"
        /\ UNCHANGED <<handles, heap, loaders, sessions, errs>>
        /\ pos \in Nat /\ Len(loaders) \in Nat
    BY DEF ExitDone, IInv, TypeOK
  <1>2. Registered' = Registered
    BY <1>1 DEF Registered
  <1>3. \A l : Users(l)' = Users(l)
    BY <1>1, <1>2 DEF Users
  <1>4. \A k \in 1..Len(loaders) : k < pos
    BY <1>1
  <1> QED
    BY <1>1, <1>2, <1>3, <1>4 DEF LoaderInv, LoaderNamesUnique

\* A call is in progress between lt_dlinit and the end of the sweep only.
LEMMA CallsPhase ==
    ASSUME IInv, OffInv, stack # <<>>
    PROVE  phase \in {"running", "closing"}
  BY DEF IInv, TypeOK, BootOK, OffInv

LEMMA ReleaseDepErrs ==
    ASSUME IInv, ServeInv, OffInv, ClosingInv, ReleaseDep
    PROVE  errs' = errs
  <1>1. stack # <<>>
    BY DEF ReleaseDep, Running
  <1>2. CASE phase = "running"
    <2>1. Ledger(heap, Registered, Reachable, stack, held, NULL)
      BY <1>2 DEF ServeInv, Serving
    <2> QED
      BY <2>1, NowTypes, ReleaseDepLedger, ReleaseDepEffect DEF IInv
  <1>3. CASE phase = "closing"
    <2>1. Ledger(heap, Registered, Reachable, stack, HeldListed, NULL)
      BY <1>3 DEF ClosingInv, Exiting
    <2> QED
      BY <2>1, HeldListedType, ReleaseDepLedger, ReleaseDepEffect DEF IInv
  <1> QED
    BY <1>1, <1>2, <1>3, CallsPhase

LEMMA LoaderNext ==
    ASSUME ~RemoveMayFail, FreshStart, ResidentsBare, IInv, ServeInv, OffInv, MarkInv, CallsInv, Ordered,
           HeldInv, ClosingInv, LoaderInv, [Next]_vars
    PROVE  LoaderInv'
  <1>1. CASE UNCHANGED vars
    BY <1>1, LoadersSame DEF vars
  <1>2. ~errs
    BY DEF LoaderInv
  <1>3. CASE Client
    <2>1. \A f \in ClientFiles, adv \in Advice : ClientOpen(f, adv) =>
              UNCHANGED <<loaders, sessions, phase, errs>> /\ phase = "running"
      BY DEF ClientOpen, Idle
    <2>2. \A h \in Handle : MakeResident(h) =>
              UNCHANGED <<loaders, sessions, phase, errs>> /\ phase = "running"
      BY DEF MakeResident, Idle
    <2>3. ASSUME NEW h \in Handle, ClientClose(h)
          PROVE  UNCHANGED <<loaders, sessions, phase, errs>> /\ phase = "running"
      <3>1. /\ UNCHANGED <<loaders, sessions, phase>> /\ phase = "running"
            /\ Close(h, heap)
        BY <2>3 DEF ClientClose, Idle
      <3>2. heap \in [Handle -> HandleRec] /\ errs \in BOOLEAN
        BY DEF IInv, TypeOK
      <3>3. errs' = errs
        BY <3>1, <3>2, CloseEffect
      <3> QED
        BY <3>1, <3>3
    <2>4. CASE /\ UNCHANGED <<loaders, sessions, phase, errs>> /\ phase = "running"
      BY <1>2, <2>4, LoaderQuiet
    <2>5. CASE DlExit
      <3>1. /\ UNCHANGED <<loaders, sessions, errs>> /\ phase = "running"
            /\ phase' \in {"running", "closing"}
        BY <2>5 DEF DlExit, Idle
      <3> QED
        BY <1>2, <3>1, LoaderQuiet
    <2> QED
      BY <1>3, <2>1, <2>2, <2>3, <2>4, <2>5, LoaderAddLoaders, LoaderRemoveLoaders,
         DlInitLoaders DEF Client
  <1>4. CASE OpenStep \/ UndoDone
    <2>1. /\ stack # <<>> /\ Top.op # "drop"
          /\ UNCHANGED <<loaders, sessions, phase, errs>>
      BY <1>4 DEF OpenStep, LoadDep, SkipDep, FindExisting, LoaderOpens, OpenFails, UndoDone,
                  Running, Top
    <2>2. phase = "running"
      BY <2>1, RunningCalls
    <2> QED
      BY <1>2, <2>1, <2>2, LoaderQuiet
  <1>5. CASE ReleaseDep \/ DropDone
    <2>1. stack # <<>> /\ UNCHANGED <<loaders, sessions, phase>>
      BY <1>5 DEF ReleaseDep, DropDone, Running
    <2>2. errs' = errs
      BY <1>5, ReleaseDepErrs DEF DropDone
    <2>3. phase \in {"running", "closing"}
      BY <2>1, CallsPhase
    <2> QED
      BY <1>2, <2>1, <2>2, <2>3, LoaderQuiet
  <1>6. CASE InitStep
    <2>1. CASE BootDone
      <3>1. /\ UNCHANGED <<loaders, sessions, errs>> /\ phase = "boot" /\ phase' = "running"
        BY <2>1 DEF BootDone
      <3> QED
        BY <1>2, <3>1, LoaderQuiet
    <2> QED
      BY <1>6, <2>1, BootLoaderLoaders, BootLoaderFailsLoaders DEF InitStep
  <1>7. CASE ExitStep
    <2>1. SweepRestart \/ SweepSkip \/ SweepNextLevel =>
              UNCHANGED <<loaders, sessions, phase, errs>> /\ phase = "closing"
      BY DEF SweepRestart, SweepSkip, SweepNextLevel, Sweeping
    <2>2. SweepClose => UNCHANGED <<loaders, sessions, phase, errs>> /\ phase = "closing"
      <3>1. SweepClose => UNCHANGED <<loaders, sessions, phase>> /\ phase = "closing"
        BY DEF SweepClose, Sweeping
      <3> QED
        BY <3>1, SweepCloseClosing
    <2>3. CASE UNCHANGED <<loaders, sessions, phase, errs>> /\ phase = "closing"
      BY <1>2, <2>3, LoaderQuiet
    <2> QED
      BY <1>7, <2>1, <2>2, <2>3, SweepDoneLoaders DEF ExitStep
  <1>8. CASE LoaderStep
    <2>1. ~StaleLoader
      BY DEF StaleLoader, ExitingLoader, LoaderInv, IInv, TypeOK
    <2>2. ~RemoveFails
      BY DEF RemoveFails
    <2> QED
      BY <1>8, <2>1, <2>2, KeepLoaderLoaders, FreeLoaderLoaders, ExitDoneLoaders DEF LoaderStep
  <1> QED
    BY <1>1, <1>3, <1>4, <1>5, <1>6, <1>7, <1>8 DEF Next, Internal, CloseStep

LEMMA LiveNext ==
    ASSUME IInv, ServeInv, OffInv, LoaderInv, LiveInv, [Next]_vars
    PROVE  LiveInv'
  <1>1. CASE UNCHANGED <<handles, heap, stack>>
    <2>1. Reachable' = Reachable
      BY <1>1 DEF Reachable, Registered, Pending
    <2> QED
      BY <1>1, <2>1 DEF LiveInv
  <1>2. CASE Client
    <2>1. ASSUME NEW f \in ClientFiles, NEW adv \in Advice, ClientOpen(f, adv)
          PROVE  LiveInv'
      <3>1. f \in File
        BY FileAssumption DEF File
      <3>2. UNCHANGED handles /\ BeginOpen(f, adv)
        BY <2>1 DEF ClientOpen
      <3> QED
        BY <3>1, <3>2, BeginOpenLive
    <2>2. \A h \in Handle : ClientClose(h) => LiveInv'
      BY FirstCloseLive DEF ClientClose
    <2>3. \A l \in LoaderName :
              LoaderRemove(l) \/ LoaderAdd(l) => UNCHANGED <<handles, heap, stack>>
      BY DEF LoaderRemove, LoaderAdd
    <2>4. CASE DlInit
      <3>1. CASE UNCHANGED handles
        BY <1>1, <2>4, <3>1 DEF DlInit
      <3>2. CASE initialized = 0
        <4>1. phase = "off" /\ UNCHANGED <<heap, stack>> /\ stack = <<>>
          BY <2>4, <3>2 DEF DlInit, ServeInv, Serving
        <4>2. Reachable = Registered
          BY <4>1 DEF Reachable, Pending
        <4>3. \A h \in Reachable : heap[h].resident
          BY <4>1, <4>2 DEF LoaderInv
        <4> QED
          BY <4>1, <4>3 DEF LiveInv
      <3> QED
        BY <2>4, <3>1, <3>2 DEF DlInit
    <2> QED
      BY <1>1, <1>2, <2>1, <2>2, <2>3, <2>4, MakeResidentLive, DlExitLive DEF Client
  <1>3. CASE OpenStep
    <2>1. CASE LoadDep
      <3> DEFINE f == DepLibs[heap[Top.h].file][Top.todo]
      <3>1. BeginOpen(f, "plain") /\ "plain" \in Advice /\ UNCHANGED handles
        BY <2>1 DEF LoadDep, Advice
      <3>2. f \in Module
        BY <2>1, NextDep
      <3> HIDE DEF f
      <3>3. f \in File
        BY <3>2 DEF File
      <3> QED
        BY <3>1, <3>3, BeginOpenLive
    <2> QED
      BY <1>3, <2>1, SkipDepLive, FindExistingLive, LoaderOpensLive, OpenFailsLive DEF OpenStep
  <1>4. CASE CloseStep
    <2>1. CASE ReleaseDep
      <3> DEFINE d == Head(heap[Top.h].deplibs)
      <3>1. /\ SameMarks(heap, heap') /\ d \in Handle
            /\ \/ UNCHANGED <<handles, stack>>
               \/ /\ d \in Registered
                  /\ handles' = DeleteAt(handles, IndexOf(handles, d))
                  /\ stack' = <<DropFrame(d)>> \o stack
        BY <2>1, ReleaseDepEffect
      <3> HIDE DEF d
      <3> QED
        BY <3>1, CloseLive
    <2> QED
      BY <1>4, <2>1, DropDoneLive, UndoDoneLive DEF CloseStep
  <1>5. CASE InitStep
    <2>1. BootLoaderFails \/ BootDone => UNCHANGED <<handles, heap, stack>>
      BY DEF BootLoaderFails, BootDone
    <2> QED
      BY <1>1, <1>5, <2>1, BootLoaderLive DEF InitStep
  <1>6. CASE ExitStep
    <2>1. SweepRestart \/ SweepSkip \/ SweepNextLevel \/ SweepDone =>
              UNCHANGED <<handles, heap, stack>>
      BY DEF SweepRestart, SweepSkip, SweepNextLevel, SweepDone
    <2>2. SweepClose => Close(sweep.cur, heap) /\ sweep.cur \in Handle
      BY RegisteredType DEF SweepClose, IInv
    <2> QED
      BY <1>1, <1>6, <2>1, <2>2, FirstCloseLive DEF ExitStep
  <1>7. CASE LoaderStep
    <2>1. UNCHANGED <<handles, heap, stack>>
      BY <1>7 DEF LoaderStep, KeepLoader, RemoveFails, FreeLoader, StaleLoader, ExitDone
    <2> QED
      BY <1>1, <2>1
  <1>8. UNCHANGED vars => UNCHANGED <<handles, heap, stack>>
    BY DEF vars
  <1> QED
    BY <1>1, <1>2, <1>3, <1>4, <1>5, <1>6, <1>7, <1>8 DEF Next, Internal

LEMMA EndInit == Init => LiveInv /\ LoaderInv
  <1>1. SUFFICES ASSUME Init PROVE LiveInv /\ LoaderInv
    OBVIOUS
  <1>2. \A h \in Handle : ~heap[h].live
    BY <1>1, FreedOK DEF Init
  <1>3. LiveInv
    BY <1>2 DEF LiveInv
  <1>4. loaders = <<>> /\ handles = <<>> /\ phase = "off" /\ ~errs
    BY <1>1 DEF Init
  <1>5. LoaderInv
    BY <1>4 DEF LoaderInv, LoaderNamesUnique, Registered, SeqRange
  <1> QED
    BY <1>3, <1>5

EndInv == ExitInv /\ LiveInv /\ LoaderInv

\* When the last lt_dlexit has returned, every module in memory is resident and
\* every loader left is one that such a module needs; lt_dlexit closed no handle
\* that was not valid, and refused to remove no loader but for a resident module
\* (if removing one never fails for want of memory).
THEOREM ExitDoesAll ==
    ASSUME OpenedOnce, ResidentsBare, FreshStart, ~RemoveMayFail
    PROVE  Spec => []ExitComplete
  <1>1. Init => EndInv
    BY ExitInit, EndInit DEF EndInv
  <1>2. EndInv /\ [Next]_vars => EndInv'
    <2>1. SUFFICES ASSUME EndInv, [Next]_vars PROVE EndInv'
      OBVIOUS
    <2>2. /\ ExitInv /\ IInv /\ ServeInv /\ OffInv /\ MarkInv /\ CallsInv /\ Ordered /\ HeldInv
          /\ ClosingInv /\ LiveInv /\ LoaderInv
      BY <2>1 DEF EndInv, ExitInv, CountInv
    <2>3. ExitInv'
      BY <2>1, <2>2, ExitNext
    <2>4. LiveInv' /\ LoaderInv'
      BY <2>1, <2>2, LiveNext, LoaderNext
    <2> QED
      BY <2>3, <2>4 DEF EndInv
  <1>3. EndInv => ExitComplete
    <2>1. SUFFICES ASSUME EndInv PROVE ExitComplete
      OBVIOUS
    <2>2. OffInv /\ LiveInv /\ LoaderInv
      BY <2>1 DEF EndInv, ExitInv, CountInv
    <2>3. ASSUME phase = "off", NEW h \in Handle, heap[h].live PROVE heap[h].resident
      <3>1. Reachable = Registered
        BY <2>2, <2>3 DEF OffInv, Reachable, Pending
      <3> QED
        BY <2>2, <2>3, <3>1 DEF LiveInv, LoaderInv
    <2>4. ASSUME phase = "off", NEW k \in 1..Len(loaders)
          PROVE  \E h \in Users(loaders[k].name) : heap[h].resident
      <3>1. PICK h : h \in Users(loaders[k].name)
        BY <2>2, <2>4 DEF LoaderInv
      <3>2. heap[h].resident
        BY <2>2, <2>4, <3>1 DEF LoaderInv, Users
      <3> QED
        BY <3>1, <3>2
    <2>5. ~errs
      BY <2>2 DEF LoaderInv
    <2> QED
      BY <2>3, <2>4, <2>5 DEF ExitComplete, ExitReleasesAll, ExitSucceeds
  <1> QED
    BY <1>1, <1>2, <1>3, PTL DEF Spec
=============================================================================
