----------------------------- MODULE LtdlProofs -----------------------------
(***************************************************************************)
(* Theorems about Ltdl, for every set of handles, modules, deplibs and     *)
(* loaders and every value of the bounds.                                  *)
(***************************************************************************)
EXTENDS Ltdl, WellFoundedInduction, TLAPS

(***************************************************************************)
(* Sequences.                                                              *)
(***************************************************************************)
LEMMA PushType ==
    ASSUME NEW S, NEW s \in Seq(S), NEW x \in S
    PROVE  /\ <<x>> \o s \in Seq(S)
           /\ Len(<<x>> \o s) = Len(s) + 1
           /\ (<<x>> \o s)[1] = x
           /\ \A k \in 2..(Len(s) + 1) : (<<x>> \o s)[k] = s[k - 1]
  OBVIOUS

LEMMA TailType ==
    ASSUME NEW S, NEW s \in Seq(S), s # <<>>
    PROVE  /\ Tail(s) \in Seq(S)
           /\ Len(Tail(s)) = Len(s) - 1
           /\ \A k \in 1..(Len(s) - 1) : Tail(s)[k] = s[k + 1]
           /\ s[1] \in S /\ Len(s) \in Nat /\ Len(s) >= 1
  OBVIOUS

\* Deleting an element leaves the others, in order.
LEMMA DeleteType ==
    ASSUME NEW S, NEW s \in Seq(S), NEW k \in 1..Len(s)
    PROVE  /\ DeleteAt(s, k) \in Seq(S)
           /\ Len(DeleteAt(s, k)) = Len(s) - 1
           /\ \A j \in 1..(Len(s) - 1) :
                  DeleteAt(s, k)[j] = IF j < k THEN s[j] ELSE s[j + 1]
  <1>1. Len(s) - 1 \in Nat
    OBVIOUS
  <1>2. \A j \in 1..(Len(s) - 1) : (IF j < k THEN s[j] ELSE s[j + 1]) \in S
    OBVIOUS
  <1> QED
    BY <1>1, <1>2 DEF DeleteAt

LEMMA RangeMember ==
    ASSUME NEW s, NEW x
    PROVE  x \in SeqRange(s) <=> \E k \in 1..Len(s) : s[k] = x
  BY DEF SeqRange

LEMMA RangeType ==
    ASSUME NEW S, NEW s \in Seq(S)
    PROVE  SeqRange(s) \subseteq S
  BY DEF SeqRange

LEMMA PushRange ==
    ASSUME NEW S, NEW s \in Seq(S), NEW x \in S
    PROVE  SeqRange(<<x>> \o s) = {x} \cup SeqRange(s)
  <1>1. ASSUME NEW y \in SeqRange(<<x>> \o s) PROVE y \in {x} \cup SeqRange(s)
    <2>1. PICK k \in 1..(Len(s) + 1) : (<<x>> \o s)[k] = y
      BY <1>1, PushType DEF SeqRange
    <2>2. CASE k = 1
      BY <2>1, <2>2, PushType
    <2>3. CASE k # 1
      <3>1. k - 1 \in 1..Len(s) /\ k \in 2..(Len(s) + 1)
        BY <2>1, <2>3
      <3> QED
        BY <2>1, <3>1, PushType DEF SeqRange
    <2> QED
      BY <2>2, <2>3
  <1>2. ASSUME NEW k \in 1..Len(s) PROVE s[k] \in SeqRange(<<x>> \o s)
    <2>1. k + 1 \in 2..(Len(s) + 1) /\ k + 1 \in 1..(Len(s) + 1) /\ (k + 1) - 1 = k
      OBVIOUS
    <2>2. (<<x>> \o s)[k + 1] = s[k]
      BY <2>1, PushType
    <2>3. Len(<<x>> \o s) = Len(s) + 1
      BY PushType
    <2> DEFINE t == <<x>> \o s
    <2>4. k + 1 \in 1..Len(t) /\ t[k + 1] = s[k]
      BY <2>1, <2>2, <2>3
    <2> HIDE DEF t
    <2>5. s[k] \in SeqRange(t)
      BY <2>4 DEF SeqRange
    <2> QED
      BY <2>5 DEF t
  <1>3. x \in SeqRange(<<x>> \o s)
    BY PushType DEF SeqRange
  <1> QED
    BY <1>1, <1>2, <1>3 DEF SeqRange

LEMMA PushDistinct ==
    ASSUME NEW S, NEW s \in Seq(S), NEW x \in S, x \notin SeqRange(s),
           \A i, j \in 1..Len(s) : s[i] = s[j] => i = j
    PROVE  LET t == <<x>> \o s IN \A i, j \in 1..Len(t) : t[i] = t[j] => i = j
  <1> DEFINE t == <<x>> \o s
  <1>1. /\ Len(t) = Len(s) + 1 /\ t[1] = x /\ Len(s) \in Nat
        /\ \A i \in 2..(Len(s) + 1) : t[i] = s[i - 1]
    BY PushType
  <1> HIDE DEF t
  <1>2. \A i \in 1..Len(t) : i # 1 => i - 1 \in 1..Len(s) /\ t[i] = s[i - 1]
    BY <1>1
  <1>3. \A i \in 1..Len(t) : i # 1 => t[i] # x
    BY <1>2 DEF SeqRange
  <1> SUFFICES ASSUME NEW i \in 1..Len(t), NEW j \in 1..Len(t), t[i] = t[j]
               PROVE  i = j
    BY DEF t
  <1>4. CASE i = 1 \/ j = 1
    BY <1>1, <1>3, <1>4
  <1>5. CASE i # 1 /\ j # 1
    <2>1. /\ i - 1 \in 1..Len(s) /\ j - 1 \in 1..Len(s) /\ s[i - 1] = s[j - 1]
      BY <1>2, <1>5
    <2>2. i - 1 = j - 1
      BY <2>1
    <2> QED
      BY <2>2
  <1> QED
    BY <1>4, <1>5

LEMMA IndexProp ==
    ASSUME NEW s, NEW x \in SeqRange(s)
    PROVE  IndexOf(s, x) \in 1..Len(s) /\ s[IndexOf(s, x)] = x
  BY DEF SeqRange, IndexOf

LEMMA DeleteRange ==
    ASSUME NEW S, NEW s \in Seq(S), NEW k \in 1..Len(s),
           \A i, j \in 1..Len(s) : s[i] = s[j] => i = j
    PROVE  /\ SeqRange(DeleteAt(s, k)) = SeqRange(s) \ {s[k]}
           /\ \A i, j \in 1..Len(DeleteAt(s, k)) :
                  DeleteAt(s, k)[i] = DeleteAt(s, k)[j] => i = j
  <1> DEFINE t == DeleteAt(s, k)
  <1>1. /\ Len(s) \in Nat /\ Len(t) = Len(s) - 1
        /\ \A j \in 1..Len(t) : t[j] = IF j < k THEN s[j] ELSE s[j + 1]
    BY DeleteType
  <1> HIDE DEF t
  <1>2. ASSUME NEW j \in 1..Len(t) PROVE t[j] \in SeqRange(s) \ {s[k]}
    BY <1>1 DEF SeqRange
  <1>3. ASSUME NEW i \in 1..Len(s), s[i] # s[k] PROVE s[i] \in SeqRange(t)
    <2>1. CASE i < k
      BY <1>1, <2>1 DEF SeqRange
    <2>2. CASE i > k
      <3>1. i - 1 \in 1..Len(t) /\ ~(i - 1 < k) /\ (i - 1) + 1 = i
        BY <1>1, <2>2
      <3> QED
        BY <1>1, <3>1, ZenonT(60) DEF SeqRange
    <2> QED
      BY <1>3, <2>1, <2>2
  <1>4. \A i, j \in 1..Len(t) : t[i] = t[j] => i = j
    BY <1>1, SMTT(30)
  <1>5. SeqRange(t) = SeqRange(s) \ {s[k]}
    BY <1>2, <1>3 DEF SeqRange
  <1> QED
    BY <1>4, <1>5 DEF t

\* A set of numbers has a least one.
LEMMA LeastNat ==
    ASSUME NEW T, T \subseteq Nat, T # {}
    PROVE  \E x \in T : \A y \in T : x <= y
  <1> DEFINE R == OpToRel(<, Nat)
  <1>1. IsWellFoundedOn(R, Nat)
    BY NatLessThanWellFounded
  <1>2. \A x, y \in Nat : x < y => <<x, y>> \in R
    BY DEF OpToRel
  <1> HIDE DEF R
  <1>3. PICK x \in T : \A y \in T : ~(<<y, x>> \in R)
    BY <1>1, WFMin
  <1>4. ASSUME NEW y \in T PROVE x <= y
    <2>1. y \in Nat /\ x \in Nat
      OBVIOUS
    <2>2. ~(y < x)
      BY <1>2, <1>3, <2>1
    <2> QED
      BY <2>1, <2>2
  <1> QED
    BY <1>4

(***************************************************************************)
(* The inductive invariant: types alone are not inductive, as the count of *)
(* deplibs still to open and the file an open works on come from the call  *)
(* below it in the stack.                                                  *)
(***************************************************************************)
IInv == TypeOK /\ StackOK /\ ListOK /\ BootOK /\ LoaderOfOpenModule

\* A step of this kind changes no more of h than its count and its deplibs.
SameHandle(h, hp) ==
    /\ hp[h].live = heap[h].live
    /\ hp[h].file = heap[h].file
    /\ hp[h].vtable = heap[h].vtable
    /\ hp[h].resident = heap[h].resident

LEMMA ZallocType ==
    ASSUME NEW f \in File
    PROVE  /\ Zalloc(f) \in HandleRec /\ Zalloc(f).live /\ Zalloc(f).file = f
           /\ Freed \in HandleRec /\ ~Freed.live
  <1>1. Freed \in HandleRec
    BY DEF Freed, HandleRec
  <1>2. (f = Self) \in BOOLEAN
    OBVIOUS
  <1>3. Zalloc(f) \in HandleRec /\ Zalloc(f).live /\ Zalloc(f).file = f
    BY <1>1, <1>2 DEF Freed, Zalloc, HandleRec
  <1> QED
    BY <1>1, <1>3 DEF Freed

LEMMA FrameType ==
    ASSUME NEW h \in Handle
    PROVE  /\ DropFrame(h) \in Frame
           /\ DropFrame(h).h = h /\ DropFrame(h).op = "drop"
           /\ \A ret \in Handle \cup {NULL} :
                  /\ UndoFrame(h, ret) \in Frame /\ UndoFrame(h, ret).ret = ret
                  /\ UndoFrame(h, ret).h = h /\ UndoFrame(h, ret).op = "undo"
  <1>1. ASSUME NEW ret \in Handle \cup {NULL} PROVE UndoFrame(h, ret) \in Frame
    BY DEF UndoFrame, Frame, Advice
  <1>2. UndoFrame(h, NULL) \in Frame
    BY <1>1
  <1>3. DropFrame(h) \in Frame /\ DropFrame(h).h = h /\ DropFrame(h).op = "drop"
    BY <1>2 DEF DropFrame, UndoFrame, Frame
  <1> QED
    BY <1>1, <1>3 DEF UndoFrame

LEMMA LoadFrameType ==
    ASSUME NEW h \in Handle, NEW f \in File, NEW adv \in Advice
    PROVE  /\ LoadFrame(h, f, adv) \in Frame
           /\ LoadFrame(h, f, adv).h = h /\ LoadFrame(h, f, adv).op = "load"
           /\ LoadFrame(h, f, adv).todo > 0 =>
                  f \in Module /\ LoadFrame(h, f, adv).todo <= Len(DepLibs[f])
  <1>1. f \in Module => Len(DepLibs[f]) \in Nat
    BY DepLibsAssumption
  <1>2. LoadFrame(h, f, adv) \in Frame
    BY <1>1 DEF LoadFrame, Frame
  <1> QED
    BY <1>1, <1>2 DEF LoadFrame

(***************************************************************************)
(* The stack of calls.                                                     *)
(***************************************************************************)
LEMMA FrameAt ==
    ASSUME NEW s \in Seq(Frame), NEW k \in 1..Len(s)
    PROVE  /\ s[k] \in Frame /\ s[k].h \in Handle /\ s[k].todo \in Nat
           /\ s[k].ret \in Handle \cup {NULL} /\ s[k].adv \in Advice
           /\ s[k].op \in {"load", "undo", "drop"}
  <1>1. s[k] \in Frame
    OBVIOUS
  <1> QED
    BY <1>1 DEF Frame

\* What happens to the heap elsewhere does not matter to the stack.
LEMMA StackHeap ==
    ASSUME NEW s \in Seq(Frame), NEW hp, NEW hq, WellStacked(s, hp),
           \A k \in 1..Len(s) : /\ hq[s[k].h].live = hp[s[k].h].live
                                /\ hq[s[k].h].file = hp[s[k].h].file
    PROVE  WellStacked(s, hq)
  BY DEF WellStacked

LEMMA StackPush ==
    ASSUME NEW s \in Seq(Frame), NEW hp, NEW fr \in Frame, WellStacked(s, hp),
           \A k \in 1..Len(s) : s[k].h # fr.h,
           hp[fr.h].live,
           fr.op = "load" /\ fr.todo > 0 =>
               hp[fr.h].file \in Module /\ fr.todo <= Len(DepLibs[hp[fr.h].file]),
           s # <<>> => Calls(s[1], fr)
    PROVE  <<fr>> \o s \in Seq(Frame) /\ WellStacked(<<fr>> \o s, hp)
  <1> DEFINE t == <<fr>> \o s
  <1>1. /\ t \in Seq(Frame)
        /\ Len(s) \in Nat
        /\ Len(t) = Len(s) + 1
        /\ t[1] = fr
        /\ \A k \in 2..(Len(s) + 1) : t[k] = s[k - 1]
    BY PushType
  <1> HIDE DEF t
  <1>2. \A k \in 1..Len(t) : k # 1 => k - 1 \in 1..Len(s) /\ t[k] = s[k - 1]
    BY <1>1
  <1>3. ASSUME NEW j \in 1..Len(t), NEW k \in 1..Len(t), t[j].h = t[k].h
        PROVE  j = k
    <2>1. CASE j = 1 \/ k = 1
      <3>1. \A i \in 1..Len(t) : i # 1 => t[i].h # fr.h
        BY <1>2
      <3> QED
        BY <1>1, <1>3, <2>1, <3>1
    <2>2. CASE j # 1 /\ k # 1
      <3>1. /\ j - 1 \in 1..Len(s) /\ k - 1 \in 1..Len(s)
            /\ s[j - 1].h = s[k - 1].h
        BY <1>2, <1>3, <2>2
      <3>2. j - 1 = k - 1
        BY <3>1 DEF WellStacked
      <3> QED
        BY <3>2
    <2> QED
      BY <2>1, <2>2
  <1>4. ASSUME NEW k \in 1..Len(t)
        PROVE  /\ hp[t[k].h].live
               /\ t[k].op = "load" /\ t[k].todo > 0 =>
                     hp[t[k].h].file \in Module /\ t[k].todo <= Len(DepLibs[hp[t[k].h].file])
    <2>1. CASE k = 1
      BY <2>1, <1>1
    <2>2. CASE k # 1
      <3>1. k - 1 \in 1..Len(s) /\ t[k] = s[k - 1]
        BY <1>2, <2>2
      <3> QED
        BY <3>1 DEF WellStacked
    <2> QED
      BY <2>1, <2>2
  <1>5. ASSUME NEW k \in 2..Len(t) PROVE Calls(t[k], t[k - 1])
    <2>1. CASE k = 2
      <3>1. t[k] = s[1] /\ t[k - 1] = fr /\ s # <<>>
        BY <2>1, <1>1
      <3> QED
        BY <3>1
    <2>2. CASE k # 2
      <3>1. k - 1 \in 2..Len(s) /\ t[k] = s[k - 1] /\ t[k - 1] = s[(k - 1) - 1]
        BY <2>2, <1>1
      <3> QED
        BY <3>1 DEF WellStacked
    <2> QED
      BY <2>1, <2>2
  <1>6. WellStacked(t, hp)
    BY <1>3, <1>4, <1>5 DEF WellStacked
  <1> QED
    BY <1>1, <1>6 DEF t

LEMMA StackTail ==
    ASSUME NEW s \in Seq(Frame), NEW hp, WellStacked(s, hp), s # <<>>
    PROVE  /\ Tail(s) \in Seq(Frame) /\ WellStacked(Tail(s), hp)
           /\ \A k \in 1..Len(Tail(s)) : Tail(s)[k].h # s[1].h
           /\ Tail(s) # <<>> => Calls(Tail(s)[1], s[1])
  <1> DEFINE t == Tail(s)
  <1>1. /\ t \in Seq(Frame) /\ Len(s) \in Nat /\ Len(s) >= 1
        /\ Len(t) = Len(s) - 1
        /\ \A k \in 1..(Len(s) - 1) : t[k] = s[k + 1]
    BY TailType
  <1> HIDE DEF t
  <1>2. \A k \in 1..Len(t) : k + 1 \in 1..Len(s) /\ k + 1 # 1 /\ t[k] = s[k + 1]
    BY <1>1
  <1>3. ASSUME NEW j \in 1..Len(t), NEW k \in 1..Len(t), t[j].h = t[k].h
        PROVE  j = k
    <2>1. s[j + 1].h = s[k + 1].h
      BY <1>2, <1>3
    <2>2. j + 1 = k + 1
      BY <1>2, <2>1 DEF WellStacked
    <2> QED
      BY <2>2
  <1>4. ASSUME NEW k \in 1..Len(t)
        PROVE  /\ hp[t[k].h].live
               /\ t[k].op = "load" /\ t[k].todo > 0 =>
                     hp[t[k].h].file \in Module /\ t[k].todo <= Len(DepLibs[hp[t[k].h].file])
               /\ t[k].h # s[1].h
    <2>1. k + 1 \in 1..Len(s) /\ t[k] = s[k + 1] /\ 1 \in 1..Len(s) /\ k + 1 # 1
      BY <1>1, <1>2
    <2>2. s[k + 1].h # s[1].h
      BY <2>1 DEF WellStacked
    <2> QED
      BY <2>1, <2>2 DEF WellStacked
  <1>5. ASSUME NEW k \in 2..Len(t) PROVE Calls(t[k], t[k - 1])
    <2>1. k + 1 \in 2..Len(s) /\ t[k] = s[k + 1] /\ t[k - 1] = s[(k + 1) - 1]
      BY <1>1
    <2> QED
      BY <2>1 DEF WellStacked
  <1>6. ASSUME t # <<>> PROVE Calls(t[1], s[1])
    <2>1. 2 \in 2..Len(s) /\ t[1] = s[2] /\ s[2 - 1] = s[1]
      BY <1>1, <1>6
    <2> QED
      BY <2>1 DEF WellStacked
  <1>7. WellStacked(t, hp)
    BY <1>3, <1>4, <1>5 DEF WellStacked
  <1> QED
    BY <1>1, <1>4, <1>6, <1>7 DEF t

\* The innermost open has dealt with one more deplib.
LEMMA StackCount ==
    ASSUME NEW s \in Seq(Frame), NEW hp, WellStacked(s, hp), s # <<>>,
           s[1].op = "load", s[1].todo > 0
    PROVE  LET t == [s EXCEPT ![1].todo = @ - 1]
           IN  /\ t \in Seq(Frame) /\ WellStacked(t, hp)
               /\ Len(t) = Len(s) /\ \A k \in 1..Len(s) : t[k].h = s[k].h
  <1> DEFINE t == [s EXCEPT ![1].todo = @ - 1]
             fr == [s[1] EXCEPT !.todo = @ - 1]
  <1>1. Len(s) \in Nat /\ 1 \in 1..Len(s)
    OBVIOUS
  <1>2. s[1] \in Frame /\ s[1].todo - 1 \in Nat
    BY <1>1, FrameAt
  <1>3. /\ fr \in Frame /\ fr.h = s[1].h /\ fr.op = s[1].op /\ fr.ret = s[1].ret
        /\ fr.todo = s[1].todo - 1
    BY <1>2 DEF Frame
  <1>4. /\ t \in Seq(Frame) /\ Len(t) = Len(s) /\ t[1] = fr
        /\ \A k \in 1..Len(s) : k # 1 => t[k] = s[k]
    BY <1>1, <1>3
  <1> HIDE DEF t, fr
  <1>5. \A k \in 1..Len(s) : t[k].h = s[k].h /\ t[k].op = s[k].op
    BY <1>3, <1>4
  <1>6. \A j, k \in 1..Len(t) : t[j].h = t[k].h => j = k
    BY <1>4, <1>5 DEF WellStacked
  <1>7. ASSUME NEW k \in 1..Len(t)
        PROVE  /\ hp[t[k].h].live
               /\ t[k].op = "load" /\ t[k].todo > 0 =>
                     hp[t[k].h].file \in Module /\ t[k].todo <= Len(DepLibs[hp[t[k].h].file])
    <2>1. CASE k = 1
      <3>1. /\ hp[s[1].h].live /\ hp[s[1].h].file \in Module
            /\ s[1].todo <= Len(DepLibs[hp[s[1].h].file])
        BY <1>1 DEF WellStacked
      <3>2. Len(DepLibs[hp[s[1].h].file]) \in Nat
        BY <3>1, DepLibsAssumption
      <3>3. s[1].todo - 1 <= Len(DepLibs[hp[s[1].h].file])
        BY <1>2, <3>1, <3>2, FrameAt, <1>1
      <3>4. t[k].h = s[1].h /\ t[k].todo = s[1].todo - 1
        BY <2>1, <1>3, <1>4
      <3> QED
        BY <3>1, <3>3, <3>4
    <2>2. CASE k # 1
      <3>1. k \in 1..Len(s) /\ t[k] = s[k]
        BY <2>2, <1>4
      <3> QED
        BY <3>1 DEF WellStacked
    <2> QED
      BY <2>1, <2>2
  <1>8. ASSUME NEW k \in 2..Len(t) PROVE Calls(t[k], t[k - 1])
    <2>1. /\ k \in 2..Len(s) /\ k - 1 \in 1..Len(s) /\ k \in 1..Len(s)
          /\ t[k] = s[k] /\ t[k - 1].op = s[k - 1].op
      BY <1>1, <1>4, <1>5
    <2>2. Calls(s[k], s[k - 1])
      BY <2>1 DEF WellStacked
    <2> QED
      BY <2>1, <2>2 DEF Calls
  <1>9. WellStacked(t, hp)
    BY <1>6, <1>7, <1>8 DEF WellStacked
  <1> QED
    BY <1>4, <1>5, <1>9 DEF t

(***************************************************************************)
(* The list of modules.                                                    *)
(***************************************************************************)
LEMMA RegisteredType ==
    ASSUME TypeOK
    PROVE  Registered \subseteq Handle
  BY RangeType DEF TypeOK, Registered

LEMMA PendingType ==
    ASSUME TypeOK
    PROVE  Pending \subseteq Handle
  BY FrameAt DEF TypeOK, Pending

LEMMA TopFacts ==
    ASSUME TypeOK, StackOK, stack # <<>>
    PROVE  /\ Top \in Frame /\ Top.h \in Handle /\ Top.h \in Pending
           /\ Top.ret \in Handle \cup {NULL} /\ Top.todo \in Nat /\ Top.adv \in Advice
           /\ heap[Top.h].live
           /\ Top.op = "load" /\ Top.todo > 0 =>
                 /\ heap[Top.h].file \in Module
                 /\ Top.todo <= Len(DepLibs[heap[Top.h].file])
           /\ Below \in Seq(Frame) /\ WellStacked(Below, heap)
           /\ \A k \in 1..Len(Below) : /\ Below[k].h # Top.h
                                       /\ Below[k].h \in Pending
                                       /\ Below[k].h \in Handle
           /\ Below # <<>> => Calls(Below[1], Top)
  <1>1. stack \in Seq(Frame) /\ WellStacked(stack, heap)
    BY DEF TypeOK, StackOK
  <1>2. 1 \in 1..Len(stack) /\ Len(stack) \in Nat
    BY <1>1
  <1>3. /\ Below \in Seq(Frame) /\ WellStacked(Below, heap)
        /\ \A k \in 1..Len(Below) : Below[k].h # Top.h
        /\ Below # <<>> => Calls(Below[1], Top)
    BY <1>1, StackTail DEF Below, Top
  <1>4. \A k \in 1..Len(Below) : k + 1 \in 1..Len(stack) /\ Below[k] = stack[k + 1]
    BY <1>1, TailType DEF Below
  <1>5. \A k \in 1..Len(stack) : stack[k].h \in Pending /\ stack[k].h \in Handle
    BY <1>1, FrameAt DEF Pending
  <1>6. /\ Top \in Frame /\ Top.ret \in Handle \cup {NULL} /\ Top.todo \in Nat
        /\ Top.adv \in Advice
    BY <1>1, <1>2, FrameAt DEF Top
  <1>7. /\ heap[Top.h].live
        /\ Top.op = "load" /\ Top.todo > 0 =>
              /\ heap[Top.h].file \in Module
              /\ Top.todo <= Len(DepLibs[heap[Top.h].file])
    BY <1>1, <1>2 DEF WellStacked, Top
  <1> QED
    BY <1>2, <1>3, <1>4, <1>5, <1>6, <1>7 DEF Top

LEMMA NextType ==
    ASSUME TypeOK, NEW h \in Registered
    PROVE  Next1(h) \in Handle \cup {NULL}
  <1>1. handles \in Seq(Handle) /\ IndexOf(handles, h) \in 1..Len(handles)
    BY IndexProp DEF TypeOK, Registered
  <1> QED
    BY <1>1 DEF Next1

\* The list stays well formed when modules leave it and pending handles go.
LEMMA ListShrinks ==
    ASSUME TypeOK, ListOK,
           \A j, k \in 1..Len(handles') : handles'[j] = handles'[k] => j = k,
           Registered' \subseteq Registered,
           \A h \in Registered : SameHandle(h, heap'),
           Registered' \cap Pending' = {}
    PROVE  ListOK'
  <1>1. \A h \in Registered' : heap'[h].live = heap[h].live /\ heap'[h].file = heap[h].file
    BY DEF SameHandle
  <1> QED
    BY <1>1 DEF ListOK

LEMMA LoaderKept ==
    ASSUME LoaderOfOpenModule, Registered' \subseteq Registered, UNCHANGED loaders,
           \A h \in Registered : SameHandle(h, heap')
    PROVE  LoaderOfOpenModule'
  BY DEF LoaderOfOpenModule, SameHandle

LEMMA PushPending ==
    ASSUME stack \in Seq(Frame), NEW fr \in Frame, stack' = <<fr>> \o stack
    PROVE  Pending' = {fr.h} \cup Pending
  <1>1. /\ Len(stack') = Len(stack) + 1 /\ stack'[1] = fr /\ Len(stack) \in Nat
        /\ \A k \in 2..(Len(stack) + 1) : stack'[k] = stack[k - 1]
    BY PushType
  <1>2. \A k \in 1..Len(stack') : k # 1 => k - 1 \in 1..Len(stack) /\ stack'[k] = stack[k - 1]
    BY <1>1
  <1>3. ASSUME NEW k \in 1..Len(stack) PROVE k + 1 \in 1..Len(stack') /\ stack'[k + 1] = stack[k]
    <2>1. k + 1 \in 2..(Len(stack) + 1) /\ (k + 1) - 1 = k
      BY <1>1
    <2> QED
      BY <1>1, <2>1
  <1>4. Pending' = {stack'[k].h : k \in 1..Len(stack')} /\ Pending = {stack[k].h : k \in 1..Len(stack)}
    BY DEF Pending
  <1>5. ASSUME NEW k \in 1..Len(stack') PROVE stack'[k].h \in {fr.h} \cup Pending
    BY <1>1, <1>2, <1>4
  <1>6. ASSUME NEW k \in 1..Len(stack) PROVE stack[k].h \in Pending'
    BY <1>3, <1>4
  <1>7. fr.h \in Pending'
    BY <1>1, <1>4
  <1> QED
    BY <1>4, <1>5, <1>6, <1>7

(***************************************************************************)
(* The steps several actions share.                                        *)
(***************************************************************************)
\* Opening a module allocates a handle the library did not know.
LEMMA BeginOpenInv ==
    ASSUME TypeOK, StackOK, ListOK, NEW f \in File, NEW adv \in Advice,
           BeginOpen(f, adv), UNCHANGED handles,
           stack = <<>> \/ (Top.op = "load" /\ Top.todo > 0)
    PROVE  /\ heap' \in [Handle -> HandleRec]
           /\ stack' \in Seq(Frame)
           /\ StackOK' /\ ListOK' /\ Registered' = Registered
           /\ \A g \in Registered : heap'[g] = heap[g]
  <1>1. PICK h \in Handle :
            /\ ~heap[h].live
            /\ heap' = [heap EXCEPT ![h] = Zalloc(f)]
            /\ stack' = <<LoadFrame(h, f, adv)>> \o stack
    BY DEF BeginOpen
  <1> DEFINE fr == LoadFrame(h, f, adv)
  <1>2. /\ fr \in Frame /\ fr.h = h /\ fr.op = "load"
        /\ fr.todo > 0 => f \in Module /\ fr.todo <= Len(DepLibs[f])
    BY LoadFrameType
  <1>3. stack \in Seq(Frame) /\ heap \in [Handle -> HandleRec] /\ handles \in Seq(Handle)
    BY DEF TypeOK
  <1>4. /\ heap' \in [Handle -> HandleRec]
        /\ heap'[h].live /\ heap'[h].file = f
        /\ \A g \in Handle : g # h => heap'[g] = heap[g]
    BY <1>1, <1>3, ZallocType
  <1>5. \A k \in 1..Len(stack) : stack[k].h # h /\ heap'[stack[k].h] = heap[stack[k].h]
    <2> SUFFICES ASSUME NEW k \in 1..Len(stack)
                 PROVE  stack[k].h # h /\ heap'[stack[k].h] = heap[stack[k].h]
      OBVIOUS
    <2>1. stack[k].h \in Handle
      BY <1>3, FrameAt
    <2>2. heap[stack[k].h].live
      BY DEF StackOK, WellStacked
    <2> QED
      BY <1>1, <1>4, <2>1, <2>2
  <1>6. WellStacked(stack, heap')
    BY <1>3, <1>5, StackHeap DEF StackOK
  <1>7. stack # <<>> => Calls(stack[1], fr)
    BY <1>2 DEF Calls, Top
  <1>8. stack' \in Seq(Frame) /\ WellStacked(stack', heap')
    <2>1. /\ \A k \in 1..Len(stack) : stack[k].h # fr.h
          /\ heap'[fr.h].live
          /\ fr.op = "load" /\ fr.todo > 0 =>
                heap'[fr.h].file \in Module /\ fr.todo <= Len(DepLibs[heap'[fr.h].file])
      BY <1>2, <1>4, <1>5
    <2>2. stack' = <<fr>> \o stack
      BY <1>1
    <2> HIDE DEF fr
    <2> QED
      BY <1>2, <1>3, <1>6, <1>7, <2>1, <2>2, StackPush
  <1>9. Registered' = Registered /\ Registered \subseteq Handle /\ h \notin Registered
    BY <1>1, RegisteredType DEF ListOK, Registered
  <1>10. \A g \in Registered : heap'[g] = heap[g]
    BY <1>4, <1>9
  <1>11. Pending' = {h} \cup Pending
    BY <1>1, <1>2, <1>3, PushPending
  <1>12. ListOK'
    BY <1>9, <1>10, <1>11 DEF ListOK
  <1> QED
    BY <1>4, <1>8, <1>9, <1>10, <1>12 DEF StackOK

\* The end of an open leaves the calls below it well stacked.
LEMMA ReturnInv ==
    ASSUME TypeOK, StackOK, stack # <<>>, Top.op # "drop",
           NEW r \in Handle \cup {NULL}, NEW hp \in [Handle -> HandleRec],
           \A g \in Handle \ {Top.h} : hp[g].live = heap[g].live /\ hp[g].file = heap[g].file,
           Return(r, hp)
    PROVE  /\ heap' \in [Handle -> HandleRec]
           /\ stack' \in Seq(Frame)
           /\ held' \in [Handle -> Nat]
           /\ StackOK'
           /\ \A g \in Handle : /\ heap'[g].live = hp[g].live
                                /\ heap'[g].file = hp[g].file
                                /\ heap'[g].vtable = hp[g].vtable
                                /\ heap'[g].resident = hp[g].resident
           /\ Pending' \subseteq Pending \ {Top.h}
  <1>1. /\ Below \in Seq(Frame) /\ WellStacked(Below, heap)
        /\ \A k \in 1..Len(Below) : /\ Below[k].h # Top.h
                                    /\ Below[k].h \in Pending
                                    /\ Below[k].h \in Handle
        /\ Below # <<>> => Calls(Below[1], Top)
    BY TopFacts
  <1>2. held \in [Handle -> Nat]
    BY DEF TypeOK
  <1>3. CASE Below = <<>>
    <2>1. /\ stack' = <<>> /\ heap' = hp
          /\ held' = IF r = NULL THEN held ELSE [held EXCEPT ![r] = @ + 1]
      BY <1>3 DEF Return
    <2>2. held' \in [Handle -> Nat]
      BY <1>2, <2>1
    <2>3. StackOK' /\ Pending' = {}
      BY <2>1 DEF StackOK, WellStacked, Pending
    <2> QED
      BY <2>1, <2>2, <2>3
  <1>4. CASE Below # <<>>
    <2> DEFINE d == Below[1].h
    <2>1. /\ stack' = [Below EXCEPT ![1].todo = @ - 1]
          /\ heap' = IF r = NULL THEN hp ELSE [hp EXCEPT ![d].deplibs = Append(@, r)]
          /\ held' = held
      BY <1>4 DEF Return
    <2>2. Below[1].op = "load" /\ Below[1].todo > 0
      BY <1>1, <1>4 DEF Calls
    <2>3. /\ stack' \in Seq(Frame) /\ WellStacked(stack', heap)
          /\ Len(stack') = Len(Below)
          /\ \A k \in 1..Len(Below) : stack'[k].h = Below[k].h
      BY <1>1, <1>4, <2>1, <2>2, StackCount
    <2>4. d \in Handle
      <3>1. 1 \in 1..Len(Below)
        BY <1>1, <1>4
      <3> QED
        BY <1>1, <3>1
    <2>5. hp[d] \in HandleRec /\ hp[d].deplibs \in Seq(Handle)
      BY <2>4 DEF HandleRec
    <2>6. r # NULL => Append(hp[d].deplibs, r) \in Seq(Handle)
      BY <2>5
    <2>7. heap' \in [Handle -> HandleRec]
      <3>1. CASE r = NULL
        BY <2>1, <3>1
      <3>2. CASE r # NULL
        <4>1. [hp[d] EXCEPT !.deplibs = Append(@, r)] \in HandleRec
          BY <2>5, <2>6, <3>2 DEF HandleRec
        <4> QED
          BY <2>1, <2>4, <3>2, <4>1
      <3> QED
        BY <3>1, <3>2
    <2>8. \A g \in Handle : /\ heap'[g].live = hp[g].live
                            /\ heap'[g].file = hp[g].file
                            /\ heap'[g].vtable = hp[g].vtable
                            /\ heap'[g].resident = hp[g].resident
      <3> SUFFICES ASSUME NEW g \in Handle
                   PROVE  /\ heap'[g].live = hp[g].live
                          /\ heap'[g].file = hp[g].file
                          /\ heap'[g].vtable = hp[g].vtable
                          /\ heap'[g].resident = hp[g].resident
        OBVIOUS
      <3>1. CASE r = NULL
        BY <2>1, <3>1
      <3>2. CASE r # NULL /\ g # d
        BY <2>1, <2>4, <3>2
      <3>3. CASE r # NULL /\ g = d
        <4>1. heap'[g] = [hp[d] EXCEPT !.deplibs = Append(@, r)]
          BY <2>1, <2>4, <3>3
        <4> QED
          BY <4>1, <2>5, <3>3 DEF HandleRec
      <3> QED
        BY <3>1, <3>2, <3>3
    <2> HIDE DEF d
    <2>9. WellStacked(stack', heap')
      <3>1. \A k \in 1..Len(stack') : /\ heap'[stack'[k].h].live = heap[stack'[k].h].live
                                      /\ heap'[stack'[k].h].file = heap[stack'[k].h].file
        <4> SUFFICES ASSUME NEW k \in 1..Len(stack')
                     PROVE  /\ heap'[stack'[k].h].live = heap[stack'[k].h].live
                            /\ heap'[stack'[k].h].file = heap[stack'[k].h].file
          OBVIOUS
        <4>1. stack'[k].h \in Handle \ {Top.h}
          BY <1>1, <2>3
        <4> QED
          BY <2>8, <4>1
      <3> QED
        BY <2>3, <3>1, StackHeap
    <2>10. Pending' \subseteq Pending \ {Top.h}
      <3>1. ASSUME NEW k \in 1..Len(stack') PROVE stack'[k].h \in Pending \ {Top.h}
        BY <1>1, <2>3
      <3>2. Pending' = {stack'[k].h : k \in 1..Len(stack')}
        BY DEF Pending
      <3> QED
        BY <3>1, <3>2
    <2> QED
      BY <1>2, <2>1, <2>3, <2>7, <2>8, <2>9, <2>10 DEF StackOK
  <1> QED
    BY <1>3, <1>4

\* lt_dlclose of h, whoever calls it.
LEMMA CloseInv ==
    ASSUME TypeOK, StackOK, ListOK, NEW h \in Handle, NEW hp \in [Handle -> HandleRec],
           \A g \in Handle : SameHandle(g, hp),
           stack = <<>> \/ Top.op \in {"drop", "undo"},
           Close(h, hp)
    PROVE  /\ handles' \in Seq(Handle)
           /\ heap' \in [Handle -> HandleRec]
           /\ stack' \in Seq(Frame)
           /\ errs' \in BOOLEAN
           /\ StackOK' /\ ListOK'
           /\ Registered' \subseteq Registered
           /\ \A g \in Registered : heap[g].resident => g \in Registered'
           /\ \A g \in Handle : SameHandle(g, heap')
  <1> DEFINE counted == [hp EXCEPT ![h].ref = @ - 1]
  <1>1. /\ handles \in Seq(Handle) /\ stack \in Seq(Frame) /\ errs \in BOOLEAN
        /\ heap \in [Handle -> HandleRec]
    BY DEF TypeOK
  <1>2. counted \in [Handle -> HandleRec] /\ \A g \in Handle : SameHandle(g, counted)
    <2>1. hp[h] \in HandleRec /\ hp[h].ref - 1 \in Int
      BY DEF HandleRec
    <2>2. [hp[h] EXCEPT !.ref = @ - 1] \in HandleRec
      BY <2>1 DEF HandleRec
    <2>3. counted \in [Handle -> HandleRec]
      BY <2>2
    <2>4. ASSUME NEW g \in Handle PROVE SameHandle(g, counted)
      <3>1. CASE g # h
        BY <3>1 DEF SameHandle
      <3>2. CASE g = h
        <4>1. counted[g] = [hp[h] EXCEPT !.ref = @ - 1]
          BY <3>2
        <4> QED
          BY <3>2, <4>1, <2>1 DEF SameHandle, HandleRec
      <3> QED
        BY <3>1, <3>2
    <2> QED
      BY <2>3, <2>4
  <1> HIDE DEF counted
  <1>3. /\ \A j, k \in 1..Len(handles) : handles[j] = handles[k] => j = k
        /\ Registered \cap Pending = {}
        /\ \A g \in Registered : heap[g].live
    BY DEF ListOK
  <1>4. \A hq : (\A g \in Handle : SameHandle(g, hq)) => WellStacked(stack, hq)
    <2> SUFFICES ASSUME NEW hq, \A g \in Handle : SameHandle(g, hq)
                 PROVE  WellStacked(stack, hq)
      OBVIOUS
    <2>1. \A k \in 1..Len(stack) : /\ hq[stack[k].h].live = heap[stack[k].h].live
                                   /\ hq[stack[k].h].file = heap[stack[k].h].file
      BY <1>1, FrameAt DEF SameHandle
    <2> QED
      BY <1>1, <2>1, StackHeap DEF StackOK
  <1>5. ASSUME \A g \in Handle : SameHandle(g, heap'), UNCHANGED <<handles, stack>>
        PROVE  /\ handles' \in Seq(Handle) /\ stack' \in Seq(Frame) /\ StackOK' /\ ListOK'
               /\ Registered' = Registered
    <2>1. Registered' = Registered /\ Pending' = Pending
      BY <1>5 DEF Registered, Pending
    <2>2. \A g \in Registered : SameHandle(g, heap')
      BY <1>5, RegisteredType
    <2>3. ListOK'
      BY <1>3, <1>5, <2>1, <2>2, ListShrinks
    <2> QED
      BY <1>1, <1>4, <1>5, <2>1, <2>3 DEF StackOK
  <1>6. CASE h \notin Registered /\ heap' = hp /\ UNCHANGED <<handles, stack>>
             /\ errs' = (errs \/ phase = "closing")
    BY <1>5, <1>6
  <1>7. CASE h \in Registered /\ heap' = counted /\ UNCHANGED <<handles, stack>>
             /\ errs' = (errs \/ (phase = "closing" /\ hp[h].resident))
    <2>1. hp[h].resident \in BOOLEAN
      BY DEF HandleRec
    <2> QED
      BY <1>1, <1>2, <1>5, <1>7, <2>1
  <1>8. CASE /\ h \in Registered /\ hp[h].ref <= 1 /\ ~hp[h].resident
             /\ handles' = DeleteAt(handles, IndexOf(handles, h))
             /\ heap' = counted
             /\ stack' = <<DropFrame(h)>> \o stack
             /\ UNCHANGED errs
    <2>1. IndexOf(handles, h) \in 1..Len(handles) /\ handles[IndexOf(handles, h)] = h
      BY <1>8, IndexProp DEF Registered
    <2>2. /\ handles' \in Seq(Handle)
          /\ Registered' = Registered \ {h}
          /\ \A j, k \in 1..Len(handles') : handles'[j] = handles'[k] => j = k
      <3>1. SeqRange(handles') = SeqRange(handles) \ {h}
            /\ \A j, k \in 1..Len(handles') : handles'[j] = handles'[k] => j = k
        BY <1>1, <1>3, <1>8, <2>1, DeleteRange
      <3>2. handles' \in Seq(Handle)
        BY <1>1, <1>8, <2>1, DeleteType
      <3> QED
        BY <3>1, <3>2 DEF Registered
    <2>3. /\ DropFrame(h) \in Frame /\ DropFrame(h).h = h /\ DropFrame(h).op = "drop"
      BY FrameType
    <2>4. h \notin Pending
      BY <1>3, <1>8
    <2>5. Pending' = {h} \cup Pending
      BY <1>1, <1>8, <2>3, PushPending
    <2>6. ListOK'
      <3>1. \A g \in Registered : SameHandle(g, heap')
        BY <1>2, <1>8, RegisteredType
      <3>2. Registered' \cap Pending' = {}
        BY <1>3, <2>2, <2>5
      <3> QED
        BY <2>2, <3>1, <3>2, ListShrinks
    <2>7. ~heap[h].resident
      <3>1. SameHandle(h, hp)
        OBVIOUS
      <3> QED
        BY <1>8, <3>1 DEF SameHandle
    <2>8. WellStacked(stack, heap')
      BY <1>2, <1>4, <1>8
    <2>9. heap'[h].live
      BY <1>2, <1>3, <1>8 DEF SameHandle
    <2>10. \A k \in 1..Len(stack) : stack[k].h # h
      BY <2>4 DEF Pending
    <2>11. stack # <<>> => Calls(stack[1], DropFrame(h))
      BY <2>3 DEF Calls, Top
    <2>12. stack' \in Seq(Frame) /\ WellStacked(stack', heap')
      BY <1>1, <1>8, <2>3, <2>8, <2>9, <2>10, <2>11, StackPush
    <2> QED
      BY <1>1, <1>2, <1>8, <2>2, <2>6, <2>7, <2>12 DEF StackOK
  <1> QED
    BY <1>6, <1>7, <1>8 DEF Close, counted

\* A pending open gives up: it will release its deplibs and return ret.
LEMMA UndoInv ==
    ASSUME TypeOK, StackOK, ListOK, stack # <<>>, Top.op = "load",
           NEW r \in Handle \cup {NULL},
           stack' = <<UndoFrame(Top.h, r)>> \o Below,
           UNCHANGED handles,
           \A g \in Handle : SameHandle(g, heap')
    PROVE  stack' \in Seq(Frame) /\ StackOK' /\ ListOK' /\ Registered' = Registered
  <1> DEFINE fr == UndoFrame(Top.h, r)
  <1>1. /\ Top.h \in Handle /\ Top.h \in Pending /\ heap[Top.h].live
        /\ Below \in Seq(Frame) /\ WellStacked(Below, heap)
        /\ \A k \in 1..Len(Below) : /\ Below[k].h # Top.h
                                    /\ Below[k].h \in Pending
                                    /\ Below[k].h \in Handle
        /\ Below # <<>> => Calls(Below[1], Top)
    BY TopFacts
  <1>2. fr \in Frame /\ fr.h = Top.h /\ fr.op = "undo"
    BY <1>1, FrameType
  <1>3. \A k \in 1..Len(Below) : /\ heap'[Below[k].h].live = heap[Below[k].h].live
                                 /\ heap'[Below[k].h].file = heap[Below[k].h].file
    BY <1>1 DEF SameHandle
  <1>4. WellStacked(Below, heap')
    BY <1>1, <1>3, StackHeap
  <1>5. heap'[fr.h].live
    BY <1>1, <1>2 DEF SameHandle
  <1>6. Below # <<>> => Calls(Below[1], fr)
    BY <1>1, <1>2 DEF Calls
  <1>7. stack' = <<fr>> \o Below
    OBVIOUS
  <1> HIDE DEF fr
  <1>8. stack' \in Seq(Frame) /\ WellStacked(stack', heap')
    BY <1>1, <1>2, <1>4, <1>5, <1>6, <1>7, StackPush
  <1>9. Pending' \subseteq Pending
    <2>1. /\ Len(Below) \in Nat /\ Len(stack') = Len(Below) + 1 /\ stack'[1] = fr
          /\ \A k \in 2..(Len(Below) + 1) : stack'[k] = Below[k - 1]
      BY <1>1, <1>2, <1>7, PushType
    <2>2. ASSUME NEW k \in 1..Len(stack') PROVE stack'[k].h \in Pending
      <3>1. CASE k = 1
        BY <3>1, <2>1, <1>1, <1>2
      <3>2. CASE k # 1
        <4>1. k - 1 \in 1..Len(Below) /\ stack'[k] = Below[k - 1]
          BY <3>2, <2>1
        <4> QED
          BY <4>1, <1>1
      <3> QED
        BY <3>1, <3>2
    <2>3. Pending' = {stack'[k].h : k \in 1..Len(stack')}
      BY DEF Pending
    <2> QED
      BY <2>2, <2>3
  <1>10. Registered' = Registered
    BY DEF Registered
  <1>11. ListOK'
    <2>1. \A j, k \in 1..Len(handles') : handles'[j] = handles'[k] => j = k
      BY DEF ListOK
    <2>2. \A g \in Registered : SameHandle(g, heap')
      BY RegisteredType
    <2>3. Registered' \cap Pending' = {}
      BY <1>9, <1>10 DEF ListOK
    <2> QED
      BY <1>10, <2>1, <2>2, <2>3, ListShrinks
  <1> QED
    BY <1>8, <1>10, <1>11 DEF StackOK

(***************************************************************************)
(* The list of loaders.                                                    *)
(***************************************************************************)
LoaderItem == [name : LoaderName, live : BOOLEAN]

LEMMA AddLoaderType ==
    ASSUME TypeOK, NEW l \in LoaderName
    PROVE  /\ AddLoader(l) \in Seq(LoaderItem)
           /\ SeqRange(loaders) \subseteq SeqRange(AddLoader(l))
           /\ Item(l) \in SeqRange(AddLoader(l))
  <1>1. loaders \in Seq(LoaderItem) /\ Item(l) \in LoaderItem
    BY DEF TypeOK, LoaderItem, Item
  <1>2. CASE l \in Appended
    <2> DEFINE t == Append(loaders, Item(l))
    <2>1. /\ t \in Seq(LoaderItem) /\ Len(t) = Len(loaders) + 1 /\ Len(loaders) \in Nat
          /\ t[Len(loaders) + 1] = Item(l)
          /\ \A k \in 1..Len(loaders) : t[k] = loaders[k]
      BY <1>1
    <2> HIDE DEF t
    <2>2. SeqRange(loaders) \subseteq SeqRange(t) /\ Item(l) \in SeqRange(t)
      BY <2>1 DEF SeqRange
    <2> QED
      BY <1>2, <2>1, <2>2 DEF AddLoader, t
  <1>3. CASE l \notin Appended
    BY <1>1, <1>3, PushType, PushRange DEF AddLoader
  <1> QED
    BY <1>2, <1>3

LEMMA RemoveLoaderType ==
    ASSUME TypeOK, NEW l, NEW i \in 1..Len(loaders), loaders[i].name = l
    PROVE  /\ RemoveLoader(l) \in Seq(LoaderItem)
           /\ \A k \in 1..Len(loaders) : loaders[k].name # l =>
                  loaders[k] \in SeqRange(RemoveLoader(l))
  <1> DEFINE P(k) == /\ loaders[k].name = l
                     /\ \A j \in 1..(k - 1) : loaders[j].name # l
             n == CHOOSE k \in 1..Len(loaders) : P(k)
  <1>1. loaders \in Seq(LoaderItem)
    BY DEF TypeOK, LoaderItem
  <1>2. \E k \in 1..Len(loaders) : P(k)
    <2> DEFINE T == {k \in 1..Len(loaders) : loaders[k].name = l}
    <2>1. T \subseteq Nat /\ T # {}
      BY <1>1
    <2>2. PICK k \in T : \A j \in T : k <= j
      BY <2>1, LeastNat
    <2>3. ASSUME NEW j \in 1..(k - 1) PROVE loaders[j].name # l
      <3>1. j \in 1..Len(loaders) /\ ~(k <= j)
        BY <1>1, <2>2
      <3> QED
        BY <2>2, <3>1
    <2> QED
      BY <2>2, <2>3
  <1>3. n \in 1..Len(loaders) /\ P(n)
    <2> HIDE DEF P
    <2> QED
      BY <1>2
  <1>4. RemoveLoader(l) = DeleteAt(loaders, n)
    BY DEF RemoveLoader
  <1>7. n \in 1..Len(loaders) /\ loaders[n].name = l
    BY <1>3
  <1> HIDE DEF n, P
  <1> DEFINE t == DeleteAt(loaders, n)
  <1>5. /\ t \in Seq(LoaderItem) /\ Len(t) = Len(loaders) - 1 /\ Len(loaders) \in Nat
        /\ \A j \in 1..(Len(loaders) - 1) : t[j] = IF j < n THEN loaders[j] ELSE loaders[j + 1]
    BY <1>1, <1>7, DeleteType
  <1> HIDE DEF t
  <1>6. ASSUME NEW k \in 1..Len(loaders), loaders[k].name # l
        PROVE  loaders[k] \in SeqRange(t)
    <2>1. k # n
      BY <1>7, <1>6
    <2>2. CASE k < n
      <3>1. k \in 1..Len(t) /\ t[k] = loaders[k]
        BY <1>7, <1>5, <2>2
      <3> QED
        BY <3>1 DEF SeqRange
    <2>3. CASE k > n
      <3>1. k - 1 \in 1..Len(t) /\ ~(k - 1 < n) /\ (k - 1) + 1 = k
        BY <1>7, <1>5, <2>3
      <3>2. t[k - 1] = loaders[k]
        BY <1>5, <3>1
      <3> QED
        BY <3>1, <3>2 DEF SeqRange
    <2> QED
      BY <1>7, <2>1, <2>2, <2>3
  <1> QED
    BY <1>4, <1>5, <1>6 DEF t

\* lt_dlexit's list is the end of the old one, and it keeps its order.
LEMMA StripType ==
    ASSUME TypeOK, ListOK
    PROVE  /\ StripResidents \in Seq(Handle)
           /\ SeqRange(StripResidents) \subseteq Registered
           /\ \A i, j \in 1..Len(StripResidents) :
                  StripResidents[i] = StripResidents[j] => i = j
  <1> DEFINE P(n) == /\ \A j \in 1..(n - 1) : heap[handles[j]].resident
                     /\ n <= Len(handles) => ~heap[handles[n]].resident
             m == CHOOSE n \in 1..(Len(handles) + 1) : P(n)
  <1>1. handles \in Seq(Handle) /\ Len(handles) \in Nat
    BY DEF TypeOK
  <1>2. \E n \in 1..(Len(handles) + 1) : P(n)
    <2> DEFINE T == {n \in 1..(Len(handles) + 1) :
                        n <= Len(handles) => ~heap[handles[n]].resident}
    <2>1. T \subseteq Nat /\ Len(handles) + 1 \in T
      BY <1>1
    <2>2. PICK n \in T : \A j \in T : n <= j
      BY <2>1, LeastNat
    <2>3. ASSUME NEW j \in 1..(n - 1) PROVE heap[handles[j]].resident
      <3>1. j \in 1..Len(handles) /\ ~(n <= j)
        BY <1>1, <2>2
      <3> QED
        BY <2>2, <3>1
    <2> QED
      BY <2>2, <2>3
  <1>3. m \in 1..(Len(handles) + 1)
    <2> HIDE DEF P
    <2> QED
      BY <1>2
  <1>4. StripResidents = SubSeq(handles, m, Len(handles))
    BY DEF StripResidents
  <1> HIDE DEF m
  <1> DEFINE t == SubSeq(handles, m, Len(handles))
  <1>5. /\ t \in Seq(Handle) /\ Len(t) = Len(handles) - m + 1
        /\ \A j \in 1..Len(t) : t[j] = handles[m + j - 1]
    BY <1>1, <1>3
  <1> HIDE DEF t
  <1>6. \A j \in 1..Len(t) : m + j - 1 \in 1..Len(handles)
    BY <1>1, <1>3, <1>5
  <1>7. SeqRange(t) \subseteq Registered
    BY <1>5, <1>6 DEF SeqRange, Registered
  <1>8. ASSUME NEW i \in 1..Len(t), NEW j \in 1..Len(t), t[i] = t[j] PROVE i = j
    <2>1. handles[m + i - 1] = handles[m + j - 1]
      BY <1>5, <1>8
    <2>2. m + i - 1 = m + j - 1
      BY <1>6, <2>1 DEF ListOK
    <2> QED
      BY <1>3, <1>5, <2>2
  <1> QED
    BY <1>4, <1>5, <1>7, <1>8 DEF t

(***************************************************************************)
(* Each action keeps the invariant, and keeps resident modules.            *)
(***************************************************************************)
ResidentStep ==
    \A h \in Registered : heap[h].resident => heap'[h].live /\ heap'[h].resident

\* A step that unregisters nothing resident and changes no more than counts
\* and deplibs of the registered modules.
LEMMA ResidentKept ==
    ASSUME ListOK, \A h \in Registered : SameHandle(h, heap')
    PROVE  ResidentStep
  BY DEF ResidentStep, SameHandle, ListOK

LEMMA ClientOpenInv ==
    ASSUME IInv, NEW f \in ClientFiles, NEW adv \in Advice, ClientOpen(f, adv)
    PROVE  IInv' /\ ResidentStep
  <1>1. f \in File
    BY FileAssumption DEF File
  <1>2. /\ heap' \in [Handle -> HandleRec] /\ stack' \in Seq(Frame)
        /\ StackOK' /\ ListOK' /\ Registered' = Registered
        /\ \A g \in Registered : SameHandle(g, heap')
    BY <1>1, BeginOpenInv DEF IInv, ClientOpen, Idle, SameHandle
  <1>3. TypeOK'
    BY <1>2 DEF IInv, TypeOK, ClientOpen
  <1>4. BootOK'
    BY DEF ClientOpen, Idle, BootOK
  <1>5. LoaderOfOpenModule' /\ ResidentStep
    BY <1>2, LoaderKept, ResidentKept DEF IInv, ClientOpen
  <1> QED
    BY <1>2, <1>3, <1>4, <1>5 DEF IInv

\* While a call is in progress, lt_dlinit is not.
LEMMA NotBooting ==
    ASSUME IInv, stack # <<>>, UNCHANGED phase
    PROVE  BootOK' /\ phase # "boot"
  BY DEF IInv, BootOK

LEMMA LoadDepInv ==
    ASSUME IInv, LoadDep
    PROVE  IInv' /\ ResidentStep
  <1> DEFINE f == DepLibs[heap[Top.h].file][Top.todo]
  <1>1. stack # <<>> /\ Top.op = "load" /\ Top.todo > 0
    BY DEF LoadDep, Running, Top
  <1>2. f \in Module
    <2>1. /\ heap[Top.h].file \in Module /\ Top.todo \in Nat
          /\ Top.todo <= Len(DepLibs[heap[Top.h].file])
      BY <1>1, TopFacts DEF IInv
    <2>2. DepLibs[heap[Top.h].file] \in Seq(Module)
      BY <2>1, DepLibsAssumption
    <2> QED
      BY <1>1, <2>1, <2>2
  <1>3. f \in File /\ "plain" \in Advice /\ BeginOpen(f, "plain") /\ UNCHANGED handles
    BY <1>2 DEF File, Advice, LoadDep
  <1> HIDE DEF f
  <1>4. /\ heap' \in [Handle -> HandleRec] /\ stack' \in Seq(Frame)
        /\ StackOK' /\ ListOK' /\ Registered' = Registered
        /\ \A g \in Registered : SameHandle(g, heap')
    BY <1>1, <1>3, BeginOpenInv DEF IInv, SameHandle
  <1>5. TypeOK'
    BY <1>4 DEF IInv, TypeOK, LoadDep
  <1>6. BootOK'
    BY <1>1, NotBooting DEF LoadDep
  <1>7. LoaderOfOpenModule' /\ ResidentStep
    BY <1>4, LoaderKept, ResidentKept DEF IInv, LoadDep
  <1> QED
    BY <1>4, <1>5, <1>6, <1>7 DEF IInv

LEMMA SkipDepInv ==
    ASSUME IInv, SkipDep
    PROVE  IInv' /\ ResidentStep
  <1>1. /\ stack # <<>> /\ stack[1].op = "load" /\ stack[1].todo > 0
        /\ stack \in Seq(Frame) /\ WellStacked(stack, heap)
    BY DEF SkipDep, Running, Top, IInv, TypeOK, StackOK
  <1>2. stack' = [stack EXCEPT ![1].todo = @ - 1]
    BY DEF SkipDep
  <1>3. /\ stack' \in Seq(Frame) /\ WellStacked(stack', heap)
        /\ Len(stack') = Len(stack)
        /\ \A k \in 1..Len(stack) : stack'[k].h = stack[k].h
    BY <1>1, <1>2, StackCount
  <1>4. StackOK'
    BY <1>3 DEF StackOK, SkipDep
  <1>5. Pending' = Pending
    <2>1. Pending' = {stack'[k].h : k \in 1..Len(stack')} /\ Pending = {stack[k].h : k \in 1..Len(stack)}
      BY DEF Pending
    <2> QED
      BY <1>3, <2>1
  <1>6. Registered' = Registered /\ ListOK'
    BY <1>5 DEF ListOK, Registered, IInv, SkipDep
  <1>7. TypeOK'
    BY <1>3 DEF IInv, TypeOK, SkipDep
  <1>8. BootOK'
    BY <1>1, NotBooting DEF SkipDep
  <1>9. \A g \in Registered : SameHandle(g, heap')
    BY DEF SkipDep, SameHandle
  <1>10. LoaderOfOpenModule' /\ ResidentStep
    BY <1>6, <1>9, LoaderKept, ResidentKept DEF IInv, SkipDep
  <1> QED
    BY <1>4, <1>6, <1>7, <1>8, <1>10 DEF IInv

LEMMA FindExistingInv ==
    ASSUME IInv, FindExisting
    PROVE  IInv' /\ ResidentStep
  <1>1. PICK e \in Registered :
            /\ heap' = [heap EXCEPT ![e].ref = @ + 1]
            /\ stack' = <<UndoFrame(Top.h, e)>> \o Below
    BY DEF FindExisting
  <1>2. stack # <<>> /\ Top.op = "load" /\ e \in Handle /\ heap \in [Handle -> HandleRec]
    BY RegisteredType DEF FindExisting, Running, Top, IInv, TypeOK
  <1>3. heap[e] \in HandleRec /\ [heap[e] EXCEPT !.ref = @ + 1] \in HandleRec
    <2>1. heap[e] \in HandleRec
      BY <1>2
    <2>2. heap[e].ref + 1 \in Int
      BY <2>1 DEF HandleRec
    <2> QED
      BY <2>1, <2>2 DEF HandleRec
  <1>4. heap' \in [Handle -> HandleRec]
    BY <1>1, <1>2, <1>3
  <1>5. ASSUME NEW g \in Handle PROVE SameHandle(g, heap')
    <2>1. CASE g # e
      BY <1>1, <1>2, <2>1 DEF SameHandle
    <2>2. CASE g = e
      <3>1. heap'[g] = [heap[e] EXCEPT !.ref = @ + 1]
        BY <1>1, <1>2, <2>2
      <3> QED
        BY <1>3, <2>2, <3>1 DEF SameHandle, HandleRec
    <2> QED
      BY <2>1, <2>2
  <1>6. stack' \in Seq(Frame) /\ StackOK' /\ ListOK' /\ Registered' = Registered
    BY <1>1, <1>2, <1>5, UndoInv DEF FindExisting, IInv
  <1>7. TypeOK'
    BY <1>4, <1>6 DEF IInv, TypeOK, FindExisting
  <1>8. BootOK'
    BY <1>2, NotBooting DEF FindExisting
  <1>9. \A g \in Registered : SameHandle(g, heap')
    BY <1>5, RegisteredType DEF IInv
  <1>10. LoaderOfOpenModule' /\ ResidentStep
    BY <1>6, <1>9, LoaderKept, ResidentKept DEF IInv, FindExisting
  <1> QED
    BY <1>6, <1>7, <1>8, <1>10 DEF IInv

LEMMA OpenFailsInv ==
    ASSUME IInv, OpenFails
    PROVE  IInv' /\ ResidentStep
  <1>1. /\ stack # <<>> /\ Top.op = "load" /\ UNCHANGED <<handles, heap>>
        /\ stack' = <<UndoFrame(Top.h, NULL)>> \o Below
    BY DEF OpenFails, Running, Top
  <1>2. \A g \in Handle : SameHandle(g, heap')
    BY <1>1 DEF SameHandle
  <1>3. stack' \in Seq(Frame) /\ StackOK' /\ ListOK' /\ Registered' = Registered
    BY <1>1, <1>2, UndoInv DEF IInv
  <1>4. TypeOK'
    BY <1>3 DEF IInv, TypeOK, OpenFails
  <1>5. BootOK'
    BY <1>1, NotBooting DEF OpenFails
  <1>6. \A g \in Registered : SameHandle(g, heap')
    BY <1>2, RegisteredType DEF IInv
  <1>7. LoaderOfOpenModule' /\ ResidentStep
    BY <1>3, <1>6, LoaderKept, ResidentKept DEF IInv, OpenFails
  <1> QED
    BY <1>3, <1>4, <1>5, <1>7 DEF IInv

LEMMA OpenedType ==
    ASSUME NEW h, heap[h] \in HandleRec, NEW l \in LoaderName, NEW adv
    PROVE  /\ Opened(h, l, adv) \in HandleRec
           /\ Opened(h, l, adv).live = heap[h].live
           /\ Opened(h, l, adv).file = heap[h].file
           /\ Opened(h, l, adv).vtable = l
  <1> DEFINE r == IF adv = "none" THEN heap[h].resident ELSE adv = "resident"
  <1>1. r \in BOOLEAN
    BY DEF HandleRec
  <1> DEFINE x == [heap[h] EXCEPT !.ref = 1]
             y == [x EXCEPT !.vtable = l]
  <1>2. Opened(h, l, adv) = [y EXCEPT !.resident = r]
    BY DEF Opened
  <1>3. x \in HandleRec /\ x.live = heap[h].live /\ x.file = heap[h].file
    BY DEF HandleRec
  <1> HIDE DEF x
  <1>4. y \in HandleRec /\ y.live = x.live /\ y.file = x.file /\ y.vtable = l
    BY <1>3 DEF HandleRec
  <1> HIDE DEF y, r
  <1> QED
    BY <1>1, <1>2, <1>3, <1>4 DEF HandleRec

LEMMA LoaderOpensInv ==
    ASSUME IInv, LoaderOpens
    PROVE  IInv' /\ ResidentStep
  <1> DEFINE h == Top.h
             opened(k) == Opened(h, loaders[k].name, Top.adv)
             hp(k) == [heap EXCEPT ![h] = opened(k)]
  <1>1. PICK k \in 1..Len(loaders) :
            /\ loaders[k].live
            /\ handles' = <<h>> \o handles
            /\ Return(h, hp(k))
    BY DEF LoaderOpens
  <1>2. stack # <<>> /\ Top.op = "load"
    BY DEF LoaderOpens, Running, Top
  <1>3. /\ h \in Handle /\ h \in Pending /\ heap[h].live
        /\ heap \in [Handle -> HandleRec] /\ handles \in Seq(Handle)
        /\ loaders[k].name \in LoaderName
    <2>1. loaders \in Seq(LoaderItem)
      BY DEF IInv, TypeOK, LoaderItem
    <2>2. loaders[k] \in LoaderItem
      BY <2>1
    <2>3. loaders[k].name \in LoaderName
      BY <2>2 DEF LoaderItem
    <2> QED
      BY <1>2, <2>3, TopFacts DEF IInv, TypeOK
  <1>4. heap[h] \in HandleRec
    BY <1>3
  <1>5. /\ opened(k) \in HandleRec
        /\ opened(k).live = heap[h].live /\ opened(k).file = heap[h].file
        /\ opened(k).vtable = loaders[k].name
    <2>1. heap[h] \in HandleRec /\ loaders[k].name \in LoaderName
      BY <1>3, <1>4
    <2> HIDE DEF h
    <2> QED
      BY <2>1, OpenedType
  <1> HIDE DEF opened
  <1>6. /\ hp(k) \in [Handle -> HandleRec] /\ hp(k)[h] = opened(k)
        /\ \A g \in Handle \ {h} : hp(k)[g] = heap[g]
    BY <1>3, <1>5
  <1> HIDE DEF hp
  <1>7. /\ heap' \in [Handle -> HandleRec] /\ stack' \in Seq(Frame)
        /\ held' \in [Handle -> Nat] /\ StackOK'
        /\ \A g \in Handle : /\ heap'[g].live = hp(k)[g].live
                             /\ heap'[g].file = hp(k)[g].file
                             /\ heap'[g].vtable = hp(k)[g].vtable
                             /\ heap'[g].resident = hp(k)[g].resident
        /\ Pending' \subseteq Pending \ {h}
    <2>1. \A g \in Handle \ {Top.h} : /\ hp(k)[g].live = heap[g].live
                                      /\ hp(k)[g].file = heap[g].file
      BY <1>6
    <2>2. Top.op # "drop" /\ h \in Handle \cup {NULL}
      BY <1>2, <1>3
    <2> QED
      BY <1>1, <1>2, <1>6, <2>1, <2>2, ReturnInv DEF IInv
  <1>8. h \notin Registered /\ Registered \subseteq Handle
    BY <1>3, RegisteredType DEF IInv, ListOK
  <1>9. \A g \in Registered : SameHandle(g, heap')
    <2> SUFFICES ASSUME NEW g \in Registered PROVE SameHandle(g, heap')
      OBVIOUS
    <2>1. g \in Handle \ {h}
      BY <1>8
    <2> QED
      BY <1>6, <1>7, <2>1 DEF SameHandle
  <1>10. heap'[h].live /\ heap'[h].file = heap[h].file /\ heap'[h].vtable = loaders[k].name
    BY <1>3, <1>5, <1>6, <1>7, ZenonT(60)
  <1>11. /\ handles' \in Seq(Handle) /\ Registered' = {h} \cup Registered
    BY <1>1, <1>3, PushType, PushRange DEF Registered
  <1>12. \A i, j \in 1..Len(handles') : handles'[i] = handles'[j] => i = j
    BY <1>1, <1>3, <1>8, PushDistinct DEF IInv, ListOK, Registered
  <1>13. ListOK'
    <2>1. \A g \in Registered' : heap'[g].live
      BY <1>9, <1>10, <1>11 DEF SameHandle, IInv, ListOK
    <2>2. Registered' \cap Pending' = {}
      BY <1>7, <1>11 DEF IInv, ListOK
    <2>3. ASSUME NEW g \in Registered PROVE heap'[g].file # heap'[h].file
      BY <1>9, <1>10 DEF SameHandle, LoaderOpens
    <2>4. \A f, g \in Registered : heap'[f].file = heap'[g].file => f = g
      BY <1>9 DEF SameHandle, IInv, ListOK
    <2>5. \A f, g \in Registered' : heap'[f].file = heap'[g].file => f = g
      BY <1>11, <2>3, <2>4
    <2> QED
      BY <1>12, <2>1, <2>2, <2>5 DEF ListOK
  <1>14. TypeOK'
    BY <1>7, <1>11 DEF IInv, TypeOK, LoaderOpens
  <1>15. BootOK'
    BY <1>2, NotBooting DEF LoaderOpens
  <1>16. LoaderOfOpenModule'
    <2>1. \A g \in Registered : heap'[g].vtable = heap[g].vtable
      BY <1>9 DEF SameHandle
    <2>2. UNCHANGED loaders
      BY DEF LoaderOpens
    <2> QED
      BY <1>1, <1>10, <1>11, <2>1, <2>2 DEF IInv, LoaderOfOpenModule
  <1>17. ResidentStep
    BY <1>9, ResidentKept DEF IInv
  <1> QED
    BY <1>7, <1>13, <1>14, <1>15, <1>16, <1>17 DEF IInv

LEMMA ClientCloseInv ==
    ASSUME IInv, NEW h \in Handle, ClientClose(h)
    PROVE  IInv' /\ ResidentStep
  <1>1. /\ stack = <<>> /\ Close(h, heap) /\ heap \in [Handle -> HandleRec]
        /\ \A g \in Handle : SameHandle(g, heap)
    BY DEF ClientClose, Idle, SameHandle, IInv, TypeOK
  <1>2. /\ handles' \in Seq(Handle) /\ heap' \in [Handle -> HandleRec]
        /\ stack' \in Seq(Frame) /\ errs' \in BOOLEAN /\ StackOK' /\ ListOK'
        /\ Registered' \subseteq Registered
        /\ \A g \in Handle : SameHandle(g, heap')
    BY <1>1, CloseInv DEF IInv
  <1>3. held' \in [Handle -> Nat]
    <2>1. held \in [Handle -> Nat] /\ held[h] > 0
      BY DEF IInv, TypeOK, ClientClose
    <2>2. held[h] - 1 \in Nat
      BY <2>1
    <2> QED
      BY <2>1, <2>2 DEF ClientClose
  <1>4. TypeOK'
    BY <1>2, <1>3 DEF IInv, TypeOK, ClientClose
  <1>5. BootOK'
    BY DEF ClientClose, Idle, BootOK
  <1>6. \A g \in Registered : SameHandle(g, heap')
    BY <1>2, RegisteredType DEF IInv
  <1>7. LoaderOfOpenModule' /\ ResidentStep
    BY <1>2, <1>6, LoaderKept, ResidentKept DEF IInv, ClientClose
  <1> QED
    BY <1>2, <1>4, <1>5, <1>7 DEF IInv

LEMMA SweepCloseInv ==
    ASSUME IInv, SweepClose
    PROVE  IInv' /\ ResidentStep
  <1> DEFINE h == sweep.cur
  <1>1. /\ stack = <<>> /\ Close(h, heap) /\ heap \in [Handle -> HandleRec]
        /\ h \in Handle /\ \A g \in Handle : SameHandle(g, heap)
    BY RegisteredType DEF SweepClose, Sweeping, SameHandle, IInv, TypeOK
  <1> HIDE DEF h
  <1>2. /\ handles' \in Seq(Handle) /\ heap' \in [Handle -> HandleRec]
        /\ stack' \in Seq(Frame) /\ errs' \in BOOLEAN /\ StackOK' /\ ListOK'
        /\ Registered' \subseteq Registered
        /\ \A g \in Handle : SameHandle(g, heap')
    BY <1>1, CloseInv DEF IInv
  <1>3. Next1(sweep.cur) \in Handle \cup {NULL}
    BY NextType DEF IInv, SweepClose
  <1>4. TypeOK'
    BY <1>2, <1>3 DEF IInv, TypeOK, SweepClose
  <1>5. BootOK'
    BY DEF SweepClose, Sweeping, BootOK
  <1>6. \A g \in Registered : SameHandle(g, heap')
    BY <1>2, RegisteredType DEF IInv
  <1>7. LoaderOfOpenModule' /\ ResidentStep
    BY <1>2, <1>6, LoaderKept, ResidentKept DEF IInv, SweepClose
  <1> QED
    BY <1>2, <1>4, <1>5, <1>7 DEF IInv

LEMMA ReleaseDepInv ==
    ASSUME IInv, ReleaseDep
    PROVE  IInv' /\ ResidentStep
  <1> DEFINE t == Top.h
             d == Head(heap[t].deplibs)
             rest == [heap EXCEPT ![t].deplibs = Tail(@)]
  <1>1. /\ stack # <<>> /\ Top.op \in {"drop", "undo"} /\ t \in Handle
        /\ heap \in [Handle -> HandleRec] /\ heap[t].deplibs # <<>>
    BY TopFacts DEF ReleaseDep, Running, Top, IInv, TypeOK
  <1>2. heap[t] \in HandleRec /\ heap[t].deplibs \in Seq(Handle)
    BY <1>1 DEF HandleRec
  <1>3. d \in Handle /\ Tail(heap[t].deplibs) \in Seq(Handle)
    BY <1>1, <1>2
  <1>4. [heap[t] EXCEPT !.deplibs = Tail(@)] \in HandleRec
    BY <1>2, <1>3 DEF HandleRec
  <1>5. rest \in [Handle -> HandleRec]
    BY <1>1, <1>4
  <1>6. ASSUME NEW g \in Handle PROVE SameHandle(g, rest)
    <2>1. CASE g # t
      BY <2>1 DEF SameHandle
    <2>2. CASE g = t
      <3>1. rest[g] = [heap[t] EXCEPT !.deplibs = Tail(@)]
        BY <1>1, <2>2
      <3> QED
        BY <1>2, <2>2, <3>1 DEF SameHandle, HandleRec
    <2> QED
      BY <2>1, <2>2
  <1>7. \/ heap' = rest /\ UNCHANGED <<handles, stack, errs>>
        \/ Close(d, rest)
    BY DEF ReleaseDep
  <1> HIDE DEF t, d, rest
  <1>8. /\ handles' \in Seq(Handle) /\ heap' \in [Handle -> HandleRec]
        /\ stack' \in Seq(Frame) /\ errs' \in BOOLEAN /\ StackOK' /\ ListOK'
        /\ Registered' \subseteq Registered
        /\ \A g \in Handle : SameHandle(g, heap')
    <2>1. CASE heap' = rest /\ UNCHANGED <<handles, stack, errs>>
      <3>1. Registered' = Registered /\ Pending' = Pending
        BY <2>1 DEF Registered, Pending
      <3>2. \A g \in Handle : SameHandle(g, heap')
        BY <1>6, <2>1
      <3>3. ListOK'
        <4>1. \A j, k \in 1..Len(handles') : handles'[j] = handles'[k] => j = k
          BY <2>1 DEF IInv, ListOK
        <4>2. \A g \in Registered : SameHandle(g, heap')
          BY <3>2, RegisteredType DEF IInv
        <4>3. Registered' \cap Pending' = {}
          BY <3>1 DEF IInv, ListOK
        <4> QED
          BY <3>1, <4>1, <4>2, <4>3, ListShrinks DEF IInv
      <3>4. StackOK'
        <4>1. stack \in Seq(Frame) /\ WellStacked(stack, heap)
          BY DEF IInv, TypeOK, StackOK
        <4>2. \A k \in 1..Len(stack) : /\ heap'[stack[k].h].live = heap[stack[k].h].live
                                       /\ heap'[stack[k].h].file = heap[stack[k].h].file
          BY <3>2, <4>1, FrameAt DEF SameHandle
        <4>3. WellStacked(stack, heap')
          BY <4>1, <4>2, StackHeap
        <4> QED
          BY <2>1, <4>3 DEF StackOK
      <3> QED
        BY <1>5, <2>1, <3>1, <3>2, <3>3, <3>4 DEF IInv, TypeOK
    <2>2. CASE Close(d, rest)
      BY <1>1, <1>3, <1>5, <1>6, <2>2, CloseInv DEF IInv
    <2> QED
      BY <1>7, <2>1, <2>2
  <1>9. TypeOK'
    BY <1>8 DEF IInv, TypeOK, ReleaseDep
  <1>10. BootOK'
    BY <1>1, NotBooting DEF ReleaseDep
  <1>11. \A g \in Registered : SameHandle(g, heap')
    BY <1>8, RegisteredType DEF IInv
  <1>12. LoaderOfOpenModule' /\ ResidentStep
    BY <1>8, <1>11, LoaderKept, ResidentKept DEF IInv, ReleaseDep
  <1> QED
    BY <1>8, <1>9, <1>10, <1>12 DEF IInv

LEMMA FreeType ==
    ASSUME TypeOK, NEW h \in Handle
    PROVE  /\ Free(h) \in [Handle -> HandleRec]
           /\ \A g \in Handle \ {h} : Free(h)[g] = heap[g]
  <1>1. Freed \in HandleRec
    BY DEF Freed, HandleRec
  <1> QED
    BY <1>1 DEF Free, TypeOK

LEMMA DropDoneInv ==
    ASSUME IInv, DropDone
    PROVE  IInv' /\ ResidentStep
  <1>1. /\ stack # <<>> /\ stack' = Below /\ heap' = Free(Top.h)
    BY DEF DropDone, Running
  <1>2. /\ Top.h \in Handle /\ Top.h \in Pending
        /\ Below \in Seq(Frame) /\ WellStacked(Below, heap)
        /\ \A k \in 1..Len(Below) : /\ Below[k].h # Top.h
                                    /\ Below[k].h \in Pending
                                    /\ Below[k].h \in Handle
    BY <1>1, TopFacts DEF IInv
  <1>3. /\ heap' \in [Handle -> HandleRec]
        /\ \A g \in Handle \ {Top.h} : heap'[g] = heap[g]
    BY <1>1, <1>2, FreeType DEF IInv
  <1>4. StackOK'
    <2>1. \A k \in 1..Len(Below) : /\ heap'[Below[k].h].live = heap[Below[k].h].live
                                   /\ heap'[Below[k].h].file = heap[Below[k].h].file
      BY <1>2, <1>3
    <2>2. WellStacked(Below, heap')
      BY <1>2, <2>1, StackHeap
    <2> QED
      BY <1>1, <2>2 DEF StackOK
  <1>5. \A g \in Registered : g \in Handle \ {Top.h}
    BY <1>2, RegisteredType DEF IInv, ListOK
  <1>6. \A g \in Registered : SameHandle(g, heap')
    BY <1>3, <1>5 DEF SameHandle
  <1>7. Registered' = Registered
    BY DEF Registered, DropDone
  <1>8. Pending' \subseteq Pending
    <2>1. Pending' = {Below[k].h : k \in 1..Len(Below)}
      BY <1>1 DEF Pending
    <2> QED
      BY <1>2, <2>1
  <1>9. ListOK'
    <2>1. \A j, k \in 1..Len(handles') : handles'[j] = handles'[k] => j = k
      BY DEF IInv, ListOK, DropDone
    <2>2. Registered' \cap Pending' = {}
      BY <1>7, <1>8 DEF IInv, ListOK
    <2> QED
      BY <1>6, <1>7, <2>1, <2>2, ListShrinks DEF IInv
  <1>10. TypeOK'
    BY <1>1, <1>2, <1>3 DEF IInv, TypeOK, DropDone
  <1>11. BootOK'
    BY <1>1, NotBooting DEF DropDone
  <1>12. LoaderOfOpenModule' /\ ResidentStep
    BY <1>6, <1>7, LoaderKept, ResidentKept DEF IInv, DropDone
  <1> QED
    BY <1>4, <1>9, <1>10, <1>11, <1>12 DEF IInv

LEMMA UndoDoneInv ==
    ASSUME IInv, UndoDone
    PROVE  IInv' /\ ResidentStep
  <1>1. stack # <<>> /\ Top.op = "undo" /\ Return(Top.ret, Free(Top.h))
    BY DEF UndoDone, Running, Top
  <1>2. Top.h \in Handle /\ Top.h \in Pending /\ Top.ret \in Handle \cup {NULL}
    BY <1>1, TopFacts DEF IInv
  <1>3. /\ Free(Top.h) \in [Handle -> HandleRec]
        /\ \A g \in Handle \ {Top.h} : Free(Top.h)[g] = heap[g]
    BY <1>2, FreeType DEF IInv
  <1>4. /\ heap' \in [Handle -> HandleRec] /\ stack' \in Seq(Frame)
        /\ held' \in [Handle -> Nat] /\ StackOK'
        /\ \A g \in Handle : /\ heap'[g].live = Free(Top.h)[g].live
                             /\ heap'[g].file = Free(Top.h)[g].file
                             /\ heap'[g].vtable = Free(Top.h)[g].vtable
                             /\ heap'[g].resident = Free(Top.h)[g].resident
        /\ Pending' \subseteq Pending \ {Top.h}
    <2>1. \A g \in Handle \ {Top.h} : /\ Free(Top.h)[g].live = heap[g].live
                                      /\ Free(Top.h)[g].file = heap[g].file
      BY <1>3
    <2>2. Top.op # "drop"
      BY <1>1
    <2> QED
      BY <1>1, <1>2, <1>3, <2>1, <2>2, ReturnInv DEF IInv
  <1>5. \A g \in Registered : g \in Handle \ {Top.h}
    BY <1>2, RegisteredType DEF IInv, ListOK
  <1>6. \A g \in Registered : SameHandle(g, heap')
    BY <1>3, <1>4, <1>5 DEF SameHandle
  <1>7. Registered' = Registered
    BY DEF Registered, UndoDone
  <1>8. ListOK'
    <2>1. \A j, k \in 1..Len(handles') : handles'[j] = handles'[k] => j = k
      BY DEF IInv, ListOK, UndoDone
    <2>2. Registered' \cap Pending' = {}
      BY <1>4, <1>7 DEF IInv, ListOK
    <2> QED
      BY <1>6, <1>7, <2>1, <2>2, ListShrinks DEF IInv
  <1>9. TypeOK'
    BY <1>4 DEF IInv, TypeOK, UndoDone
  <1>10. BootOK'
    BY <1>1, NotBooting DEF UndoDone
  <1>11. LoaderOfOpenModule' /\ ResidentStep
    BY <1>6, <1>7, LoaderKept, ResidentKept DEF IInv, UndoDone
  <1> QED
    BY <1>4, <1>8, <1>9, <1>10, <1>11 DEF IInv

LEMMA MakeResidentInv ==
    ASSUME IInv, NEW h \in Handle, MakeResident(h)
    PROVE  IInv' /\ ResidentStep
  <1>1. /\ stack = <<>> /\ phase = "running" /\ heap \in [Handle -> HandleRec]
        /\ heap' = [heap EXCEPT ![h].resident = TRUE]
        /\ UNCHANGED <<handles, loaders, stack, phase>>
    BY DEF MakeResident, Idle, IInv, TypeOK
  <1>2. heap[h] \in HandleRec
    BY <1>1
  <1>3. [heap[h] EXCEPT !.resident = TRUE] \in HandleRec
    BY <1>2 DEF HandleRec
  <1>4. heap' \in [Handle -> HandleRec]
    BY <1>1, <1>3
  <1>5. ASSUME NEW g \in Handle
        PROVE  /\ heap'[g].live = heap[g].live /\ heap'[g].file = heap[g].file
               /\ heap'[g].vtable = heap[g].vtable
               /\ heap[g].resident => heap'[g].resident
    <2>1. CASE g # h
      BY <1>1, <2>1
    <2>2. CASE g = h
      <3>1. heap'[g] = [heap[h] EXCEPT !.resident = TRUE]
        BY <1>1, <2>2
      <3> QED
        BY <1>2, <2>2, <3>1 DEF HandleRec
    <2> QED
      BY <2>1, <2>2
  <1>6. Registered' = Registered /\ Pending' = Pending /\ Registered \subseteq Handle
    BY <1>1, RegisteredType DEF Registered, Pending, IInv
  <1>7. ListOK' /\ ResidentStep
    BY <1>1, <1>5, <1>6 DEF IInv, ListOK, ResidentStep
  <1>8. StackOK'
    BY <1>1 DEF StackOK, WellStacked
  <1>9. TypeOK'
    BY <1>4 DEF IInv, TypeOK, MakeResident
  <1>10. BootOK'
    BY <1>1 DEF BootOK
  <1>11. LoaderOfOpenModule'
    BY <1>1, <1>5, <1>6 DEF IInv, LoaderOfOpenModule
  <1> QED
    BY <1>7, <1>8, <1>9, <1>10, <1>11 DEF IInv

\* A step that leaves the modules and the stack alone.
LEMMA ModulesKept ==
    ASSUME IInv, UNCHANGED <<handles, heap, stack>>
    PROVE  StackOK' /\ ListOK' /\ ResidentStep /\ Registered' = Registered
  BY DEF IInv, StackOK, ListOK, ResidentStep, Registered, Pending

LEMMA HasLoader ==
    ASSUME NEW s, NEW x \in SeqRange(s)
    PROVE  \E k \in 1..Len(s) : s[k] = x
  BY DEF SeqRange

LEMMA LoaderAddInv ==
    ASSUME IInv, NEW l \in LoaderName, LoaderAdd(l)
    PROVE  IInv' /\ ResidentStep
  <1>1. StackOK' /\ ListOK' /\ ResidentStep /\ Registered' = Registered
    BY ModulesKept DEF LoaderAdd
  <1>2. /\ loaders' \in Seq(LoaderItem) /\ SeqRange(loaders) \subseteq SeqRange(loaders')
        /\ loaders' = AddLoader(l)
    BY AddLoaderType DEF LoaderAdd, IInv
  <1>3. TypeOK'
    BY <1>2 DEF IInv, TypeOK, LoaderAdd, LoaderItem
  <1>4. BootOK'
    BY DEF LoaderAdd, Idle, BootOK
  <1>5. LoaderOfOpenModule'
    <2> SUFFICES ASSUME NEW h \in Registered
                 PROVE  \E k \in 1..Len(loaders') :
                            loaders'[k].live /\ loaders'[k].name = heap[h].vtable
      BY <1>1 DEF LoaderOfOpenModule, LoaderAdd
    <2>1. PICK k \in 1..Len(loaders) : loaders[k].live /\ loaders[k].name = heap[h].vtable
      BY DEF IInv, LoaderOfOpenModule
    <2>2. loaders[k] \in SeqRange(loaders')
      BY <1>2 DEF SeqRange
    <2> QED
      BY <2>1, <2>2, HasLoader
  <1> QED
    BY <1>1, <1>3, <1>4, <1>5 DEF IInv

LEMMA LoaderRemoveInv ==
    ASSUME IInv, NEW l \in LoaderName, LoaderRemove(l)
    PROVE  IInv' /\ ResidentStep
  <1>1. StackOK' /\ ListOK' /\ ResidentStep /\ Registered' = Registered
    BY ModulesKept DEF LoaderRemove
  <1>2. PICK i \in 1..Len(loaders) : loaders[i].name = l
    BY DEF LoaderRemove
  <1>3. /\ loaders' \in Seq(LoaderItem)
        /\ \A k \in 1..Len(loaders) : loaders[k].name # l => loaders[k] \in SeqRange(loaders')
    BY <1>2, RemoveLoaderType DEF LoaderRemove, IInv
  <1>4. TypeOK'
    BY <1>3 DEF IInv, TypeOK, LoaderRemove, LoaderItem
  <1>5. BootOK'
    BY DEF LoaderRemove, Idle, BootOK
  <1>6. LoaderOfOpenModule'
    <2> SUFFICES ASSUME NEW h \in Registered
                 PROVE  \E k \in 1..Len(loaders') :
                            loaders'[k].live /\ loaders'[k].name = heap[h].vtable
      BY <1>1 DEF LoaderOfOpenModule, LoaderRemove
    <2>1. PICK k \in 1..Len(loaders) : loaders[k].live /\ loaders[k].name = heap[h].vtable
      BY DEF IInv, LoaderOfOpenModule
    <2>2. heap[h].vtable # l
      BY DEF LoaderRemove, Users
    <2>3. loaders[k] \in SeqRange(loaders')
      BY <1>3, <2>1, <2>2
    <2> QED
      BY <2>1, <2>3, HasLoader
  <1> QED
    BY <1>1, <1>4, <1>5, <1>6 DEF IInv

LEMMA FreeLoaderInv ==
    ASSUME IInv, FreeLoader
    PROVE  IInv' /\ ResidentStep
  <1> DEFINE l == loaders[pos].name
             left == RemoveLoader(l)
             it(k) == [left[k] EXCEPT !.live = @ /\ left[k].name # l]
  <1>1. StackOK' /\ ListOK' /\ ResidentStep /\ Registered' = Registered
    BY ModulesKept DEF FreeLoader
  <1>2. /\ Users(l) = {} /\ loaders' = [k \in 1..Len(left) |-> it(k)]
        /\ UNCHANGED heap
    BY DEF FreeLoader
  <1>3. pos \in 1..Len(loaders)
    BY DEF FreeLoader, ExitingLoader, IInv, TypeOK
  <1>4. left \in Seq(LoaderItem) /\ \A k \in 1..Len(loaders) :
            loaders[k].name # l => loaders[k] \in SeqRange(left)
    BY <1>3, RemoveLoaderType DEF IInv
  <1> HIDE DEF left, l
  <1>5. ASSUME NEW k \in 1..Len(left)
        PROVE  it(k) \in LoaderItem /\ (left[k].name # l => it(k) = left[k])
    <2>1. left[k] \in LoaderItem
      BY <1>4
    <2> QED
      BY <2>1 DEF LoaderItem
  <1> HIDE DEF it
  <1>6. /\ loaders' \in Seq(LoaderItem) /\ Len(loaders') = Len(left)
        /\ \A k \in 1..Len(left) : loaders'[k] = it(k)
    <2>1. Len(left) \in Nat
      BY <1>4
    <2> QED
      BY <1>2, <1>5, <2>1
  <1>7. TypeOK'
    BY <1>6 DEF IInv, TypeOK, FreeLoader, LoaderItem
  <1>8. BootOK'
    BY DEF FreeLoader, ExitingLoader, BootOK
  <1>9. LoaderOfOpenModule'
    <2> SUFFICES ASSUME NEW h \in Registered
                 PROVE  \E k \in 1..Len(loaders') :
                            loaders'[k].live /\ loaders'[k].name = heap[h].vtable
      BY <1>1, <1>2 DEF LoaderOfOpenModule
    <2>1. PICK k \in 1..Len(loaders) : loaders[k].live /\ loaders[k].name = heap[h].vtable
      BY DEF IInv, LoaderOfOpenModule
    <2>2. heap[h].vtable # l
      BY <1>2 DEF Users
    <2>3. PICK j \in 1..Len(left) : left[j] = loaders[k]
      BY <1>4, <2>1, <2>2, HasLoader
    <2>4. loaders'[j] = loaders[k]
      BY <1>5, <1>6, <2>1, <2>2, <2>3
    <2> QED
      BY <1>6, <2>1, <2>4
  <1> QED
    BY <1>1, <1>7, <1>8, <1>9 DEF IInv

\* A first lt_dlinit has the preopen loader before it opens the others.
LEMMA DlInitCases ==
    ASSUME DlInit
    PROVE  \/ UNCHANGED <<handles, loaders, phase, pos, errs, sessions>>
           \/ /\ handles' = <<>> /\ loaders' \in {loaders, AddLoader(Preopen)}
              /\ phase' \in {"boot", "running"} /\ pos' = 1 /\ errs' = FALSE
              /\ sessions' = sessions + 1
              /\ phase' = "boot" => loaders' = AddLoader(Preopen)
  BY Zenon DEF DlInit

LEMMA DlInitInv ==
    ASSUME IInv, DlInit
    PROVE  IInv' /\ ResidentStep
  <1>1. stack = <<>> /\ UNCHANGED <<heap, stack, held, sweep>> /\ initialized' = initialized + 1
    BY DEF DlInit
  <1>2. CASE UNCHANGED <<handles, loaders, phase, pos, errs, sessions>>
    <2>1. StackOK' /\ ListOK' /\ ResidentStep /\ Registered' = Registered
      BY <1>1, <1>2, ModulesKept
    <2>2. TypeOK'
      BY <1>1, <1>2 DEF IInv, TypeOK
    <2>3. BootOK' /\ LoaderOfOpenModule'
      BY <1>1, <1>2, <2>1 DEF IInv, BootOK, LoaderOfOpenModule
    <2> QED
      BY <2>1, <2>2, <2>3 DEF IInv
  <1>3. CASE /\ handles' = <<>> /\ loaders' \in {loaders, AddLoader(Preopen)}
             /\ phase' \in {"boot", "running"} /\ pos' = 1 /\ errs' = FALSE
             /\ sessions' = sessions + 1
             /\ phase' = "boot" => loaders' = AddLoader(Preopen)
    <2>1. Preopen \in LoaderName
      BY DEF LoaderName
    <2>2. /\ loaders' \in Seq(LoaderItem)
          /\ phase' = "boot" => Item(Preopen) \in SeqRange(loaders')
      BY <1>3, <2>1, AddLoaderType DEF IInv, TypeOK, LoaderItem
    <2>3. Registered' = {}
      BY <1>3 DEF Registered, SeqRange
    <2>4. TypeOK'
      <3>1. initialized' \in Nat /\ sessions' \in Nat
        BY <1>1, <1>3 DEF IInv, TypeOK
      <3>2. handles' \in Seq(Handle)
        BY <1>3
      <3>3. pos' \in Nat \ {0}
        BY <1>3
      <3>6. errs' \in BOOLEAN
        BY <1>3, Zenon
      <3>4. phase' \in {"off", "boot", "running", "closing", "loaders"}
        BY <1>3
      <3>5. /\ heap' \in [Handle -> HandleRec] /\ stack' \in Seq(Frame)
            /\ held' \in [Handle -> Nat]
            /\ sweep' \in [level : Nat, cur : Handle \cup {NULL}, saw : BOOLEAN]
        BY <1>1 DEF IInv, TypeOK
      <3> QED
        BY <2>2, <3>1, <3>2, <3>3, <3>4, <3>5, <3>6 DEF TypeOK, LoaderItem
    <2>5. StackOK' /\ ListOK' /\ LoaderOfOpenModule'
      BY <1>1, <1>3, <2>3 DEF IInv, StackOK, ListOK, LoaderOfOpenModule, WellStacked
    <2>6. BootOK'
      BY <1>1, <1>3, <2>2, <2>3 DEF BootOK
    <2>7. ResidentStep
      BY <1>1 DEF IInv, ListOK, ResidentStep
    <2> QED
      BY <2>4, <2>5, <2>6, <2>7 DEF IInv
  <1> QED
    BY <1>2, <1>3, DlInitCases

LEMMA BootStepInv ==
    ASSUME IInv, BootLoaderFails \/ BootDone
    PROVE  IInv' /\ ResidentStep
  <1>1. /\ UNCHANGED <<handles, heap, loaders, initialized, stack, held, sweep, errs, sessions>>
        /\ phase = "boot" /\ (pos' = pos \/ pos' = pos + 1)
        /\ phase' \in {"boot", "running"}
    BY DEF BootLoaderFails, BootDone
  <1>2. StackOK' /\ ListOK' /\ ResidentStep /\ Registered' = Registered
    BY <1>1, ModulesKept
  <1>3. pos \in Nat \ {0}
    BY DEF IInv, TypeOK
  <1>4. pos' \in Nat \ {0} /\ \A j \in 1..Len(LinkedLoaders) : j < pos => j < pos'
    <2>1. Len(LinkedLoaders) \in Nat
      BY LoaderAssumption
    <2> QED
      BY <1>1, <1>3, <2>1
  <1>5. TypeOK'
    BY <1>1, <1>4 DEF IInv, TypeOK
  <1>6. BootOK'
    <2>1. \A h \in Registered : \E j \in 1..Len(LinkedLoaders) :
             j < pos' /\ heap[h].file = LinkedLoaders[j]
      BY <1>1, <1>4 DEF IInv, BootOK
    <2> QED
      BY <1>1, <1>2, <1>4, <2>1 DEF IInv, BootOK
  <1>7. LoaderOfOpenModule'
    BY <1>1, <1>2 DEF IInv, LoaderOfOpenModule
  <1> QED
    BY <1>2, <1>5, <1>6, <1>7 DEF IInv

LEMMA BootLoaderInv ==
    ASSUME IInv, BootLoader
    PROVE  IInv' /\ ResidentStep
  <1> DEFINE f == LinkedLoaders[pos]
  <1>1. PICK h \in Handle :
            /\ ~heap[h].live
            /\ heap' = [heap EXCEPT ![h] = [Zalloc(f) EXCEPT !.ref = 1, !.vtable = Preopen]]
            /\ handles' = <<h>> \o handles
            /\ held' = [held EXCEPT ![h] = 1]
    BY DEF BootLoader
  <1>2. /\ phase = "boot" /\ stack = <<>> /\ pos \in 1..Len(LinkedLoaders)
        /\ handles \in Seq(Handle) /\ heap \in [Handle -> HandleRec]
        /\ held \in [Handle -> Nat]
    BY LoaderAssumption DEF BootLoader, IInv, BootOK, TypeOK
  <1>3. f \in LoaderName /\ f \in File /\ Preopen \in LoaderName
    BY <1>2, LoaderAssumption DEF File, LoaderName
  <1>4. \A j \in 1..Len(LinkedLoaders) : j < pos => LinkedLoaders[j] # f
    BY <1>2, LoaderAssumption
  <1> HIDE DEF f
  <1>5. /\ heap' \in [Handle -> HandleRec]
        /\ heap'[h].live /\ heap'[h].file = f /\ heap'[h].vtable = Preopen
        /\ \A g \in Handle : g # h => heap'[g] = heap[g]
    <2> DEFINE x == [Zalloc(f) EXCEPT !.ref = 1]
               y == [x EXCEPT !.vtable = Preopen]
    <2>1. Zalloc(f) \in HandleRec /\ Zalloc(f).live /\ Zalloc(f).file = f
      BY <1>3, ZallocType
    <2>2. heap' = [heap EXCEPT ![h] = y]
      BY <1>1
    <2>3. x \in HandleRec /\ x.live /\ x.file = f
      BY <2>1 DEF HandleRec
    <2> HIDE DEF x
    <2>4. y \in HandleRec /\ y.live /\ y.file = f /\ y.vtable = Preopen
      BY <1>3, <2>3 DEF HandleRec
    <2> HIDE DEF y
    <2> QED
      BY <1>2, <2>2, <2>4
  <1>6. h \notin Registered /\ Registered \subseteq Handle
    BY <1>1, RegisteredType DEF IInv, ListOK
  <1>7. \A g \in Registered : g \in Handle /\ heap'[g] = heap[g]
    BY <1>5, <1>6
  <1>8. handles' \in Seq(Handle) /\ Registered' = {h} \cup Registered
    BY <1>1, <1>2, PushType, PushRange DEF Registered
  <1>9. \A i, j \in 1..Len(handles') : handles'[i] = handles'[j] => i = j
    <2>1. \A i, j \in 1..Len(handles) : handles[i] = handles[j] => i = j
      BY DEF IInv, ListOK
    <2>2. h \notin SeqRange(handles)
      BY <1>6 DEF Registered
    <2> QED
      BY <1>1, <1>2, <2>1, <2>2, PushDistinct, ZenonT(60)
  <1>10. \A g \in Registered : \E j \in 1..Len(LinkedLoaders) :
            j < pos /\ heap[g].file = LinkedLoaders[j]
    BY <1>2 DEF IInv, BootOK
  <1>11. ListOK'
    <2>1. \A g \in Registered' : heap'[g].live
      BY <1>5, <1>7, <1>8 DEF IInv, ListOK
    <2>2. Pending' = {}
      BY <1>2 DEF Pending, BootLoader
    <2>3. \A g \in Registered : heap'[g].file # heap'[h].file
      BY <1>4, <1>5, <1>7, <1>10
    <2>4. \A e, g \in Registered : heap'[e].file = heap'[g].file => e = g
      BY <1>7 DEF IInv, ListOK
    <2>5. \A e, g \in Registered' : heap'[e].file = heap'[g].file => e = g
      BY <1>8, <2>3, <2>4
    <2> QED
      BY <1>9, <2>1, <2>2, <2>5 DEF ListOK
  <1>12. /\ loaders' \in Seq(LoaderItem) /\ SeqRange(loaders) \subseteq SeqRange(loaders')
    <2>1. loaders' = loaders \/ loaders' = AddLoader(f)
      BY DEF BootLoader, f
    <2>2. loaders \in Seq(LoaderItem)
      BY DEF IInv, TypeOK, LoaderItem
    <2> QED
      BY <1>3, <2>1, <2>2, AddLoaderType DEF IInv
  <1>13. held' \in [Handle -> Nat]
    BY <1>1, <1>2
  <1>14. TypeOK'
    BY <1>5, <1>8, <1>12, <1>13, SMTT(30) DEF IInv, TypeOK, BootLoader, LoaderItem
  <1>15. StackOK'
    BY <1>2 DEF StackOK, WellStacked, BootLoader
  <1>16. BootOK'
    <2>1. pos' = pos + 1 /\ pos \in Nat /\ stack' = <<>> /\ pos < pos'
      BY <1>2 DEF BootLoader
    <2>2. ASSUME NEW g \in Registered'
          PROVE  \E j \in 1..Len(LinkedLoaders) : j < pos' /\ heap'[g].file = LinkedLoaders[j]
      <3>1. CASE g = h
        BY <1>2, <1>5, <2>1, <3>1 DEF f
      <3>2. CASE g \in Registered
        <4>1. PICK j \in 1..Len(LinkedLoaders) : j < pos /\ heap[g].file = LinkedLoaders[j]
          BY <1>10, <3>2
        <4>2. j < pos'
          BY <2>1, <4>1
        <4> QED
          BY <1>7, <3>2, <4>1, <4>2
      <3> QED
        BY <1>8, <3>1, <3>2
    <2>3. Item(Preopen) \in SeqRange(loaders')
      BY <1>2, <1>12 DEF IInv, BootOK
    <2> QED
      BY <2>1, <2>2, <2>3 DEF BootOK
  <1>17. LoaderOfOpenModule'
    <2> SUFFICES ASSUME NEW g \in Registered'
                 PROVE  \E k \in 1..Len(loaders') :
                            loaders'[k].live /\ loaders'[k].name = heap'[g].vtable
      BY DEF LoaderOfOpenModule
    <2>1. CASE g = h
      <3>1. Item(Preopen) \in SeqRange(loaders')
        BY <1>2, <1>12 DEF IInv, BootOK
      <3>2. PICK k \in 1..Len(loaders') : loaders'[k] = Item(Preopen)
        BY <3>1, HasLoader
      <3> QED
        BY <1>5, <2>1, <3>2 DEF Item
    <2>2. CASE g \in Registered
      <3>1. PICK k \in 1..Len(loaders) : loaders[k].live /\ loaders[k].name = heap[g].vtable
        BY <2>2 DEF IInv, LoaderOfOpenModule
      <3>2. loaders[k] \in SeqRange(loaders')
        BY <1>12 DEF SeqRange
      <3> QED
        BY <1>7, <2>2, <3>1, <3>2, HasLoader
    <2> QED
      BY <1>8, <2>1, <2>2
  <1>18. ResidentStep
    BY <1>7 DEF ResidentStep, IInv, ListOK
  <1> QED
    BY <1>11, <1>14, <1>15, <1>16, <1>17, <1>18 DEF IInv

LEMMA DlExitInv ==
    ASSUME IInv, DlExit
    PROVE  IInv' /\ ResidentStep
  <1>1. /\ stack = <<>> /\ phase = "running" /\ initialized' = initialized - 1
        /\ UNCHANGED <<heap, loaders, stack, held, pos, errs, sessions>>
    BY DEF DlExit, Idle
  <1>2. CASE initialized > 1 /\ UNCHANGED <<handles, phase, sweep>>
    <2>1. StackOK' /\ ListOK' /\ ResidentStep /\ Registered' = Registered
      BY <1>1, <1>2, ModulesKept
    <2>2. TypeOK'
      BY <1>1, <1>2 DEF IInv, TypeOK
    <2>3. BootOK' /\ LoaderOfOpenModule'
      BY <1>1, <1>2, <2>1 DEF IInv, BootOK, LoaderOfOpenModule
    <2> QED
      BY <2>1, <2>2, <2>3 DEF IInv
  <1>3. CASE /\ initialized = 1 /\ handles' = StripResidents /\ phase' = "closing"
             /\ sweep' = [level |-> 1, cur |-> First(handles'), saw |-> FALSE]
    <2>1. /\ handles' \in Seq(Handle) /\ Registered' \subseteq Registered
          /\ \A i, j \in 1..Len(handles') : handles'[i] = handles'[j] => i = j
      BY <1>3, StripType DEF IInv, Registered
    <2>2. First(handles') \in Handle \cup {NULL}
      BY <2>1 DEF First
    <2>3. TypeOK'
      BY <1>1, <1>3, <2>1, <2>2 DEF IInv, TypeOK
    <2>4. \A h \in Registered : SameHandle(h, heap')
      BY <1>1 DEF SameHandle
    <2>5. Pending' = Pending
      BY <1>1 DEF Pending
    <2>6. ListOK'
      <3>1. Registered' \cap Pending' = {}
        BY <2>1, <2>5 DEF IInv, ListOK
      <3> QED
        BY <2>1, <2>4, <3>1, ListShrinks DEF IInv
    <2>7. LoaderOfOpenModule' /\ ResidentStep
      BY <1>1, <2>1, <2>4, LoaderKept, ResidentKept DEF IInv
    <2>8. StackOK'
      BY <1>1 DEF IInv, StackOK
    <2>9. BootOK'
      BY <1>3 DEF BootOK
    <2> QED
      BY <2>3, <2>6, <2>7, <2>8, <2>9 DEF IInv
  <1> QED
    BY <1>2, <1>3 DEF DlExit

\* The other steps of lt_dlexit only move its cursors.
LEMMA ExitStepInv ==
    ASSUME IInv,
           \/ SweepRestart \/ SweepSkip \/ SweepNextLevel \/ SweepDone
           \/ KeepLoader \/ RemoveFails \/ StaleLoader \/ ExitDone
    PROVE  IInv' /\ ResidentStep
  <1>1. /\ UNCHANGED <<handles, heap, loaders, initialized, stack, sessions>>
        /\ phase \in {"closing", "loaders"} /\ phase' \in {"closing", "loaders", "off"}
        /\ pos' \in {pos, pos + 1, 1}
        /\ held' \in {held, [h \in Handle |-> 0]}
    BY DEF SweepRestart, SweepSkip, SweepNextLevel, SweepDone, Sweeping,
           KeepLoader, RemoveFails, StaleLoader, ExitDone, ExitingLoader
  <1>2. StackOK' /\ ListOK' /\ ResidentStep /\ Registered' = Registered
    BY <1>1, ModulesKept
  <1>3. First(handles) \in Handle \cup {NULL}
    BY DEF First, IInv, TypeOK
  <1>4. sweep.cur \in Registered => Next1(sweep.cur) \in Handle \cup {NULL}
    BY NextType DEF IInv
  <1>5. sweep' \in [level : Nat, cur : Handle \cup {NULL}, saw : BOOLEAN]
    <2>1. sweep \in [level : Nat, cur : Handle \cup {NULL}, saw : BOOLEAN]
      BY DEF IInv, TypeOK
    <2>2. CASE SweepRestart
      BY <1>3, <2>1, <2>2 DEF SweepRestart
    <2>3. CASE SweepSkip
      <3>1. heap[sweep.cur].resident \in BOOLEAN
        BY <2>3, RegisteredType DEF SweepSkip, IInv, TypeOK, HandleRec
      <3>2. sweep' = [[sweep EXCEPT !.cur = Next1(sweep.cur)]
                         EXCEPT !.saw = @ \/ ~heap[sweep.cur].resident]
        BY <2>3 DEF SweepSkip
      <3> QED
        BY <1>4, <2>1, <2>3, <3>1, <3>2 DEF SweepSkip
    <2>4. CASE SweepNextLevel
      BY <1>3, <2>1, <2>4 DEF SweepNextLevel
    <2>5. CASE SweepDone \/ KeepLoader \/ RemoveFails \/ StaleLoader \/ ExitDone
      BY <2>1, <2>5 DEF SweepDone, KeepLoader, RemoveFails, StaleLoader, ExitDone
    <2> QED
      BY <2>2, <2>3, <2>4, <2>5
  <1>6. errs' \in BOOLEAN
    <2>1. errs \in BOOLEAN
      BY DEF IInv, TypeOK
    <2>2. CASE KeepLoader
      <3>1. (\A h \in Users(loaders[pos].name) : ~heap[h].resident) \in BOOLEAN
        OBVIOUS
      <3> QED
        BY <2>1, <2>2, <3>1 DEF KeepLoader
    <2> QED
      BY <2>1, <2>2 DEF SweepRestart, SweepSkip, SweepNextLevel, SweepDone, RemoveFails,
                         StaleLoader, ExitDone
  <1>7. TypeOK'
    <2>1. pos' \in Nat \ {0} /\ held' \in [Handle -> Nat]
      BY <1>1 DEF IInv, TypeOK
    <2> QED
      BY <1>1, <1>5, <1>6, <2>1 DEF IInv, TypeOK
  <1>8. BootOK' /\ LoaderOfOpenModule'
    BY <1>1, <1>2 DEF IInv, BootOK, LoaderOfOpenModule
  <1> QED
    BY <1>2, <1>7, <1>8 DEF IInv

(***************************************************************************)
(* The theorems.                                                           *)
(***************************************************************************)
LEMMA InitInv ==
    ASSUME Init
    PROVE  IInv
  <1>1. TypeOK
    <2>1. Freed \in HandleRec
      BY DEF Freed, HandleRec
    <2>2. heap \in [Handle -> HandleRec] /\ held \in [Handle -> Nat]
      BY <2>1 DEF Init
    <2>3. handles \in Seq(Handle) /\ stack \in Seq(Frame)
      BY DEF Init
    <2>4. loaders \in Seq(LoaderItem)
      BY DEF Init
    <2>5. sweep \in [level : Nat, cur : Handle \cup {NULL}, saw : BOOLEAN]
      BY DEF Init
    <2>6. initialized \in Nat /\ sessions \in Nat /\ pos \in Nat \ {0}
      BY DEF Init
    <2>8. errs \in BOOLEAN
      BY Zenon DEF Init
    <2>7. phase \in {"off", "boot", "running", "closing", "loaders"}
      BY DEF Init
    <2> QED
      BY <2>2, <2>3, <2>4, <2>5, <2>6, <2>7, <2>8 DEF TypeOK, LoaderItem
  <1>2. Registered = {} /\ stack = <<>>
    BY DEF Init, Registered, SeqRange
  <1>3. StackOK /\ ListOK /\ BootOK /\ LoaderOfOpenModule
    BY <1>2 DEF Init, StackOK, WellStacked, ListOK, BootOK, LoaderOfOpenModule
  <1> QED
    BY <1>1, <1>3 DEF IInv

LEMMA NextInv ==
    ASSUME IInv, [Next]_vars
    PROVE  IInv' /\ ResidentStep
  <1>1. CASE UNCHANGED vars
    <2>1. StackOK' /\ ListOK' /\ ResidentStep /\ Registered' = Registered
      BY <1>1, ModulesKept DEF vars
    <2>2. TypeOK'
      BY <1>1 DEF IInv, TypeOK, vars
    <2>3. BootOK' /\ LoaderOfOpenModule'
      BY <1>1, <2>1 DEF IInv, BootOK, LoaderOfOpenModule, vars
    <2> QED
      BY <2>1, <2>2, <2>3 DEF IInv
  <1>2. CASE Client
    BY <1>2, ClientOpenInv, ClientCloseInv, MakeResidentInv, LoaderRemoveInv, LoaderAddInv,
       DlInitInv, DlExitInv DEF Client
  <1>3. CASE OpenStep
    BY <1>3, LoadDepInv, SkipDepInv, FindExistingInv, LoaderOpensInv, OpenFailsInv DEF OpenStep
  <1>4. CASE CloseStep
    BY <1>4, ReleaseDepInv, DropDoneInv, UndoDoneInv DEF CloseStep
  <1>5. CASE InitStep
    BY <1>5, BootLoaderInv, BootStepInv DEF InitStep
  <1>6. CASE ExitStep
    BY <1>6, SweepCloseInv, ExitStepInv DEF ExitStep
  <1>7. CASE LoaderStep
    BY <1>7, FreeLoaderInv, ExitStepInv DEF LoaderStep
  <1> QED
    BY <1>1, <1>2, <1>3, <1>4, <1>5, <1>6, <1>7 DEF Next, Internal

\* The list, the calls in progress and the loaders stay consistent with each
\* other: the inductive invariant.
THEOREM Invariance == Spec => []IInv
  <1>1. Init => IInv
    BY InitInv
  <1>2. IInv /\ [Next]_vars => IInv'
    BY NextInv
  <1> QED
    BY <1>1, <1>2, PTL DEF Spec

\* Every variable keeps its type: the types of libltdl's data are respected.
THEOREM TypeCorrect == Spec => []TypeOK
  <1>1. IInv => TypeOK
    BY DEF IInv
  <1> QED
    BY <1>1, Invariance, PTL

\* The list of handles stays well formed, whatever recursion of opens and
\* closes through deplibs, and no module is ever loaded twice.
THEOREM ListWellFormed == Spec => []ListOK
  <1>1. IInv => ListOK
    BY DEF IInv
  <1> QED
    BY <1>1, Invariance, PTL

\* An open module's loader is never removed, by the client or by lt_dlexit.
THEOREM LoaderStays == Spec => []LoaderOfOpenModule
  <1>1. IInv => LoaderOfOpenModule
    BY DEF IInv
  <1> QED
    BY <1>1, Invariance, PTL

\* A resident module is never unloaded and never loses its residency.
THEOREM ResidentStays == Spec => ResidentForGood
  <1>1. IInv /\ [Next]_vars =>
           [\A h \in Registered : heap[h].resident => heap'[h].live /\ heap'[h].resident]_vars
    BY NextInv DEF ResidentStep
  <1> QED
    BY <1>1, Invariance, PTL DEF Spec, ResidentForGood
=============================================================================
