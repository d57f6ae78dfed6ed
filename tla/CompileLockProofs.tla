------------------------- MODULE CompileLockProofs -------------------------
(***************************************************************************)
(* Theorems about CompileLock, for any number of runs of libtool: with     *)
(* hard links, and as long as no signal reaches a run that has removed its *)
(* lock file and not exited, the lock file is a lock, and what a .lo file  *)
(* says is true.                                                           *)
(***************************************************************************)
EXTENDS CompileLock, TLAPS

LEMMA Kinds ==
    /\ Len(Objects) \in 1..2
    /\ \A k \in 1..Len(Objects) : Objects[k] \in Kind /\ Objects[k] # "lo"
    /\ \A k \in Kind : k = "lo" \/ \E j \in 1..Len(Objects) : Objects[j] = k
    /\ \A j, k \in 1..Len(Objects) : Objects[j] = Objects[k] => j = k
    /\ "lo" \in Kind
  <1>1. CASE Objects = <<"pic">>
    BY <1>1 DEF Kind
  <1>2. CASE Objects = <<"old">>
    BY <1>2 DEF Kind
  <1>3. CASE Objects = <<"pic", "old">>
    BY <1>3 DEF Kind
  <1> QED
    BY <1>1, <1>2, <1>3, ModeAssumption

(***************************************************************************)
(* Types.                                                                  *)
(***************************************************************************)
LEMMA RemoveType ==
    ASSUME TypeOK, NEW p \in Proc, NEW files, Remove(p, files)
    PROVE  /\ lock' \in Proc \cup {None, Script}
           /\ temp' \in Proc \cup {None, Stale}
           /\ out' \in [Proc -> [Kind -> Proc \cup {None, Stale}]]
  BY DEF Remove, TypeOK, NoFiles

LEMMA GotoType ==
    ASSUME TypeOK, NEW p \in Proc,
           NEW l \in Label,
           Goto(p, l)
    PROVE  /\ pc' \in [Proc -> Label]
           /\ pc'[p] = l
           /\ \A q \in Proc : q # p => pc'[q] = pc[q]
  BY DEF Goto, TypeOK

LEMMA FailType ==
    ASSUME TypeOK, NEW p \in Proc, Fail(p)
    PROVE  TypeOK' /\ lock' = None /\ pc'[p] = "failing" /\ UNCHANGED turn
           /\ \A q \in Proc : q # p => pc'[q] = pc[q]
  <1>1. Goto(p, "failing") /\ Remove(p, removelist) /\ UNCHANGED turn
    BY DEF Fail
  <1>2. lock' = None
    BY <1>1 DEF Remove, removelist
  <1> QED
    BY <1>1, <1>2, GotoType, RemoveType DEF TypeOK, Label

LEMMA NextObjectType ==
    ASSUME TypeOK, NEW p \in Proc, NextObject(p)
    PROVE  /\ turn' \in [Proc -> 1..Len(Objects)]
           /\ pc' \in [Proc -> Label]
           /\ pc'[p] \in {"compile", "lo"}
           /\ \A q \in Proc : q # p => pc'[q] = pc[q] /\ turn'[q] = turn[q]
  <1>1. "compile" \in Critical /\ "lo" \in Critical
    BY DEF Critical, Armed, Label, Ended
  <1>2. CASE turn[p] < Len(Objects)
    <2>1. Goto(p, "compile") /\ turn' = [turn EXCEPT ![p] = @ + 1]
      BY <1>2 DEF NextObject
    <2>2. turn[p] \in 1..Len(Objects) /\ turn[p] + 1 \in 1..Len(Objects)
      BY <1>2, Kinds DEF TypeOK
    <2> QED
      BY <1>1, <2>1, <2>2, GotoType DEF TypeOK, Label, Critical, Armed
  <1>3. CASE ~(turn[p] < Len(Objects))
    BY <1>1, <1>3, GotoType DEF NextObject, TypeOK, Label, Critical, Armed
  <1> QED
    BY <1>2, <1>3

LEMMA TypeStep ==
    ASSUME TypeOK, [Next]_vars
    PROVE  TypeOK'
  <1>1. CASE UNCHANGED vars
    BY <1>1 DEF TypeOK, vars
  <1>2. ASSUME NEW p \in Proc, Run(p) \/ Trap(p) \/ UnlockTrap(p) \/ LateTrap(p) \/ Kill(p)
        PROVE  TypeOK'
    <2>1. CASE Fail(p)
      BY <2>1, FailType
    <2>2. CASE Acquire(p) \/ SeeFree(p) \/ Claim(p) \/ Unlock(p)
                \/ UnlockTrap(p) \/ Exit(p) \/ Kill(p)
      <3>1. \E l \in {"locked", "claim", "exiting"} \cup Ended : Goto(p, l)
        BY <2>2 DEF Acquire, SeeFree, Claim, Unlock, UnlockTrap, Exit, Kill, Ended
      <3>2. pc' \in [Proc -> Label]
        BY <3>1, GotoType DEF Critical, Label, Ended
      <3>3. lock' \in Proc \cup {None, Script} /\ UNCHANGED <<temp, out, turn>>
        BY <2>2 DEF Acquire, SeeFree, Claim, Unlock, UnlockTrap, Exit, Kill, TypeOK
      <3> QED
        BY <3>2, <3>3 DEF TypeOK
    <2>3. CASE Refuse(p) \/ Clean(p) \/ LateTrap(p)
      <3>1. /\ \E files : Remove(p, files)
            /\ \E l \in {"failed", "interrupted", "compile"} : Goto(p, l)
            /\ UNCHANGED turn
        BY <2>3 DEF Refuse, Clean, LateTrap
      <3> QED
        BY <3>1, RemoveType, GotoType DEF TypeOK, Critical, Armed, Label, Ended
    <2>4. CASE Compile(p)
      <3>1. \E l \in {"check", "move"} : Goto(p, l)
        BY <2>4 DEF Compile
      <3> QED
        BY <2>4, <3>1, GotoType DEF Compile, TypeOK, Critical, Armed, Label, Ended
    <2>5. CASE Check(p) /\ ~Fail(p)
      BY <2>5, GotoType DEF Check, TypeOK, Critical, Armed, Label, Ended
    <2>6. CASE Move(p) /\ ~Fail(p)
      <3>1. NextObject(p) /\ UNCHANGED lock
        BY <2>6 DEF Move
      <3>2. temp' \in Proc \cup {None, Stale}
        BY <2>6 DEF Move, TypeOK
      <3>3. out' \in [Proc -> [Kind -> Proc \cup {None, Stale}]]
        <4>1. out' = out \/ out' = [out EXCEPT ![p] = [out[p] EXCEPT ![Objects[turn[p]]] = temp]]
          BY <2>6 DEF Move
        <4>2. [out[p] EXCEPT ![Objects[turn[p]]] = temp] \in [Kind -> Proc \cup {None, Stale}]
          BY DEF TypeOK
        <4> QED
          BY <4>1, <4>2 DEF TypeOK
      <3> QED
        BY <3>1, <3>2, <3>3, NextObjectType DEF TypeOK
    <2>7. CASE WriteObject(p)
      BY <2>7, GotoType DEF WriteObject, TypeOK, Critical, Armed, Label, Ended
    <2> QED
      BY <1>2, <2>1, <2>2, <2>3, <2>4, <2>5, <2>6, <2>7 DEF Run, CompileFails, Trap
  <1> QED
    BY <1>1, <1>2 DEF Next

LEMMA InitType == Init => TypeOK
  <1> SUFFICES ASSUME Init PROVE TypeOK
    OBVIOUS
  <1>1. turn \in [Proc -> 1..Len(Objects)]
    BY Kinds, SMTT(30) DEF Init
  <1>2. out \in [Proc -> [Kind -> Proc \cup {None, Stale}]]
    BY DEF Init
  <1> QED
    BY <1>1, <1>2 DEF Init, TypeOK, Label

\* The files and the runs keep their types.
THEOREM LockTypeCorrect == Spec => []TypeOK
  <1>1. Init => TypeOK
    BY InitType
  <1>2. TypeOK /\ [Next]_vars => TypeOK'
    BY TypeStep
  <1> QED
    BY <1>1, <1>2, PTL DEF Spec

(***************************************************************************)
(* The lock.                                                               *)
(***************************************************************************)
\* With hard links and no late signal.
Locking == NeedLocks = "yes" /\ "late" \notin Faults

\* A run in the critical section has the lock file there; a run that takes the
\* lock found none.
LockInv ==
    /\ TypeOK
    /\ \A p \in Proc : pc[p] \notin {"claim", "check"}
    /\ \A p \in Proc : pc[p] \in Critical => lock # None
    /\ MutualExclusion

\* A step of p outside the critical section, or one that keeps the lock file.
LEMMA LockKept ==
    ASSUME LockInv, NEW p \in Proc,
           \A q \in Proc : q # p => pc'[q] = pc[q],
           pc'[p] \notin {"claim", "check"},
           pc'[p] \in Critical => pc[p] \in Critical,
           lock' = lock, TypeOK'
    PROVE  LockInv'
  <1>1. \A q \in Proc : pc'[q] \in Critical => pc[q] \in Critical
    OBVIOUS
  <1> QED
    BY <1>1 DEF LockInv, MutualExclusion

\* A step of p that leaves the critical section and removes the lock file.
LEMMA LockReleased ==
    ASSUME LockInv, NEW p \in Proc, pc[p] \in Critical,
           \A q \in Proc : q # p => pc'[q] = pc[q],
           pc'[p] \in {"failing", "exiting", "interrupted"},
           TypeOK'
    PROVE  LockInv'
  <1>1. pc'[p] \notin Critical \cup {"claim", "check"}
    BY DEF Critical, Armed
  <1>2. \A q \in Proc : q # p => pc[q] \notin Critical
    BY DEF LockInv, MutualExclusion
  <1>3. \A q \in Proc : pc'[q] \notin Critical
    BY <1>1, <1>2
  <1>4. \A q \in Proc : pc'[q] \notin {"claim", "check"}
    BY <1>1 DEF LockInv
  <1> QED
    BY <1>3, <1>4 DEF LockInv, MutualExclusion

LEMMA LockStep ==
    ASSUME Locking, LockInv, [Next]_vars
    PROVE  LockInv'
  <1>0. TypeOK /\ TypeOK'
    BY TypeStep DEF LockInv
  <1>1. CASE UNCHANGED vars
    BY <1>0, <1>1 DEF LockInv, MutualExclusion, vars
  <1>2. ASSUME NEW p \in Proc, Run(p) \/ Trap(p) \/ UnlockTrap(p) \/ LateTrap(p) \/ Kill(p)
        PROVE  LockInv'
    <2>0. ASSUME NEW l, Goto(p, l)
          PROVE  pc'[p] = l /\ \A q \in Proc : q # p => pc'[q] = pc[q]
      BY <1>0, <2>0 DEF Goto, TypeOK
    <2>1. CASE Acquire(p)
      <3>1. /\ lock = None /\ lock' # None
            /\ pc'[p] = "locked" /\ \A q \in Proc : q # p => pc'[q] = pc[q]
        BY <2>0, <2>1, ProcAssumption DEF Acquire
      <3>2. \A q \in Proc : pc[q] \notin Critical
        BY <3>1 DEF LockInv
      <3>3. \A q \in Proc : pc'[q] \in Critical => q = p
        BY <3>1, <3>2
      <3>4. \A q \in Proc : pc'[q] \notin {"claim", "check"}
        BY <3>1 DEF LockInv
      <3> QED
        BY <1>0, <3>1, <3>3, <3>4 DEF LockInv, MutualExclusion
    <2>2. CASE Refuse(p) \/ SeeFree(p) \/ Claim(p) \/ Check(p) \/ LateTrap(p)
      BY <2>2 DEF Locking, Refuse, SeeFree, Claim, Check, LateTrap, LockInv
    <2>3. CASE Clean(p)
      <3>1. pc[p] \in Critical /\ pc'[p] = "compile" /\ lock' = lock
        BY <2>0, <2>3 DEF Clean, Critical, Remove, Leftover, Locking
      <3> QED
        BY <1>0, <2>0, <2>3, <3>1, LockKept DEF Clean
    <2>4. CASE Compile(p)
      <3>1. pc[p] \in Critical /\ pc'[p] = "move" /\ lock' = lock
        BY <2>0, <2>4 DEF Compile, Critical, Armed, Locking
      <3> QED
        BY <1>0, <2>0, <2>4, <3>1, LockKept DEF Compile
    <2>5. CASE Fail(p) /\ pc[p] \in Critical
      BY <1>0, <2>5, FailType, LockReleased
    <2>6. CASE Move(p) /\ ~Fail(p)
      <3>1. NextObject(p) /\ lock' = lock /\ pc[p] \in Critical
        BY <2>6 DEF Move, Critical, Armed
      <3> QED
        BY <1>0, <3>1, NextObjectType, LockKept
    <2>7. CASE WriteObject(p)
      <3>1. pc[p] \in Critical /\ pc'[p] = "unlock" /\ lock' = lock
        BY <2>0, <2>7 DEF WriteObject, Critical, Armed
      <3> QED
        BY <1>0, <2>0, <2>7, <3>1, LockKept DEF WriteObject
    <2>8. CASE Unlock(p) \/ UnlockTrap(p)
      <3>1. pc[p] \in Critical /\ pc'[p] \in {"exiting", "interrupted"}
        BY <2>0, <2>8 DEF Unlock, UnlockTrap, Critical, Armed
      <3> QED
        BY <1>0, <2>0, <2>8, <3>1, LockReleased DEF Unlock, UnlockTrap
    <2>9. CASE Exit(p) \/ Kill(p)
      <3>1. \E l \in {"done", "failed", "interrupted", "killed"} : Goto(p, l) /\ lock' = lock
        BY <2>9 DEF Exit, Kill
      <3>2. pc'[p] \in {"done", "failed", "interrupted", "killed"} /\ lock' = lock
        BY <2>0, <3>1
      <3>3. pc'[p] \notin Critical \cup {"claim", "check"}
        BY <3>2 DEF Critical, Armed
      <3>4. \A q \in Proc : q # p => pc'[q] = pc[q]
        BY <2>0, <3>1
      <3> QED
        BY <1>0, <3>2, <3>3, <3>4, LockKept
    <2>10. pc[p] \in {"compile", "move"} \cup Armed => pc[p] \in Critical
      BY DEF Critical, Armed
    <2> QED
      BY <1>2, <2>1, <2>2, <2>3, <2>4, <2>5, <2>6, <2>7, <2>8, <2>9, <2>10
         DEF Run, CompileFails, Trap, Move
  <1> QED
    BY <1>1, <1>2 DEF Next

LEMMA LockInit == Init => LockInv
  <1> SUFFICES ASSUME Init PROVE LockInv
    OBVIOUS
  <1>1. TypeOK
    BY InitType
  <1>2. \A p \in Proc : pc[p] = "start"
    BY DEF Init
  <1> QED
    BY <1>1, <1>2 DEF LockInv, MutualExclusion, Critical, Armed

\* Two runs of libtool never compile at the same time, however many there are
\* and whichever of them are interrupted in the critical section or killed.
THEOREM LockExcludes ==
    ASSUME Locking
    PROVE  Spec => []MutualExclusion
  <1>1. Init => LockInv
    BY LockInit
  <1>2. LockInv /\ [Next]_vars => LockInv'
    BY LockStep
  <1>3. LockInv => MutualExclusion
    BY DEF LockInv
  <1> QED
    BY <1>1, <1>2, <1>3, PTL DEF Spec

(***************************************************************************)
(* The objects.                                                            *)
(***************************************************************************)
\* How far each run is with its objects.
Built(p) ==
    /\ pc[p] \in {"start", "locked"} => out[p].lo # p /\ turn[p] = 1
    /\ pc[p] \in {"compile", "move"} =>
           /\ out[p].lo # p
           /\ \A j \in 1..Len(Objects) : j < turn[p] => out[p][Objects[j]] = p
    /\ pc[p] = "move" => temp = p
    /\ pc[p] = "lo" => \A k \in Kind \ {"lo"} : out[p][k] = p
    /\ out[p].lo = p => \A k \in Kind \ {"lo"} : out[p][k] = p

BuiltInv == LockInv /\ \A p \in Proc : Built(p)

\* What Remove leaves of p's files is not p's .lo file.
LEMMA RemoveBuilt ==
    ASSUME TypeOK, InPlace = {}, NeedLocks = "yes", NEW p \in Proc,
           Remove(p, removelist) \/ Remove(p, Leftover)
    PROVE  /\ temp' = temp /\ out'[p].lo # p
           /\ \A q \in Proc : q # p => out'[q] = out[q]
  <1>1. temp' = temp /\ out' = [out EXCEPT ![p] = NoFiles]
    BY DEF Remove, removelist, Leftover
  <1>2. NoFiles.lo = None /\ None # p
    BY Kinds, ProcAssumption DEF NoFiles
  <1> QED
    BY <1>1, <1>2 DEF TypeOK

LEMMA BuiltStep ==
    ASSUME Locking, InPlace = {}, BuiltInv, [Next]_vars
    PROVE  BuiltInv'
  <1>0. LockInv /\ LockInv' /\ TypeOK /\ NeedLocks = "yes"
    BY LockStep DEF BuiltInv, LockInv, Locking
  <1>1. CASE UNCHANGED vars
    BY <1>0, <1>1 DEF BuiltInv, Built, vars
  <1>2. ASSUME NEW p \in Proc, Run(p) \/ Trap(p) \/ UnlockTrap(p) \/ LateTrap(p) \/ Kill(p)
        PROVE  BuiltInv'
    \* The others: their files and their counters stay, and so does the
    \* temporary file of a run that is in the critical section.
    <2>1. ASSUME \A q \in Proc : q # p =>
                     pc'[q] = pc[q] /\ turn'[q] = turn[q] /\ out'[q] = out[q],
                 temp' # temp => pc[p] \in Critical,
                 Built(p)'
          PROVE  BuiltInv'
      <3> SUFFICES ASSUME NEW q \in Proc, q # p PROVE Built(q)'
        BY <1>0, <2>1 DEF BuiltInv
      <3>1. pc[q] = "move" => temp' = temp
        BY <1>0, <2>1 DEF LockInv, MutualExclusion, Critical, Armed
      <3> QED
        BY <2>1, <3>1 DEF BuiltInv, Built
    <2>2. Built(p)
      BY DEF BuiltInv
    <2>3. ASSUME NEW l, Goto(p, l)
          PROVE  pc'[p] = l /\ \A q \in Proc : q # p => pc'[q] = pc[q]
      BY <1>0, <2>3 DEF Goto, TypeOK
    <2>4. CASE Fail(p)
      <3>1. /\ pc'[p] = "failing" /\ UNCHANGED turn
            /\ \A q \in Proc : q # p => pc'[q] = pc[q]
            /\ Remove(p, removelist)
        BY <1>0, <2>4, FailType DEF Fail
      <3>2. /\ temp' = temp /\ out'[p].lo # p
            /\ \A q \in Proc : q # p => out'[q] = out[q]
        BY <1>0, <3>1, RemoveBuilt
      <3> QED
        BY <2>1, <3>1, <3>2 DEF Built
    <2>5. CASE Refuse(p) \/ SeeFree(p) \/ Claim(p) \/ Check(p) \/ LateTrap(p)
      BY <1>0, <2>5 DEF Locking, Refuse, SeeFree, Claim, Check, LateTrap, LockInv
    <2>6. CASE Acquire(p)
      <3>1. pc[p] = "start" /\ pc'[p] = "locked" /\ UNCHANGED <<temp, out, turn>>
        BY <2>3, <2>6 DEF Acquire
      <3> QED
        BY <2>1, <2>2, <2>3, <2>6, <3>1 DEF Acquire, Built
    <2>7. CASE Clean(p)
      <3>1. pc[p] = "locked" /\ pc'[p] = "compile" /\ UNCHANGED turn
        BY <2>3, <2>7 DEF Clean
      <3>2. /\ temp' = temp /\ out'[p].lo # p
            /\ \A q \in Proc : q # p => out'[q] = out[q]
        BY <1>0, <2>7, RemoveBuilt DEF Clean
      <3> QED
        BY <2>1, <2>2, <2>3, <2>7, <3>1, <3>2 DEF Clean, Built
    <2>8. CASE Compile(p)
      <3>1. /\ pc[p] = "compile" /\ pc'[p] = "move" /\ temp' = p
            /\ UNCHANGED <<out, turn>>
        BY <1>0, <2>3, <2>8 DEF Compile
      <3>2. pc[p] \in Critical
        BY <3>1 DEF Critical, Armed
      <3> QED
        BY <2>1, <2>2, <2>3, <2>8, <3>1, <3>2 DEF Compile, Built
    <2>9. CASE Move(p) /\ ~Fail(p)
      <3> DEFINE k == Objects[turn[p]]
      <3>1. /\ NextObject(p) /\ pc[p] = "move" /\ temp = p
            /\ out' = [out EXCEPT ![p][k] = p]
        BY <2>2, <2>9 DEF Move, AtHome, Built
      <3>2. turn[p] \in 1..Len(Objects) /\ k \in Kind /\ k # "lo"
        BY <1>0, Kinds DEF TypeOK
      <3>3. /\ out'[p][k] = p
            /\ \A i \in Kind : i # k => out'[p][i] = out[p][i]
            /\ \A q \in Proc : q # p => out'[q] = out[q]
        BY <1>0, <3>1, <3>2 DEF TypeOK
      <3>4. out'[p].lo # p
        BY <2>2, <3>1, <3>2, <3>3, Kinds DEF Built
      <3>5. \A j \in 1..Len(Objects) : j < turn[p] => out'[p][Objects[j]] = p
        BY <2>2, <3>1, <3>2, <3>3, Kinds DEF Built
      <3>6. pc[p] \in Critical
        BY <3>1 DEF Critical, Armed
      <3>7. \A q \in Proc : q # p => pc'[q] = pc[q] /\ turn'[q] = turn[q]
        BY <1>0, <3>1, NextObjectType
      <3>8. Built(p)'
        <4>1. CASE turn[p] < Len(Objects)
          <5>1. pc'[p] = "compile" /\ turn'[p] = turn[p] + 1
            BY <1>0, <2>3, <3>1, <4>1 DEF NextObject, TypeOK
          <5>2. \A j \in 1..Len(Objects) : j < turn'[p] => j < turn[p] \/ j = turn[p]
            BY <3>2, <5>1, Kinds
          <5> QED
            BY <3>3, <3>4, <3>5, <5>1, <5>2 DEF Built
        <4>2. CASE ~(turn[p] < Len(Objects))
          <5>1. pc'[p] = "lo"
            BY <2>3, <3>1, <4>2 DEF NextObject
          <5>2. \A j \in 1..Len(Objects) : j < turn[p] \/ j = turn[p]
            BY <3>2, <4>2, Kinds
          <5>3. \A i \in Kind \ {"lo"} : out'[p][i] = p
            BY <3>3, <3>5, <5>2, Kinds
          <5> QED
            BY <3>4, <5>1, <5>3 DEF Built
        <4> QED
          BY <4>1, <4>2
      <3> QED
        BY <2>1, <3>3, <3>6, <3>7, <3>8
    <2>10. CASE WriteObject(p)
      <3>1. /\ pc[p] = "lo" /\ pc'[p] = "unlock" /\ UNCHANGED <<temp, turn>>
            /\ out' = [out EXCEPT ![p].lo = p]
        BY <2>3, <2>10 DEF WriteObject
      <3>2. /\ \A i \in Kind \ {"lo"} : out'[p][i] = out[p][i]
            /\ \A q \in Proc : q # p => out'[q] = out[q]
        BY <1>0, <3>1 DEF TypeOK
      <3>3. \A i \in Kind \ {"lo"} : out'[p][i] = p
        BY <2>2, <3>1, <3>2 DEF Built
      <3> QED
        BY <2>1, <2>3, <2>10, <3>1, <3>2, <3>3 DEF WriteObject, Built
    <2>11. CASE Unlock(p) \/ UnlockTrap(p) \/ Exit(p) \/ Kill(p)
      <3>1. \E l \in {"exiting", "done", "failed", "interrupted", "killed"} : Goto(p, l)
        BY <2>11 DEF Unlock, UnlockTrap, Exit, Kill
      <3>2. /\ pc'[p] \in {"exiting", "done", "failed", "interrupted", "killed"}
            /\ \A q \in Proc : q # p => pc'[q] = pc[q]
        BY <2>3, <3>1
      <3>3. UNCHANGED <<temp, out, turn>>
        BY <2>11 DEF Unlock, UnlockTrap, Exit, Kill
      <3> QED
        BY <2>1, <2>2, <3>2, <3>3 DEF Built
    <2> QED
      BY <1>2, <2>4, <2>5, <2>6, <2>7, <2>8, <2>9, <2>10, <2>11 DEF Run, CompileFails, Trap
  <1> QED
    BY <1>1, <1>2 DEF Next

\* A .lo file that a run wrote tells the truth, as long as no run's own object
\* has the temporary file's name.
THEOREM LoIsTrue ==
    ASSUME Locking, InPlace = {}
    PROVE  Spec => []LoMeansObjects
  <1>1. Init => BuiltInv
    <2> SUFFICES ASSUME Init PROVE BuiltInv
      OBVIOUS
    <2>1. LockInv
      BY LockInit
    <2>2. \A p \in Proc : pc[p] = "start" /\ turn[p] = 1 /\ out[p].lo # p
      BY Kinds, ProcAssumption DEF Init
    <2> QED
      BY <2>1, <2>2 DEF BuiltInv, Built
  <1>2. BuiltInv /\ [Next]_vars => BuiltInv'
    BY BuiltStep
  <1>3. BuiltInv => LoMeansObjects
    BY DEF BuiltInv, Built, LoMeansObjects, Object
  <1> QED
    BY <1>1, <1>2, <1>3, PTL DEF Spec

(***************************************************************************)
(* What is left, in both modes and whatever signals come.                  *)
(***************************************************************************)
\* A run that is about to fail has removed its files already, and a lock file
\* is that of a run in the critical section or of one that was killed there.
LeftInv ==
    /\ TypeOK
    /\ \A p \in Proc : pc[p] \in {"failing", "failed"} => out[p] = NoFiles
    /\ LockOwned

\* Only p moves, and removes its files when it fails; it holds the lock file
\* before and after, or there is none after.
LEMMA LeftKept ==
    ASSUME LeftInv, TypeOK', NEW p \in Proc,
           \A q \in Proc : q # p => pc'[q] = pc[q] /\ out'[q] = out[q],
           pc'[p] \in {"failing", "failed"} => out'[p] = NoFiles,
           \/ lock' = None
           \/ pc'[p] \in Critical \cup {"killed"}
           \/ lock' = lock /\ pc[p] \notin Critical \cup {"killed"}
    PROVE  LeftInv'
  <1>1. \A q \in Proc : pc'[q] \in {"failing", "failed"} => out'[q] = NoFiles
    BY DEF LeftInv
  <1>2. LockOwned'
    BY DEF LeftInv, LockOwned
  <1> QED
    BY <1>1, <1>2 DEF LeftInv

\* After $RM $removelist there is none of p's files.
LEMMA RemoveOuts ==
    ASSUME TypeOK, NEW p \in Proc, NEW files, Remove(p, files)
    PROVE  /\ "outs" \in files => out'[p] = NoFiles
           /\ \A q \in Proc : q # p => out'[q] = out[q]
           /\ "lock" \in files => lock' = None
           /\ "lock" \notin files => lock' = lock
  BY DEF Remove, TypeOK

LEMMA LeftStep ==
    ASSUME LeftInv, [Next]_vars
    PROVE  LeftInv'
  <1>0. TypeOK /\ TypeOK'
    BY TypeStep DEF LeftInv
  <1>1. CASE UNCHANGED vars
    BY <1>0, <1>1 DEF LeftInv, LockOwned, vars
  <1>2. ASSUME NEW p \in Proc, Run(p) \/ Trap(p) \/ UnlockTrap(p) \/ LateTrap(p) \/ Kill(p)
        PROVE  LeftInv'
    <2>0. ASSUME NEW l, Goto(p, l)
          PROVE  pc'[p] = l /\ \A q \in Proc : q # p => pc'[q] = pc[q]
      BY <1>0, <2>0 DEF Goto, TypeOK
    <2>1. CASE Fail(p)
      <3>1. /\ Remove(p, removelist) /\ lock' = None /\ pc'[p] = "failing"
            /\ \A q \in Proc : q # p => pc'[q] = pc[q]
        BY <1>0, <2>1, FailType DEF Fail
      <3>2. "outs" \in removelist
        BY DEF removelist, Leftover
      <3> QED
        BY <1>0, <3>1, <3>2, RemoveOuts, LeftKept
    <2>2. CASE Acquire(p) \/ Claim(p)
      <3>1. /\ pc'[p] = "locked" /\ UNCHANGED out
            /\ \A q \in Proc : q # p => pc'[q] = pc[q]
        BY <2>0, <2>2 DEF Acquire, Claim
      <3> QED
        BY <1>0, <3>1, LeftKept DEF Critical
    <2>3. CASE Refuse(p)
      <3>1. /\ Remove(p, {"outs"}) /\ pc[p] = "start" /\ pc'[p] = "failed"
            /\ \A q \in Proc : q # p => pc'[q] = pc[q]
        BY <2>0, <2>3 DEF Refuse
      <3>2. out'[p] = NoFiles /\ lock' = lock /\ \A q \in Proc : q # p => out'[q] = out[q]
        BY <1>0, <3>1, RemoveOuts
      <3> QED
        BY <1>0, <3>1, <3>2, LeftKept DEF Critical, Armed
    <2>4. CASE SeeFree(p)
      <3>1. /\ pc[p] = "start" /\ pc'[p] = "claim" /\ UNCHANGED <<lock, out>>
            /\ \A q \in Proc : q # p => pc'[q] = pc[q]
        BY <2>0, <2>4 DEF SeeFree
      <3> QED
        BY <1>0, <3>1, LeftKept DEF Critical, Armed
    <2>5. CASE Clean(p)
      <3>1. /\ Remove(p, Leftover) /\ pc'[p] = "compile"
            /\ \A q \in Proc : q # p => pc'[q] = pc[q]
        BY <2>0, <2>5 DEF Clean
      <3>2. \A q \in Proc : q # p => out'[q] = out[q]
        BY <1>0, <3>1, RemoveOuts
      <3> QED
        BY <1>0, <3>1, <3>2, LeftKept DEF Critical, Armed
    <2>6. CASE Compile(p) \/ (Check(p) /\ ~Fail(p))
      <3>1. \E l \in {"check", "move"} : Goto(p, l) /\ UNCHANGED out
        BY <2>6 DEF Compile, Check
      <3>2. /\ pc'[p] \in {"check", "move"} /\ UNCHANGED out
            /\ \A q \in Proc : q # p => pc'[q] = pc[q]
        BY <2>0, <3>1
      <3> QED
        BY <1>0, <3>2, LeftKept DEF Critical, Armed
    <2>7. CASE Move(p) /\ ~Fail(p)
      <3>1. NextObject(p) /\ \A q \in Proc : q # p => out'[q] = out[q]
        BY <1>0, <2>7 DEF Move, TypeOK
      <3>2. pc'[p] \in {"compile", "lo"} /\ \A q \in Proc : q # p => pc'[q] = pc[q]
        BY <1>0, <3>1, NextObjectType
      <3> QED
        BY <1>0, <3>1, <3>2, LeftKept DEF Critical, Armed
    <2>8. CASE WriteObject(p)
      <3>1. /\ pc'[p] = "unlock" /\ \A q \in Proc : q # p => pc'[q] = pc[q]
            /\ \A q \in Proc : q # p => out'[q] = out[q]
        BY <1>0, <2>0, <2>8 DEF WriteObject, TypeOK
      <3> QED
        BY <1>0, <3>1, LeftKept DEF Critical, Armed
    <2>9. CASE Unlock(p) \/ UnlockTrap(p)
      <3>1. /\ pc'[p] \in {"exiting", "interrupted"} /\ lock' = None /\ UNCHANGED out
            /\ \A q \in Proc : q # p => pc'[q] = pc[q]
        BY <2>0, <2>9 DEF Unlock, UnlockTrap
      <3> QED
        BY <1>0, <3>1, LeftKept
    <2>10. CASE Exit(p)
      <3>1. /\ pc[p] \in {"exiting", "failing"} /\ UNCHANGED <<lock, out>>
            /\ pc'[p] = IF pc[p] = "exiting" THEN "done" ELSE "failed"
            /\ \A q \in Proc : q # p => pc'[q] = pc[q]
        BY <2>0, <2>10 DEF Exit
      <3>2. pc'[p] \in {"failing", "failed"} => out'[p] = NoFiles
        BY <3>1 DEF LeftInv
      <3> QED
        BY <1>0, <3>1, <3>2, LeftKept DEF Critical, Armed
    <2>11. CASE LateTrap(p)
      <3>1. CASE pc[p] = "exiting"
        <4>1. /\ Remove(p, {"lock"}) /\ pc'[p] = "interrupted"
              /\ \A q \in Proc : q # p => pc'[q] = pc[q]
          BY <2>0, <2>11, <3>1 DEF LateTrap
        <4> QED
          BY <1>0, <4>1, RemoveOuts, LeftKept
      <3>2. CASE pc[p] # "exiting"
        <4>1. /\ Remove(p, removelist) /\ pc'[p] = "failed"
              /\ \A q \in Proc : q # p => pc'[q] = pc[q]
          BY <2>0, <2>11, <3>2 DEF LateTrap
        <4>2. "outs" \in removelist /\ "lock" \in removelist
          BY DEF removelist, Leftover
        <4> QED
          BY <1>0, <4>1, <4>2, RemoveOuts, LeftKept
      <3> QED
        BY <3>1, <3>2
    <2>12. CASE Kill(p)
      <3>1. /\ pc'[p] = "killed" /\ UNCHANGED out
            /\ \A q \in Proc : q # p => pc'[q] = pc[q]
        BY <2>0, <2>12 DEF Kill
      <3> QED
        BY <1>0, <3>1, LeftKept
    <2> QED
      BY <1>2, <2>1, <2>2, <2>3, <2>4, <2>5, <2>6, <2>7, <2>8, <2>9, <2>10, <2>11, <2>12
         DEF Run, CompileFails, Trap
  <1> QED
    BY <1>1, <1>2 DEF Next

\* With hard links or without, and whatever signals come and when: a run that
\* fails has left none of its files, and no lock file is forgotten.
THEOREM NothingIsLeft == Spec => []NothingLeft
  <1>1. Init => LeftInv
    <2> SUFFICES ASSUME Init PROVE LeftInv
      OBVIOUS
    <2>1. \A p \in Proc : pc[p] = "start"
      BY DEF Init
    <2> QED
      BY <2>1, InitType DEF Init, LeftInv, LockOwned
  <1>2. LeftInv /\ [Next]_vars => LeftInv'
    BY LeftStep
  <1>3. LeftInv => NothingLeft
    BY DEF LeftInv, NothingLeft, FailedLeavesNothing
  <1> QED
    BY <1>1, <1>2, <1>3, PTL DEF Spec
=============================================================================
