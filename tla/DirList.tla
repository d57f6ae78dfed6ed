------------------------------ MODULE DirList ------------------------------
(***************************************************************************)
(* What libltdl promises about its search path (lt_dladdsearchdir,         *)
(* lt_dlinsertsearchdir, lt_dlsetsearchpath): it is a list of directories. *)
(***************************************************************************)
EXTENDS Naturals, Sequences, SequencesExt

CONSTANT Dir    \* directories

VARIABLES
    dirs,       \* the directories to search, in this order
    call        \* the last call: what was asked for, and of which element

\* A call that fails or does not change the list.
Other == [op |-> "other", at |-> 0, dirs |-> <<>>]

Add(d) ==
    /\ call' = [op |-> "add", at |-> 0, dirs |-> <<d>>]
    /\ dirs' = Append(dirs, d)

\* Immediately before the element at.
Insert(at, d) ==
    /\ call' = [op |-> "insert", at |-> at, dirs |-> <<d>>]
    /\ dirs' = InsertAt(dirs, at, d)

Replace ==
    /\ call' = [op |-> "set", at |-> 0, dirs |-> dirs']
    /\ dirs' \in Seq(Dir)

Keep == call' = Other /\ UNCHANGED dirs

\* The old list is given up before there is memory for the new one.
ReplaceFails == call' = Other /\ dirs' = <<>>

Init == dirs = <<>> /\ call = Other

Next ==
    \/ Keep
    \/ \E d \in Dir : Add(d)
    \/ call'.op = "insert" /\ \E at \in 1..Len(dirs), d \in Dir : Insert(at, d)
    \/ call'.op = "set" /\ Replace
    \/ ReplaceFails

Spec == Init /\ [][Next]_<<dirs, call>>
=============================================================================
