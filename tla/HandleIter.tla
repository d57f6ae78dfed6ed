---------------------------- MODULE HandleIter -----------------------------
(***************************************************************************)
(* A client's walk over libltdl's list of open modules: a loop on          *)
(* lt_dlhandle_iterate, and lt_dlhandle_map (libltdl/ltdl.c).  The body of *)
(* the loop, the function that is mapped, and the interface check they     *)
(* call may open and close modules themselves, so the list changes under   *)
(* the walk.                                                               *)
(***************************************************************************)
EXTENDS Naturals, Sequences

CONSTANTS
    Handle,     \* the handles a module can have
    Matching,   \* those that pass the client's interface check
    Stops,      \* those for which the mapped function returns non-zero
    NULL        \* no handle

ASSUME HandleAssumption ==
    NULL \notin Handle /\ Matching \subseteq Handle /\ Stops \subseteq Handle

VARIABLES
    handles,    \* the list of open modules, newest first
    loop,       \* the loop on lt_dlhandle_iterate: "idle", "body" or "done"
    place,      \* the handle the body of the loop is at
    seen,       \* the handles the loop has visited
    again,      \* it visited one twice
    stayed,     \* the matching modules open since the loop began
    map,        \* lt_dlhandle_map: "idle", "skip", "call" or "done"
    cur,        \* its handle
    called,     \* the handles func has been called with
    owed,       \* the matching modules open since it began
    result      \* what it returned: 0 or 1

loopVars == <<loop, place, seen, again, stayed>>
mapVars == <<map, cur, called, owed, result>>
vars == <<handles, loopVars, mapVars>>

\* The types; the loop and the mapped function only get modules that match.
TypeOK ==
    /\ handles \in Seq(Handle)
    /\ loop \in {"idle", "body", "done"}
    /\ place \in Matching \cup {NULL}
    /\ seen \subseteq Matching /\ again \in BOOLEAN /\ stayed \subseteq Matching
    /\ map \in {"idle", "skip", "call", "done"}
    /\ cur \in Handle \cup {NULL}
    /\ called \subseteq Matching \cup {NULL} /\ owed \subseteq Matching
    /\ result \in {0, 1}

Listed == {handles[k] : k \in 1..Len(handles)}
IndexOf(h) == CHOOSE k \in 1..Len(handles) : handles[k] = h

\* The list without its k-th handle.
Unlink(k) == [j \in 1..(Len(handles) - 1) |-> handles[IF j < k THEN j ELSE j + 1]]

\* The first handle from the k-th on that passes the interface check.
MatchFrom(k) ==
    IF \E j \in k..Len(handles) : handles[j] \in Matching
    THEN handles[CHOOSE j \in k..Len(handles) :
                     /\ handles[j] \in Matching
                     /\ \A i \in k..(j - 1) : handles[i] \notin Matching]
    ELSE NULL

\* Faulty variant: begins at PLACE itself.
lt_dlhandle_iterate_stays(p) == IF p = NULL THEN MatchFrom(1) ELSE MatchFrom(IndexOf(p))
lt_dlhandle_iterate(p) == IF p = NULL THEN MatchFrom(1) ELSE MatchFrom(IndexOf(p) + 1)

(***************************************************************************)
(* The list changes: a newly opened module goes to its head.               *)
(***************************************************************************)
\* Faulty variant: to its tail.
OpenLast(h) ==
    /\ h \notin Listed
    /\ handles' = Append(handles, h)
    /\ UNCHANGED <<loopVars, mapVars>>

Open(h) ==
    /\ h \notin Listed
    /\ handles' = <<h>> \o handles
    /\ UNCHANGED <<loopVars, mapVars>>

\* A client does not close the module it is at: its `next' would be gone.
Close(h) ==
    /\ h \in Listed \ {place, cur}
    /\ handles' = Unlink(IndexOf(h))
    /\ stayed' = stayed \ {h} /\ owed' = owed \ {h}
    /\ UNCHANGED <<loop, place, seen, again, map, cur, called, result>>

(***************************************************************************)
(* while ((handle = lt_dlhandle_iterate (iface, handle))) ...              *)
(***************************************************************************)
Visit(h) ==
    /\ place' = h
    /\ loop' = IF h = NULL THEN "done" ELSE "body"

LoopStart ==
    /\ loop # "body"
    /\ Visit(lt_dlhandle_iterate(NULL))
    /\ seen' = {place'} \ {NULL} /\ again' = FALSE
    /\ stayed' = Listed \cap Matching
    /\ UNCHANGED <<handles, mapVars>>

LoopNext ==
    /\ loop = "body"
    /\ Visit(lt_dlhandle_iterate(place))
    /\ seen' = seen \cup ({place'} \ {NULL})
    /\ again' = (again \/ place' \in seen)
    /\ UNCHANGED <<handles, stayed, mapVars>>

(***************************************************************************)
(* lt_dlhandle_map                                                         *)
(***************************************************************************)
MapStart ==
    /\ map \in {"idle", "done"}
    /\ cur' = IF handles = <<>> THEN NULL ELSE handles[1]
    /\ map' = "skip" /\ called' = {} /\ owed' = Listed \cap Matching
    /\ UNCHANGED <<handles, loopVars, result>>

\* Past the handles that fail the check; if none passes, func still gets NULL.
MapSkip ==
    /\ map = "skip" /\ cur # NULL
    /\ cur' = MatchFrom(IndexOf(cur))
    /\ map' = "call"
    /\ UNCHANGED <<handles, called, owed, result, loopVars>>

\* What func makes of NULL is open.
MapCall ==
    /\ map = "call"
    /\ called' = called \cup {cur}
    /\ \/ cur \in Stops \cup {NULL} /\ map' = "done" /\ result' = 1 /\ cur' = NULL
       \/ cur \notin Stops /\ map' = "skip" /\ UNCHANGED <<cur, result>>
    /\ UNCHANGED <<handles, owed, loopVars>>

MapEnd ==
    /\ map = "skip" /\ cur = NULL
    /\ map' = "done" /\ result' = 0
    /\ UNCHANGED <<handles, cur, called, owed, loopVars>>

Init ==
    /\ handles = <<>>
    /\ loop = "idle" /\ place = NULL /\ seen = {} /\ again = FALSE /\ stayed = {}
    /\ map = "idle" /\ cur = NULL /\ called = {} /\ owed = {} /\ result = 0

Map == MapSkip \/ MapCall \/ MapEnd

Next ==
    \/ \E h \in Handle : Open(h) \/ Close(h)
    \/ LoopStart \/ LoopNext
    \/ MapStart \/ Map

\* The client goes on with its loop; lt_dlhandle_map runs on once called.
Spec == Init /\ [][Next]_vars /\ WF_vars(LoopNext) /\ WF_vars(Map)

(***************************************************************************)
(* Properties.                                                             *)
(***************************************************************************)
\* The loop visits no module twice, whatever is opened and closed meanwhile.
VisitsOnce == ~again

\* When the loop ends it has visited every matching module that was open all
\* the time.
VisitsAll == loop = "done" => stayed \subseteq seen

\* The loop ends, however many modules its body opens.
LoopEnds == (loop = "body") ~> (loop = "done")

\* lt_dlhandle_map returns 0 only when it has called func for every matching
\* module (doc/libtool.texi on lt_dlhandle_map).
ZeroMeansAll == map = "done" /\ result = 0 => owed \subseteq called

\* The loop and lt_dlhandle_map get the modules they should, each once.
VisitsRight == TypeOK /\ VisitsOnce /\ VisitsAll /\ ZeroMeansAll

\* lt_dlhandle_map returns (the same sentence).
MapReturns == (map = "call") ~> (map = "done")
=============================================================================
