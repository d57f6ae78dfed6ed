-------------------------------- MODULE Ltdl --------------------------------
(***************************************************************************)
(* The life of libltdl's module handles and loaders (libltdl/ltdl.c,       *)
(* libltdl/lt_dlloader.c): lt_dlinit, lt_dlexit, lt_dlopen and its         *)
(* recursion through the dependency libraries, lt_dlclose and its          *)
(* recursion, residency, and the list of loaders.                          *)
(*                                                                         *)
(* libltdl has one thread, but its operations call each other: opening a   *)
(* module opens its deplibs, closing it closes them, lt_dlexit closes      *)
(* everything in an order of its own.  The pending calls are an explicit   *)
(* stack here, and every step that reads or writes the shared list         *)
(* `handles' or a reference count is one action.                           *)
(*                                                                         *)
(* The file system, the system's dynamic linker and malloc are the         *)
(* environment: an open may fail at any of its stages.                     *)
(***************************************************************************)
EXTENDS Integers, Sequences, FiniteSets

CONSTANTS
    Handle,          \* the addresses lt__zalloc can give a struct lt__handle
    Module,          \* the file names a client or a .la file can open
    Self,            \* the file name of the running program: lt_dlopen (NULL)
    NULL,            \* no handle, no loader
    DepLibs,         \* the dependency_libs of each module, in .la order
    DlopenDeplibs,   \* LTDL_DLOPEN_DEPLIBS: libltdl opens the deplibs itself
    Preloaded,       \* the modules linked in with -dlpreopen
    Preopen,         \* the preopen loader, which is linked in statically
    LinkedLoaders,   \* the loaders lt_dlinit preopens, in symbol list order
    Appended,        \* the loaders of priority LT_DLLOADER_APPEND
    ClientFiles,     \* the files the client itself opens
    MayBeResident,   \* the modules the client marks resident
    RemoveMayFail,   \* lt_dlexit may fail to remove a loader that nothing uses
    MaxHeld,         \* bound: lt_dlopens of one handle the client keeps open
    MaxRef,          \* bound: reference count
    MaxInit,         \* bound: nested calls of lt_dlinit
    MaxSessions      \* bound: calls of lt_dlinit that initialise

LoaderName == {Preopen} \cup {LinkedLoaders[k] : k \in DOMAIN LinkedLoaders}
File == Module \cup {Self} \cup LoaderName

ASSUME FileAssumption ==
    /\ Module \cap LoaderName = {} /\ Self \notin Module \cup LoaderName
    /\ Preloaded \subseteq Module /\ MayBeResident \subseteq Module
    /\ ClientFiles \subseteq Module \cup {Self}
ASSUME DepLibsAssumption ==
    /\ DepLibs \in [Module -> Seq(Module)]
    /\ \A m \in Preloaded : DepLibs[m] = <<>>
    /\ DlopenDeplibs \in BOOLEAN
ASSUME LoaderAssumption ==
    /\ LinkedLoaders \in Seq(LoaderName \ {Preopen}) /\ Preopen \notin Appended
    /\ \A j, k \in 1..Len(LinkedLoaders) : LinkedLoaders[j] = LinkedLoaders[k] => j = k
ASSUME RemoveAssumption == RemoveMayFail \in BOOLEAN
ASSUME NullAssumption == NULL \notin Handle /\ NULL \notin LoaderName
ASSUME BoundsAssumption == MaxHeld \in Nat /\ MaxRef \in Nat /\ MaxInit \in Nat /\ MaxSessions \in Nat

VARIABLES
    handles,      \* the linked list of open modules, newest first
    heap,         \* the memory of each handle
    loaders,      \* the loader list: name, and whether its vtable is allocated
    initialized,  \* lt_dlinit calls less lt_dlexit calls
    stack,        \* the calls in progress, innermost first
    held,         \* the lt_dlopens of each handle not yet given to lt_dlclose
    phase,        \* what lt_dlinit and lt_dlexit are doing
    pos,          \* position in LinkedLoaders, or in loaders
    sweep,        \* lt_dlexit's level, cur and saw_nonresident
    errs,         \* lt_dlexit counted an error other than module_close's
    sessions      \* initialisations so far

vars == <<handles, heap, loaders, initialized, stack, held, phase, pos, sweep,
          errs, sessions>>

(***************************************************************************)
(* Data: struct lt__handle and the frames of pending calls.                *)
(***************************************************************************)
Advice == {"none", "plain", "resident"}   \* NULL, a zeroed lt_dladvise, lt_dladvise_resident

HandleRec == [live : BOOLEAN, file : File \cup {NULL}, ref : Int,
              resident : BOOLEAN, deplibs : Seq(Handle),
              vtable : LoaderName \cup {NULL}]

Freed == [live |-> FALSE, file |-> NULL, ref |-> 0, resident |-> FALSE,
          deplibs |-> <<>>, vtable |-> NULL]

\* A handle just allocated for file f; the program itself starts resident.
Zalloc(f) == [Freed EXCEPT !.live = TRUE, !.file = f, !.resident = (f = Self)]

\* "load": try_dlopen of h, with todo deplibs still to open; "undo": it gives
\* up h, releases h's deplibs and returns ret; "drop": lt_dlclose of h.
Frame == [op : {"load", "undo", "drop"}, h : Handle, adv : Advice,
          todo : Nat, ret : Handle \cup {NULL}]

LoadFrame(h, f, adv) ==
    [op |-> "load", h |-> h, adv |-> adv, ret |-> NULL,
     todo |-> IF DlopenDeplibs /\ f \in Module THEN Len(DepLibs[f]) ELSE 0]
UndoFrame(h, ret) ==
    [op |-> "undo", h |-> h, adv |-> "none", todo |-> 0, ret |-> ret]
DropFrame(h) == [UndoFrame(h, NULL) EXCEPT !.op = "drop"]

Item(l) == [name |-> l, live |-> TRUE]

TypeOK ==
    /\ handles \in Seq(Handle)
    /\ heap \in [Handle -> HandleRec]
    /\ loaders \in Seq([name : LoaderName, live : BOOLEAN])
    /\ initialized \in Nat
    /\ stack \in Seq(Frame)
    /\ held \in [Handle -> Nat]
    /\ phase \in {"off", "boot", "running", "closing", "loaders"}
    /\ pos \in Nat \ {0}
    /\ sweep \in [level : Nat, cur : Handle \cup {NULL}, saw : BOOLEAN]
    /\ errs \in BOOLEAN
    /\ sessions \in Nat

(***************************************************************************)
(* Helpers on the two lists.                                               *)
(***************************************************************************)
SeqRange(s) == {s[k] : k \in 1..Len(s)}

\* s without its k-th element
DeleteAt(s, k) ==
    [j \in 1..(Len(s) - 1) |-> IF j < k THEN s[j] ELSE s[j + 1]]

IndexOf(s, x) == CHOOSE k \in 1..Len(s) : s[k] = x

Registered == SeqRange(handles)

First(s) == IF s = <<>> THEN NULL ELSE s[1]

\* handle->next
Next1(h) ==
    LET k == IndexOf(handles, h) IN
    IF k < Len(handles) THEN handles[k + 1] ELSE NULL

\* The handle list from its first module that is not resident on.
StripResidents ==
    LET n == CHOOSE n \in 1..(Len(handles) + 1) :
                 /\ \A j \in 1..(n - 1) : heap[handles[j]].resident
                 /\ n <= Len(handles) => ~heap[handles[n]].resident
    IN  SubSeq(handles, n, Len(handles))

\* lt_dlloader_add: before or after the others, by the loader's priority
AddLoader(l) ==
    IF l \in Appended THEN Append(loaders, Item(l)) ELSE <<Item(l)>> \o loaders

\* slist_remove takes out the first item of that name.
RemoveLoader(l) ==
    LET k == CHOOSE k \in 1..Len(loaders) :
                 /\ loaders[k].name = l
                 /\ \A j \in 1..(k - 1) : loaders[j].name # l
    IN  DeleteAt(loaders, k)

\* Faulty variant: looks at the newest module only.
UsersNewest(l) == {h \in {First(handles)} \cap Registered : heap[h].vtable = l}

Users(l) == {h \in Registered : heap[h].vtable = l}

(***************************************************************************)
(* lt_dlopen.                                                              *)
(***************************************************************************)
Idle == phase = "running" /\ stack = <<>>
Running(op) == stack # <<>> /\ stack[1].op = op
Top == stack[1]
Below == Tail(stack)

\* Faulty variant: load_deplibs does not advance to its next deplib.
ReturnStuck(h, hp) ==
    /\ stack' = Below
    /\ IF Below = <<>>
       THEN /\ heap' = hp
            /\ held' = IF h = NULL THEN held ELSE [held EXCEPT ![h] = @ + 1]
       ELSE /\ heap' = IF h = NULL THEN hp
                       ELSE [hp EXCEPT ![Below[1].h].deplibs = Append(@, h)]
            /\ UNCHANGED held

\* The result h of an lt_dlopen reaches its caller, the client or the
\* load_deplibs of another module, in the heap hp.
Return(h, hp) ==
    IF Below = <<>>
    THEN /\ stack' = <<>>
         /\ heap' = hp
         /\ held' = IF h = NULL THEN held ELSE [held EXCEPT ![h] = @ + 1]
    ELSE /\ stack' = [Below EXCEPT ![1].todo = @ - 1]
         /\ heap' = IF h = NULL THEN hp
                    ELSE [hp EXCEPT ![Below[1].h].deplibs = Append(@, h)]
         /\ UNCHANGED held

\* try_dlopen allocates a handle and reads the module's deplibs.
BeginOpen(f, adv) ==
    \E h \in Handle :
        /\ ~heap[h].live
        /\ heap' = [heap EXCEPT ![h] = Zalloc(f)]
        /\ stack' = <<LoadFrame(h, f, adv)>> \o stack

\* lt_dlopen, lt_dlopenext or lt_dlopenadvise.  One that fails before it
\* allocates changes nothing.  With no loader, after an lt_dlinit that failed,
\* tryall_dlopen would call through a null vtable: the client knows, and waits.
ClientOpen(f, adv) ==
    /\ Idle /\ loaders # <<>>
    /\ adv = "resident" => f \in MayBeResident
    /\ \A e \in Registered : heap[e].file = f => held[e] < MaxHeld
    /\ BeginOpen(f, adv)
    /\ UNCHANGED <<handles, loaders, initialized, held, phase, pos, sweep, errs, sessions>>

\* load_deplibs: lt_dlopenext of the next deplib, the last one first.
LoadDep ==
    /\ Running("load") /\ Top.todo > 0
    /\ BeginOpen(DepLibs[heap[Top.h].file][Top.todo], "plain")
    /\ UNCHANGED <<handles, loaders, initialized, held, phase, pos, sweep, errs, sessions>>

\* A deplib that cannot be found is left out.
SkipDep ==
    /\ Running("load") /\ Top.todo > 0
    /\ stack' = [stack EXCEPT ![1].todo = @ - 1]
    /\ UNCHANGED <<handles, heap, loaders, initialized, held, phase, pos, sweep, errs, sessions>>

\* Faulty variants: the deplibs the new handle opened are not closed again; the
\* advice is copied to the module that is open already.
FindExistingLeaks ==
    /\ Running("load") /\ Top.todo = 0
    /\ \E e \in Registered :
           /\ heap[e].file = heap[Top.h].file
           /\ heap[e].ref < MaxRef
           /\ heap' = [heap EXCEPT ![e].ref = @ + 1, ![Top.h].deplibs = <<>>]
           /\ stack' = <<UndoFrame(Top.h, e)>> \o Below
    /\ UNCHANGED <<handles, loaders, initialized, held, phase, pos, sweep, errs, sessions>>

FindExistingAdvised ==
    /\ Running("load") /\ Top.todo = 0
    /\ \E e \in Registered :
           /\ heap[e].file = heap[Top.h].file
           /\ heap[e].ref < MaxRef
           /\ heap' = [heap EXCEPT ![e].ref = @ + 1,
                                   ![e].resident = IF Top.adv = "none" THEN @
                                                   ELSE Top.adv = "resident"]
           /\ stack' = <<UndoFrame(Top.h, e)>> \o Below
    /\ UNCHANGED <<handles, loaders, initialized, held, phase, pos, sweep, errs, sessions>>

\* tryall_dlopen: the file is open already; the new handle is given up.
FindExisting ==
    /\ Running("load") /\ Top.todo = 0
    /\ \E e \in Registered :
           /\ heap[e].file = heap[Top.h].file
           /\ heap[e].ref < MaxRef
           /\ heap' = [heap EXCEPT ![e].ref = @ + 1]
           /\ stack' = <<UndoFrame(Top.h, e)>> \o Below
    /\ UNCHANGED <<handles, loaders, initialized, held, phase, pos, sweep, errs, sessions>>

CanOpen(l, f) == l = Preopen => f \in Preloaded \cup {Self}

\* The handle h once loader l has opened its file: an advice sets the residency.
Opened(h, l, adv) ==
    [heap[h] EXCEPT !.ref = 1, !.vtable = l,
                    !.resident = IF adv = "none" THEN @ ELSE adv = "resident"]

\* Faulty variants: a file that is open already is opened once more; the handle
\* is registered at the end of the list.
LoaderOpensAgain ==
    /\ Running("load") /\ Top.todo = 0
    /\ \E k \in 1..Len(loaders) :
           /\ loaders[k].live /\ CanOpen(loaders[k].name, heap[Top.h].file)
           /\ handles' = <<Top.h>> \o handles
           /\ Return(Top.h, [heap EXCEPT ![Top.h] = Opened(Top.h, loaders[k].name, Top.adv)])
    /\ UNCHANGED <<loaders, initialized, phase, pos, sweep, errs, sessions>>

LoaderOpensLast ==
    /\ Running("load") /\ Top.todo = 0
    /\ \A e \in Registered : heap[e].file # heap[Top.h].file
    /\ \E k \in 1..Len(loaders) :
           /\ loaders[k].live /\ CanOpen(loaders[k].name, heap[Top.h].file)
           /\ handles' = Append(handles, Top.h)
           /\ Return(Top.h, [heap EXCEPT ![Top.h] = Opened(Top.h, loaders[k].name, Top.adv)])
    /\ UNCHANGED <<loaders, initialized, phase, pos, sweep, errs, sessions>>

\* A loader opens the file: tryall_dlopen copies the advice, try_dlopen
\* registers the handle at the front of the list.
LoaderOpens ==
    /\ Running("load") /\ Top.todo = 0
    /\ \A e \in Registered : heap[e].file # heap[Top.h].file
    /\ \E k \in 1..Len(loaders) :
           /\ loaders[k].live /\ CanOpen(loaders[k].name, heap[Top.h].file)
           /\ handles' = <<Top.h>> \o handles
           /\ Return(Top.h, [heap EXCEPT ![Top.h] = Opened(Top.h, loaders[k].name, Top.adv)])
    /\ UNCHANGED <<loaders, initialized, phase, pos, sweep, errs, sessions>>

\* No loader opens it, or memory runs out.
OpenFails ==
    /\ Running("load") /\ Top.todo = 0
    /\ stack' = <<UndoFrame(Top.h, NULL)>> \o Below
    /\ UNCHANGED <<handles, heap, loaders, initialized, held, phase, pos, sweep, errs, sessions>>

(***************************************************************************)
(* lt_dlclose and unload_deplibs.                                          *)
(***************************************************************************)
\* Faulty variant: unloads a module that still has one user.
CloseEarly(h, hp) ==
    LET counted == [hp EXCEPT ![h].ref = @ - 1] IN
    \/ /\ h \notin Registered
       /\ heap' = hp
       /\ errs' = (errs \/ phase = "closing")
       /\ UNCHANGED <<handles, stack>>
    \/ /\ h \in Registered
       /\ hp[h].ref > 2 \/ hp[h].resident
       /\ heap' = counted
       /\ errs' = (errs \/ (phase = "closing" /\ hp[h].resident))
       /\ UNCHANGED <<handles, stack>>
    \/ /\ h \in Registered
       /\ hp[h].ref <= 2 /\ ~hp[h].resident
       /\ handles' = DeleteAt(handles, IndexOf(handles, h))
       /\ heap' = counted
       /\ stack' = <<DropFrame(h)>> \o stack
       /\ UNCHANGED errs

\* lt_dlclose of h in the heap hp.  A module_close that fails changes no more
\* than the error count, and is left out.
Close(h, hp) ==
    LET counted == [hp EXCEPT ![h].ref = @ - 1] IN
    \/ /\ h \notin Registered                       \* INVALID_HANDLE
       /\ heap' = hp
       /\ errs' = (errs \/ phase = "closing")
       /\ UNCHANGED <<handles, stack>>
    \/ /\ h \in Registered
       /\ hp[h].ref > 1 \/ hp[h].resident
       /\ heap' = counted
       /\ errs' = (errs \/ (phase = "closing" /\ hp[h].resident))
       /\ UNCHANGED <<handles, stack>>
    \/ /\ h \in Registered
       /\ hp[h].ref <= 1 /\ ~hp[h].resident
       /\ handles' = DeleteAt(handles, IndexOf(handles, h))
       /\ heap' = counted
       /\ stack' = <<DropFrame(h)>> \o stack
       /\ UNCHANGED errs

ClientClose(h) ==
    /\ Idle
    /\ held[h] > 0 /\ heap[h].file \notin LoaderName
    /\ held' = [held EXCEPT ![h] = @ - 1]
    /\ Close(h, heap)
    /\ UNCHANGED <<loaders, initialized, phase, pos, sweep, sessions>>

\* The resident flag unload_deplibs reads: anything, if d has been freed.
ResidentRead(d) == IF heap[d].live THEN {heap[d].resident} ELSE BOOLEAN

\* unload_deplibs closes each deplib that is not resident.
ReleaseDep ==
    /\ Running("drop") \/ Running("undo")
    /\ heap[Top.h].deplibs # <<>>
    /\ LET d == Head(heap[Top.h].deplibs)
           rest == [heap EXCEPT ![Top.h].deplibs = Tail(@)]
       IN  \E resident \in ResidentRead(d) :
               IF resident THEN heap' = rest /\ UNCHANGED <<handles, stack, errs>>
                           ELSE Close(d, rest)
    /\ UNCHANGED <<loaders, initialized, held, phase, pos, sweep, sessions>>

Free(h) == [heap EXCEPT ![h] = Freed]

\* lt_dlclose frees the handle it unlinked.
DropDone ==
    /\ Running("drop") /\ heap[Top.h].deplibs = <<>>
    /\ stack' = Below
    /\ heap' = Free(Top.h)
    /\ UNCHANGED <<handles, loaders, initialized, held, phase, pos, sweep, errs, sessions>>

\* try_dlopen frees the handle it gave up and returns the other one, or none.
UndoDone ==
    /\ Running("undo") /\ heap[Top.h].deplibs = <<>>
    /\ Return(Top.ret, Free(Top.h))
    /\ UNCHANGED <<handles, loaders, initialized, phase, pos, sweep, errs, sessions>>

MakeResident(h) ==
    /\ Idle
    /\ held[h] > 0 /\ heap[h].file \in MayBeResident
    /\ heap' = [heap EXCEPT ![h].resident = TRUE]
    /\ UNCHANGED <<handles, loaders, initialized, stack, held, phase, pos, sweep, errs, sessions>>

(***************************************************************************)
(* Loaders the client removes and puts back.                               *)
(***************************************************************************)
\* lt_dlloader_remove by the client, which keeps one loader at least: with none
\* tryall_dlopen would call through a null vtable.
LoaderRemove(l) ==
    /\ Idle
    /\ Len(loaders) > 1
    /\ \E k \in 1..Len(loaders) : loaders[k].name = l
    /\ Users(l) = {}
    /\ loaders' = RemoveLoader(l)
    /\ UNCHANGED <<handles, heap, initialized, stack, held, phase, pos, sweep, errs, sessions>>

LoaderAdd(l) ==
    /\ Idle
    /\ \A k \in 1..Len(loaders) : loaders[k].name # l
    /\ loaders' = AddLoader(l)
    /\ UNCHANGED <<handles, heap, initialized, stack, held, phase, pos, sweep, errs, sessions>>

(***************************************************************************)
(* lt_dlinit.                                                              *)
(***************************************************************************)
\* It counts as a call that lt_dlexit must match whether it succeeds or not.
\* Without memory for the preopen loader, or for its symbol lists, lt_dlinit
\* opens no loader.
DlInit ==
    /\ phase \in {"off", "running"} /\ stack = <<>>
    /\ initialized < MaxInit
    /\ initialized' = initialized + 1
    /\ \/ /\ initialized > 0
          /\ UNCHANGED <<handles, loaders, phase, pos, errs, sessions>>
       \/ /\ initialized = 0 /\ sessions < MaxSessions
          /\ handles' = <<>>
          /\ \/ loaders' = AddLoader(Preopen) /\ phase' = "boot"
             \/ loaders' \in {loaders, AddLoader(Preopen)} /\ phase' = "running"
          /\ pos' = 1 /\ errs' = FALSE
          /\ sessions' = sessions + 1
    /\ UNCHANGED <<heap, stack, held, sweep>>

\* lt_dlpreload_open: lt_dlopen of the next loader module, through the preopen
\* loader; loader_init_callback then adds the loader, or fails (no get_vtable,
\* no memory), and the module stays open.  libltdl itself holds the handle.
BootLoader ==
    /\ phase = "boot" /\ pos <= Len(LinkedLoaders)
    /\ \E h \in Handle :
           /\ ~heap[h].live
           /\ heap' = [heap EXCEPT ![h] =
                          [Zalloc(LinkedLoaders[pos]) EXCEPT !.ref = 1, !.vtable = Preopen]]
           /\ handles' = <<h>> \o handles
           /\ held' = [held EXCEPT ![h] = 1]
    /\ loaders' \in {loaders, AddLoader(LinkedLoaders[pos])}
    /\ pos' = pos + 1
    /\ UNCHANGED <<initialized, stack, phase, sweep, errs, sessions>>

\* lt_dlopen of the loader module fails: lt_dlinit counts it and goes on.
BootLoaderFails ==
    /\ phase = "boot" /\ pos <= Len(LinkedLoaders)
    /\ pos' = pos + 1
    /\ UNCHANGED <<handles, heap, loaders, initialized, stack, held, phase, sweep, errs, sessions>>

BootDone ==
    /\ phase = "boot" /\ pos > Len(LinkedLoaders)
    /\ phase' = "running"
    /\ UNCHANGED <<handles, heap, loaders, initialized, stack, held, pos, sweep, errs, sessions>>

(***************************************************************************)
(* lt_dlexit.                                                              *)
(***************************************************************************)
\* Faulty variant: does not refuse a call before lt_dlinit.
DlExitUnchecked ==
    /\ phase \in {"off", "running"} /\ stack = <<>>
    /\ initialized' = initialized - 1
    /\ \/ /\ initialized # 1
          /\ UNCHANGED <<handles, phase, sweep>>
       \/ /\ initialized = 1
          /\ handles' = StripResidents
          /\ phase' = "closing"
          /\ sweep' = [level |-> 1, cur |-> First(handles'), saw |-> FALSE]
    /\ UNCHANGED <<heap, loaders, stack, held, pos, errs, sessions>>

DlExit ==
    /\ Idle
    /\ initialized' = initialized - 1
    /\ \/ /\ initialized > 1
          /\ UNCHANGED <<handles, phase, sweep>>
       \/ /\ initialized = 1
          /\ handles' = StripResidents
          /\ phase' = "closing"
          /\ sweep' = [level |-> 1, cur |-> First(handles'), saw |-> FALSE]
    /\ UNCHANGED <<heap, loaders, stack, held, pos, errs, sessions>>

Sweeping == phase = "closing" /\ stack = <<>>

\* Faulty variant: goes on with the freed handle, which lt_dlclose refuses.
SweepStale ==
    /\ Sweeping /\ sweep.cur \notin Registered \cup {NULL}
    /\ errs' = TRUE
    /\ sweep' = [sweep EXCEPT !.cur = NULL, !.saw = TRUE]
    /\ UNCHANGED <<handles, heap, loaders, initialized, stack, held, phase, pos, sessions>>

\* The handle `cur' pointed to is gone: start again from the list's head.
SweepRestart ==
    /\ Sweeping /\ sweep.cur \notin Registered \cup {NULL}
    /\ sweep' = [sweep EXCEPT !.cur = First(handles)]
    /\ UNCHANGED <<handles, heap, loaders, initialized, stack, held, phase, pos, errs, sessions>>

Closable(h) == ~heap[h].resident /\ heap[h].ref <= sweep.level

SweepSkip ==
    /\ Sweeping /\ sweep.cur \in Registered /\ ~Closable(sweep.cur)
    /\ sweep' = [sweep EXCEPT !.cur = Next1(sweep.cur),
                              !.saw = @ \/ ~heap[sweep.cur].resident]
    /\ UNCHANGED <<handles, heap, loaders, initialized, stack, held, phase, pos, errs, sessions>>

SweepClose ==
    /\ Sweeping /\ sweep.cur \in Registered /\ Closable(sweep.cur)
    /\ sweep' = [sweep EXCEPT !.cur = Next1(sweep.cur), !.saw = TRUE]
    /\ Close(sweep.cur, heap)
    /\ UNCHANGED <<loaders, initialized, held, phase, pos, sessions>>

\* Faulty variant: the level stays where it is.
SweepSameLevel ==
    /\ Sweeping /\ sweep.cur = NULL /\ sweep.saw
    /\ sweep' = [sweep EXCEPT !.cur = First(handles), !.saw = FALSE]
    /\ UNCHANGED <<handles, heap, loaders, initialized, stack, held, phase, pos, errs, sessions>>

\* The end of one pass over the list.
SweepNextLevel ==
    /\ Sweeping /\ sweep.cur = NULL /\ sweep.saw
    /\ sweep' = [level |-> sweep.level + 1, cur |-> First(handles), saw |-> FALSE]
    /\ UNCHANGED <<handles, heap, loaders, initialized, stack, held, phase, pos, errs, sessions>>

SweepDone ==
    /\ Sweeping /\ sweep.cur = NULL /\ ~sweep.saw
    /\ phase' = "loaders" /\ pos' = 1
    /\ UNCHANGED <<handles, heap, loaders, initialized, stack, held, sweep, errs, sessions>>

ExitingLoader == phase = "loaders" /\ pos <= Len(loaders)

\* lt_dlloader_remove refuses a loader some module uses; that is an error
\* unless a resident module does.
KeepLoader ==
    /\ ExitingLoader /\ loaders[pos].live
    /\ Users(loaders[pos].name) # {}
    /\ errs' = (errs \/ \A h \in Users(loaders[pos].name) : ~heap[h].resident)
    /\ pos' = pos + 1
    /\ UNCHANGED <<handles, heap, loaders, initialized, stack, held, phase, sweep, sessions>>

\* The loader is removed and its vtable freed, under every item that shares it.
FreeLoader ==
    /\ ExitingLoader /\ loaders[pos].live
    /\ Users(loaders[pos].name) = {}
    /\ LET l == loaders[pos].name
           left == RemoveLoader(l)
       IN  loaders' = [k \in 1..Len(left) |->
                          [left[k] EXCEPT !.live = @ /\ left[k].name # l]]
    /\ UNCHANGED <<handles, heap, initialized, stack, held, phase, pos, sweep, errs, sessions>>

\* lt_dlloader_remove fails: lt_dlinterface_register has no memory, or the
\* loader's own dlloader_exit refuses.  An error is set and the loader stays.
RemoveFails ==
    /\ RemoveMayFail /\ ExitingLoader /\ loaders[pos].live
    /\ errs' = TRUE
    /\ pos' = pos + 1
    /\ UNCHANGED <<handles, heap, loaders, initialized, stack, held, phase, sweep, sessions>>

\* vtable->name of a freed vtable: if the program survives, no loader matches.
StaleLoader ==
    /\ ExitingLoader /\ ~loaders[pos].live
    /\ errs' = TRUE
    /\ pos' = pos + 1
    /\ UNCHANGED <<handles, heap, loaders, initialized, stack, held, phase, sweep, sessions>>

\* lt_dlexit returns; what the client still held is void.
ExitDone ==
    /\ phase = "loaders" /\ pos > Len(loaders)
    /\ phase' = "off"
    /\ held' = [h \in Handle |-> 0]
    /\ UNCHANGED <<handles, heap, loaders, initialized, stack, pos, sweep, errs, sessions>>

(***************************************************************************)
(* The specification.                                                      *)
(***************************************************************************)
Init ==
    /\ handles = <<>>
    /\ heap = [h \in Handle |-> Freed]
    /\ loaders = <<>>
    /\ initialized = 0
    /\ stack = <<>>
    /\ held = [h \in Handle |-> 0]
    /\ phase = "off"
    /\ pos = 1
    /\ sweep = [level |-> 1, cur |-> NULL, saw |-> FALSE]
    /\ errs = FALSE
    /\ sessions = 0

Client ==
    \/ \E f \in ClientFiles, adv \in Advice : ClientOpen(f, adv)
    \/ \E h \in Handle : ClientClose(h) \/ MakeResident(h)
    \/ \E l \in LoaderName : LoaderRemove(l) \/ LoaderAdd(l)
    \/ DlInit
    \/ DlExit

OpenStep == LoadDep \/ SkipDep \/ FindExisting \/ LoaderOpens \/ OpenFails
CloseStep == ReleaseDep \/ DropDone \/ UndoDone
InitStep == BootLoader \/ BootLoaderFails \/ BootDone
ExitStep == SweepRestart \/ SweepSkip \/ SweepClose \/ SweepNextLevel \/ SweepDone
LoaderStep == KeepLoader \/ RemoveFails \/ FreeLoader \/ StaleLoader \/ ExitDone

\* A step of a call libltdl has begun.
Internal == OpenStep \/ CloseStep \/ InitStep \/ ExitStep \/ LoaderStep

Next == Client \/ Internal

\* A call that has begun runs on: the library has no step to wait in.
Spec == Init /\ [][Next]_vars /\ WF_vars(Internal)

(***************************************************************************)
(* Properties.                                                             *)
(***************************************************************************)
\* The handles the library can still reach: listed, or of a pending call.
Pending == {stack[k].h : k \in 1..Len(stack)}
Reachable == Registered \cup Pending

Serving == phase \in {"boot", "running"}

\* The handle list is well formed: no handle twice, no freed handle, no handle
\* of a pending open or close; two handles never stand for one file, so that a
\* module is never loaded twice (tryall_dlopen's search).
ListOK ==
    /\ \A j, k \in 1..Len(handles) : handles[j] = handles[k] => j = k
    /\ \A h \in Registered : heap[h].live
    /\ Registered \cap Pending = {}
    /\ \A g, h \in Registered : heap[g].file = heap[h].file => g = h

\* The stack of calls: an open is called by an open with that deplib still to
\* count; a close is called by a close or by the undoing of an open; each works
\* on an allocated handle of its own.
Calls(caller, callee) ==
    IF callee.op = "drop" THEN caller.op \in {"drop", "undo"}
                          ELSE caller.op = "load" /\ caller.todo > 0

WellStacked(s, hp) ==
    /\ \A j, k \in 1..Len(s) : s[j].h = s[k].h => j = k
    /\ \A k \in 1..Len(s) : hp[s[k].h].live
    /\ \A k \in 1..Len(s) : s[k].op = "load" /\ s[k].todo > 0 =>
           hp[s[k].h].file \in Module /\ s[k].todo <= Len(DepLibs[hp[s[k].h].file])
    /\ \A k \in 2..Len(s) : Calls(s[k], s[k - 1])

StackOK == WellStacked(stack, heap)

\* While lt_dlinit preopens the loaders, only earlier ones are open.
BootOK ==
    phase = "boot" =>
        /\ stack = <<>> /\ pos > 0
        /\ \A h \in Registered : \E j \in 1..Len(LinkedLoaders) :
               j < pos /\ heap[h].file = LinkedLoaders[j]
        /\ Item(Preopen) \in SeqRange(loaders)

DepUses(h) ==
    UNION {{<<g, k>> : k \in {j \in 1..Len(heap[g].deplibs) : heap[g].deplibs[j] = h}}
           : g \in Reachable}
ReturnUses(h) == {k \in 1..Len(stack) : stack[k].ret = h}
Uses(h) == held[h] + Cardinality(DepUses(h)) + Cardinality(ReturnUses(h))

\* The reference count of a module is exactly the number of its users: the
\* lt_dlopens of the client, the modules that list it among their deplibs, the
\* open about to return it.  A resident module's count may be larger, as
\* unload_deplibs does not give back a use of a resident module.
RefCountExact ==
    Serving => \A h \in Registered :
        /\ heap[h].ref >= Uses(h)
        /\ ~heap[h].resident => heap[h].ref = Uses(h) /\ heap[h].ref > 0

DepsAreOpen == \A g \in Reachable : SeqRange(heap[g].deplibs) \subseteq Registered

\* No module is unloaded while another one depends on it, until lt_dlexit.
DepsOpenInUse == Serving => DepsAreOpen

\* ... and lt_dlexit keeps to that too: when it closes a module, those that
\* depend on it are closed already, or are being closed.
DepsOpenAtExit == phase = "closing" => \A g \in Registered :
    SeqRange(heap[g].deplibs) \subseteq Registered

\* The loader of an open module stays in the list of loaders: lt_dlclose calls
\* through the module's vtable.
LoaderOfOpenModule ==
    \A h \in Registered : \E k \in 1..Len(loaders) :
        loaders[k].live /\ loaders[k].name = heap[h].vtable

\* Loader names are unique: lt_dlloader_find and lt_dlloader_remove go by name.
LoaderNamesUnique ==
    \A j, k \in 1..Len(loaders) : loaders[j].name = loaders[k].name => j = k

\* After the last lt_dlexit only resident modules are left in memory, and only
\* the loaders that such a module still listed needs.
ExitReleasesAll ==
    phase = "off" =>
        /\ \A h \in Handle : heap[h].live => heap[h].resident
        /\ \A k \in 1..Len(loaders) :
               \E h \in Users(loaders[k].name) : heap[h].resident

\* lt_dlexit counts no error of its own: it never closes a handle that is not
\* valid or is resident, and never gives up a loader some module uses.
ExitSucceeds == ~errs

\* lt_dlexit does all it has to do, and nothing that fails.
ExitComplete == ExitReleasesAll /\ ExitSucceeds

\* A module the client marked resident stays in memory and resident, whatever
\* is closed or shut down.
ResidentForGood ==
    [][\A h \in Registered : heap[h].resident => heap'[h].live /\ heap'[h].resident]_vars

\* A call that has begun returns: recursion through deplibs ends, and the passes
\* of lt_dlexit end.
CallsReturn == (stack # <<>>) ~> (stack = <<>>)
ExitEnds == (phase = "closing") ~> (phase = "off")
=============================================================================
