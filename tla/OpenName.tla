------------------------------ MODULE OpenName ------------------------------
(***************************************************************************)
(* From the name a client gives to lt_dlopen, lt_dlopenext or              *)
(* lt_dlopenadvise to the file a loader opens (libltdl/ltdl.c), with the   *)
(* preopen loader and the last error, which decides where a search ends.   *)
(*                                                                         *)
(* A call tries the name with each extension in turn (try_dlopen).  For    *)
(* each it asks the preopen loader, reads a .la file or looks through the  *)
(* directories, and so gets a sequence of attempts [file, by]; an attempt  *)
(* (tryall_dlopen) takes a module that is open already, or asks the        *)
(* loaders.  Every place where the C code calls into the file system or a  *)
(* loader is an action, because what fails there sets the last error.      *)
(*                                                                         *)
(* Files, .la files and the loaders' answers are the environment.          *)
(***************************************************************************)
EXTENDS Preopen, FiniteSets

CONSTANTS
    Dir,          \* directories
    NoDir,        \* no directory component
    SearchDirs,   \* user_search_path, LTDL_LIBRARY_PATH, LT_MODULE_PATH_VAR,
                  \* sys_dlsearch_path: their directories, in this order
    objdir,       \* of each directory, its subdirectory for what is not installed
    Name,         \* module names, without directory and extension
    Self,         \* no name: the program
    Request,      \* the names a client asks for, Self among them
    Hints,        \* the advice it gives, or NULL
    LibExts,      \* archive_ext, shlib_ext and shared_ext: the order they are tried
    FileSystem,   \* the file systems considered: [readable, loadable, la]
    Broken,       \* a .la value without its closing quote
    DepLib,       \* the modules a .la file may need
    Unregistered,                 \* a handle that is not in the list
    Loader, PreopenLoader, LoaderLists,   \* "lt_preopen" among them, and their lists
    Originator, PreloadList,      \* what a client preloads
    DefaultList,                  \* the default lists, or NULL
    MaxCalls, MaxPreloads         \* bounds: calls of each kind

LibExt == {LibExts[k] : k \in 1..Len(LibExts)}
File == [dir : Dir \cup {NoDir}, name : Name, ext : {"none", "a"} \cup LibExt]

ASSUME NameAssumption ==
    /\ NoDir \notin Dir /\ Self \notin File /\ NULL \notin File \cup {Self} \cup Name
    /\ Unregistered \notin File \cup {Self, NULL}
    /\ Request \subseteq File \cup {Self} /\ DepLib \subseteq File
    /\ SearchDirs \in Seq(Dir) /\ objdir \in [Dir -> Dir]
    /\ LibExts \in Seq(STRING) /\ Len(LibExts) > 0 /\ LibExts[1] = "la"
    /\ LoaderLists \subseteq Seq(Loader) \ {<<>>} /\ PreopenLoader \in Loader \ {NULL}
    /\ PreloadList \subseteq SymList /\ DefaultList \subseteq SymList \cup {NULL}
    /\ MaxCalls \in Nat /\ MaxPreloads \in Nat

VARIABLES
    fs,           \* the file system
    loaders,      \* the list of loaders
    handles,      \* the open modules, newest first
    last_error,   \* the last error, NULL if there is none
    call,         \* the lt_dlopenadvise in progress
    releasing,    \* the module the lt_dlclose in progress is for, or NULL
    walk,         \* the lt_dlpreload_open in progress
    held,         \* how often the client has each file open
    calls         \* how many calls of each kind there were

vars == <<preopenVars, fs, loaders, handles, last_error, call, releasing, walk, held,
          calls>>

Advice == [try_ext : BOOLEAN, is_symlocal : BOOLEAN, is_symglobal : BOOLEAN,
           try_preload_only : BOOLEAN]

(***************************************************************************)
(* Names of files and of symbols.                                          *)
(***************************************************************************)
In(d, f) == [f EXCEPT !.dir = d]
ArchiveOf(f) == [dir |-> NoDir, name |-> f.name, ext |-> "a"]

\* The symbol a module's source defines as s, under its mangled and plain name.
Mangled(name, s) == [module |-> name, symbol |-> s]
Plain(s) == [module |-> NULL, symbol |-> s]

Symbols == {e.name.symbol : e \in {x \in UNION {{Entries[l][k] : k \in 1..Len(Entries[l])} :
                                                l \in SymList} :
                                   ~IsHeader(x) /\ x.name # InitMark}}

\* What libtool writes into a list: the originator, then modules under the names of
\* their archives, and mangled symbols only among those of their own module.
ASSUME ListAssumption ==
    /\ Program \notin File
    /\ \A l \in SymList :
          /\ originator(l) \notin File
          /\ \A k \in 2..Len(Entries[l]) :
                LET e == Entries[l][k] IN
                /\ IsModule(e) => e.name \in File /\ e.name = ArchiveOf(e.name)
                /\ \A n \in Name, s \in Symbols :
                      e.name = Mangled(n, s) =>
                          \E h \in 1..(k - 1) :
                              /\ IsHeader(Entries[l][h])
                              /\ Entries[l][h].name = ArchiveOf([name |-> n])
                              /\ \A i \in (h + 1)..k : ~IsHeader(Entries[l][i])

(***************************************************************************)
(* .la files: a sequence of lines [key, value], a value being the names    *)
(* between the quotes.                                                     *)
(***************************************************************************)
Unread == [dlname |-> NULL, libdir |-> NULL, deplibs |-> NULL, old_name |-> NULL,
           installed |-> TRUE, errors |-> FALSE]

\* One line: library_names counts, its last name, where dlname is not set yet.
Field(r, l) ==
    CASE l.key = "installed" -> [r EXCEPT !.installed = l.value]
      [] l.key = "library_names" /\ r.dlname # NULL -> r
      [] l.value = Broken    -> [r EXCEPT !.errors = TRUE]
      [] l.key = "library_names" /\ r.dlname = NULL ->
            [r EXCEPT !.dlname = IF l.value = <<>> THEN NULL ELSE l.value[Len(l.value)]]
      [] OTHER -> [r EXCEPT ![l.key] = IF l.value = <<>> THEN NULL ELSE l.value[1]]

\* The fields after all lines, or after the first line that is an error.
parse_dotla_file(lines) ==
    LET read[k \in 0..Len(lines)] ==
            IF k = 0 THEN Unread
            ELSE IF read[k - 1].errors THEN read[k - 1]
            ELSE Field(read[k - 1], lines[k])
    IN  read[Len(lines)]

\* What such a file says, when it can be parsed.
La == [dlname : File \cup {NULL}, libdir : Dir \cup {NULL}, deplibs : DepLib \cup {NULL},
       old_name : File \cup {NULL}, installed : BOOLEAN, errors : BOOLEAN]

\* A .la file names the archive of its own module, and no system loader opens archives.
ASSUME FileAssumption ==
    \A s \in FileSystem :
        /\ \A f \in s.loadable : f.ext # "a"
        /\ \A f \in s.readable :
              LET la == parse_dotla_file(s.la[f]) IN
              f.ext = "la" /\ ~la.errors => la \in La /\ la.old_name \in {NULL, ArchiveOf(f)}

(***************************************************************************)
(* One attempt: tryall_dlopen.                                             *)
(***************************************************************************)
Open(f) == \E k \in 1..Len(handles) : handles[k].file = f
PlaceOf(f) == CHOOSE k \in 1..Len(handles) : handles[k].file = f
HandleOf(f) == handles[PlaceOf(f)]

\* What loader l says when asked for file f.
Answer(l, f) ==
    IF l = PreopenLoader THEN vm_open(IF f = Self THEN NULL ELSE f)
    ELSE IF f = Self \/ f \in fs.loadable THEN [module |-> f, error |-> NULL]
    ELSE [module |-> NULL, error |-> "CANNOT_OPEN"]

\* The loaders asked: the one given, or all.
Asked(by) == IF by = NULL THEN loaders ELSE <<by>>

\* The loaders that would open f, by their place.
Opening(f, by) == {k \in 1..Len(Asked(by)) : Answer(Asked(by)[k], f).module # NULL}
CanOpen(f, by) == Open(f) \/ Opening(f, by) # {}

\* The program is resident, unless there is advice, which is not to keep it.
NewHandle(f, by, name, dep) ==
    LET l == Asked(by)[Least(Opening(f, by))] IN
    [file |-> f, vtable |-> l, module |-> Answer(l, f).module, name |-> name,
     dep |-> dep, resident |-> f = Self /\ call.advice = NULL, ref |-> 1]

\* The error of an attempt that fails: that of the last loader asked.
FailureOf(f, by) == Answer(Asked(by)[Len(Asked(by))], f).error

(***************************************************************************)
(* The list of handles.                                                    *)
(***************************************************************************)
Retain(f) == [handles EXCEPT ![PlaceOf(f)].ref = @ + 1]
Unlink(k) == [j \in 1..(Len(handles) - 1) |-> handles[IF j < k THEN j ELSE j + 1]]

\* lt_dlclose of a module: its last use, unless it is resident, frees it, and goes on
\* with the lt_dlclose of the module it needed, which is not resident.
Release ==
    LET h == HandleOf(releasing) IN
    /\ releasing # NULL
    /\ IF h.ref = 1 /\ ~h.resident
       THEN /\ handles' = Unlink(PlaceOf(releasing))
            /\ releasing' = h.dep
       ELSE /\ handles' = [handles EXCEPT ![PlaceOf(releasing)].ref = @ - 1]
            /\ releasing' = NULL
    /\ last_error' = IF h.resident THEN "CLOSE_RESIDENT_MODULE" ELSE last_error
    /\ UNCHANGED <<preopenVars, fs, loaders, call, walk, held, calls>>

(***************************************************************************)
(* lt_dlopenadvise and try_dlopen.                                         *)
(***************************************************************************)
AsPassed == <<>>   \* no extension is appended
NoCall == [at |-> "none"]
NoWalk == [at |-> "none"]

Idle == call = NoCall
Preopening == \E k \in 1..Len(loaders) : loaders[k] = PreopenLoader

\* lt_dlloader_find ("lt_preopen"): NULL, and so all loaders, if it is gone
FindPreopen == IF Preopening THEN PreopenLoader ELSE NULL

has_library_ext(f) == f.ext \in LibExt

\* The name try_dlopen looks for: the client's, with the extension in turn.
Attempted == IF call.exts = AsPassed THEN call.request
             ELSE [call.request EXCEPT !.ext = call.exts[1]]

BeginCall(f, adv) ==
    call' = [at |-> "start", request |-> f, advice |-> adv,
             exts |-> IF f = Self \/ adv = NULL THEN AsPassed
                      ELSE IF ~adv.try_ext \/ has_library_ext(f) THEN AsPassed
                      ELSE LibExts,
             dir |-> NoDir, la |-> Unread, attempts |-> <<>>, dep |-> NULL,
             errors |-> FALSE, handle |-> NULL,
             entry_error |-> last_error, saved_error |-> last_error,
             starved |-> FALSE]

\* Hidden and visible at once is refused.
lt_dlopenadvise(f, adv) ==
    /\ Idle /\ walk = NoWalk /\ calls.open < MaxCalls
    /\ calls' = [calls EXCEPT !.open = @ + 1]
    /\ IF adv # NULL /\ adv.is_symlocal /\ adv.is_symglobal
       THEN /\ last_error' = "CONFLICTING_FLAGS"
            /\ UNCHANGED call
       ELSE BeginCall(f, adv) /\ UNCHANGED last_error
    /\ UNCHANGED <<preopenVars, fs, loaders, handles, releasing, walk, held>>

StepVars == <<preopenVars, fs, loaders, walk, held, calls>>

\* The call as it goes on, with nothing opened or closed.
Goes == UNCHANGED <<handles, releasing>>

\* try_dlopen returns with errors: nothing open, the deplib given back.
Fail(error) ==
    /\ call' = [call EXCEPT !.at = "next", !.errors = TRUE, !.dep = NULL]
    /\ releasing' = call.dep
    /\ last_error' = error
    /\ UNCHANGED handles

\* Faulty variant: the error of the attempts that failed.
LastFailure == last_error
\* register_handle leaves the error as try_dlopen found it.
ErrorBefore == call.saved_error

\* Faulty variant: keeps the deplib opened for a module that is open already.
SharedKeeps(f) == handles' = Retain(f) /\ releasing' = NULL
\* One that is open already has one more use, and the deplib goes back.
Shared(f) == handles' = Retain(f) /\ releasing' = call.dep

\* A module that is open already or that a loader opens.
Success(f, by) ==
    /\ \/ Open(f) /\ Shared(f)
       \/ /\ ~Open(f)
          /\ handles' = <<NewHandle(f, by, IF f = Self THEN NULL ELSE call.request.name,
                                    call.dep)>> \o handles
          /\ releasing' = NULL
    /\ call' = [call EXCEPT !.at = "next", !.handle = f, !.dep = NULL]
    /\ last_error' = ErrorBefore

\* The program itself: all loaders are asked.
OpenSelf ==
    /\ call.at = "start" /\ call.request = Self
    /\ IF CanOpen(Self, NULL) THEN Success(Self, NULL) ELSE Fail(FailureOf(Self, NULL))
    /\ UNCHANGED StepVars

PreloadOnly == call.advice # NULL /\ call.advice.try_preload_only

\* What a name that is not opened leaves: for one not open yet, memory may run out.
Refusals(f, by) == (IF Open(f) THEN {} ELSE {"NO_MEMORY"})
                   \cup (IF CanOpen(f, by) THEN {} ELSE {FailureOf(f, by)})

\* A name without directory is looked up among the preloaded modules first; the
\* advice may end the search there, which counts no error.
PreloadFirst ==
    LET f == ArchiveOf(Attempted)
        looked == Attempted.dir = NoDir /\ Preopening
    IN
    /\ call.at = "start" /\ call.request # Self
    /\ \/ looked /\ CanOpen(f, PreopenLoader) /\ Success(f, PreopenLoader)
       \/ /\ call' = [call EXCEPT !.at = IF PreloadOnly THEN "next" ELSE "search"]
          /\ last_error' \in IF looked THEN Refusals(f, PreopenLoader) ELSE {last_error}
          /\ Goes
    /\ UNCHANGED StepVars

\* Memory runs out before or after the preloaded modules were looked up.
NoMemory ==
    /\ call.at \in {"start", "search"}
    /\ Fail("NO_MEMORY")
    /\ UNCHANGED StepVars

\* It runs out for the archive's name: the handle just allocated stays behind.
NoMemoryForArchive ==
    /\ call.at = "start" /\ call.request # Self /\ Attempted.dir = NoDir /\ Preopening
    /\ call' = [call EXCEPT !.at = "next", !.errors = TRUE, !.handle = Unregistered]
    /\ last_error' = "NO_MEMORY"
    /\ Goes /\ UNCHANGED StepVars

\* The places in the search paths that have file f.
Has(f) == {k \in 1..Len(SearchDirs) : In(SearchDirs[k], f) \in fs.readable}

\* The directory the .la file is found in (find_file).
FirstDir(f) == IF f.dir # NoDir THEN f.dir ELSE SearchDirs[Least(Has(f))]

FoundLa(f) == IF f.dir # NoDir THEN f \in fs.readable ELSE Has(f) # {}

\* A .la file is found and read; a file that is not there ends this try, as does
\* one that cannot be parsed, which sets no error, and one for whose lines there is
\* no memory, which sets the error of a file that is not there.
ReadLa ==
    LET f == Attempted
        la == parse_dotla_file(fs.la[In(FirstDir(f), f)])
    IN
    /\ call.at = "search" /\ f.ext = "la"
    /\ \/ Fail("FILE_NOT_FOUND")
       \/ FoundLa(f) /\ la.errors /\ Fail(last_error)
       \/ /\ FoundLa(f) /\ ~la.errors
          /\ call' = [call EXCEPT !.at = "deplibs", !.dir = FirstDir(f), !.la = la]
          /\ Goes /\ UNCHANGED last_error
    /\ UNCHANGED StepVars

\* load_deplibs opens the module needed with lt_dlopenext, or goes on without it,
\* leaving the error of that failure, or runs out of memory.
LoadDeplibs ==
    LET d == call.la.deplibs IN
    /\ call.at = "deplibs"
    /\ \/ /\ d # NULL /\ CanOpen(d, NULL)
          /\ handles' = IF Open(d) THEN Retain(d)
                        ELSE <<NewHandle(d, NULL, d.name, NULL)>> \o handles
          /\ call' = [call EXCEPT !.at = "plan", !.dep = d]
          /\ UNCHANGED <<releasing, last_error>>
       \/ /\ d # NULL /\ ~CanOpen(d, NULL)
          /\ call' = [call EXCEPT !.at = "plan"]
          /\ last_error' \in {"FILE_NOT_FOUND", FailureOf(d, NULL)}
          /\ Goes
       \/ /\ d = NULL
          /\ call' = [call EXCEPT !.at = "plan"]
          /\ Goes /\ UNCHANGED last_error
       \/ Fail("NO_MEMORY")
    /\ UNCHANGED StepVars

Try(f, by) == <<[file |-> f, by |-> by, look |-> FALSE]>>
When(condition, attempts) == IF condition THEN attempts ELSE <<>>

\* Faulty variant: the preopened library comes last.
find_module_late(dir, la) ==
    When(la.dlname # NULL,
            When(la.installed /\ la.libdir # NULL, Try(In(la.libdir, la.dlname), NULL))
         \o When(~la.installed, Try(In(objdir[dir], la.dlname), NULL))
         \o Try(In(dir, la.dlname), NULL))
    \o When(la.old_name # NULL, Try(la.old_name, FindPreopen))

\* The preopened old library, then the installed or the uninstalled module, then
\* one beside the .la file.
find_module(dir, la) ==
    When(la.old_name # NULL, Try(la.old_name, FindPreopen))
    \o When(la.dlname # NULL,
            When(la.installed /\ la.libdir # NULL, Try(In(la.libdir, la.dlname), NULL))
         \o When(~la.installed, Try(In(objdir[dir], la.dlname), NULL))
         \o Try(In(dir, la.dlname), NULL))

PlanModule ==
    /\ call.at = "plan"
    /\ call' = [call EXCEPT !.at = "attempt", !.attempts = find_module(call.dir, call.la)]
    /\ Goes /\ UNCHANGED <<last_error, StepVars>>

\* A file that is no .la file: in each directory, where it is looked for first, then
\* as passed.
find_handles(f) ==
    When(f.dir = NoDir, [k \in 1..Len(SearchDirs) |->
                            [file |-> In(SearchDirs[k], f), by |-> NULL, look |-> TRUE]])
    \o Try(f, NULL)

PlanFile ==
    /\ call.at = "search" /\ Attempted.ext # "la"
    /\ call' = [call EXCEPT !.at = "attempt", !.attempts = find_handles(Attempted)]
    /\ Goes /\ UNCHANGED <<last_error, StepVars>>

\* find_handle_callback goes on to the next directory where the file is not readable.
Missing == Head(call.attempts).look /\ Head(call.attempts).file \notin fs.readable

NextDir ==
    /\ call.at = "attempt" /\ call.attempts # <<>> /\ Missing
    /\ call' = [call EXCEPT !.attempts = Tail(@)]
    /\ Goes /\ UNCHANGED <<last_error, StepVars>>

\* tryall_dlopen on the next attempt; the name may not fit in memory.
Attempt ==
    LET f == Head(call.attempts).file
        by == Head(call.attempts).by
    IN
    /\ call.at = "attempt" /\ call.attempts # <<>> /\ ~Missing
    /\ \/ CanOpen(f, by) /\ Success(f, by)
       \/ /\ ~Open(f)
          /\ last_error' \in Refusals(f, by)
          /\ call' = [call EXCEPT !.attempts = Tail(@), !.starved = @ \/ CanOpen(f, by)]
          /\ Goes
    /\ UNCHANGED StepVars

\* No attempt is left; the error is the last one's, if there was any.
NoneOpened ==
    /\ call.at = "attempt" /\ call.attempts = <<>>
    /\ Fail(last_error)
    /\ UNCHANGED StepVars

(***************************************************************************)
(* What follows a try_dlopen in lt_dlopenadvise.                           *)
(***************************************************************************)
file_not_found == last_error = "FILE_NOT_FOUND"

\* The search ends with a handle, with an error that is not file_not_found, or,
\* for a name taken as passed, anyway.
Stop ==
    \/ call.handle # NULL
    \/ call.errors /\ ~file_not_found
    \/ call.exts = AsPassed

\* A name taken as passed is not returned with errors.
EndSearch ==
    /\ call.at = "next" /\ Stop
    /\ call' = [call EXCEPT !.at = "returned",
                            !.handle = IF call.exts = AsPassed /\ call.errors THEN NULL ELSE @]
    /\ Goes /\ UNCHANGED <<last_error, StepVars>>

\* The next extension begins with the error lt_dlopenadvise found.
NextExt ==
    /\ call.at = "next" /\ ~Stop /\ Len(call.exts) > 1
    /\ last_error' = call.entry_error
    /\ call' = [call EXCEPT !.at = "start", !.exts = Tail(@), !.errors = FALSE,
                            !.attempts = <<>>, !.dir = NoDir, !.la = Unread,
                            !.saved_error = call.entry_error]
    /\ Goes /\ UNCHANGED StepVars

NoExtLeft ==
    /\ call.at = "next" /\ ~Stop /\ Len(call.exts) = 1
    /\ last_error' = "FILE_NOT_FOUND"
    /\ call' = [call EXCEPT !.at = "returned"]
    /\ Goes /\ UNCHANGED StepVars

HeldOf(f) == IF f \in DOMAIN held THEN held[f] ELSE 0
Count(f) == [x \in DOMAIN held \cup {f} |-> IF x = f THEN HeldOf(f) + 1 ELSE held[x]]
Uses == IF call.handle \in {NULL, Unregistered} THEN held ELSE Count(call.handle)

\* The client gets the handle.
Return ==
    /\ call.at = "returned" /\ walk = NoWalk
    /\ held' = Uses
    /\ call' = NoCall
    /\ UNCHANGED <<preopenVars, fs, loaders, handles, releasing, last_error, walk, calls>>

(***************************************************************************)
(* lt_dlpreload_open: every module of every list of one originator.  The   *)
(* walk is at entry idx of the first of the lists still to be walked; the  *)
(* lists a callback adds come before the one it is called for.             *)
(***************************************************************************)
From(l, o) == originator(l) = IF o = NULL THEN Program ELSE o

\* The places in list l, past k, of what the walk opens for originator o.
ModulesPast(l, k, o) == {i \in (k + 1)..Len(Entries[l]) : From(l, o) /\ IsModule(Entries[l][i])}

\* The modules that are to be opened.
Promised(o) == UNION {{Entries[l][i].name : i \in ModulesPast(l, 1, o)} :
                         l \in {preloaded_symlists[j] : j \in 1..Len(preloaded_symlists)}}

\* Faulty variant: skips the first header with the originator.
FirstEntryShort == 3
\* The entry before the first that is looked at, of each list.
FirstEntry == 1

lt_dlpreload_open(o) ==
    /\ Idle /\ walk = NoWalk /\ calls.open < MaxCalls
    /\ calls' = [calls EXCEPT !.open = @ + 1]
    /\ IF \A j \in 1..Len(preloaded_symlists) : ~From(preloaded_symlists[j], o)
       THEN last_error' = "CANNOT_OPEN" /\ UNCHANGED walk
       ELSE /\ walk' = [at |-> "list", from |-> o, lists |-> preloaded_symlists,
                        idx |-> FirstEntry, errors |-> FALSE, promised |-> Promised(o)]
            /\ UNCHANGED last_error
    /\ UNCHANGED <<preopenVars, fs, loaders, handles, releasing, call, held>>

Walking == walk.at = "list"
Left == ModulesPast(Head(walk.lists), walk.idx, walk.from)

\* lt_dlopen of the next module of the list
WalkOpen ==
    /\ Idle /\ Walking /\ walk.lists # <<>> /\ Left # {}
    /\ BeginCall(Entries[Head(walk.lists)][Least(Left)].name, NULL)
    /\ walk' = [walk EXCEPT !.idx = Least(Left)]
    /\ UNCHANGED <<preopenVars, fs, loaders, handles, releasing, last_error, held, calls>>

\* The next list, when there is no module left in this one
WalkList ==
    /\ Idle /\ Walking /\ walk.lists # <<>> /\ Left = {}
    /\ walk' = [walk EXCEPT !.lists = Tail(@), !.idx = FirstEntry]
    /\ UNCHANGED <<preopenVars, fs, loaders, handles, releasing, last_error, call, held, calls>>

\* func gets the handle, if there is one; it may fail, or preload another list.
WalkCallback ==
    /\ Walking /\ call.at = "returned"
    /\ held' = Uses
    /\ call' = NoCall
    /\ \/ /\ walk' = [walk EXCEPT !.errors = @ \/ call.handle = NULL]
          /\ UNCHANGED <<preopenVars, calls>>
       \/ /\ call.handle # NULL
          /\ walk' = [walk EXCEPT !.errors = TRUE]
          /\ UNCHANGED <<preopenVars, calls>>
       \/ /\ call.handle # NULL /\ calls.preload < MaxPreloads
          /\ calls' = [calls EXCEPT !.preload = @ + 1]
          /\ \E l \in PreloadList : lt_dlpreload(l, TRUE)
          /\ UNCHANGED walk
    /\ UNCHANGED <<fs, loaders, handles, releasing, last_error>>

WalkEnd ==
    /\ Idle /\ Walking /\ walk.lists = <<>>
    /\ walk' = NoWalk
    /\ UNCHANGED <<preopenVars, fs, loaders, handles, releasing, last_error, call, held, calls>>

(***************************************************************************)
(* Between these calls.                                                    *)
(***************************************************************************)
Quiet == Idle /\ walk = NoWalk

Preload ==
    /\ Quiet /\ calls.preload < MaxPreloads
    /\ calls' = [calls EXCEPT !.preload = @ + 1]
    /\ \E memory \in BOOLEAN, l \in PreloadList \cup {NULL} :
          /\ lt_dlpreload(l, memory)
          /\ IF memory THEN UNCHANGED last_error ELSE last_error' = "NO_MEMORY"
    /\ UNCHANGED <<fs, loaders, handles, releasing, call, walk, held>>

PreloadDefault ==
    /\ Quiet /\ calls.preload < MaxPreloads
    /\ calls' = [calls EXCEPT !.preload = @ + 1]
    /\ \E l \in PreloadList : lt_dlpreload_default(l)
    /\ UNCHANGED <<fs, loaders, handles, releasing, last_error, call, walk, held>>

\* lt_dlexit with no module open, and lt_dlinit
Restart ==
    /\ Quiet /\ handles = <<>> /\ Preopening
    /\ vl_exit_init
    /\ UNCHANGED <<fs, loaders, handles, releasing, last_error, call, walk, held, calls>>

\* lt_dlclose by the client, as often as it has the module
Close(h) ==
    /\ Quiet /\ HeldOf(h.file) > 0
    /\ held' = [held EXCEPT ![h.file] = @ - 1]
    /\ releasing' = h.file
    /\ UNCHANGED <<preopenVars, fs, loaders, handles, last_error, call, walk, calls>>

\* lt_dlsym on a preloaded module: "name_LTX_s", then "s".
lt_dlsym(h, s) ==
    IF h.name # NULL /\ vm_sym(h.module, Mangled(h.name, s)) # NULL
    THEN vm_sym(h.module, Mangled(h.name, s))
    ELSE vm_sym(h.module, Plain(s))

Sym(h, s) ==
    /\ Quiet /\ h.vtable = PreopenLoader
    /\ last_error' = IF lt_dlsym(h, s) = NULL THEN "SYMBOL_NOT_FOUND" ELSE last_error
    /\ UNCHANGED <<preopenVars, fs, loaders, handles, releasing, call, walk, held, calls>>

lt_dlerror ==
    /\ Quiet /\ last_error # NULL
    /\ last_error' = NULL
    /\ UNCHANGED <<preopenVars, fs, loaders, handles, releasing, call, walk, held, calls>>

\* After lt_dlinit, with the lists the program gave as a default.
Init ==
    /\ fs \in FileSystem /\ loaders \in LoaderLists
    /\ \E l \in DefaultList :
          /\ default_preloaded_symbols = l
          /\ preloaded_symlists = IF l = NULL THEN <<>> ELSE <<l>>
    /\ handles = <<>> /\ last_error = NULL
    /\ call = NoCall /\ walk = NoWalk /\ releasing = NULL
    /\ held = [f \in {} |-> 0]
    /\ calls = [open |-> 0, preload |-> 0]

Step ==
    \/ OpenSelf \/ PreloadFirst \/ NoMemory \/ NoMemoryForArchive
    \/ ReadLa \/ LoadDeplibs \/ PlanModule \/ PlanFile \/ NextDir \/ Attempt \/ NoneOpened
    \/ EndSearch \/ NextExt \/ NoExtLeft \/ Return
    \/ WalkOpen \/ WalkList \/ WalkCallback \/ WalkEnd

Client ==
    \/ \E f \in Request, adv \in Hints : lt_dlopenadvise(f, adv)
    \/ \E o \in Originator : lt_dlpreload_open(o)
    \/ Preload \/ PreloadDefault \/ Restart
    \/ \E k \in 1..Len(handles) : Close(handles[k])
    \/ \E k \in 1..Len(handles), s \in Symbols : Sym(handles[k], s)
    \/ lt_dlerror

\* An lt_dlclose runs to its end before the code that called it goes on.
Next == Release \/ (releasing = NULL /\ (Step \/ Client))

Spec == Init /\ [][Next]_vars

(***************************************************************************)
(* Properties.                                                             *)
(***************************************************************************)
Error == {"FILE_NOT_FOUND", "NO_SYMBOLS", "CANNOT_OPEN", "NO_MEMORY", "CONFLICTING_FLAGS",
          "SYMBOL_NOT_FOUND", "CLOSE_RESIDENT_MODULE"}

Module == File \cup {Self}
Handle == [file : Module, vtable : Loader, module : SymList \cup Module, name : Name \cup {NULL},
           dep : DepLib \cup {NULL}, resident : BOOLEAN, ref : Nat]
Call == [at : {"start", "search", "deplibs", "plan", "attempt", "next", "returned"},
         request : Module, advice : Hints \cup {NULL}, exts : Seq(LibExt),
         dir : Dir \cup {NoDir}, la : La \cup {Unread},
         attempts : Seq([file : File, by : Loader \cup {NULL}, look : BOOLEAN]),
         dep : DepLib \cup {NULL}, errors : BOOLEAN, handle : Module \cup {NULL, Unregistered},
         entry_error : Error \cup {NULL}, saved_error : Error \cup {NULL}, starved : BOOLEAN]
Walk == [at : {"list"}, from : Originator, lists : Seq(SymList), idx : Nat \ {0}, errors : BOOLEAN,
         promised : SUBSET File]

\* The types.
TypeOK ==
    /\ fs \in FileSystem /\ loaders \in LoaderLists
    /\ preloaded_symlists \in Seq(SymList)
    /\ default_preloaded_symbols \in SymList \cup {NULL}
    /\ last_error \in Error \cup {NULL}
    /\ DOMAIN held \subseteq Module /\ held \in [DOMAIN held -> Nat]
    /\ handles \in Seq(Handle) /\ releasing \in Module \cup {NULL}
    /\ call \in Call \cup {NoCall} /\ walk \in Walk \cup {NoWalk}

Opened == call.at = "returned" /\ call.handle \in Module
OpenedFile == call.at = "returned" /\ call.handle \in File

\* A call that opens a module leaves the last error alone, whatever failed on the
\* way: the preloaded modules, other extensions, other directories, deplibs
\* (tryall_dlopen and try_dlopen restore it).
SuccessKeepsError == Opened => last_error = call.entry_error

\* "If the same module is loaded several times, the same handle is returned"
\* (lt_dlopen), also when the module's own deplibs open it meanwhile.
OneHandlePerFile ==
    \A j, k \in 1..Len(handles) : handles[j].file = handles[k].file => j = k

\* The uses of module f: by the client, by the modules that need it, by the call and
\* by the lt_dlclose in progress.
One(condition) == IF condition THEN 1 ELSE 0
UsesOf(f) ==
    HeldOf(f) + Cardinality({j \in 1..Len(handles) : handles[j].dep = f})
    + One(~Idle /\ call.dep = f) + One(~Idle /\ call.handle = f) + One(releasing = f)

\* A module is counted once for each use: a search that fails after it opened a deplib
\* gives it back, and so does one that ends at a module that is open already.
UsesCounted == \A k \in 1..Len(handles) : handles[k].ref = UsesOf(handles[k].file)

\* The only modules that may have a use
Mentioned == (DOMAIN held \cup DepLib \cup {releasing}
              \cup (IF Idle THEN {} ELSE {call.handle})) \cap Module

\* No module that is in use is closed, and none stays open without, but a resident one.
OpenInUse ==
    /\ \A f \in Mentioned : UsesOf(f) > 0 => Open(f)
    /\ \A k \in 1..Len(handles) : handles[k].ref > 0 \/ handles[k].resident

\* A file a loader other than the preopen loader would open
Loads(f) == f \in fs.readable \cap fs.loadable /\ \E k \in 1..Len(loaders) : loaders[k] # PreopenLoader

\* Without a directory, the module opened is that of the first directory of the
\* search paths that has a loadable one; the name as passed comes after them all.
FirstInPath ==
    OpenedFile /\ Attempted.dir = NoDir /\ Attempted.ext # "la" /\ ~call.starved
    /\ call.handle # ArchiveOf(Attempted) =>
        \A j \in 1..Len(SearchDirs) :
            Loads(In(SearchDirs[j], Attempted)) =>
                \E i \in 1..j : call.handle = In(SearchDirs[i], Attempted)

\* A .la file stands for the preopened version of its library if there is one,
\* "even if a dlopenable module is available" (find_module).
PreopenedFirst ==
    OpenedFile /\ Attempted.ext = "la" /\ ~call.starved /\ Preopening
    /\ call.la.old_name # NULL /\ vm_open(call.la.old_name).module # NULL =>
        call.handle = call.la.old_name

\* The .la file read is that of the first directory that has one (find_file).
FirstLaRead ==
    OpenedFile /\ Attempted.dir = NoDir /\ call.dir # NoDir =>
        \A j \in 1..Len(SearchDirs) :
            In(SearchDirs[j], Attempted) \in fs.readable =>
                \E i \in 1..j : call.dir = SearchDirs[i]

\* With the preload hint nothing but preloaded modules is opened, whichever
\* extension or directory the name has (lt_dladvise_preload).
PreloadHintKept ==
    OpenedFile /\ call.advice # NULL /\ call.advice.try_preload_only =>
        HandleOf(call.handle).vtable = PreopenLoader

\* No symbol list is in the chain twice: not the default list when the client
\* preloads it too, nor one a callback adds again (add_symlist).
ListsOnce ==
    \A j, k \in 1..Len(preloaded_symlists) : preloaded_symlists[j] = preloaded_symlists[k] => j = k

\* The symbols between the header of module f and the next header
Section(l, f) ==
    {Entries[l][k].address : k \in
        {k \in 1..Len(Entries[l]) :
            \E h \in 1..(k - 1) :
                HeaderOf(l, h, f) /\ \A i \in (h + 1)..k : ~IsHeader(Entries[l][i])}}

\* A client that asks a preloaded module for mangled symbols gets that module's:
\* not those of another module of its list, nor those another list has for its
\* name (vm_open and vm_sym only know lists).
OwnSymbols ==
    Quiet => \A k \in 1..Len(handles) :
        LET h == handles[k] IN
        h.vtable = PreopenLoader /\ h.file # Self =>
            /\ Offers(h.module, h.file)
            /\ \A s \in Symbols :
                  vm_sym(h.module, Mangled(h.name, s)) # NULL =>
                      lt_dlsym(h, s) \in Section(h.module, h.file)

\* A walk of lt_dlpreload_open that counts no error has opened every module of the
\* lists its originator had when it began, also when func preloads others.
PreloadedAllOpened ==
    [][walk # NoWalk /\ walk' = NoWalk /\ ~walk.errors => \A f \in walk.promised : Open(f)]_vars

\* The open modules and their counts are right, at each step of a search.
HandlesRight == TypeOK /\ OneHandlePerFile /\ UsesCounted /\ OpenInUse

\* A name opens the file that comes first, of all that bear it.
RightFile == FirstInPath /\ PreopenedFirst /\ FirstLaRead /\ PreloadHintKept

\* Lists are kept once each, and a module of one has its own symbols.
PreloadedRight == ListsOnce /\ OwnSymbols

\* What lt_dlerror's documentation says of a call that fails: there is an error.
FailureSaysWhy == call.at = "returned" /\ call.handle = NULL => last_error # NULL

\* "If we found FILENAME, stop searching -- whether we were able to load the file
\* as a module or not" (lt_dlopenadvise).
FoundStops ==
    [][call.at = "next" /\ call'.at = "start" =>
          IF Attempted.ext = "la" THEN ~FoundLa(Attempted) ELSE Has(Attempted) = {}]_vars

\* A handle that is returned is one of the open modules.
ReturnedIsOpen == call.at = "returned" /\ call.handle # NULL => Open(call.handle)
=============================================================================
