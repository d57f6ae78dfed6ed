------------------------------ MODULE Loaders -------------------------------
(***************************************************************************)
(* The loaders of libltdl (libltdl/loaders): what dlopen.c, loadlibrary.c, *)
(* dyld.c, shl_load.c, load_add_on.c and dld_link.c make of the system's   *)
(* answers, for the calls that reach them: tryall_dlopen, lt_dlclose and   *)
(* lt_dlsym.  One of the six is built in; which one is chosen at the start.*)
(*                                                                         *)
(* The system is external: it counts the references to each library, says  *)
(* that a call failed, and has a text for it in a buffer of its own.       *)
(* Whether it can load a file is its choice.  A library may be found under *)
(* several names; ltdl opens each name once (Ltdl, OpenName).              *)
(***************************************************************************)
EXTENDS LtError, FiniteSets

CONSTANTS
    Name,       \* file names that modules are opened by
    Program,    \* the program itself, lt_dlopen (NULL)
    Lib,        \* libraries, as the system knows them
    FileOf,     \* the library of each name
    Long,       \* names longer than MAX_PATH
    Dylib,      \* libraries of the kind dyld cannot unload
    Symbol,     \* symbols asked for
    Defines,    \* the symbols each library, and the program, defines
    UserData,   \* what loaders may be initialised with
    Gone,       \* the text of memory that was freed, or is another's
    MaxRefs,    \* bound on the system's references to a library
    MaxTexts,   \* bound on the texts registered
    MaxStuck    \* bound on closes the system refuses, for each library

ASSUME LoadersAssumption ==
    /\ Program \notin Name \cup Lib /\ NULL \notin UserData
    /\ FileOf \in [Name -> Lib]
    /\ Long \subseteq Name /\ Dylib \subseteq Lib
    /\ MaxRefs \in Nat \ {0, 1} /\ MaxTexts \in Nat /\ MaxStuck \in Nat

Loader == {"dlopen", "loadlibrary", "dyld", "shl_load", "load_add_on", "dld_link"}
Windows == {"xp", "vista", "seven"}      \* what error mode calls there are
Mode == {{}, {"NOGPFAULTERRORBOX"}}      \* error modes a program may set

VARIABLES
    loader,      \* the file that is built in
    windows,     \* the system loadlibrary.c runs on
    vtable,      \* NULL, or the data the loader's table was made with
    listed,      \* whether the table is in the list of loaders
    opened,      \* the names (or Program) with an open handle
    refs,        \* the system's references to each library
    buffer,      \* the text in the buffer of the system's loader, or Gone
    dyld_cannot_close,
    modes,       \* the error modes of the process and of the thread
    getthreaderrormode, setthreaderrormode,
    wanted,      \* the error modes as the program set them
    stuck,       \* closes the system refused, for each library
    outcome      \* what the last call was, and whether it failed

modeVars == <<modes, getthreaderrormode, setthreaderrormode, wanted>>
vars == <<last_error, user_error_strings, loader, windows, vtable, listed, opened,
          refs, buffer, dyld_cannot_close, modeVars, stuck, outcome>>

Subject == Name \cup {Program}
LibOf(n) == IF n = Program THEN Program ELSE FileOf[n]
Call(name, n, failed) == outcome' = [call |-> name, on |-> n, failed |-> failed]

-----------------------------------------------------------------------------
(* What a function of a loader does: whether it succeeds, the references   *)
(* and the buffer after it, and the error set when it ends.                *)

Answer(ok, references, text, error) ==
    [ok |-> ok, refs |-> references, buffer |-> text, error |-> error]

Loaded(f, n) ==
    Answer(TRUE, IF f = Program THEN refs ELSE [refs EXCEPT ![f] = @ + n],
           buffer, last_error)
Done(b) == Answer(TRUE, refs, b, last_error)
Silent(b) == Answer(FALSE, refs, b, last_error)

\* A failure with a text of the table, and one with the system's own text.
Says(code, b) == Answer(FALSE, refs, b, Strerror(code))
SystemSays(text) == Answer(FALSE, refs, text, ErrorAt("buffer", text))

\* Faulty variant: the new text is freed as well.
loadlibraryerror_frees(text, code) ==
    {Answer(FALSE, refs, Gone, ErrorAt("buffer", text)), Says(code, Gone)}

\* FormatMessage makes a new text once the previous one has been freed; when
\* it cannot, the text of the table stands in.
loadlibraryerror(text, code) == {SystemSays(text), Says(code, Gone)}

\* dyld has a text of its own for some failures.
dylderror(text, code) == {SystemSays(text), Says(code, buffer)}

-----------------------------------------------------------------------------
(* vm_open *)

dlopen_open(n) == {Loaded(LibOf(n), 1), SystemSays(<<"open", n>>)}

\* Faulty variant: any module LoadLibrary returns is taken.
loadlibrary_open_any(n) ==
    IF n \in Long THEN {Says("CANNOT_OPEN", buffer)}
    ELSE loadlibraryerror(<<"open", n>>, "CANNOT_OPEN") \cup {Loaded(LibOf(n), 1)}

\* LoadLibrary may answer with a library that is open already: this counts
\* as a failure, and the reference stays taken.
loadlibrary_open(n) ==
    IF n \in Long THEN {Says("CANNOT_OPEN", buffer)}
    ELSE loadlibraryerror(<<"open", n>>, "CANNOT_OPEN")
         \cup IF \E m \in opened : LibOf(m) = LibOf(n)
              THEN {[Loaded(LibOf(n), 1) EXCEPT !.ok = FALSE,
                                                !.error = Strerror("CANNOT_OPEN")]}
              ELSE {Loaded(LibOf(n), 1)}

\* A bundle is linked once more; an image is added at most once; without dyld
\* nothing is.
dyld_open(n) ==
    IF n = Program THEN {Loaded(Program, 1)}
    ELSE dylderror(<<"open", n>>, "CANNOT_OPEN")
         \cup IF dyld_cannot_close = 0 THEN {}
              ELSE {Loaded(FileOf[n], IF FileOf[n] \in Dylib /\ refs[FileOf[n]] > 0
                                      THEN 0 ELSE 1)}

\* The file is loaded, and then loaded again.  Either may fail; the module is the
\* second one, and the reference of the first is taken in any case.
shl_load_open(n) ==
    {Loaded(LibOf(n), 2)}
    \cup IF n = Program THEN {}
         ELSE {Loaded(LibOf(n), 1), Says("CANNOT_OPEN", buffer),
               [Loaded(LibOf(n), 1) EXCEPT !.ok = FALSE, !.error = Strerror("CANNOT_OPEN")]}

load_add_on_open(n) == {Loaded(LibOf(n), 1), Says("CANNOT_OPEN", buffer)}

\* dld links a file once; the name is the module.
dld_link_open(n) ==
    {Says("CANNOT_OPEN", buffer), Says("NO_MEMORY", buffer)}
    \cup IF refs[FileOf[n]] > 0 THEN {} ELSE {Loaded(FileOf[n], 1)}

vm_open(n) ==
    CASE loader = "dlopen" -> dlopen_open(n)
      [] loader = "loadlibrary" -> loadlibrary_open(n)
      [] loader = "dyld" -> dyld_open(n)
      [] loader = "shl_load" -> shl_load_open(n)
      [] loader = "load_add_on" -> load_add_on_open(n)
      [] loader = "dld_link" -> dld_link_open(n)

-----------------------------------------------------------------------------
(* vm_close: the reference is given back, unless the system refuses. *)

Unloaded(n) ==
    Answer(TRUE, IF n = Program THEN refs ELSE [refs EXCEPT ![FileOf[n]] = @ - 1],
           buffer, last_error)

dyld_close(n) ==
    IF n = Program THEN {Done(buffer)}
    ELSE IF FileOf[n] \in Dylib
    THEN {Answer(FALSE, refs, buffer, ErrorNumber(dyld_cannot_close))}
    ELSE {Unloaded(n)} \cup dylderror(<<"close", n>>, "CANNOT_CLOSE")

vm_close(n) ==
    CASE loader = "dlopen" -> {Unloaded(n), SystemSays(<<"close", n>>)}
      [] loader = "loadlibrary" ->
             {Unloaded(n)} \cup loadlibraryerror(<<"close", n>>, "CANNOT_CLOSE")
      [] loader = "dyld" -> dyld_close(n)
      [] OTHER -> {Unloaded(n), Says("CANNOT_CLOSE", buffer)}

-----------------------------------------------------------------------------
(* vm_sym, with text b in the system's buffer. *)

LoadedDefines(s) == \E f \in Lib : refs[f] > 0 /\ s \in Defines[f]

\* For the program dyld leaves the address as it was when it finds nothing.
\* Past the module itself it searches loaded images; strneq, which should
\* select them, is defined nowhere, so any may be the one.  The text of a
\* failure is in vm_sym's own frame.
dyld_sym(n, s, b) ==
    IF n = Program
    THEN IF s \in Defines[Program] \/ LoadedDefines(s) THEN {Done(b)} ELSE {Done(b), Silent(b)}
    ELSE IF s \in Defines[FileOf[n]] THEN {Done(b)}
    ELSE (IF LoadedDefines(s) THEN {Done(b)} ELSE {})
         \cup {Answer(FALSE, refs, t, ErrorAt("frame", "symbol not found")) :
                   t \in {b, <<"sym", s>>}}

\* A symbol that is not found sets no error.
shl_load_sym(n, s, b) == {IF s \in Defines[LibOf(n)] THEN Done(b) ELSE Silent(b)}

\* The address is passed by value, and stays 0 when the symbol is found.
load_add_on_sym(n, s, b) ==
    {Says("SYMBOL_NOT_FOUND", b)} \cup IF s \in Defines[LibOf(n)] THEN {Silent(b)} ELSE {}

\* dld searches all that is linked.
dld_link_sym(n, s, b) == {IF LoadedDefines(s) THEN Done(b) ELSE Says("SYMBOL_NOT_FOUND", b)}

vm_sym(n, s, b) ==
    CASE loader = "dlopen" ->
             {IF s \in Defines[LibOf(n)] THEN Done(b) ELSE SystemSays(<<"sym", s>>)}
      [] loader = "loadlibrary" ->
             IF s \in Defines[LibOf(n)] THEN {Done(b)}
             ELSE loadlibraryerror(<<"sym", s>>, "SYMBOL_NOT_FOUND")
      [] loader = "dyld" -> dyld_sym(n, s, b)
      [] loader = "shl_load" -> shl_load_sym(n, s, b)
      [] loader = "load_add_on" -> load_add_on_sym(n, s, b)
      [] loader = "dld_link" -> dld_link_sym(n, s, b)

-----------------------------------------------------------------------------
(* The error mode around LoadLibrary.  The two function variables start as *)
(* wrappers that bind them to what the system has.                         *)

Getter ==
    IF getthreaderrormode # "wrap" THEN getthreaderrormode
    ELSE CASE windows = "seven" -> "GetThreadErrorMode"
           [] windows = "vista" -> "GetErrorMode"
           [] windows = "xp" -> "fallback"

\* Faulty variant: the fallback, on every system.
SetterFallback ==
    IF setthreaderrormode # "wrap" THEN setthreaderrormode ELSE "fallback"

Setter ==
    IF setthreaderrormode # "wrap" THEN setthreaderrormode
    ELSE IF windows = "seven" THEN "SetThreadErrorMode" ELSE "fallback"

\* The mode, and the modes after asking: the fallback has to set one to ask.
GetMode(m) ==
    CASE Getter = "GetThreadErrorMode" -> [mode |-> m.thread, after |-> m]
      [] Getter = "GetErrorMode" -> [mode |-> m.process, after |-> m]
      [] Getter = "fallback" ->
             [mode |-> m.process, after |-> [m EXCEPT !.process = {"FAILCRITICALERRORS"}]]

SetMode(m, mode) ==
    IF Setter = "SetThreadErrorMode" THEN [m EXCEPT !.thread = mode]
                                     ELSE [m EXCEPT !.process = mode]

\* The modes while LoadLibrary runs, and after the old one was set again.
ModesDuring == LET got == GetMode(modes)
               IN  SetMode(got.after, got.mode \cup {"FAILCRITICALERRORS"})
ModesAfter == SetMode(ModesDuring, GetMode(modes).mode)

LoadQuietly(n) ==
    IF loader = "loadlibrary" /\ n \notin Long
    THEN /\ modes' = ModesAfter
         /\ getthreaderrormode' = Getter /\ setthreaderrormode' = Setter
         /\ UNCHANGED wanted
    ELSE UNCHANGED modeVars

\* The program sets its error mode.
ClientSetsMode(kind, mode) ==
    /\ loader = "loadlibrary" /\ (kind = "thread" => windows = "seven")
    /\ modes' = [modes EXCEPT ![kind] = mode]
    /\ wanted' = [wanted EXCEPT ![kind] = mode]
    /\ UNCHANGED <<errorVars, loader, windows, vtable, listed, opened, refs, buffer,
                   dyld_cannot_close, getthreaderrormode, setthreaderrormode, stuck, outcome>>

-----------------------------------------------------------------------------
(* get_vtable, vl_init and vl_exit *)

lt_system == <<loader, windows, opened, refs, modeVars, stuck>>

\* loader_init fails: get_vtable returned 0, or there is no memory for the item.
InitFails(data) ==
    /\ ~listed
    /\ \/ /\ vtable # data
          /\ last_error' = Strerror("INVALID_LOADER")
          /\ UNCHANGED vtable
       \/ /\ vtable \in {NULL, data}
          /\ last_error' = Strerror("NO_MEMORY")
          /\ vtable' = data
    /\ Call("init", NULL, TRUE)
    /\ UNCHANGED <<user_error_strings, lt_system, listed, buffer, dyld_cannot_close>>

\* Faulty variant: a number is taken, and no text registered.
dyld_vl_init_counts(memory) ==
    /\ dyld_cannot_close' = NumberAdded(memory)
    /\ UNCHANGED errorVars

\* dyld's vl_init looks the functions up and registers its text, once.
dyld_vl_init(memory) ==
    IF dyld_cannot_close = 0
    THEN /\ lt_dladderror("can't close a dylib", memory)
         /\ dyld_cannot_close' = NumberAdded(memory)
    ELSE UNCHANGED <<errorVars, dyld_cannot_close>>

InitLoader(data, memory) ==
    /\ ~listed /\ vtable \in {NULL, data}
    /\ vtable' = data /\ listed' = TRUE
    /\ IF loader = "dyld" THEN dyld_vl_init(memory)
                          ELSE UNCHANGED <<errorVars, dyld_cannot_close>>
    /\ Call("init", NULL, FALSE)
    /\ UNCHANGED <<lt_system, buffer>>

\* In a program without dyld vl_init fails, and the loader stays in the list.
InitWithoutDyld(data) ==
    /\ loader = "dyld" /\ dyld_cannot_close = 0
    /\ ~listed /\ vtable \in {NULL, data}
    /\ vtable' = data /\ listed' = TRUE
    /\ last_error' = Strerror("INIT_LOADER")
    /\ Call("init", NULL, TRUE)
    /\ UNCHANGED <<user_error_strings, lt_system, buffer, dyld_cannot_close>>

\* lt_dlloader_remove: vl_exit forgets the table; loadlibrary.c frees its text.
RemoveLoader ==
    /\ listed /\ opened = {}
    /\ vtable' = NULL /\ listed' = FALSE
    /\ buffer' = IF loader = "loadlibrary" THEN Gone ELSE buffer
    /\ Call("remove", NULL, FALSE)
    /\ UNCHANGED <<errorVars, lt_system, dyld_cannot_close>>

-----------------------------------------------------------------------------
(* The calls of ltdl.c that reach the loader. *)

unchangedByCalls == <<user_error_strings, loader, windows, vtable, listed,
                      dyld_cannot_close>>

\* The preopen loader, which has no symbol lists here, is tried as well:
\* after dlopen.c, which is put in front, and before the others.
LastError(e) == IF loader = "dlopen" THEN Strerror("NO_SYMBOLS") ELSE e

\* tryall_dlopen, for a name that is not open.
Open(n) ==
    /\ listed /\ n \in Subject \ opened
    /\ loader = "dld_link" => n # Program
    /\ \A f \in {LibOf(n)} \ {Program} : refs[f] + 2 <= MaxRefs
    /\ \E a \in vm_open(n) :
          /\ opened' = IF a.ok THEN opened \cup {n} ELSE opened
          /\ refs' = a.refs /\ buffer' = a.buffer
          /\ last_error' = IF a.ok THEN last_error ELSE LastError(a.error)
          /\ Call("open", n, ~a.ok)
    /\ LoadQuietly(n)
    /\ UNCHANGED <<unchangedByCalls, stuck>>

\* lt_dlclose: the handle goes, whatever the system says.
Close(n) ==
    /\ n \in opened
    /\ opened' = opened \ {n}
    /\ \E a \in vm_close(n) :
          /\ n # Program /\ ~a.ok => stuck[FileOf[n]] < MaxStuck
          /\ stuck' = IF n = Program \/ a.ok THEN stuck
                      ELSE [stuck EXCEPT ![FileOf[n]] = @ + 1]
          /\ refs' = a.refs /\ buffer' = a.buffer /\ last_error' = a.error
          /\ Call("close", n, ~a.ok)
    /\ UNCHANGED <<unchangedByCalls, modeVars>>

\* lt_dlsym: a name of the module's own is tried first, and its failure is
\* forgotten.
Sym(n, s, own) ==
    /\ n \in opened
    /\ \E first \in IF own THEN vm_sym(n, <<LibOf(n), s>>, buffer) ELSE {Silent(buffer)} :
          IF first.ok
          THEN /\ buffer' = first.buffer
               /\ Call("sym", n, FALSE)
               /\ UNCHANGED last_error
          ELSE \E a \in vm_sym(n, s, first.buffer) :
                  /\ buffer' = a.buffer /\ last_error' = a.error
                  /\ Call("sym", n, ~a.ok)
    /\ UNCHANGED <<unchangedByCalls, opened, refs, modeVars, stuck>>

ClientAddsText(text, memory) ==
    /\ Len(user_error_strings) < MaxTexts
    /\ lt_dladderror(text, memory)
    /\ Call("adderror", NULL, ~memory)
    /\ UNCHANGED <<lt_system, vtable, listed, buffer, dyld_cannot_close>>

ClientSetsError(errindex) ==
    /\ lt_dlseterror(errindex)
    /\ Call("seterror", NULL, errindex < 0 \/ errindex >= errorcount)
    /\ UNCHANGED <<lt_system, vtable, listed, buffer, dyld_cannot_close>>

ClientReadsError ==
    /\ lt_dlerror
    /\ Call("error", NULL, FALSE)
    /\ UNCHANGED <<lt_system, vtable, listed, buffer, dyld_cannot_close>>

-----------------------------------------------------------------------------
Init ==
    /\ loader \in Loader
    /\ windows \in IF loader = "loadlibrary" THEN Windows ELSE {"seven"}
    /\ last_error = NULL /\ user_error_strings = <<>>
    /\ vtable = NULL /\ listed = FALSE
    /\ opened = {} /\ refs = [f \in Lib |-> 0] /\ stuck = [f \in Lib |-> 0]
    /\ buffer = Gone /\ dyld_cannot_close = 0
    /\ modes = [process |-> {}, thread |-> {}] /\ wanted = modes
    /\ getthreaderrormode = "wrap" /\ setthreaderrormode = "wrap"
    /\ outcome = [call |-> "none", on |-> NULL, failed |-> FALSE]

Next ==
    \/ \E d \in UserData : \/ InitFails(d) \/ InitWithoutDyld(d)
                           \/ \E m \in BOOLEAN : InitLoader(d, m)
    \/ RemoveLoader
    \/ \E n \in Subject : \/ Open(n) \/ Close(n)
                          \/ \E s \in Symbol, own \in BOOLEAN : Sym(n, s, own)
    \/ \E m \in BOOLEAN : ClientAddsText("client's", m)
    \/ \E i \in {-1, 8} \cup LT_ERROR_MAX..errorcount : ClientSetsError(i)
    \/ ClientReadsError
    \/ \E kind \in {"process", "thread"}, mode \in Mode : ClientSetsMode(kind, mode)

Spec == Init /\ [][Next]_vars

-----------------------------------------------------------------------------
\* The state is well typed; a loader with open modules is in the list, with
\* its table.
TypeOK ==
    /\ loader \in Loader /\ windows \in Windows
    /\ last_error = NULL \/ last_error.at \in {"table", "user", "buffer", "frame"}
    /\ Len(user_error_strings) <= MaxTexts + 1
    /\ vtable \in UserData \cup {NULL}
    /\ opened # {} => listed
    /\ listed => vtable # NULL
    /\ opened \subseteq Subject
    /\ refs \in [Lib -> 0..MaxRefs] /\ stuck \in [Lib -> 0..MaxStuck]
    /\ dyld_cannot_close \in -1..errorcount
    /\ modes \in [process : Mode, thread : Mode]
    /\ getthreaderrormode \in {"wrap", "GetThreadErrorMode", "GetErrorMode", "fallback"}
    /\ setthreaderrormode \in {"wrap", "SetThreadErrorMode", "fallback"}

Users(f) == {n \in opened \ {Program} : FileOf[n] = f}

\* The library of an open module is loaded, whatever was opened and closed
\* under its other names and whatever the system refused (vm_open, vm_close).
ModuleMapped == \A f \in Lib : Users(f) # {} => refs[f] > 0

\* The references the system holds are those of the open modules, and of the
\* closes it refused.  shl_load.c takes two for each module, loadlibrary.c
\* keeps one when it finds a library open already, and dyld's images stay.
RefsExact ==
    loader \notin {"shl_load", "loadlibrary"} =>
        \A f \in Lib : (loader = "dyld" /\ f \in Dylib)
                       \/ refs[f] = Cardinality(Users(f)) + stuck[f]

\* Two modules opened by LoadLibrary are never the same library
\* (loadlibrary.c:204-236).
NeverTheSame == loader = "loadlibrary" => \A f \in Lib : Cardinality(Users(f)) <= 1

\* What the system has loaded is what the open modules need.
ReferencesRight == TypeOK /\ ModuleMapped /\ RefsExact /\ NeverTheSame

\* What a text says now.
Reads(e) == CASE e.at = "buffer" -> buffer
              [] e.at = "frame" -> Gone
              [] OTHER -> e.says

\* The failures of lt_dlsym that leave no text of their own: those of shl_load.c,
\* of load_add_on.c for a symbol it did find, of dyld.c for the program; and those
\* of dyld.c for a module, whose text is gone with the frame of vm_sym.
UnexplainedSymbol ==
    /\ outcome.call = "sym"
    /\ \/ loader = "shl_load"
       \/ loader = "load_add_on" /\ Symbol \cap Defines[LibOf(outcome.on)] # {}
       \/ loader = "dyld" /\ outcome.on = Program
       \/ loader = "dyld" /\ last_error = ErrorAt("frame", "symbol not found")

\* After a call that failed lt_dlerror has a text, and it can still be read, but
\* for the failures of lt_dlsym above.
FailureExplained ==
    outcome.failed =>
        \/ last_error # NULL /\ Reads(last_error) = last_error.says
        \/ UnexplainedSymbol

\* A call that succeeds leaves what lt_dlerror says (ltdl.c:485, 2082).  It
\* does not for the loaders whose text is the system's: the pointer is put
\* back, and the text is that of the failure in between.
TextKept == last_error # NULL => Reads(last_error) = last_error.says

\* The mode LoadLibrary obeys: the thread's where there is one.
Kind == IF windows = "seven" THEN "thread" ELSE "process"

\* LoadLibrary is called with the dialogs off, and afterwards the program has
\* the error modes it set, on each of the systems (loadlibrary.c:189-202).
ErrorModeKept ==
    /\ modes = wanted
    /\ loader = "loadlibrary" => "FAILCRITICALERRORS" \in ModesDuring[Kind]

\* A close that dyld cannot do says so, in the first session and in later
\* ones, whatever texts clients registered before and after; unless there was
\* no memory to register the text (dyld.c:197-214, 285-289).
CannotCloseSaid ==
    outcome.call = "close" /\ loader = "dyld" /\ LibOf(outcome.on) \in Dylib =>
            /\ outcome.failed
            /\ last_error.says = IF dyld_cannot_close = -1 THEN "INVALID_ERRORCODE"
                                 ELSE "can't close a dylib"
=============================================================================
