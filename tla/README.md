# GNU Libtool: specifications, model checks and proofs

This directory specifies parts of GNU Libtool in TLA+, checks the
specifications with TLC on small instances and proves theorems about them with
TLAPS.  Every definition is a translation of the source code; `PROJECT.json`
names the lines of each one under `map`.

    tlc -config Ltdl_serve.cfg MCLtdl      # a run; PROJECT.json lists them all
    tlapm LtdlProofs.tla                   # the proofs of a module

## 1. The system

Libtool is two programs that share nothing but file formats.

**libltdl** (`libltdl/`) is a C library for loading modules at run time.  It has
no threads.  What makes it hard is that its operations call each other over
shared lists: opening a module opens the libraries it depends on, closing it
closes them, `lt_dlexit` closes everything by an order of its own, a client may
open and close from a callback, and every open may fail half way.

**the `libtool` script** (`build-aux/ltmain.in`, configured by `m4/*.m4`) wraps
compiler, linker and installer.  Many runs of it are at work at once under
`make -j`, in one directory, and share files: the temporary object of a compiler
without `-c -o`, the directory an archive is unpacked in, the program a wrapper
script relinks.  Signals may stop any of them between two commands.

### Inventory

| component | source | state | operations | hard part | correct when |
|---|---|---|---|---|---|
| module handles | `ltdl.c` 156-481, 832-1001, 1156-1508, 1625-1719, 1952-2016, 2258-2294 | `handles`, reference counts, `deplibs`, residency, `initialized` | `lt_dlinit`, `lt_dlexit`, `lt_dlopen*`, `lt_dlclose`, `lt_dlmakeresident` | recursion through deplibs over a list that changes; partial failure; shutdown order | counts equal uses; nothing is unloaded while used; residents stay; everything else goes |
| loader list | `lt_dlloader.c`, `slist.c` | `loaders` | `lt_dlloader_add`, `_remove`, `_find`, `_next`, `_get` | a loader removed under an open module; removal inside `lt_dlexit` | an open module's loader stays; names unique |
| client data | `ltdl.c` 2296-2394 | `interface_data` of each handle | `lt_dlinterface_register`, `_free`, `lt_dlcaller_set_data`, `_get_data` | keys are addresses that malloc may give again | each client has its own table |
| walks | `ltdl.c` 2408-2476 | none of their own | `lt_dlhandle_iterate`, `_fetch`, `_map` | the list changes under the walk | each module once, none missed, an end |
| name resolution and `.la` files | `ltdl.c` 483-830, 1002-1155, 1190-1400, 1509-1624 | none | `find_module`, `find_file`, `load_deplibs`' parser, `parse_dotla_file`, `lt_dlopenext` | order of the names and directories tried; which failure ends the search | the first match is opened |
| search path | `ltdl.c` 578-812, 1722-1950, 2123-2256, `lt__argz.c` | `user_search_path` | `lt_dladdsearchdir`, `lt_dlinsertsearchdir`, `lt_dlsetsearchpath`, `lt_dlforeachfile` | insertion before a pointer into the string; a failure half way | the directories in the order asked for |
| preloaded symbols | `loaders/preopen.c` | `preloaded_symlists`, the default list | `lt_dlpreload`, `_default`, `_open`, `vm_open`, `vm_sym` | a list stands for all its modules; callbacks preload while the chain is walked | each list once; a module has its own symbols; each promised module is opened |
| error strings | `lt_error.c` | `last_error`, `user_error_strings` | `lt_dladderror`, `lt_dlseterror`, `lt_dlerror` | the error is a pointer: its text may change or go | a failure has a text, and the one that was set |
| platform loaders | `loaders/dlopen.c`, `dyld.c`, `loadlibrary.c`, `shl_load.c`, `load_add_on.c`, `dld_link.c` | the system's references, error modes | `get_vtable`, `vl_init`, `vm_open`, `vm_close`, `vm_sym` | the system may answer with a library that is open; calls are bound late | an open module's library stays loaded; what an open takes its close gives back |
| mode compile | `ltmain.in` 1570-1900 | lock file, temporary object, objects, `.lo` | one run for each source file | parallel runs, signals | one run at a time; a `.lo` tells the truth |
| archive extraction | `ltmain.in` 3395-3533 | lock file, `$gentop` | `func_extract_archives`, `func_extract_an_archive` | parallel runs, no trap; names that collide | one run at a time; each archive's objects are found |
| wrapper scripts, mode execute | `ltmain.in` 3538-4823, 2132-2265 | the relinked program in `.libs` | a wrapper relinks and runs | two wrappers at once, beside mode link | what runs is whole and current |
| mode link, version-info | `ltmain.in` 4824-9330, `libtool-next-version.in` | the files in the build tree | | arithmetic of the interface version; a library relinked in its place | a file name is never reused; the uninstalled library is put back |
| modes install, finish, uninstall, clean | `ltmain.in` 2266-2870, 9331-9542 | installed files | | a step that fails | what is installed was relinked |
| libtoolize, M4 macros, bootstrap, tests | `libtoolize.in`, `m4/`, `bootstrap`, `tests/` | | | | |

How they interact: `lt_dlinit` opens the built-in loaders as modules through the
preopen loader, so the loader list and the handle list hold references to each
other; a handle keeps the vtable of the loader that opened it, and the loader
may not be removed meanwhile.  Handles carry the clients' data, and the walks
read the handle list between any two calls of a client.  The script and the
library meet in `.la` files only.

`PROJECT.json` lists the hazards of this code, each at its line, with the
properties that would show it going wrong.

## 2. The modules

| module | models | kind |
|---|---|---|
| `Ltdl` | module handles and the loader list | detailed |
| `LtdlProofs` | theorems on its lists, loaders and residency | proofs |
| `LtdlCountProofs` | theorems on its reference counts, deplibs and `lt_dlexit` | proofs |
| `InterfaceData` | client data | detailed |
| `CallerData` | what client data promises: a table for each client | abstract, implemented by `InterfaceData` |
| `HandleIter` | walks over the handle list | detailed |
| `WalkProofs` | theorems on `HandleIter` and `SearchPath` | proofs |
| `CompileLock` | the critical section of mode compile | detailed |
| `CompileLockProofs` | its theorems | proofs |
| `InterfaceDataProofs` | its theorems, the refinement among them | proofs |
| `SearchPath` | the search path and `lt_dlforeachfile` | detailed |
| `DirList` | what the search path promises: a list of directories | abstract, implemented by `SearchPath` |
| `Preopen` | the preopen loader's lists and operations; no next-state relation | steps of `OpenName` |
| `OpenName` | from a name to the file opened, the last error, preloading | detailed |
| `OpenNameProofs` | its theorems, those on `Preopen` among them | proofs |
| `LtError` | error strings; no next-state relation | steps of `Loaders` |
| `Loaders` | the six platform loaders over the system's | detailed |
| `LoadersProofs` | its theorems | proofs |
| `VersionInfo` | `-version-info` and `libtool-next-version` | detailed |
| `SList`, `Strl` | `slist.c`; `lt__strl.c` and `lt__dirent.c` | algorithms |
| `ExtractArchives` | unpacking archives, several runs at once | detailed |
| `Wrapper` | relinking by wrapper scripts, beside mode link | detailed |
| `Relink` | mode install of a library that mode relink relinks first | detailed |
| `ScriptParts` | `VersionInfo`, `Wrapper`, `Relink`, `ExtractArchives` side by side | composition |
| `ScriptProofs` | theorems on each of these | proofs |
| `MCAlgorithms` | reference definitions for `VersionInfo`, `SList`, `Strl` | instance |
| `MCParts` | `MCAlgorithms` and `ScriptParts` in one run | composition for TLC |
| `MCLtdl`, `MCInterfaceData`, `MCSearchPath`, `MCCompileLock`, `MCOpenName`, `MCLoaders` | values of constants and symmetry for TLC | instances |

Each module states its properties at its end, next to the code behaviour they
are about.  A definition marked *Faulty variant* is the definition after it
with a plausible bug; no specification uses it.  The mutation checks put it in
the other's place, and the property named in `PROJECT.json` must then fail.

A module states its invariants one by one, and conjoins those about one thing
under one name (`HandlesRight`, `NothingLeft`, ...), which is what the runs check.

### Ltdl

A C call that is in progress is a frame of `stack`: "load" for `try_dlopen`,
"undo" for the part of `try_dlopen` that gives up the handle it allocated and
releases its deplibs, "drop" for `lt_dlclose`.  `load_deplibs` and
`unload_deplibs` run inside the frame on top; each deplib they open or close
pushes a frame.  So an action is what the C code does between two accesses of
the shared state: `LoadDep`/`SkipDep` (one iteration of `load_deplibs`),
`FindExisting` (`tryall_dlopen` finds the file open), `LoaderOpens`/`OpenFails`
(the loaders' answer), `ReleaseDep`, `DropDone`, `UndoDone`.  `heap` is the
memory of each handle and keeps freed handles apart from live ones, so a use
after free shows: `ResidentRead` of a freed handle gives any value.

`DlInit` and the `Boot*` actions are `lt_dlinit` with `lt_dlpreload_open`: memory
may run out for the preopen loader or its lists, which leaves `lt_dlinit` without
loaders, and a loader may open as a module and then not be added (its `get_vtable`
or memory fails), which leaves the module open.  `DlExit`, the `Sweep*` actions and
`KeepLoader`, `RemoveFails`, `FreeLoader`, `StaleLoader`, `ExitDone` are `lt_dlexit`: its passes with a rising level, the `cur` pointer kept across
closes (`SweepRestart` is the repair of that pointer), and the loader loop.
`RemoveMayFail` says whether `lt_dlloader_remove` may fail for a loader that nothing
uses: for memory, or because its `dlloader_exit` refuses, which none of the loaders
libtool has does, but a client's may.

The environment decides whether an open succeeds and which loader does it.
Which name leads to which file is left to `Module`: two names of one file are
one module, as `tryall_dlopen` compares file names.

### InterfaceData and CallerData

`interface_data[h]` is the array of pairs in a handle.  The client that wrote a
pair is kept beside it for `NoForeignData` only.  `Reuse` says whether malloc
may give a freed address to a new interface id.  `ImplementsCallerData` is the
refinement: `Table` maps the arrays to one table for each client.

### HandleIter

The loop of a client on `lt_dlhandle_iterate` (`LoopStart`, `LoopNext`) and a
call of `lt_dlhandle_map` (`Map*`) over a list that `Open` and `Close` change
between any two steps.  A client does not close the module it is at.  What `func` makes of
the null handle it may be given (section 4) is open.

### SearchPath and DirList

A path is a text of tokens: names of directories, the directory separator and
the path separator.  The work of `canonicalize_path` and of the argz functions
is done on the text, as the code does it, and `Meaning` says which list of
directories a text stands for.  That the first agrees with the second is what
`ImplementsDirList` checks: an insertion before an element, given by clients as
a pointer into the text, is an insertion into the list.

`load_deplibs` and `load_deplibs_returns` are the part of `load_deplibs` that
touches the path: it saves the path, adds the module's `-L` and `-R`
directories, opens deplibs, which may do the same, and restores the path.
`saved` holds the saved paths, innermost last.

A walk (`lt_dlforeachfile`) is one action per directory and per call of `func`,
which may itself change the search path (`MayChange`); the code walks over a
copy.  Failures of memory and unreadable directories are the `...Fails`
actions.  `asked`, `log` and `last` are history variables.

### OpenName and Preopen

`lt_dlopenadvise(f, adv)` begins a call; `call` is what `try_dlopen` and its
callers keep in local variables, and `call.at` says how far it is.  A call tries
the name with each extension (`NextExt`, `EndSearch`, `NoExtLeft`).  For each,
the steps are those of `try_dlopen`: `OpenSelf` (no name), `PreloadFirst` (the
preopen loader by the archive's name, `PreloadOnly` if the hint says so),
`ReadLa` (find and parse a `.la` file), `LoadDeplibs`, then `PlanModule`
(`find_module`) or `PlanFile` (`find_handle` and the search paths), which give a
sequence of attempts [file, by, look].  Memory may run out at each (`Refusals`), for
a name, a handle or the lines of a `.la` file.  `Attempt` is `tryall_dlopen` on the first of
them: it takes the handle that is open, or asks the loaders in turn; `NextDir` is
`find_handle_callback` in a directory that has no such file.  The last
error is set where the code sets it and put back where the code puts it back,
because `EndSearch` reads it.  A path is [dir, name, ext]; a `.la` file is the
sequence of its lines, and `parse_dotla_file` keeps what the code keeps of them.

A close is `lt_dlclose` from its first line to its last, whoever calls it: the
client, `unload_deplibs` for a call that fails or that ends at a module which is
open already, or the close of a module that needed another.  `releasing` is the
module it is for, and nothing else runs before `Release` has gone down the chain.
The program's own handle is resident unless advice was given.  `ListAssumption`
is how libtool writes symbol lists, `FileAssumption` that a `.la` file names the
archive of its own module and that the system opens no archives.

`Preopen` has the chain of symbol lists (`add_symlist`, `lt_dlpreload`,
`lt_dlpreload_default`), and `vm_open` and `vm_sym` as searches in a table of
[name, address].  `WalkList`, `WalkOpen`, `WalkCallback` and `WalkEnd` are
`lt_dlpreload_open` with a callback that may preload another list; `walk` is at
entry `idx` of the first of the lists that are left.

`Ltdl` and `OpenName` are two views of one library: `Ltdl` has the recursion
through all levels of deplibs and the list's life from `lt_dlinit` to
`lt_dlexit`, and leaves open which file is opened; `OpenName` has the choice of
the file, with one level of deplibs.

### Loaders and LtError

`loader` is the file that is built in, chosen at the start, and each of
`vm_open`, `vm_close`, `vm_sym` is a CASE over the six.  The system is external:
it counts references to libraries (`refs`), may refuse to load, to unload
(`stuck`) or to find a symbol, and has one buffer for the text of its last
failure.  `last_error` is a pointer: it says where the text is (the table, a
registered text, the system's buffer, a stack frame that is gone) and what it
said when it was set; `Reads` is what it says now.  `Getter`, `Setter` and the
fallbacks are the functions `loadlibrary.c` binds on first use, for three kinds
of Windows; `modes` are the error modes and `wanted` those the program set.
`InitWithoutDyld` is a program without dyld: `vl_init` fails, the loader stays in the
list, and opens nothing.  The two calls of `shl_load` in one open fail apart.
`UnexplainedSymbol` has the failures of `lt_dlsym` that leave no text of their own, or
one that is gone; `FailureExplained` is about every other failure.

### VersionInfo, SList, Strl and MCAlgorithms

`VersionInfo` keeps the releases of one library: the first has any numbers that
`-version-info` or `-version-number` accept (`numbers` keeps them), each later one
the numbers `libtool-next-version` computes from a change.  `Major`, `Versuffix` and
`Verstring` are mode link's CASE over the kinds of systems.  `SList` and `Strl`
are functions over stores and buffers; `MCAlgorithms` compares them with
reference definitions for every list of up to `MaxSize` items, every choice of keys, of
matching items and of items a callback frees, and for every size of a buffer.

### ExtractArchives

Each run unpacks its archives into directories of its own, but takes the lock
beside the archive (`Lock`, `Unlock`) where `ar` cannot be run twice at once.
`FreeName` is the search for a directory name not used yet.  `ar` may fail
(`Unpacked`), and a run may be killed at any point; the lock has no trap.

### Wrapper

`StartRun` to `Exec` are the commands of the emitted script which touch shared
files.  A program is [build, whole]; a run links to a name with its process
number and moves that over `lt-<name>`.  `mv_replaces` says whether `mv` can
replace a program that is there (if not the script removes it first), and
`overlap` whether mode link may be run meanwhile.  The script's test of the
program's age has no effect and is modelled so (section 4).

### Relink

Mode install calls mode relink, which moves the uninstalled library away
(`RemoveBackup`, `Backup`), links in its place, moves the new library to
`realnameT` (`MoveNew`) and puts the old one back (`Restore`, also after
`LinkFails`); then `Install` and `InstallLa`.  `ExitUnrestored` are the fatal
errors in between that restore nothing, and an `mv` of the last command that
fails; `Interrupt` is a signal.  The
installation may be run again.

### MCParts

`ScriptParts` puts the modules of the script above side by side; they and
`MCAlgorithms` have nothing in common.
A behaviour of `PartsSpec` is one of theirs, chosen by `part` in the initial
state; the variables of the others stay.

### CompileLock

Each of `Proc` is a run of `libtool --mode=compile` for a source file of its own
whose temporary object has the same name.  Every shell command that touches a
shared file is an action.  `temp` and each object hold the source they were
compiled from.  `NeedLocks` selects the two ways of locking: hard links ("yes"),
or a test followed by a write ("warn").  `Faults` selects the signals: "trap"
while the run holds the lock, "late" between the unlock and the exit, "kill" for
SIGKILL and for a signal before the trap is set.  `UnlockTrap` is the signal
between the two commands of the unlock (the list of files to remove is already
empty but for the lock file): the run has written its `.lo` file and ends
"interrupted".

## 3. The runs

| run | instance | shows | distinct states |
|---|---|---|---|
| `ltdl_serve` | two modules, `a` needs `b`, both may be made resident; 4 handles; 2 opens held of each, counts to 4 | the list, counts, deplibs and loaders stay right while the library is in use, whatever fails | 579508 |
| `ltdl_exit` | three modules, `a` needs `b` and `c`, `b` needs `c`, which is preloaded and may be resident; 5 handles; each opened once by the client | `lt_dlexit` keeps the order of dependencies, closes all it must, counts no error | 140408 |
| `ltdl_ends` | two modules, two sessions | calls return and `lt_dlexit` ends, in a second session too | 570197 |
| `compilelock_yes` | three runs, both objects, hard links, signals in the critical section, kills | mutual exclusion, true `.lo` files, nothing left behind, every run ends | 11968 |
| `compilelock_warn` | three runs without hard links, every signal, one object of the temporary name | failed runs leave nothing; no lock file is forgotten | 163735 |
| `handleiter_walk` | three modules, two of which match | a loop visits each module once, misses none, ends | 3660 |
| `handleiter_map` (violation) | two modules | `lt_dlhandle_map` does not return | |
| `interfacedata_own` | two clients, two handles, three keys | client data implement a table per client | 44087 |
| `searchpath_list` | two directories in several spellings, three elements, two nested loads, one change during a walk | the text implements the list; walks are as asked and end | 61792 |
| `openname` | six file systems, two symbol lists, five names, four kinds of advice, three orders of loaders; 2 calls and 1 preload in a session | the file that comes first is opened, by one handle, counted once; errors on the way do not show; preloaded modules are found and have their own symbols | 1118906 |
| `loaders` | six loaders, three kinds of Windows, three names of two libraries, one of them a dylib | references, error texts and error modes are kept | 713255 |
| `parts` | `VersionInfo`: five releases from every first version; `SList`, `Strl`: size 6; `Wrapper`: two runs, three builds, one kill; `ExtractArchives`: three runs, four archives; `Relink`: three installations | the algorithms and the smaller parts of the script are right; runs that unpack end | 116111 |

**Why the bounds suffice.**  `Ltdl`: what can go wrong needs a module, a deplib
of it, and a third handle in the making or already open; five handles let a
diamond, the program's own handle and one loader be open at once.  Whenever one of these is
not open, its address is there for the handle that `try_dlopen` allocates before
it finds a module open; with none left, memory is out, which is an outcome too.
`MaxHeld` = 2 is what makes a count larger than one level of
`lt_dlexit`.  `MaxRef` = 4 is above what the users allowed by `MaxHeld` and the
deplibs make, except for a resident module that is reloaded for ever
(`ReleaseDep` gives no use back), where it cuts the count off.  `CompileLock`: a
lock that excludes two and is taken away by one takes three.  `SearchPath`:
insertion before the first, a middle and the last of three elements.
`HandleIter`: a handle before, at and after the one that is closed.

`OpenName`: the file systems are those in which the order matters:
a `.la` file cut off; the module in two directories, the first broken; a module
that is preloaded too; one that is not installed and needs another; one that
needs the very file it stands for.  A second call meets what the first left
open; the lists have a module twice, a module without symbols, and symbols under
mangled and plain names.  `Loaders`: two names of one library make references
overlap, and a session ended and begun again registers texts a second time.
`VersionInfo`: five releases have four changes in a row, of every kind.  `ExtractArchives`: archives
of one base name, one that has the name made up for the second, one with two
objects of one name, and runs that meet at two of them in different orders.
`Wrapper`: two runs and a killed one's number used again; three builds, as a run
may outlive two.  `Relink`: a third installation meets what two stopped ones left.

`CHECK_DEADLOCK FALSE` stands where the system may stop: libltdl after its last
session, runs of the script that have ended, clients whose keys are used up, calls
and releases that reached their bound.

**Fairness.**  `Ltdl`: `WF(Internal)`, the steps of a call that was made; there
is one thread and no step waits, so a call runs on.  Nothing is assumed about
the client: it need not close a module nor call `lt_dlexit`.  `SearchPath`: the
same, with the assumption that `func` returns.  `HandleIter`: `WF(LoopNext)` and
`WF(Map)`, a client that began a walk takes its steps; it may open only finitely
many modules meanwhile, as handles are finite.  `CompileLock`: `WF(Run(p))`, the
system schedules each run, and a run that waits polls every two seconds; nothing
is assumed about signals.  Weak fairness does not serve each waiter in its turn;
`AllEnd` holds because every run takes the lock once.  `MCParts`: `WF` of each run's
steps in `ExtractArchives`, for the same reason; the other parts have no
liveness property and no fairness.

## 4. Findings

One disagreement with the documentation is shown by a run (`findings` in
`PROJECT.json`): `ltdl.c:2471`, `lt_dlhandle_map` never goes on to the next handle.

Others were met while modelling and have no run of their own.  Where the model
shows one, the property is stated in its module and the instance is given here.

In libltdl:

- `ltdl.c:302`: `lt_dlexit` closes by reference count, so a deplib may go before
  a module that was opened twice; closing that module then reads freed memory.
  `DepsOpenAtExit` with the instance of `ltdl_serve`.  It also closes the deplibs
  of a resident module, which stays in memory without them: `DepsOpenAtExit` with
  the instance of `ltdl_exit` and `MayBeResident = {a}`.
- `ltdl.c:972`: directories of a module's `.la` file stay in the search path if
  there was none before: the last case of `OnlyClientsChangePath` of `SearchPath`,
  and `ImplementsDirList` with `LoadsUnset = TRUE`.
- `ltdl.c:284`: a resident module behind another one stays listed with its
  loader, and the next `lt_dlinit` adds that loader a second time, against
  `doc/libtool.texi:4856`.  `LoaderNamesUnique` in `Ltdl` states it
  (`MaxSessions = 2` and a resident module shows it).
- `ltdl.c:2323`: pairs outlive the key, whose address malloc may give again,
  against `doc/libtool.texi:4667`; `Reuse = TRUE` in `InterfaceData_own.cfg` shows
  it with `NoForeignData`.
- `ltdl.c:462`: the program's own handle, made resident by `try_dlopen`, loses
  that when advice is given, which `doc/libtool.texi:4433` excludes.
- `ltdl.c:2465`: the interface check of `lt_dlhandle_map` runs off the list and
  `func` gets a null handle, against `doc/libtool.texi:4629`.
- `ltdl.c:1842`: the canonical text of the root directory is empty, so that
  walking over `/a:/` meets an assertion.
- `ltdl.c:1327`, `1398`: a call that fails may leave no error: with the preload
  hint and a directory in the name, or at a `.la` file that cannot be parsed
  (`FailureSaysWhy` of `OpenName`).
- `ltdl.c:1684-1688`: "If we found FILENAME, stop searching", but the search goes
  on when the loader asked last says that the file is not there (`FoundStops`).
- `ltdl.c:1295`: out of memory for the archive's name, `try_dlopen` returns a
  handle that is not in the list (`ReturnedIsOpen`).
- `preopen.c:264`, `347`: `lt_dlpreload (NULL)` from the callback of
  `lt_dlpreload_open` frees the chain under the walk; the model excludes it.
- `ltdl.c:485`, `2082`: the last error is put back as a pointer; where the text
  is the system's, it is by then that of a failure in between (`TextKept` of
  `Loaders`).
- `shl_load.c:152`, `170`: each open loads the library twice, and a symbol that is
  not found sets no error.
- `loadlibrary.c:204-236`: an open that is refused because the library is open
  already keeps the reference it took.
- `dyld.c:323`, `361`: the text of a symbol that is not found is in a buffer of the
  function's own frame; `dyld.c:325-330` reads an address that was not set for the
  program itself, and `dyld.c:406`, `455` call `strneq`, which nothing defines.
- `load_add_on.c:151`: the address is passed by value, so that no symbol is found.
- `dld_link.c:106`: `vm_open (NULL)` asks for the length of a null string, excluded by
  a guard of the model; `vm_sym` ignores which module it is asked about.

In the script:

- `ltmain.in:1780`: a run signalled after its unlock removes the lock of the
  next run: `Faults = {"late"}` in `CompileLock_yes.cfg` with `LoMeansObjects`.
- `ltmain.in:1879`: an object whose own name is that of the temporary object can
  be taken away by another run; `InPlace = {p}` in `CompileLock_yes.cfg` shows it
  with `LoMeansObjects`.
- `ltmain.in:3755`: the test whether the program is older than the one in the
  build directory names `../lt-<name>`, which nothing makes.  A run of the wrapper
  that began before mode link can put an old program in place after it:
  `ProgramCurrent` without `~overlap`.
- `ltmain.in:3779`: where `mv` cannot replace a file, another run finds the
  program gone for a moment (`ProgramThere` without `mv_replaces`).
- `ltmain.in:3419`: a run killed while it unpacks leaves the lock for ever.
- `ltmain.in:8140`: an installation that was stopped while it linked, and is run
  again, removes the backup, which is the only uninstalled library left; and fatal
  errors between the backup and `ltmain.in:8418` do not put it back.
- `ltmain.in:7390`: on irix an added interface gives a file name that is in use
  already; on sco and Windows the name says nothing of revision or age, so that
  `FileNameNew` leaves these out.

## 5. The proofs

Each theorem is `Spec => []P`, `Spec => [][A]_vars` or a refinement, for every value
of the constants: any modules, dependencies, runs, files, lists and bounds.  The
assumptions on constants are named in the modules (`NameAssumption`, ...), and
TLC evaluates them in the runs.  An invariant was first checked by TLC on the
instance of its run, then proved: `Init => IInv`, `IInv /\ [Next]_vars => IInv'`
with one lemma or step for each action, `IInv => P`.

| module | theorems | beyond the assumptions on constants |
|---|---|---|
| `LtdlProofs` | `TypeCorrect`, `ListWellFormed`, `LoaderStays`, `ResidentStays` | |
| `LtdlCountProofs` | `LedgerBalances`, `CountsExact` (`RefCountExact`), `DepsStayOpen` (`DepsOpenInUse`) | |
| | `ExitInOrder` (`DepsOpenAtExit`) | `OpenedOnce`, `ResidentsBare` |
| | `ExitDoesAll` (`ExitComplete`) | the same, `FreshStart` and `~RemoveMayFail` |
| `OpenNameProofs` | `HandlesAreRight`, `FileIsRight`, `ErrorIsKept`, `PreloadedIsRight`, `WalkOpensAll` | |
| `WalkProofs` | `WalksAreRight` (`VisitsRight`), `AnswersHeeded` | |
| | `PathIsClients` (`OnlyClientsChangePath`) | |
| `InterfaceDataProofs` | `ArraysWellFormed` (`ArraysOK`) | |
| | `DataOwn`, `ArraysImplementTables` (the refinement) | `~Reuse` |
| `LoadersProofs` | `ReferencesAreRight`, `FailuresAreExplained`, `ErrorModesAreKept`, `DyldSaysSo` | `NoErrorApart` |
| `CompileLockProofs` | `LockTypeCorrect`, `NothingIsLeft` | |
| | `LockExcludes` | hard links, no late signals |
| | `LoIsTrue` | the same, and `InPlace = {}` |
| `ScriptProofs` | `ProgramsKept` (`ProgramsRight`), `RelinkedKept` (`LibrariesRight`), `ArchivesKept` (`ArchivesRight`), `VersionsKept` (`VersionsRight`) | |

**LtdlProofs.**  None of the four properties is inductive alone.  The invariant is

    IInv == TypeOK /\ StackOK /\ ListOK /\ BootOK /\ LoaderOfOpenModule

`StackOK` says which call may be under which, that each works on a live handle
of its own and that an open has no more deplibs to load than its file has:
without it `DropDone` could free a handle that is listed, or `LoaderOpens`
register one twice.  `BootOK` says that while loaders are preopened only earlier
ones are open, so that `BootLoader` does not register a file twice.  The proof
has a lemma for each action; `StackPush`, `StackTail` and `StackCount` say what adding
and removing a frame preserves, and lemmas on sequences say what deleting an
item preserves.  `ResidentStays` is an action property and follows from `IInv`
action by action.

**LtdlCountProofs** adds a ledger.  A reference count is read and written by
calls that are nested: a deplib is counted before the module that needs it is
registered, and given back after that module has left the list.  So the number
of users of a module is not the number of listed modules that need it: there are
uses *in hand*, which a frame of the stack has taken and not yet put down.  The
ledger (`Ledger`, `UsesIn`) has the uses of a module as the opens of the client,
the entries of `deplibs` of every handle that is listed or that a frame works on,
and what a frame is about to return.  Each action moves a use from one of these to
another, or takes or gives back one; `CountIn` follows it through the moment in
which it is counted and in nobody's place.  Entries are counted, not deplibs, as a
module may list one twice.  A resident module's count may be larger, as
`unload_deplibs` does not give back a use of it.  `CountsExact` and `DepsStayOpen`
follow: a count that is not zero keeps a module listed, and an entry is a use.

The code of `lt_dlexit` has no notion of dependencies: it closes, level by level,
what has a count of at most the level, and goes along a list that closing changes.
`ExitInOrder` says that this is an order of dependencies all the same, from

    ExitInv == CountInv /\ MarkInv /\ CallsInv /\ Ordered /\ HeldInv /\ ClosingInv

`Ordered`: a module stands in the list before its deplibs, which were registered
earlier (cycles cannot close, as a module being opened is not listed yet).
`HeldInv`: the client holds each module once at most, and the open in progress
returns none it holds.  `CallsInv`: the calls `lt_dlexit` makes close and give back,
and open nothing.  `ClosingInv`: the ledger still balances, with the holds of the
listed modules for the client, and everything the sweep went past is resident.
So whatever needs the module the sweep has come to stands before it, was passed,
is resident and, by `MarkInv`, has no deplibs; nobody needs the module, its count
is the client's one hold, and level 1 closes it.  `ExitDoesAll` adds `LiveInv`,
that a handle in memory which no list and no call knows is a resident module's,
and `LoaderInv`, that loader names are unique and their vtables live, that a
module listed at the end is resident and that a loader the sweep went past has
users.

The first three assumptions are what a client has to keep to, and each is necessary:
`OpenedOnce` (`MaxHeld <= 1`), `ResidentsBare` (no module with deplibs is made
resident) and `FreshStart` (one session, or nothing resident) exclude the first
and third finding of section 4.  `~RemoveMayFail` leaves out a loader whose removal
fails, which stays with an error counted, as `lt_dlexit` is meant to.  The instance
of `ltdl_exit` satisfies all four; those of `ltdl_serve` and `ltdl_ends` have
removals that fail.

**OpenNameProofs.**

    IInv == TypeOK /\ Counted /\ HandlesOK /\ CallInv /\ WalkInv /\ ListsOnce

`Counted` is that the count of a handle is the number of its uses, where the call
in progress (`call.dep`, `call.handle`) and the close in progress (`releasing`)
are users too, and that what has a use is open.  `HandlesOK` says what a loader
makes of a name.  `CallInv` has, for each place of a call, what was found so far;
its part `AttemptsLeft` says that what precedes the attempts that are left could
not be opened (or memory was short), from which `FirstInPath` and
`PreopenedFirst` follow when an attempt succeeds.  The last error that a
successful call puts back is the one it found because `saved_error` is that of
the entry at each extension.  `WalkInv` says of each promised module that the
client has it, that the call in progress is for it, that an error was counted or
that it is still to come in the lists that are left: a callback that preloads
puts its list before these.  `PreloadedIsRight` needs `ListAssumption`, which is
how the script writes a list; `WellFoundedInduction` is used for no more than
the least element of a set of places.

**WalkProofs.**  The invariant for `HandleIter` relates a walk to the list: while the body of
the loop runs, what was visited and is still listed is the module the walk is at
or before it, and what was there from the beginning and is not visited is after
it (`LoopInv`; `MapInv` for `lt_dlhandle_map`).  Modules are put in front, and taking
one out keeps the order of the rest.  For `SearchPath`, `WalkInv` says that while func
runs all its answers were 0, and that after one that was not there is nothing left
to call it with.  The path clients see (`ClientPath`) is the first of those that the
nest of `load_deplibs` in progress saved, which no step within it touches
(`SavedChanges`); only the return of the outermost may change it, when it saved none.

**InterfaceDataProofs.**  The invariant is
`TypeOK /\ OnePairEach /\ NoForeignData /\ KeysApart`, and the refinement
`Spec => Abstract!Spec` goes one step of `InterfaceData` after the other.
`ArraysWellFormed` does not need `~Reuse`: there is one pair of each key whichever
addresses malloc gives out.

**LoadersProofs.**  For each of the six loaders and every system.  For each library
the invariant compares the references the system holds with the modules that are
open on it and the closes it refused (`RefInv`); it says that the number dyld keeps
for its own text is the place of that text among those registered (`TextInv`),
without which `DyldSaysSo` is not inductive, and that a function variable is bound
to what this Windows has, if at all (`ModeInv`).  `NoErrorApart` says that NULL, no
error, differs from every value that stands for an error; it is a hypothesis of
the theorems, as TLC cannot enumerate the texts.

**CompileLockProofs**, for any number of runs.  `LockExcludes` assumes hard links
and no late signals (`Locking`), with `LockInv`: whoever is in the critical
section, the lock file exists; `LoIsTrue` also `InPlace = {}`, with `BuiltInv`,
which says for each point of the script which objects are there and whose they
are.  These assumptions are necessary: section 4 gives the counterexamples.
`NothingIsLeft` assumes nothing: it says what each run has at each point of
the script, with and without hard links, and who is to remove the lock.

**ScriptProofs.**  For `Wrapper` the invariant says, for each point of the script,
whether the run's own file is there, whole and of this build (`FileThere`,
`FileCurrent`), and that a run that saw the program still has it before it or a
newer build (`SeesProgram`).

For `Relink` it says where the uninstalled library is at each point, in its place or
aside (`UninstalledSomewhere`), and that what is moved to `realnameT` is the relinked
library (`RelinkedMoves`).

For `ExtractArchives` a run that has not failed has an injective map from the
archives it came to, to the directories it named (`Dirs`): what it wrote and what it
collected are exactly the objects of the archives 1 to n in their own directories,
with n one less while an archive is being unpacked.  `NameFree` says that a name
that is not taken is found: the serial goes up, and finitely many names are taken.
The number of objects of an archive that was given several times follows by a
bijection (`DoneFoundAll`).  That runs do not disturb each other needs no lock, as
their files are apart; `OneUnpacks` and `LockGone` need `LockHeld`.

For `VersionInfo` the invariant compares each release with every later one
(`Later`): the numbers go up; if nothing was removed or changed between them, the
oldest interface is the same, and otherwise it is newer than all of the earlier
release.  Each kind of name is then a lemma over these two cases and the version
types.

**Only model-checked:**

- `PathOK`, `WalkAsAsked` (a part of `WalkRight`), `ImplementsDirList` and
  `ListsAndTextsRight`: they compare what recursive definitions and folds over texts
  and sequences compute.  That is induction over data, and the installed
  backends cannot instantiate the library's induction theorems.  The other part
  of `WalkRight`, `ResultOfLastCall`, is `AnswersHeeded`.
- liveness (`AllEnd` and the others): TLAPS proves none under fairness, and no
  `ENABLED`.

## 6. Not modelled

The M4 macros, `libtoolize`, bootstrap and the test suite, the conversion of paths
between two systems, and of the script what composes command lines, parses
options or prints.  `PROJECT.json` gives the reason for each component.  Within the
modelled components:

- two clients in different threads: libltdl is not thread safe and says so;
- `lt_dlgetinfo` and other operations that only read;
- `slist_box`, `slist_unbox` and `lt__alloc.c`: they allocate and free, and a failure
  of malloc is an outcome of the actions that allocate;
- in `SearchPath` the root directory and the stripping of version numbers and
  extensions;
- in `OpenName` the deplibs of deplibs (`Ltdl` has them), `func` removing lists under
  `lt_dlpreload_open`, and a `.la` file that changes during a call;
- in `VersionInfo` a library with `-release` and no version info;
- in `ExtractArchives` archives of several architectures, and the removal of
  `$gentop`, which a failed extraction leaves;
- in `Wrapper` the wrapper executable, mode execute and environment variables;
- in `CompileLock` the parsing of the command line.

## 7. Plan

What is worth doing next:

1. An abstract service of modules (who uses which module, what is in memory),
   implemented by `Ltdl`; `DepsStayOpen`, `CountsExact` and `ExitInOrder` are the lemmas
   its refinement needs.
2. Lemmas of `SearchPath` that need no induction (`argz_append` and `argz_insert` keep
   the other entries), towards `ImplementsDirList`.
3. The mangling of names in `Preopen` and the conversion of paths between systems,
   as algorithms.
