----------------------------- MODULE SearchPath -----------------------------
(***************************************************************************)
(* libltdl's search path and the walks over it (libltdl/ltdl.c and         *)
(* lt__argz.c).  A path is text: names, directory separators and path      *)
(* separators, each a single token.  An argz vector is text as well, whose *)
(* entries end in EOS.                                                     *)
(***************************************************************************)
EXTENDS Naturals, Sequences, FiniteSets, SequencesExt

CONSTANTS
    Name,       \* names of directories
    Spelling,   \* how clients write a directory
    Path,       \* whole paths that clients write
    Defaults,   \* the paths searched after the clients', each text or NULL
    Contents,   \* of each directory: its files, as <<name, extension>>
    LibDirs,    \* what a module's dependency_libs may ask to search (-L, -R)
    LoadsUnset, \* such a module may be opened while there is no search path
    MaxDirs,    \* bound: directories in the clients' search path
    MaxLoads,   \* bound: modules that load their deplibs, one for another
    MaxChanges, \* bound: changes of the search path while func runs, in one walk
    NULL

SEP == ":"
DIR == "/"
EOS == "EOS"
Char == Name \cup {DIR, SEP}

VARIABLES
    user_search_path,   \* NULL, or text
    saved,              \* of each load_deplibs in progress: the path it saved
    call,               \* the last call that changes the clients' search path
    walk,               \* lt_dlforeachfile, while it is on
    log, last,          \* what func was called with, and its last answer
    asked, skipped      \* what the walk should call it with, and if some failed

vars == <<user_search_path, saved, call, walk, log, last, asked, skipped>>
walkvars == <<walk, log, last, asked, skipped>>

(***************************************************************************)
(* Text.                                                                   *)
(***************************************************************************)
Indices(text) == [i \in 1..Len(text) |-> i]

\* The tokens at these indices.
Picked(text, at) ==
    LET is == SelectSeq(Indices(text), LAMBDA i : i \in at)
    IN  [n \in 1..Len(is) |-> text[is[n]]]

\* What lies between the separators.
Entries(text, sep) ==
    LET cuts == <<0>> \o SelectSeq(Indices(text), LAMBDA i : text[i] = sep)
                      \o <<Len(text) + 1>>
    IN  [n \in 1..Len(cuts) - 1 |-> SubSeq(text, cuts[n] + 1, cuts[n + 1] - 1)]

\* What a path means: its directories, as the names on the way from the root.
Components(entry) == SelectSeq(entry, LAMBDA c : c # DIR)
Meaning(path) ==
    IF path = NULL THEN <<>>
    ELSE LET es == SelectSeq(Entries(path, SEP), LAMBDA e : e # <<>>)
         IN  [i \in 1..Len(es) |-> Components(es[i])]

\* The root directory is not asked for: its canonical text is empty.
ASSUME PathAssumption ==
    /\ {SEP, DIR, EOS} \cap Name = {}
    /\ \A s \in Spelling : s \in Seq(Name \cup {DIR}) /\ Components(s) # <<>>
    /\ \A p \in Path \cup (Range(Defaults) \ {NULL}) :
           p \in Seq(Char) /\ <<>> \notin {Meaning(p)} \cup Range(Meaning(p))

After(path, i) == IF i = Len(path) THEN EOS ELSE path[i + 1]

\* Faulty variant: a separator at the end stays.
Stays_tail(path, i) ==
    /\ path[i] = SEP => After(path, i) \notin {SEP, EOS}
    /\ path[i] = DIR => After(path, i) \notin {SEP, DIR}

\* Whether a token is copied, if something was copied before it.
Stays(path, i) ==
    /\ path[i] = SEP => After(path, i) \notin {SEP, EOS}
    /\ path[i] = DIR => After(path, i) \notin {SEP, EOS, DIR}

\* No separator of paths comes first.
canonicalize_path(path) ==
    Picked(path, {i \in 1..Len(path) :
        Stays(path, i) /\ \E j \in 1..i : path[j] # SEP /\ Stays(path, j)})

(***************************************************************************)
(* Argz vectors.                                                           *)
(***************************************************************************)
argz_create_sep(str) ==
    LET kept == Picked(str, {i \in 1..Len(str) :
                                 str[i] = SEP => i > 1 /\ str[i - 1] # SEP})
    IN  [i \in 1..Len(kept) + 1 |->
            IF i > Len(kept) THEN EOS ELSE IF kept[i] = SEP THEN EOS ELSE kept[i]]

argz_append(argz, entry) == argz \o entry \o <<EOS>>

\* Faulty variant: goes on to the end of the entry.
argz_insert_after(argz, before, entry) ==
    LET start == CHOOSE i \in before + 1..Len(argz) + 1 :
                     argz[i - 1] = EOS /\ \A j \in before..(i - 2) : argz[j] # EOS
    IN  SubSeq(argz, 1, start - 1) \o entry \o <<EOS>> \o SubSeq(argz, start, Len(argz))

\* before is an index here; it is moved back to the start of its entry.
argz_insert(argz, before, entry) ==
    LET start == CHOOSE i \in 1..before :
                     /\ i = 1 \/ argz[i - 1] = EOS
                     /\ \A j \in i..(before - 1) : argz[j] # EOS
    IN  SubSeq(argz, 1, start - 1) \o entry \o <<EOS>> \o SubSeq(argz, start, Len(argz))

\* The first character is never replaced; the result ends at the first EOS.
argz_stringify(argz) ==
    LET text == [i \in 1..Len(argz) |->
                    IF argz[i] = EOS /\ i \in 2..(Len(argz) - 1) THEN SEP ELSE argz[i]]
    IN  Entries(text, EOS)[1]

argz_entries(argz) == Entries(Front(argz), EOS)

(***************************************************************************)
(* The search path.                                                        *)
(***************************************************************************)
lt_dlpath_insertdir(path, before, dir) ==
    IF path = NULL THEN dir
    ELSE LET argz == argz_create_sep(path)
         IN  argz_stringify(IF before = 0 THEN argz_append(argz, dir)
                            ELSE argz_insert(argz, before, dir))

\* While a walk is on, only func may change the path.
MayChange ==
    IF walk = NULL THEN UNCHANGED walkvars
    ELSE /\ walk.calling /\ walk.changes < MaxChanges
         /\ walk' = [walk EXCEPT !.changes = @ + 1]
         /\ UNCHANGED <<log, last, asked, skipped>>

MayCall == saved = <<>> /\ MayChange

Other == [op |-> "other", at |-> 0, dirs |-> <<>>]

\* Where the element number n starts.
Start(path, n) ==
    LET starts == {i \in 1..Len(path) : path[i] # SEP /\ (i = 1 \/ path[i - 1] = SEP)}
    IN  CHOOSE i \in starts : Cardinality({j \in starts : j <= i}) = n

lt_dladdsearchdir(dir) ==
    /\ MayCall /\ Len(Meaning(user_search_path)) < MaxDirs
    /\ user_search_path' = lt_dlpath_insertdir(user_search_path, 0, dir)
    /\ call' = [op |-> "add", at |-> 0, dirs |-> Meaning(dir)]
    /\ UNCHANGED saved

lt_dlinsertsearchdir(n, dir) ==
    /\ MayCall /\ Len(Meaning(user_search_path)) < MaxDirs
    /\ n \in 1..Len(Meaning(user_search_path))
    /\ user_search_path' =
           lt_dlpath_insertdir(user_search_path, Start(user_search_path, n), dir)
    /\ call' = [op |-> "insert", at |-> n, dirs |-> Meaning(dir)]
    /\ UNCHANGED saved

\* There is no memory, or before points outside the path.
insertdir_fails ==
    /\ MayCall
    /\ call' = Other
    /\ UNCHANGED <<user_search_path, saved>>

\* lt_dlexit does to the path what this does with NULL.
lt_dlsetsearchpath(path) ==
    /\ MayCall
    /\ user_search_path' = IF path = NULL THEN NULL ELSE canonicalize_path(path)
    /\ call' = [op |-> "set", at |-> 0, dirs |-> Meaning(path)]
    /\ UNCHANGED saved

setsearchpath_fails ==
    /\ MayCall
    /\ user_search_path' = NULL
    /\ call' = Other
    /\ UNCHANGED saved

(***************************************************************************)
(* load_deplibs, which lt_dlopen calls and which calls lt_dlopenext.       *)
(***************************************************************************)
Add(path, dir) == lt_dlpath_insertdir(path, 0, dir)

\* The path is saved if there is one, and the module's directories are added;
\* only some of them if memory is out.
load_deplibs(dirs) ==
    /\ Len(saved) < MaxLoads
    /\ user_search_path # NULL \/ LoadsUnset
    /\ MayChange
    /\ saved' = Append(saved, user_search_path)
    /\ \E n \in 0..Len(dirs) :
           user_search_path' = FoldLeft(Add, user_search_path, SubSeq(dirs, 1, n))
    /\ call' = Other

\* "restore the old search path", if there was one.
load_deplibs_returns ==
    /\ saved # <<>>
    /\ user_search_path' = IF Last(saved) # NULL THEN Last(saved) ELSE user_search_path
    /\ saved' = Front(saved)
    /\ call' = Other
    /\ UNCHANGED walkvars

(***************************************************************************)
(* lt_dlforeachfile.                                                       *)
(***************************************************************************)
\* Faulty variant: takes every file.
lt_argz_insertinorder_any(argz, entry) ==
    InsertAt(argz, 1 + Cardinality({i \in 1..Len(argz) : argz[i] < entry}), entry)

lt_argz_insertinorder(argz, entry) ==
    IF \E i \in 1..Len(argz) : argz[i] = entry THEN argz
    ELSE InsertAt(argz, 1 + Cardinality({i \in 1..Len(argz) : argz[i] < entry}), entry)

\* The files of each directory without their extensions; readdir has any order.
list_files_by_dir ==
    [dir \in DOMAIN Contents |->
        {FoldLeft(LAMBDA argz, f : lt_argz_insertinorder(argz, f[1]), <<>>, order) :
             order \in SetToSeqs(Contents[dir])}]

\* What the directories hold, and those of these paths together.
Sorted == [dir \in DOMAIN Contents |->
               SetToSortSeq({<<dir, f[1]>> : f \in Contents[dir]},
                            LAMBDA x, y : x[2] < y[2])]
Files(paths) ==
    LET dirs == FlattenSeq([i \in 1..Len(paths) |-> Meaning(paths[i])])
    IN  FlattenSeq([i \in 1..Len(dirs) |-> Sorted[dirs[i]]])

lt_dlforeachfile(search_path) ==
    /\ walk = NULL /\ saved = <<>>
    /\ LET paths == IF search_path = NULL THEN <<user_search_path>> \o Defaults
                    ELSE <<search_path>>
       IN  /\ walk' = [paths |-> paths, dirs |-> <<>>, files |-> <<>>,
                       dir |-> <<>>, calling |-> FALSE, is_done |-> 0, changes |-> 0]
           /\ asked' = Files(paths)
    /\ log' = <<>> /\ last' = 0 /\ skipped' = FALSE /\ call' = Other
    /\ UNCHANGED <<user_search_path, saved>>

Free == walk # NULL /\ ~walk.calling /\ walk.files = <<>>

\* foreach_dirinpath starts; the path is copied.
WalkPath ==
    /\ Free /\ walk.dirs = <<>> /\ walk.paths # <<>> /\ walk.is_done = 0
    /\ LET path == Head(walk.paths)
           dirs == IF path = NULL THEN <<>>
                   ELSE argz_entries(argz_create_sep(canonicalize_path(path)))
       IN  walk' = [walk EXCEPT !.paths = Tail(@), !.dirs = dirs]
    /\ UNCHANGED <<user_search_path, saved, call, log, last, asked, skipped>>

\* foreach_dirinpath has no memory; its result is 0.
WalkPathFails ==
    /\ Free /\ walk.is_done = 0
    /\ \/ walk.dirs # <<>> /\ walk' = [walk EXCEPT !.dirs = <<>>]
       \/ /\ walk.dirs = <<>> /\ walk.paths # <<>>
          /\ walk' = [walk EXCEPT !.paths = Tail(@)]
    /\ skipped' = TRUE
    /\ UNCHANGED <<user_search_path, saved, call, log, last, asked>>

\* foreachfile_callback lists a directory before it calls func.
WalkDir ==
    /\ Free /\ walk.dirs # <<>>
    /\ \E files \in list_files_by_dir[Components(Head(walk.dirs))] :
           walk' = [walk EXCEPT !.dirs = Tail(@), !.files = files, !.dir = Head(walk.dirs)]
    /\ UNCHANGED <<user_search_path, saved, call, log, last, asked, skipped>>

\* Faulty variant: the directory is tried again after the others.
WalkDirFailsLater ==
    /\ Free /\ walk.dirs # <<>>
    /\ walk' = [walk EXCEPT !.dirs = Append(Tail(@), Head(@))]
    /\ skipped' = TRUE
    /\ UNCHANGED <<user_search_path, saved, call, log, last, asked>>

\* It cannot be read, or memory is out: no error.
WalkDirFails ==
    /\ Free /\ walk.dirs # <<>>
    /\ walk' = [walk EXCEPT !.dirs = Tail(@)]
    /\ skipped' = TRUE
    /\ UNCHANGED <<user_search_path, saved, call, log, last, asked>>

CallFunc ==
    /\ walk # NULL /\ ~walk.calling /\ walk.files # <<>>
    /\ walk' = [walk EXCEPT !.calling = TRUE]
    /\ log' = Append(log, <<Components(walk.dir), Head(walk.files)>>)
    /\ UNCHANGED <<user_search_path, saved, call, last, asked, skipped>>

\* An answer other than 0 ends the walk.
FuncReturns(result) ==
    /\ walk # NULL /\ walk.calling /\ saved = <<>>
    /\ \/ /\ result = 0
          /\ walk' = [walk EXCEPT !.calling = FALSE, !.files = Tail(@)]
       \/ /\ result # 0
          /\ walk' = [walk EXCEPT !.calling = FALSE, !.is_done = result,
                                  !.files = <<>>, !.dirs = <<>>]
    /\ last' = result
    /\ UNCHANGED <<user_search_path, saved, call, log, asked, skipped>>

Over == Free /\ walk.dirs = <<>> /\ (walk.paths = <<>> \/ walk.is_done # 0)

WalkReturns ==
    /\ Over
    /\ walk' = NULL
    /\ UNCHANGED <<user_search_path, saved, call, log, last, asked, skipped>>

Init ==
    /\ user_search_path = NULL /\ saved = <<>>
    /\ call = Other
    /\ walk = NULL /\ log = <<>> /\ last = 0 /\ asked = <<>> /\ skipped = FALSE

Internal ==
    \/ load_deplibs_returns
    \/ WalkPath \/ WalkPathFails \/ WalkDir \/ WalkDirFails
    \/ CallFunc \/ WalkReturns
    \/ \E result \in {0, 1} : FuncReturns(result)

Next ==
    \/ \E dir \in Spelling :
           \/ lt_dladdsearchdir(dir)
           \/ \E n \in 1..MaxDirs : lt_dlinsertsearchdir(n, dir)
    \/ insertdir_fails
    \/ \E path \in Path \cup {NULL} : lt_dlsetsearchpath(path)
    \/ setsearchpath_fails
    \/ \E path \in Path \cup {NULL} : lt_dlforeachfile(path)
    \/ \E dirs \in LibDirs : load_deplibs(dirs)
    \/ Internal

\* A call that was made runs on, and func returns.
Spec == Init /\ [][Next]_vars /\ WF_vars(Internal)

(***************************************************************************)
(* Properties.                                                             *)
(***************************************************************************)
TypeOK ==
    /\ user_search_path = NULL \/ user_search_path \in Seq(Char)
    /\ \A i \in 1..Len(saved) : saved[i] = NULL \/ saved[i] \in Seq(Char)
    /\ walk = NULL \/
       /\ walk.dirs \in Seq(Seq(Name \cup {DIR}))
       /\ walk.files \in Seq(Nat) /\ walk.dir \in Seq(Name \cup {DIR})
       /\ walk.calling \in BOOLEAN /\ walk.is_done \in {0, 1}
       /\ walk.changes \in 0..MaxChanges
    /\ last \in {0, 1} /\ skipped \in BOOLEAN

\* The assertions of list_files_by_dir (ltdl.c:1842, 1845): every directory
\* foreach_dirinpath comes to has a name, and no separator at its end.
DirsNamed ==
    walk # NULL => \A i \in 1..Len(walk.dirs) :
        walk.dirs[i] # <<>> /\ Last(walk.dirs[i]) # DIR

\* func is called with the files that were asked for, once each, in the order
\* of the path as it was when the walk began, whatever func does to the path;
\* with all of them, if it never answers 1 and nothing had to be skipped.
WalkAsAsked ==
    walk # NULL =>
        /\ ~skipped => IsPrefix(log, asked)
        /\ skipped => \E at \in SUBSET (1..Len(asked)) :
                            Cardinality(at) = Len(log) /\ log = Picked(asked, at)
        /\ Over /\ last = 0 /\ ~skipped => log = asked

\* "lt_dlforeachfile returns the value returned by the last call made to func",
\* and makes no call after one that did not return 0.
ResultOfLastCall ==
    /\ walk # NULL /\ ~walk.calling => walk.is_done = last
    /\ last # 0 => (walk = NULL \/ ~walk.calling)

\* The directories a walk goes through are well formed.
PathOK == TypeOK /\ DirsNamed

\* func gets what was asked for, and its answers are heeded.
WalkRight == WalkAsAsked /\ ResultOfLastCall

\* lt_dlforeachfile returns, whatever func does to the search path.
WalkEnds == walk # NULL ~> walk = NULL

\* The clients' path, a text, implements a list of directories; no client sees
\* what load_deplibs adds.
ClientPath == IF saved = <<>> THEN user_search_path ELSE saved[1]
Abstract == INSTANCE DirList WITH
    Dir <- {Components(s) : s \in Spelling},
    dirs <- Meaning(ClientPath)
ImplementsDirList == Abstract!Spec

\* No nest of load_deplibs, which means to "restore the old search path"
\* (ltdl.c:971), changes the path of the clients: only their own calls do.  But
\* where there was none to restore, the directories it added stay when the
\* outermost one returns.
OnlyClientsChangePath ==
    [][\/ ClientPath' = ClientPath
       \/ saved = <<>> /\ saved' = <<>>
       \/ saved = <<NULL>> /\ saved' = <<>>]_vars
=============================================================================
