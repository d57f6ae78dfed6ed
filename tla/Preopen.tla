------------------------------ MODULE Preopen -------------------------------
(***************************************************************************)
(* The preopen loader (libltdl/loaders/preopen.c): the chain of preloaded  *)
(* symbol lists, and modules found in it instead of in files.              *)
(*                                                                         *)
(* A symbol list is the table -dlpreopen links into a program: its         *)
(* originator, perhaps an initialiser, then for each module a header with  *)
(* the module's name and no address, followed by the module's symbols.     *)
(* The loader keeps lists, not modules: every module of a list is          *)
(* represented by the list.                                                *)
(*                                                                         *)
(* This module has no next-state relation: its operations are steps of     *)
(* OpenName, which opens modules through it.                               *)
(***************************************************************************)
EXTENDS Naturals, Sequences

CONSTANTS
    SymList,     \* the addresses of symbol lists
    Entries,     \* the table of each: entries [name, address]
    Program,     \* "@PROGRAM@"
    InitMark,    \* "@INIT@"
    NULL         \* no address, no list, no module

ASSUME EntriesAssumption ==
    /\ NULL \notin SymList
    /\ \A l \in SymList : /\ Len(Entries[l]) \in Nat \ {0}
                          /\ Entries[l][1].address = NULL

VARIABLES
    preloaded_symlists,         \* the chain, newest first
    default_preloaded_symbols   \* the list of lt_dlpreload_default

preopenVars == <<preloaded_symlists, default_preloaded_symbols>>

\* The first of a set of places
Least(S) == CHOOSE k \in S : \A j \in S : k <= j

originator(l) == Entries[l][1].name
IsHeader(e) == e.address = NULL

\* Whether entry k of list l opens module n: a header with symbols after it.
HeaderOf(l, k, n) ==
    /\ IsHeader(Entries[l][k]) /\ Entries[l][k].name = n
    /\ k < Len(Entries[l]) /\ ~IsHeader(Entries[l][k + 1])
Offers(l, n) == \E k \in 1..Len(Entries[l]) : HeaderOf(l, k, n)

\* Faulty variant: the head of the chain, whichever list the module is in.
vm_open_head(filename) ==
    LET n == IF filename = NULL THEN Program ELSE filename
        hits == {k \in 1..Len(preloaded_symlists) : Offers(preloaded_symlists[k], n)}
    IN  IF preloaded_symlists = <<>> THEN [module |-> NULL, error |-> "NO_SYMBOLS"]
        ELSE IF hits = {} THEN [module |-> NULL, error |-> "FILE_NOT_FOUND"]
        ELSE [module |-> preloaded_symlists[1], error |-> NULL]

\* The module is the first list of the chain that offers the name.
vm_open(filename) ==
    LET n == IF filename = NULL THEN Program ELSE filename
        hits == {k \in 1..Len(preloaded_symlists) : Offers(preloaded_symlists[k], n)}
    IN  IF preloaded_symlists = <<>> THEN [module |-> NULL, error |-> "NO_SYMBOLS"]
        ELSE IF hits = {} THEN [module |-> NULL, error |-> "FILE_NOT_FOUND"]
        ELSE [error |-> NULL,
              module |-> preloaded_symlists[Least(hits)]]

\* The address of the first entry of that name in the list, past the
\* originator, the initialiser and the first header; NULL if there is none.
vm_sym(l, name) ==
    LET first == IF Len(Entries[l]) > 1 /\ Entries[l][2].name = InitMark THEN 4 ELSE 3
        hits == {k \in first..Len(Entries[l]) : Entries[l][k].name = name}
    IN  IF hits = {} THEN NULL
        ELSE Entries[l][Least(hits)].address

add_symlist(chain, l) ==
    IF \E k \in 1..Len(chain) : chain[k] = l THEN chain ELSE <<l>> \o chain

\* The chain once it has been freed: the default list alone, if memory is left.
DefaultChain(memory) ==
    IF default_preloaded_symbols = NULL \/ ~memory THEN <<>>
    ELSE add_symlist(<<>>, default_preloaded_symbols)

lt_dlpreload_default(l) ==
    /\ default_preloaded_symbols' = l
    /\ UNCHANGED preloaded_symlists

\* A list is added in front; NULL reverts to the default list.
lt_dlpreload(l, memory) ==
    /\ preloaded_symlists' =
           IF l = NULL THEN DefaultChain(memory)
           ELSE IF memory THEN add_symlist(preloaded_symlists, l)
           ELSE preloaded_symlists
    /\ UNCHANGED default_preloaded_symbols

\* vl_exit and vl_init, when libltdl is shut down and initialised again.
vl_exit_init ==
    /\ preloaded_symlists' = DefaultChain(TRUE)
    /\ UNCHANGED default_preloaded_symbols

\* Whether an entry past the originator is a module to lt_dlpreload_open.
IsModule(e) == IsHeader(e) /\ e.name # Program
=============================================================================
