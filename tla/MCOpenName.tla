---------------------------- MODULE MCOpenName ------------------------------
(* Instances of OpenName for TLC. *)
EXTENDS OpenName, TLC

CONSTANTS P, Q, sym_f, sym_g, x1, x2, x3, x4, x5, x6, library, preopen, dlopen, self

F(d, n, e) == [dir |-> d, name |-> n, ext |-> e]
Header(n) == [name |-> n, address |-> NULL]
Sym1(n, s, a) == [name |-> [module |-> n, symbol |-> s], address |-> a]

\* P comes from the program: its own symbol sym_f, module m, module k of no symbols.
\* Q comes from a library, with an initialiser: modules n and m.
Lists ==
    P :> << Header(Program), Header(Program), Sym1(NULL, sym_f, x1),
            Header(F("", "k", "a")),
            Header(F("", "n", "a")), Sym1(NULL, sym_f, x5),
            Header(F("", "m", "a")), Sym1("m", sym_f, x2), Sym1(NULL, sym_g, x6) >>
 @@ Q :> << Header(library), [name |-> InitMark, address |-> x1],
            Header(F("", "m", "a")), Sym1(NULL, sym_g, x3), Sym1("m", sym_f, x4) >>

SearchPath == <<"user", "sys">>
ObjDir == [d \in {"user", "sys", "lib", "objs"} |-> "objs"]
Exts == <<"la", "so">>

Plain1 == [try_ext |-> FALSE, is_symlocal |-> FALSE, is_symglobal |-> FALSE,
           try_preload_only |-> FALSE]
Ext == [Plain1 EXCEPT !.try_ext = TRUE]
Advices == {NULL, Ext, [Ext EXCEPT !.try_preload_only = TRUE],
            [Plain1 EXCEPT !.is_symlocal = TRUE, !.is_symglobal = TRUE]}

Requests == {Self, F("", "m", "none"), F("", "m", "so"), F("user", "m", "none"), F("user", "m", "la")}

L(k, v) == [key |-> k, value |-> v]
So == F("", "m", "so")
Archive == F("", "m", "a")
Dep == F("sys", "n", "so")
MSo == F("sys", "m", "so")
\* A module that is preloaded too; one that is not installed and needs another; one
\* that needs the very file it stands for; one cut off in the middle.
Preloadable == << L("dlname", <<So>>), L("library_names", <<Archive>>),
                  L("old_name", <<Archive>>), L("libdir", <<"lib">>) >>
Uninstalled == << L("dlname", <<>>), L("library_names", <<Archive, So>>),
                  L("deplibs", <<Dep>>), L("installed", FALSE) >>
NeedsItself == << L("dlname", <<So>>), L("deplibs", <<MSo>>), L("libdir", <<"sys">>) >>
CutOff == << L("dlname", <<>>), L("old_name", Broken) >>

Set(la, there, good) == [readable |-> DOMAIN la \cup there, loadable |-> good, la |-> la]
UserLa == F("user", "m", "la")
SysLa == F("sys", "m", "la")
UserSo == F("user", "m", "so")
ObjSo == F("objs", "m", "so")
\* A .la file cut off; the module in both directories, the first of them
\* broken; no .la file; each of the others.
FileSystems ==
    { Set(UserLa :> CutOff, {MSo}, {MSo}),
      Set(<<>>, {UserSo, MSo}, {MSo, So}),
      Set(UserLa :> Preloadable, {UserSo}, {UserSo}),
      Set(UserLa :> Uninstalled @@ SysLa :> NeedsItself, {ObjSo, MSo, Dep}, {ObjSo, MSo, Dep}),
      Set(UserLa :> Uninstalled, {MSo, Dep}, {Dep}),
      Set(UserLa :> NeedsItself, {MSo}, {MSo}) }

Defaults == {NULL, P}
Deps == {Dep, MSo}
Loaders == {<<dlopen, preopen>>, <<preopen, dlopen>>, <<dlopen>>}
Originators == {NULL, library}
=============================================================================
