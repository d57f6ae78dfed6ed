---------------------------- MODULE CallerData -----------------------------
(***************************************************************************)
(* What libltdl promises its clients about data kept with open modules     *)
(* (lt_dlcaller_set_data, lt_dlcaller_get_data): each client has a table   *)
(* of its own.                                                             *)
(***************************************************************************)
CONSTANTS
    Client,     \* the libraries that use libltdl in one program
    Handle,     \* open modules
    Data,       \* what a client keeps with a module
    NULL        \* no data

VARIABLES
    table,      \* of each client: the data it keeps with each module
    reply       \* the last value a call returned

Empty == [h \in Handle |-> NULL]

Set(c, h, d) ==
    /\ table' = [table EXCEPT ![c][h] = d]
    /\ reply' = table[c][h]

\* The first data of a client for a module need memory; 0 is returned without it.
SetFails(c, h) ==
    /\ table[c][h] = NULL
    /\ reply' = NULL
    /\ UNCHANGED table

Get(c, h) == reply' = table[c][h] /\ UNCHANGED table

\* The module is closed: nobody's data are with it.
Forget(h) ==
    /\ table' = [c \in Client |-> [table[c] EXCEPT ![h] = NULL]]
    /\ UNCHANGED reply

\* The client gives its interface id back.
Leave(c) == table' = [table EXCEPT ![c] = Empty] /\ UNCHANGED reply

Init == table = [c \in Client |-> Empty] /\ reply = NULL

Next ==
    \/ \E c \in Client, h \in Handle :
           \/ \E d \in Data \cup {NULL} : Set(c, h, d)
           \/ SetFails(c, h)
           \/ Get(c, h)
    \/ \E h \in Handle : Forget(h)
    \/ \E c \in Client : Leave(c)

Spec == Init /\ [][Next]_<<table, reply>>
=============================================================================
