--------------------------- MODULE InterfaceData ---------------------------
(***************************************************************************)
(* How libltdl keeps the clients' data (libltdl/ltdl.c): every handle has  *)
(* an array of (key, data) pairs, where the key is the address of what     *)
(* lt_dlinterface_register allocated for the client.                       *)
(***************************************************************************)
EXTENDS Naturals, Sequences

CONSTANTS
    Client,     \* the libraries that use libltdl in one program
    Handle,     \* handles
    Data,       \* what a client keeps with a module
    NULL,       \* no data, no key
    Key,        \* the addresses malloc can give an interface id
    Reuse       \* malloc gives an address again that was freed

ASSUME DataAssumption ==
    /\ NULL \notin Data /\ NULL \notin Key
    /\ Reuse \in BOOLEAN

VARIABLES
    key,        \* of each client: its interface id, or NULL
    given,      \* the addresses that have been given out
    interface_data,  \* of each handle: its pairs, and which client wrote them
    reply       \* the last value a call returned

vars == <<key, given, interface_data, reply>>

Pair == [key : Key, data : Data \cup {NULL}, by : Client]

TypeOK ==
    /\ key \in [Client -> Key \cup {NULL}]
    /\ given \subseteq Key
    /\ interface_data \in [Handle -> Seq(Pair)]
    /\ reply \in Data \cup {NULL}

\* The places of k in h's array; it has one at most.
Places(k, h) == {i \in 1..Len(interface_data[h]) : interface_data[h][i].key = k}
Place(k, h) == CHOOSE i \in Places(k, h) : TRUE
Found(k, h) == IF Places(k, h) = {} THEN NULL ELSE interface_data[h][Place(k, h)].data

(***************************************************************************)
(* Interface ids.                                                          *)
(***************************************************************************)
\* Faulty variant: an id for all clients.
lt_dlinterface_register_shared(c) ==
    /\ key[c] = NULL
    /\ \E k \in Key :
           /\ given \subseteq {k}
           /\ key' = [key EXCEPT ![c] = k]
           /\ given' = {k}
    /\ UNCHANGED <<interface_data, reply>>

lt_dlinterface_register(c) ==
    /\ key[c] = NULL
    /\ \E k \in Key :
           /\ \A e \in Client : key[e] # k
           /\ Reuse \/ k \notin given
           /\ key' = [key EXCEPT ![c] = k]
           /\ given' = given \cup {k}
    /\ UNCHANGED <<interface_data, reply>>

\* The pairs with this key stay in the handles.
lt_dlinterface_free(c) ==
    /\ key[c] # NULL
    /\ key' = [key EXCEPT ![c] = NULL]
    /\ UNCHANGED <<given, interface_data, reply>>

(***************************************************************************)
(* Data.                                                                   *)
(***************************************************************************)
lt_dlcaller_get_data(c, h) ==
    /\ key[c] # NULL
    /\ reply' = Found(key[c], h)
    /\ UNCHANGED <<key, given, interface_data>>

\* Faulty variant: a new pair is added whatever there is.
set_data_appends(c, h, d) ==
    /\ key[c] # NULL
    /\ reply' = Found(key[c], h)
    /\ interface_data' =
           [interface_data EXCEPT ![h] = Append(@, [key |-> key[c], data |-> d, by |-> c])]
    /\ UNCHANGED <<key, given>>

lt_dlcaller_set_data(c, h, d) ==
    /\ key[c] # NULL
    /\ reply' = Found(key[c], h)
    /\ \/ /\ Places(key[c], h) # {}
          /\ interface_data' =
                 [interface_data EXCEPT ![h][Place(key[c], h)].data = d]
       \/ /\ Places(key[c], h) = {}
          /\ interface_data' = [interface_data EXCEPT
                 ![h] = Append(@, [key |-> key[c], data |-> d, by |-> c])]
    /\ UNCHANGED <<key, given>>

\* realloc fails.
set_data_fails(c, h) ==
    /\ key[c] # NULL /\ Places(key[c], h) = {}
    /\ reply' = NULL
    /\ UNCHANGED <<key, given, interface_data>>

\* Faulty variant: the last pair stays, for the next module at that address.
lt_dlclose_keeps(h) ==
    /\ interface_data' = [interface_data EXCEPT ![h] =
           IF @ = <<>> THEN @ ELSE <<@[Len(@)]>>]
    /\ UNCHANGED <<key, given, reply>>

\* lt_dlclose frees the array, and the handle may be allocated again.
lt_dlclose(h) ==
    /\ interface_data' = [interface_data EXCEPT ![h] = <<>>]
    /\ UNCHANGED <<key, given, reply>>

Init ==
    /\ key = [c \in Client |-> NULL]
    /\ given = {}
    /\ interface_data = [h \in Handle |-> <<>>]
    /\ reply = NULL

Next ==
    \/ \E c \in Client :
           \/ lt_dlinterface_register(c)
           \/ lt_dlinterface_free(c)
           \/ \E h \in Handle :
                  \/ \E d \in Data \cup {NULL} : lt_dlcaller_set_data(c, h, d)
                  \/ set_data_fails(c, h)
                  \/ lt_dlcaller_get_data(c, h)
    \/ \E h \in Handle : lt_dlclose(h)

Spec == Init /\ [][Next]_vars

(***************************************************************************)
(* Properties.                                                             *)
(***************************************************************************)
\* A handle has one pair of each key at most: lt_dlcaller_get_data finds what
\* lt_dlcaller_set_data wrote.
OnePairEach ==
    \A h \in Handle : \A i, j \in 1..Len(interface_data[h]) :
        interface_data[h][i].key = interface_data[h][j].key => i = j

\* The arrays are well formed: typed, and with a pair of each key at most.
ArraysOK == TypeOK /\ OnePairEach

\* What a client finds with a module it has put there itself: libraries keep
\* data "without interfering with one another" (doc/libtool.texi).
NoForeignData ==
    \A c \in Client, h \in Handle : key[c] # NULL =>
        \A i \in Places(key[c], h) : interface_data[h][i].by = c

\* The arrays implement a table for each client.
Table == [c \in Client |-> [h \in Handle |-> Found(key[c], h)]]
Abstract == INSTANCE CallerData WITH table <- Table
ImplementsCallerData == Abstract!Spec
=============================================================================
