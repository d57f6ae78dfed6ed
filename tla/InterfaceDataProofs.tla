------------------------ MODULE InterfaceDataProofs ------------------------
(***************************************************************************)
(* InterfaceData implements CallerData, for any clients, handles and data, *)
(* as long as no address is given to two interface ids.                    *)
(***************************************************************************)
EXTENDS InterfaceData, TLAPS

\* No two clients have the same key, and every key in use was given out.
KeysApart ==
    /\ \A c, e \in Client : key[c] # NULL /\ key[c] = key[e] => c = e
    /\ \A c \in Client : key[c] # NULL => key[c] \in given
    /\ \A h \in Handle : \A i \in 1..Len(interface_data[h]) :
           interface_data[h][i].key \in given

Inv == TypeOK /\ OnePairEach /\ NoForeignData /\ KeysApart

(***************************************************************************)
(* The arrays.                                                             *)
(***************************************************************************)
LEMMA PairFields ==
    ASSUME TypeOK, NEW h \in Handle, NEW i \in 1..Len(interface_data[h])
    PROVE  /\ interface_data[h][i] \in Pair
           /\ interface_data[h][i].key \in Key /\ interface_data[h][i].key # NULL
           /\ interface_data[h][i].data \in Data \cup {NULL}
  <1>1. interface_data[h] \in Seq(Pair)
    BY DEF TypeOK
  <1>2. interface_data[h][i] \in Pair
    BY <1>1
  <1> QED
    BY <1>2, DataAssumption DEF Pair

LEMMA PlaceIn ==
    ASSUME NEW k, NEW h, Places(k, h) # {}
    PROVE  Place(k, h) \in Places(k, h)
  BY DEF Place

LEMMA PlacesOne ==
    ASSUME OnePairEach, NEW k, NEW h \in Handle, NEW i \in Places(k, h)
    PROVE  Places(k, h) = {i} /\ Place(k, h) = i
  <1>1. \A j \in Places(k, h) : j = i
    BY DEF Places, OnePairEach
  <1>2. Place(k, h) \in Places(k, h)
    BY PlaceIn
  <1> QED
    BY <1>1, <1>2

LEMMA FoundType ==
    ASSUME TypeOK, NEW k, NEW h \in Handle
    PROVE  Found(k, h) \in Data \cup {NULL}
  <1>1. CASE Places(k, h) = {}
    BY <1>1 DEF Found
  <1>2. CASE Places(k, h) # {}
    <2>1. Place(k, h) \in 1..Len(interface_data[h])
      BY <1>2, PlaceIn DEF Places
    <2> QED
      BY <1>2, <2>1, PairFields DEF Found
  <1> QED
    BY <1>1, <1>2

LEMMA NoneFound ==
    ASSUME TypeOK, NEW h \in Handle
    PROVE  Places(NULL, h) = {} /\ Found(NULL, h) = NULL
  BY PairFields DEF Places, Found

\* A handle whose array stays is searched with the same result.
LEMMA SameFound ==
    ASSUME NEW k, NEW h \in Handle, interface_data'[h] = interface_data[h]
    PROVE  /\ Places(k, h)' = Places(k, h)
           /\ Found(k, h)' = Found(k, h)
  <1>1. Places(k, h)' = Places(k, h)
    BY DEF Places
  <1>2. Place(k, h)' = Place(k, h)
    BY <1>1 DEF Place
  <1> QED
    BY <1>1, <1>2 DEF Found

(***************************************************************************)
(* lt_dlcaller_set_data                                                    *)
(***************************************************************************)
\* A pair is added.
LEMMA Added ==
    ASSUME Inv, NEW h \in Handle, NEW pair \in Pair,
           interface_data' = [interface_data EXCEPT ![h] = Append(@, pair)]
    PROVE  /\ interface_data' \in [Handle -> Seq(Pair)]
           /\ Len(interface_data'[h]) = Len(interface_data[h]) + 1
           /\ \A j \in 1..Len(interface_data[h]) :
                  interface_data'[h][j] = interface_data[h][j]
           /\ interface_data'[h][Len(interface_data[h]) + 1] = pair
           /\ \A g \in Handle : g # h => interface_data'[g] = interface_data[g]
  BY DEF Inv, TypeOK

\* Either way the data are found under that key, and nothing else changes.
LEMMA SetFound ==
    ASSUME Inv, NEW c \in Client, NEW h \in Handle, NEW d \in Data \cup {NULL},
           lt_dlcaller_set_data(c, h, d)
    PROVE  /\ Inv'
           /\ \A k : Found(k, h)' = IF k = key[c] THEN d ELSE Found(k, h)
           /\ \A g \in Handle : g # h => interface_data'[g] = interface_data[g]
  <1> DEFINE n == Len(interface_data[h])
             m == Place(key[c], h)
             pair == [key |-> key[c], data |-> d, by |-> c]
  <1>0. /\ key[c] # NULL /\ key[c] \in Key /\ key' = key /\ given' = given
        /\ reply' = Found(key[c], h)
        /\ key[c] \in given
    BY DEF lt_dlcaller_set_data, Inv, TypeOK, KeysApart
  <1>1. reply' \in Data \cup {NULL}
    BY <1>0, FoundType DEF Inv
  <1>2. CASE Places(key[c], h) # {}
    <2>1. /\ m \in Places(key[c], h) /\ m \in 1..n
          /\ interface_data[h][m].key = key[c]
          /\ interface_data' = [interface_data EXCEPT ![h][m].data = d]
      BY <1>2, PlaceIn DEF lt_dlcaller_set_data, Places
    <2>2. Places(key[c], h) = {m}
      BY <2>1, PlacesOne DEF Inv
    <2> HIDE DEF m
    <2>3. /\ interface_data' \in [Handle -> Seq(Pair)]
          /\ Len(interface_data'[h]) = n
          /\ \A j \in 1..n :
                 /\ interface_data'[h][j].key = interface_data[h][j].key
                 /\ interface_data'[h][j].by = interface_data[h][j].by
                 /\ j # m => interface_data'[h][j] = interface_data[h][j]
          /\ interface_data'[h][m].data = d
          /\ \A g \in Handle : g # h => interface_data'[g] = interface_data[g]
      <3> DEFINE array == interface_data[h]
                 newpair == [array[m] EXCEPT !.data = d]
                 new == [array EXCEPT ![m] = newpair]
      <3>1. array \in Seq(Pair) /\ array[m] \in Pair
        BY <2>1 DEF Inv, TypeOK
      <3>2. /\ newpair \in Pair /\ newpair.data = d
            /\ newpair.key = array[m].key /\ newpair.by = array[m].by
        BY <3>1 DEF Pair
      <3> HIDE DEF newpair
      <3>3. /\ new \in Seq(Pair) /\ Len(new) = n /\ new[m] = newpair
            /\ \A j \in 1..n : j # m => new[j] = array[j]
        BY <2>1, <3>1, <3>2
      <3>4. interface_data' = [interface_data EXCEPT ![h] = new]
        BY <2>1 DEF newpair
      <3> HIDE DEF new
      <3>5. /\ interface_data'[h] = new
            /\ \A g \in Handle : g # h => interface_data'[g] = interface_data[g]
            /\ interface_data' \in [Handle -> Seq(Pair)]
        BY <3>3, <3>4 DEF Inv, TypeOK
      <3> QED
        BY <3>2, <3>3, <3>5
    <2>4. \A k : Places(k, h)' = Places(k, h)
      BY <2>3 DEF Places
    <2>5. \A k : Place(k, h)' = Place(k, h)
      BY <2>4 DEF Place
    <2>6. ASSUME NEW k, k = key[c] PROVE Found(k, h)' = d
      <3>1. Places(k, h)' # {} /\ Place(k, h)' = m
        BY <2>1, <2>2, <2>4, <2>5, <2>6 DEF m
      <3> QED
        BY <2>3, <3>1 DEF Found
    <2>7. ASSUME NEW k, k # key[c] PROVE Found(k, h)' = Found(k, h)
      <3>1. CASE Places(k, h) = {}
        BY <2>4, <3>1 DEF Found
      <3>2. CASE Places(k, h) # {}
        <4>1. Place(k, h) \in 1..n /\ interface_data[h][Place(k, h)].key = k
          BY <3>2, PlaceIn DEF Places
        <4>2. interface_data[h][m].key = key[c]
          BY <2>1
        <4>3. interface_data'[h][Place(k, h)] = interface_data[h][Place(k, h)]
          BY <2>3, <2>7, <4>1, <4>2
        <4> QED
          BY <2>4, <2>5, <4>3 DEF Found
      <3> QED
        BY <3>1, <3>2
    <2>8. \A g \in Handle :
             /\ Len(interface_data'[g]) = Len(interface_data[g])
             /\ \A j \in 1..Len(interface_data[g]) :
                    /\ interface_data'[g][j].key = interface_data[g][j].key
                    /\ interface_data'[g][j].by = interface_data[g][j].by
      BY <2>3
    <2>9. TypeOK'
      BY <1>0, <1>1, <2>3 DEF Inv, TypeOK
    <2>10. OnePairEach'
      BY <2>8 DEF Inv, OnePairEach
    <2>11. NoForeignData'
      BY <1>0, <2>8 DEF Inv, NoForeignData, Places
    <2>12. KeysApart'
      BY <1>0, <2>8 DEF Inv, KeysApart
    <2> QED
      BY <2>3, <2>6, <2>7, <2>9, <2>10, <2>11, <2>12 DEF Inv
  <1>3. CASE Places(key[c], h) = {}
    <2>1. interface_data' = [interface_data EXCEPT ![h] = Append(@, pair)]
      BY <1>3 DEF lt_dlcaller_set_data
    <2>2. pair \in Pair /\ pair.key = key[c] /\ pair.data = d /\ pair.by = c
      BY <1>0 DEF Pair
    <2> HIDE DEF pair
    <2>3. /\ interface_data' \in [Handle -> Seq(Pair)]
          /\ Len(interface_data'[h]) = n + 1
          /\ \A j \in 1..n : interface_data'[h][j] = interface_data[h][j]
          /\ interface_data'[h][n + 1] = pair
          /\ \A g \in Handle : g # h => interface_data'[g] = interface_data[g]
      BY <2>1, <2>2, Added
    <2>4. n \in Nat
      BY DEF Inv, TypeOK
    <2>5. \A j \in 1..n : interface_data[h][j].key # key[c]
      BY <1>3 DEF Places
    <2>6. ASSUME NEW k, k = key[c] PROVE Places(k, h)' = {n + 1}
      <3>1. Places(k, h)' = {j \in 1..(n + 1) : interface_data'[h][j].key = key[c]}
        BY <2>3, <2>6 DEF Places
      <3>2. \A j \in 1..(n + 1) : interface_data'[h][j].key = key[c] <=> j = n + 1
        BY <2>2, <2>3, <2>4, <2>5, SMTT(30)
      <3> QED
        BY <2>4, <3>1, <3>2
    <2>7. ASSUME NEW k, k = key[c] PROVE Place(k, h)' = n + 1
      BY <2>6, <2>7 DEF Place
    <2>8. ASSUME NEW k, k = key[c] PROVE Found(k, h)' = d
      BY <2>2, <2>3, <2>6, <2>7, <2>8 DEF Found
    <2>9. ASSUME NEW k, k # key[c] PROVE Found(k, h)' = Found(k, h)
      <3>1. Places(k, h)' = Places(k, h)
        <4>1. Places(k, h)' = {j \in 1..(n + 1) : interface_data'[h][j].key = k}
          BY <2>3 DEF Places
        <4>2. \A j \in 1..(n + 1) : interface_data'[h][j].key = k
                  <=> j \in 1..n /\ interface_data[h][j].key = k
          BY <2>2, <2>3, <2>4, <2>9
        <4> QED
          BY <2>4, <4>1, <4>2 DEF Places
      <3>2. Place(k, h)' = Place(k, h)
        BY <3>1 DEF Place
      <3>3. Places(k, h) # {} => Place(k, h) \in 1..n
        BY PlaceIn DEF Places
      <3> QED
        BY <2>3, <3>1, <3>2, <3>3 DEF Found
    <2>10. TypeOK'
      BY <1>0, <1>1, <2>3 DEF Inv, TypeOK
    <2>11. OnePairEach'
      <3>1. ASSUME NEW i \in 1..(n + 1), NEW j \in 1..(n + 1),
                   interface_data'[h][i].key = interface_data'[h][j].key
            PROVE  i = j
        <4>1. CASE i \in 1..n /\ j \in 1..n
          BY <2>3, <3>1, <4>1 DEF Inv, OnePairEach
        <4>2. CASE i = n + 1 \/ j = n + 1
          BY <2>2, <2>3, <2>4, <2>5, <3>1, <4>2, SMTT(30)
        <4> QED
          BY <2>4, <4>1, <4>2
      <3> QED
        BY <2>3, <3>1 DEF Inv, OnePairEach
    <2>12. NoForeignData'
      <3> SUFFICES ASSUME NEW e \in Client, NEW g \in Handle, key[e] # NULL,
                          NEW i \in 1..Len(interface_data'[g]),
                          interface_data'[g][i].key = key[e]
                   PROVE  interface_data'[g][i].by = e
        BY <1>0 DEF NoForeignData, Places
      <3>1. CASE g # h \/ i \in 1..n
        BY <2>3, <3>1 DEF Inv, NoForeignData, Places
      <3>2. CASE g = h /\ i = n + 1
        BY <1>0, <2>2, <2>3, <3>2 DEF Inv, KeysApart
      <3> QED
        BY <2>3, <2>4, <3>1, <3>2
    <2>13. KeysApart'
      <3>1. ASSUME NEW g \in Handle, NEW i \in 1..Len(interface_data'[g])
            PROVE  interface_data'[g][i].key \in given
        <4>1. CASE g # h \/ i \in 1..n
          BY <2>3, <4>1 DEF Inv, KeysApart
        <4>2. CASE g = h /\ i = n + 1
          BY <1>0, <2>2, <2>3, <4>2
        <4> QED
          BY <2>3, <2>4, <4>1, <4>2
      <3> QED
        BY <1>0, <3>1 DEF Inv, KeysApart
    <2> QED
      BY <2>3, <2>8, <2>9, <2>10, <2>11, <2>12, <2>13 DEF Inv
  <1> QED
    BY <1>2, <1>3

(***************************************************************************)
(* The invariant.                                                          *)
(***************************************************************************)
LEMMA InvInit == Init => Inv
  <1> SUFFICES ASSUME Init PROVE Inv
    OBVIOUS
  <1>1. TypeOK
    BY DEF Init, TypeOK
  <1>2. \A h \in Handle : Len(interface_data[h]) = 0
    BY DEF Init
  <1>3. OnePairEach /\ NoForeignData
    BY <1>2 DEF OnePairEach, NoForeignData, Places
  <1>4. KeysApart
    BY <1>2 DEF Init, KeysApart
  <1> QED
    BY <1>1, <1>3, <1>4 DEF Inv

LEMMA InvStep ==
    ASSUME ~Reuse, Inv, [Next]_vars
    PROVE  Inv'
  <1>1. CASE UNCHANGED vars
    BY <1>1 DEF vars, Inv, TypeOK, OnePairEach, NoForeignData, KeysApart, Places
  <1>2. ASSUME NEW c \in Client, lt_dlinterface_register(c)
        PROVE  Inv'
    <2>1. PICK k \in Key :
              /\ k \notin given
              /\ key' = [key EXCEPT ![c] = k] /\ given' = given \cup {k}
              /\ UNCHANGED <<interface_data, reply>>
      BY <1>2 DEF lt_dlinterface_register
    <2>2. key'[c] = k /\ \A e \in Client : e # c => key'[e] = key[e]
      BY <2>1 DEF Inv, TypeOK
    <2>3. TypeOK' /\ OnePairEach'
      BY <2>1 DEF Inv, TypeOK, OnePairEach
    <2>4. \A h \in Handle : \A i \in 1..Len(interface_data[h]) :
              interface_data[h][i].key # k
      BY <2>1 DEF Inv, KeysApart
    <2>5. NoForeignData'
      BY <2>1, <2>2, <2>4 DEF Inv, NoForeignData, Places
    <2>6. KeysApart'
      BY <2>1, <2>2, DataAssumption DEF Inv, KeysApart
    <2> QED
      BY <2>3, <2>5, <2>6 DEF Inv
  <1>3. ASSUME NEW c \in Client, lt_dlinterface_free(c)
        PROVE  Inv'
    <2>1. /\ key'[c] = NULL /\ \A e \in Client : e # c => key'[e] = key[e]
          /\ UNCHANGED <<given, interface_data, reply>>
          /\ key' \in [Client -> Key \cup {NULL}]
      BY <1>3 DEF lt_dlinterface_free, Inv, TypeOK
    <2> QED
      BY <2>1 DEF Inv, TypeOK, OnePairEach, NoForeignData, KeysApart, Places
  <1>4. ASSUME NEW c \in Client, NEW h \in Handle,
               lt_dlcaller_get_data(c, h) \/ set_data_fails(c, h)
        PROVE  Inv'
    <2>1. UNCHANGED <<key, given, interface_data>> /\ reply' \in Data \cup {NULL}
      BY <1>4, FoundType DEF lt_dlcaller_get_data, set_data_fails, Inv
    <2> QED
      BY <2>1 DEF Inv, TypeOK, OnePairEach, NoForeignData, KeysApart, Places
  <1>5. ASSUME NEW c \in Client, NEW h \in Handle, NEW d \in Data \cup {NULL},
               lt_dlcaller_set_data(c, h, d)
        PROVE  Inv'
    BY <1>5, SetFound
  <1>6. ASSUME NEW h \in Handle, lt_dlclose(h)
        PROVE  Inv'
    <2>1. /\ interface_data'[h] = <<>> /\ UNCHANGED <<key, given, reply>>
          /\ \A g \in Handle : g # h => interface_data'[g] = interface_data[g]
          /\ interface_data' \in [Handle -> Seq(Pair)]
      BY <1>6 DEF lt_dlclose, Inv, TypeOK
    <2>2. Len(interface_data'[h]) = 0
      BY <2>1
    <2>3. TypeOK'
      BY <2>1 DEF Inv, TypeOK
    <2>4. OnePairEach'
      BY <2>1, <2>2 DEF Inv, OnePairEach
    <2>5. NoForeignData'
      BY <2>1, <2>2 DEF Inv, NoForeignData, Places
    <2>6. KeysApart'
      BY <2>1, <2>2 DEF Inv, KeysApart
    <2> QED
      BY <2>3, <2>4, <2>5, <2>6 DEF Inv
  <1> QED
    BY <1>1, <1>2, <1>3, <1>4, <1>5, <1>6 DEF Next

\* What a client finds with a module is its own, and it finds what it wrote.
THEOREM DataOwn ==
    ASSUME ~Reuse
    PROVE  Spec => [](NoForeignData /\ OnePairEach)
  <1>1. Init => Inv
    BY InvInit
  <1>2. Inv /\ [Next]_vars => Inv'
    BY InvStep
  <1>3. Inv => NoForeignData /\ OnePairEach
    BY DEF Inv
  <1> QED
    BY <1>1, <1>2, <1>3, PTL DEF Spec

(***************************************************************************)
(* The arrays, even where malloc gives a freed address to another id.      *)
(***************************************************************************)
\* lt_dlcaller_set_data leaves an array with one pair of each key: it writes the
\* pair that has the key, and adds one only where there is none.
LEMMA ArraysSet ==
    ASSUME ArraysOK, NEW c \in Client, NEW h \in Handle, NEW d \in Data \cup {NULL},
           lt_dlcaller_set_data(c, h, d)
    PROVE  ArraysOK'
  <1> DEFINE array == interface_data[h]
             n == Len(array)
             new == interface_data'[h]
  <1>0. /\ TypeOK /\ key[c] \in Key /\ UNCHANGED <<key, given>>
        /\ reply' \in Data \cup {NULL}
        /\ array \in Seq(Pair) /\ n \in Nat
    BY FoundType DEF ArraysOK, TypeOK, lt_dlcaller_set_data
  <1>1. CASE Places(key[c], h) # {}
    <2> DEFINE m == Place(key[c], h)
               written == [array EXCEPT ![m] = [array[m] EXCEPT !.data = d]]
    <2>1. m \in 1..n /\ interface_data' = [interface_data EXCEPT ![h] = written]
      BY <1>1, PlaceIn DEF lt_dlcaller_set_data, Places
    <2> HIDE DEF m
    <2>2. /\ [array[m] EXCEPT !.data = d] \in Pair
          /\ [array[m] EXCEPT !.data = d].key = array[m].key
      <3>1. array[m] \in Pair
        BY <1>0, <2>1
      <3> QED
        BY <3>1 DEF Pair
    <2>3. /\ written \in Seq(Pair) /\ Len(written) = n
          /\ \A j \in 1..n : written[j].key = array[j].key
      BY <1>0, <2>1, <2>2
    <2> HIDE DEF written
    <2>4. interface_data' \in [Handle -> Seq(Pair)]
      BY <1>0, <2>1, <2>3 DEF TypeOK
    <2>5. \A g \in Handle : /\ Len(interface_data'[g]) = Len(interface_data[g])
                            /\ \A j \in 1..Len(interface_data[g]) :
                                   interface_data'[g][j].key = interface_data[g][j].key
      BY <1>0, <2>1, <2>3 DEF TypeOK
    <2> QED
      BY <1>0, <2>4, <2>5 DEF ArraysOK, TypeOK, OnePairEach
  <1>2. CASE Places(key[c], h) = {}
    <2> DEFINE pair == [key |-> key[c], data |-> d, by |-> c]
    <2>1. pair \in Pair /\ pair.key = key[c]
      BY <1>0 DEF Pair
    <2>2. interface_data' = [interface_data EXCEPT ![h] = Append(array, pair)]
      BY <1>2 DEF lt_dlcaller_set_data
    <2> HIDE DEF pair
    <2>3. /\ interface_data' \in [Handle -> Seq(Pair)]
          /\ Len(new) = n + 1 /\ new[n + 1] = pair
          /\ \A j \in 1..n : new[j] = array[j]
          /\ \A g \in Handle : g # h => interface_data'[g] = interface_data[g]
      BY <1>0, <2>1, <2>2 DEF TypeOK
    <2>4. \A j \in 1..n : array[j].key # key[c]
      BY <1>2 DEF Places
    <2>5. ASSUME NEW i \in 1..(n + 1), NEW j \in 1..(n + 1), new[i].key = new[j].key
          PROVE  i = j
      <3>0. new[n + 1].key = key[c] /\ \A l \in 1..n : new[l].key # key[c]
        BY <2>1, <2>3, <2>4
      <3>1. CASE i \in 1..n /\ j \in 1..n
        BY <2>3, <2>5, <3>1 DEF ArraysOK, OnePairEach
      <3>2. CASE i = n + 1 \/ j = n + 1
        <4> HIDE DEF new, n
        <4> QED
          BY <1>0, <2>5, <3>0, <3>2
      <3> QED
        BY <1>0, <3>1, <3>2
    <2>6. OnePairEach'
      BY <2>3, <2>5 DEF ArraysOK, OnePairEach
    <2> QED
      BY <1>0, <2>3, <2>6 DEF ArraysOK, TypeOK
  <1> QED
    BY <1>1, <1>2

LEMMA ArraysStep ==
    ASSUME ArraysOK, [Next]_vars
    PROVE  ArraysOK'
  <1>1. CASE UNCHANGED vars
    BY <1>1 DEF vars, ArraysOK, TypeOK, OnePairEach
  <1>2. ASSUME NEW c \in Client, lt_dlinterface_register(c) \/ lt_dlinterface_free(c)
        PROVE  ArraysOK'
    BY <1>2 DEF lt_dlinterface_register, lt_dlinterface_free, ArraysOK, TypeOK, OnePairEach
  <1>3. ASSUME NEW c \in Client, NEW h \in Handle,
               lt_dlcaller_get_data(c, h) \/ set_data_fails(c, h)
        PROVE  ArraysOK'
    <2>1. UNCHANGED <<key, given, interface_data>> /\ reply' \in Data \cup {NULL}
      BY <1>3, FoundType DEF lt_dlcaller_get_data, set_data_fails, ArraysOK
    <2> QED
      BY <2>1 DEF ArraysOK, TypeOK, OnePairEach
  <1>4. ASSUME NEW c \in Client, NEW h \in Handle, NEW d \in Data \cup {NULL},
               lt_dlcaller_set_data(c, h, d)
        PROVE  ArraysOK'
    BY <1>4, ArraysSet
  <1>5. ASSUME NEW h \in Handle, lt_dlclose(h)
        PROVE  ArraysOK'
    <2>1. /\ Len(interface_data'[h]) = 0 /\ UNCHANGED <<key, given, reply>>
          /\ \A g \in Handle : g # h => interface_data'[g] = interface_data[g]
          /\ interface_data' \in [Handle -> Seq(Pair)]
      BY <1>5 DEF lt_dlclose, ArraysOK, TypeOK
    <2>2. TypeOK'
      BY <2>1 DEF ArraysOK, TypeOK
    <2>3. OnePairEach'
      BY <2>1 DEF ArraysOK, OnePairEach
    <2> QED
      BY <2>2, <2>3 DEF ArraysOK
  <1> QED
    BY <1>1, <1>2, <1>3, <1>4, <1>5 DEF Next

\* The arrays stay well formed, with a pair of each key at most, whatever
\* addresses malloc gives: what leaks between clients are whole pairs.
THEOREM ArraysWellFormed == Spec => []ArraysOK
  <1>1. Init => ArraysOK
    BY InvInit DEF Inv, ArraysOK
  <1>2. ArraysOK /\ [Next]_vars => ArraysOK'
    BY ArraysStep
  <1> QED
    BY <1>1, <1>2, PTL DEF Spec

(***************************************************************************)
(* The refinement.                                                         *)
(***************************************************************************)
LEMMA TableInit == Init => Abstract!Init
  <1> SUFFICES ASSUME Init PROVE Abstract!Init
    OBVIOUS
  <1>1. TypeOK
    BY InvInit DEF Inv
  <1>2. \A c \in Client, h \in Handle : Found(key[c], h) = NULL
    BY <1>1, NoneFound DEF Init
  <1> QED
    BY <1>2 DEF Init, Table, Abstract!Init, Abstract!Empty

\* Each step is a step of the abstract specification or leaves the tables alone.
LEMMA TableStep ==
    ASSUME ~Reuse, Inv, Inv', [Next]_vars
    PROVE  [Abstract!Next]_<<Table, reply>>
  <1>0. /\ DOMAIN Table = Client /\ \A c \in Client : DOMAIN Table[c] = Handle
        /\ \A c \in Client, h \in Handle : Table[c][h] = Found(key[c], h)
    BY DEF Table
  <1>1. CASE UNCHANGED <<key, interface_data, reply>>
    <2>1. \A k : \A h \in Handle : Found(k, h)' = Found(k, h)
      BY <1>1, SameFound
    <2>2. Table' = [c \in Client |-> [h \in Handle |-> Found(key[c], h)']]
      BY <1>1 DEF Table
    <2> QED
      BY <1>1, <2>1, <2>2 DEF Table
  <1>2. ASSUME NEW c \in Client, lt_dlinterface_register(c)
        PROVE  Table' = Table /\ reply' = reply
    <2>1. PICK k \in Key :
              /\ key[c] = NULL /\ k \notin given
              /\ key' = [key EXCEPT ![c] = k]
              /\ UNCHANGED <<interface_data, reply>>
      BY <1>2 DEF lt_dlinterface_register
    <2>2. key'[c] = k /\ \A e \in Client : e # c => key'[e] = key[e]
      BY <2>1 DEF Inv, TypeOK
    <2>3. \A h \in Handle : Found(k, h) = NULL /\ Found(NULL, h) = NULL
      <3>1. \A h \in Handle : Places(k, h) = {}
        BY <2>1 DEF Inv, KeysApart, Places
      <3> QED
        BY <3>1, NoneFound DEF Inv, Found
    <2>4. \A j : \A h \in Handle : Found(j, h)' = Found(j, h)
      BY <2>1, SameFound
    <2>5. \A e \in Client, h \in Handle : Found(key'[e], h) = Found(key[e], h)
      BY <2>1, <2>2, <2>3
    <2>6. Table' = [e \in Client |-> [h \in Handle |-> Found(key'[e], h)]]
      BY <2>4 DEF Table
    <2> QED
      BY <2>1, <2>5, <2>6 DEF Table
  <1>3. ASSUME NEW c \in Client, lt_dlinterface_free(c)
        PROVE  Abstract!Leave(c)
    <2>1. /\ key'[c] = NULL /\ \A e \in Client : e # c => key'[e] = key[e]
          /\ UNCHANGED <<interface_data, reply>>
      BY <1>3 DEF lt_dlinterface_free, Inv, TypeOK
    <2>2. \A j : \A h \in Handle : Found(j, h)' = Found(j, h)
      BY <2>1, SameFound
    <2>3. Table' = [e \in Client |-> [h \in Handle |-> Found(key'[e], h)]]
      BY <2>2 DEF Table
    <2>4. \A h \in Handle : Found(NULL, h) = NULL
      BY NoneFound DEF Inv
    <2>5. Table' = [Table EXCEPT ![c] = [h \in Handle |-> NULL]]
      <3>1. \A e \in Client : [h \in Handle |-> Found(key'[e], h)] =
                IF e = c THEN [h \in Handle |-> NULL] ELSE Table[e]
        BY <2>1, <2>4 DEF Table
      <3> QED
        BY <1>0, <2>3, <3>1
    <2> QED
      BY <2>1, <2>5 DEF Abstract!Leave, Abstract!Empty
  <1>4. ASSUME NEW c \in Client, NEW h \in Handle, lt_dlcaller_get_data(c, h)
        PROVE  Abstract!Get(c, h)
    <2>1. UNCHANGED <<key, interface_data>> /\ reply' = Table[c][h]
      BY <1>0, <1>4 DEF lt_dlcaller_get_data
    <2>2. \A k : \A g \in Handle : Found(k, g)' = Found(k, g)
      BY <2>1, SameFound
    <2>3. Table' = Table
      BY <2>1, <2>2 DEF Table
    <2> QED
      BY <2>1, <2>3 DEF Abstract!Get
  <1>5. ASSUME NEW c \in Client, NEW h \in Handle, set_data_fails(c, h)
        PROVE  Abstract!SetFails(c, h)
    <2>1. /\ UNCHANGED <<key, interface_data>> /\ reply' = NULL
          /\ Table[c][h] = NULL
      BY <1>0, <1>5 DEF set_data_fails, Found
    <2>2. \A k : \A g \in Handle : Found(k, g)' = Found(k, g)
      BY <2>1, SameFound
    <2>3. Table' = Table
      BY <2>1, <2>2 DEF Table
    <2> QED
      BY <2>1, <2>3 DEF Abstract!SetFails
  <1>6. ASSUME NEW c \in Client, NEW h \in Handle, NEW d \in Data \cup {NULL},
               lt_dlcaller_set_data(c, h, d)
        PROVE  Abstract!Set(c, h, d)
    <2>1. /\ key' = key /\ reply' = Table[c][h]
          /\ \A e \in Client : key[e] = key[c] => e = c
      BY <1>0, <1>6 DEF lt_dlcaller_set_data, Inv, KeysApart
    <2>2. \A k : \A g \in Handle : Found(k, g)' =
              IF g = h /\ k = key[c] THEN d ELSE Found(k, g)
      BY <1>6, SetFound, SameFound
    <2>3. Table' = [e \in Client |-> [g \in Handle |->
                       IF g = h /\ e = c THEN d ELSE Found(key[e], g)]]
      BY <2>1, <2>2 DEF Table
    <2>4. Table' = [Table EXCEPT ![c] = [Table[c] EXCEPT ![h] = d]]
      BY <2>3 DEF Table
    <2> QED
      BY <2>1, <2>4 DEF Abstract!Set
  <1>7. ASSUME NEW h \in Handle, lt_dlclose(h)
        PROVE  Abstract!Forget(h)
    <2>1. /\ interface_data'[h] = <<>> /\ UNCHANGED <<key, reply>>
          /\ \A g \in Handle : g # h => interface_data'[g] = interface_data[g]
      BY <1>7 DEF lt_dlclose, Inv, TypeOK
    <2>2. \A k : \A g \in Handle : Found(k, g)' = IF g = h THEN NULL ELSE Found(k, g)
      <3>1. \A k : Found(k, h)' = NULL
        BY <2>1 DEF Found, Places
      <3> QED
        BY <2>1, <3>1, SameFound
    <2>3. Table' = [e \in Client |-> [g \in Handle |->
                       IF g = h THEN NULL ELSE Found(key[e], g)]]
      BY <2>1, <2>2 DEF Table
    <2>4. Table' = [e \in Client |-> [Table[e] EXCEPT ![h] = NULL]]
      BY <2>3 DEF Table
    <2> QED
      BY <2>1, <2>4 DEF Abstract!Forget
  <1> QED
    BY <1>1, <1>2, <1>3, <1>4, <1>5, <1>6, <1>7 DEF Next, vars, Abstract!Next

\* libltdl's arrays implement a table for each client.
THEOREM ArraysImplementTables ==
    ASSUME ~Reuse
    PROVE  Spec => ImplementsCallerData
  <1>1. Init => Inv /\ Abstract!Init
    BY InvInit, TableInit
  <1>2. Inv /\ [Next]_vars => Inv'
    BY InvStep
  <1>3. Inv /\ Inv' /\ [Next]_vars => [Abstract!Next]_<<Table, reply>>
    BY TableStep
  <1> QED
    BY <1>1, <1>2, <1>3, PTL DEF Spec, ImplementsCallerData, Abstract!Spec
=============================================================================
