---------------------------- MODULE MCAlgorithms ----------------------------
(***************************************************************************)
(* The algorithms of the project against what they should compute: version *)
(* numbers over every sequence of releases, and the lists of slist.c and   *)
(* the bounded texts of lt__strl.c over every small input.  A behaviour is *)
(* a sequence of releases, with size = 0, or the lists and texts of a size.*)
(***************************************************************************)
EXTENDS VersionInfo, TLC

CONSTANTS NULL, Merged, Freed, EOS, INVALID, MaxSize

VARIABLE size    \* the length of a list, or the size of a buffer

L == INSTANCE SList
T == INSTANCE Strl

\* Valid numbers, and invalid ones.
FirstVersions == {<<c, r, a>> : c \in 0..2, r \in 0..1, a \in 0..2}

MCInit ==
    \/ size = 0 /\ Init
    \/ /\ size \in 1..MaxSize
       /\ version_type = "linux" /\ given = "version-info"
       /\ numbers = <<0, 0, 0>> /\ releases = <<>>

-----------------------------------------------------------------------------
(* Items are numbers; those in a set are linked to their successors.       *)

Linked(S) == [x \in (1..2 * MaxSize) \cup {Merged} |-> IF x \in S THEN x + 1 ELSE NULL]
Store == Linked(1..(size - 1))
First(i, k) == IF k = 0 THEN NULL ELSE i + 1
Items(r) == L!Chain(r.next, r.head)
Least(S) == CHOOSE x \in S : \A y \in S : x <= y
UpTo(k) == [i \in 1..k |-> i]

\* slist_sort returns all items, in the order of their keys, and items that
\* compare equal in the order they had (slist.c:269-333).
SortsStably ==
    \A key \in [1..size -> 1..3] :
        LET c == Items(L!slist_sort(Store, First(0, size), key))
        IN  /\ Len(c) = size /\ ToSet(c) = 1..size
            /\ \A i, j \in 1..size : i < j =>
                   key[c[i]] < key[c[j]] \/ (key[c[i]] = key[c[j]] /\ c[i] < c[j])

\* slist_remove takes out the item slist_find finds, and no other; the list is
\* otherwise as it was, whether that item is the first, the last or none
\* (slist.c:74-129).
RemovesWhatIsFound ==
    \A match \in SUBSET (1..size) :
        LET r == L!slist_remove(Store, First(0, size), match)
        IN  /\ r.stale = L!slist_find(Store, First(0, size), match)
            /\ r.stale = IF match = {} THEN NULL ELSE Least(match)
            /\ Items(r) = SelectSeq(UpTo(size), LAMBDA x : x # r.stale)

\* slist_foreach and slist_delete call back once for each item in its turn,
\* though the callback frees the item, and stop when it returns a value
\* (slist.c:50-63, 238-257).
EachItemOnce ==
    \A stops \in SUBSET (1..size) :
        L!slist_foreach(Store, First(0, size), stops, <<>>)
            = UpTo(IF stops = {} THEN size ELSE Least(stops))

\* Two lists joined and turned round have all the items of both in the opposite
\* order, with either empty; items are counted from 1 (slist.c:138-234).
JoinedAndTurned ==
    \A m \in 0..MaxSize :
        LET joined == L!slist_concat(Linked(1..(size + m - 1) \ {size}), First(0, size), First(size, m))
            turned == L!slist_reverse(joined.next, joined.head)
        IN  /\ Items(joined) = UpTo(size + m)
            /\ Items(turned) = Reverse(UpTo(size + m))
            /\ L!slist_length(turned.next, turned.head) = size + m
            /\ \A k \in 1..(size + m) : L!slist_nth(joined.next, joined.head, k) = k
            /\ L!slist_nth(joined.next, joined.head, size + m + 1) = NULL
            /\ LET front == L!slist_cons(joined.next, 2 * MaxSize, joined.head)
               IN  size + m < 2 * MaxSize =>
                       L!slist_tail(front.next, front.head) = joined.head

-----------------------------------------------------------------------------
(* Texts: sequences of x, in buffers one cell longer than the bound that   *)
(* the functions are given.                                                *)

Text(k) == [i \in 1..k |-> "x"]
Holding(text, cells) ==
    [k \in 1..cells |-> IF k <= Len(text) THEN text[k]
                        ELSE IF k = Len(text) + 1 THEN EOS ELSE "old"]

\* A copy ends inside its bound, has as much of the text as fits, and says by its
\* result, and only then, that the text was cut off (lt__strl.c:48-124).
CopiesBounded ==
    size > 0 => \A l \in 0..(size - 1), m \in 0..(size + 1) :
        LET old == Holding([k \in 1..l |-> "d"], size + 1)
            whole == [k \in 1..l |-> "d"] \o Text(m)
            cut(t) == SubSeq(t, 1, IF Len(t) < size THEN Len(t) ELSE size - 1)
            copy == T!lt_strlcpy(old, Text(m), size)
            cat == T!lt_strlcat(old, Text(m), size)
        IN  /\ T!TextIn(copy.dst) = cut(Text(m)) /\ T!TextIn(cat.dst) = cut(whole)
            /\ copy.dst[size + 1] = old[size + 1] /\ cat.dst[size + 1] = old[size + 1]
            /\ copy.length >= size <=> T!TextIn(copy.dst) # Text(m)
            /\ cat.length >= size <=> T!TextIn(cat.dst) # whole

\* opendir reads the directory it was asked for or none: a path that is too long
\* is never looked up in part (lt__dirent.c:52-66).
AskedDirectoryOnly ==
    size > 1 => \A m \in 0..(MaxSize + 1), direct \in BOOLEAN :
        LET specs == {Text(k) \o end : k \in 0..(MaxSize + 1),
                          end \in {<<>>, <<"\\">>, <<"\\", "\\">>, <<"\\", "\\", "*">>}}
            find == [t \in specs |-> IF direct \/ (t # <<>> /\ t[Len(t)] = "*") THEN t ELSE INVALID]
            found == T!opendir(Holding(<<>>, size), Text(m), find, size)
        IN  found # INVALID => \E rest \in {<<"\\">>, <<"\\", "\\", "*">>} : found = Text(m) \o rest

\* A loop over readdir sees the names of a directory once each and in their
\* order, up to the first that does not fit (lt__dirent.c:80-102).
DirectoryRead ==
    size > 0 => \A m \in 0..3 : \A names \in [1..m -> (1..2) \X (1..(size + 1))] :
        LET texts == [k \in 1..m |-> [j \in 1..names[k][2] |-> names[k][1]]]
            long == {k \in 1..m : Len(texts[k]) >= size}
        IN  T!ReadAll(T!Directory(texts), size)
                = SubSeq(texts, 1, IF long = {} THEN m ELSE Least(long) - 1)

\* slist.c, lt__strl.c and lt__dirent.c compute what they should.
ListsAndTextsRight ==
    /\ SortsStably /\ RemovesWhatIsFound /\ EachItemOnce /\ JoinedAndTurned
    /\ CopiesBounded /\ AskedDirectoryOnly /\ DirectoryRead
=============================================================================
