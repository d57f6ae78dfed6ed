-------------------------------- MODULE SList -------------------------------
(***************************************************************************)
(* The singly linked lists of libltdl (libltdl/slist.c): chains of items   *)
(* through their next pointers, which the operations change in place.      *)
(*                                                                         *)
(* A store is a function from items to the next item or NULL; a list is    *)
(* the item it begins with.  A callback is the set of the items it returns *)
(* a value for.                                                            *)
(***************************************************************************)
EXTENDS Naturals, Sequences

CONSTANTS
    NULL,
    Merged,     \* slist_sort_merge's own item, in front of the merged list
    Freed       \* what the next pointer of an item says once it was freed

RECURSIVE Chain(_, _), Last(_, _), Middle(_, _, _), Merge(_, _, _, _, _),
          Turn(_, _, _), slist_find(_, _, _), slist_nth(_, _, _),
          Before(_, _, _), slist_sort(_, _, _), slist_foreach(_, _, _, _)

\* The items of a list, in their order, and their number.
Chain(next, head) == IF head = NULL THEN <<>> ELSE <<head>> \o Chain(next, next[head])
slist_length(next, slist) == Len(Chain(next, slist))

slist_tail(next, slist) == IF slist = NULL THEN NULL ELSE next[slist]

slist_nth(next, slist, n) ==
    IF n > 1 /\ slist # NULL THEN slist_nth(next, next[slist], n - 1) ELSE slist

slist_find(next, slist, match) ==
    IF slist = NULL \/ slist \in match THEN slist ELSE slist_find(next, next[slist], match)

\* One item in front of a list; the item has no next.
slist_cons(next, item, slist) ==
    IF item = NULL THEN [next |-> next, head |-> slist]
    ELSE [next |-> [next EXCEPT ![item] = slist], head |-> item]

Last(next, head) == IF next[head] = NULL THEN head ELSE Last(next, next[head])

slist_concat(next, head, tail) ==
    IF head = NULL THEN [next |-> next, head |-> tail]
    ELSE [next |-> [next EXCEPT ![Last(next, head)] = tail], head |-> head]

\* The item before the first one after head that matches, or the last item.
Before(next, head, match) ==
    IF next[head] = NULL \/ next[head] \in match THEN head ELSE Before(next, next[head], match)

\* The first item find accepts is taken out: the head, or one after another.
slist_remove(next, head, match) ==
    IF head = NULL THEN [next |-> next, head |-> NULL, stale |-> NULL]
    ELSE IF head \in match THEN [next |-> next, head |-> next[head], stale |-> head]
    ELSE LET before == Before(next, head, match)
             stale == next[before]
         IN  [next |-> IF stale = NULL THEN next ELSE [next EXCEPT ![before] = next[stale]],
              head |-> head, stale |-> stale]

\* Each item is turned to the one before it.
Turn(next, slist, result) ==
    IF slist = NULL THEN [next |-> next, head |-> result]
    ELSE Turn([next EXCEPT ![slist] = result], next[slist], slist)
slist_reverse(next, slist) == Turn(next, slist, NULL)

\* The items foreach is called with, until it returns a value, when it frees
\* them: the next pointer is read before the call.  slist_delete is the same
\* loop with a callback that returns nothing.
slist_foreach(next, slist, stops, seen) ==
    IF slist = NULL THEN seen
    ELSE LET after == [next EXCEPT ![slist] = Freed]
         IN  IF slist \in stops THEN Append(seen, slist)
             ELSE slist_foreach(after, next[slist], stops, Append(seen, slist))

\* Faulty variant: of two items that compare equal the right one goes first.
compare_strict(key, left, right) == key[left] < key[right]
\* compare (left, right) <= 0
compare(key, left, right) == key[left] <= key[right]

\* slist_sort_merge, with what has been merged up to insert.
Merge(next, insert, left, right, key) ==
    IF left = NULL \/ right = NULL
    THEN LET rest == IF left = NULL THEN right ELSE left
             done == [next EXCEPT ![insert] = rest]
         IN  [next |-> done, head |-> done[Merged]]
    ELSE IF compare(key, left, right)
         THEN Merge([next EXCEPT ![insert] = left], left, next[left], right, key)
         ELSE Merge([next EXCEPT ![insert] = right], right, left, next[right], key)

\* The last item of the first half: right goes two items, slist goes one.
Middle(next, slist, right) ==
    IF right = NULL \/ next[right] = NULL \/ next[next[right]] = NULL THEN slist
    ELSE Middle(next, next[slist], next[next[right]])

slist_sort(next, slist, key) ==
    IF slist = NULL \/ next[slist] = NULL THEN [next |-> next, head |-> slist]
    ELSE LET mid == Middle(next, slist, next[slist])
             right == next[mid]
             halves == [next EXCEPT ![mid] = NULL]
             l == slist_sort(halves, slist, key)
             r == slist_sort(l.next, right, key)
         IN  Merge(r.next, Merged, l.head, r.head, key)
=============================================================================
