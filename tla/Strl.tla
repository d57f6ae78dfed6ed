-------------------------------- MODULE Strl --------------------------------
(***************************************************************************)
(* Bounded copies of texts (libltdl/lt__strl.c), and the directory         *)
(* functions built on them for Windows (libltdl/lt__dirent.c).             *)
(*                                                                         *)
(* A buffer is a sequence of cells, some of which hold EOS; a text is a    *)
(* sequence without one.  C counts cells from 0.                           *)
(***************************************************************************)
EXTENDS Naturals, Sequences

CONSTANTS
    EOS,        \* the end of a text in a buffer
    INVALID     \* FindFirstFile found nothing

strlen(buffer) == (CHOOSE k \in DOMAIN buffer :
                      buffer[k] = EOS /\ \A j \in 1..(k - 1) : buffer[j] # EOS) - 1
TextIn(buffer) == SubSeq(buffer, 1, strlen(buffer))

\* The cells from position length on hold as much of src as fits, and EOS.
PutFrom(dst, length, src, dstsize) ==
    LET room == dstsize - 1 - length
        n == IF room < 0 THEN 0 ELSE IF Len(src) < room THEN Len(src) ELSE room
    IN  [k \in DOMAIN dst |->
            IF k \in (length + 1)..(length + n) THEN src[k - length]
            ELSE IF k = length + n + 1 THEN EOS
            ELSE dst[k]]

\* Both return the length the whole text would have had.
lt_strlcpy(dst, src, dstsize) ==
    [dst |-> PutFrom(dst, 0, src, dstsize), length |-> Len(src)]
lt_strlcat(dst, src, dstsize) ==
    [dst |-> PutFrom(dst, strlen(dst), src, dstsize), length |-> strlen(dst) + Len(src)]

\* opendir: the names found with "path\", or else with "path\\*.*", for a system
\* that answers find[text]; INVALID stands for the null pointer.
opendir(file_spec, path, find, size) ==
    LET copy == lt_strlcpy(file_spec, path, size)
        slash == lt_strlcat(copy.dst, <<"\\">>, size)
        star == lt_strlcat(slash.dst, <<"\\", "*">>, size)
    IN  IF copy.length >= size \/ slash.length >= size THEN INVALID
        ELSE IF find[TextIn(slash.dst)] # INVALID THEN find[TextIn(slash.dst)]
        ELSE IF star.length >= size THEN INVALID
        ELSE find[TextIn(star.dst)]

\* readdir: FindFirstFile has given the first name already; a name that does
\* not fit is answered with a null pointer, as the end is.
readdir(entry, size) ==
    LET at == IF entry.firsttime THEN entry.at ELSE entry.at + 1
    IN  [entry |-> [entry EXCEPT !.firsttime = FALSE, !.at = at],
         name |-> IF at > Len(entry.names) \/ Len(entry.names[at]) >= size THEN INVALID
                  ELSE entry.names[at]]

\* The names a loop over a directory sees.
RECURSIVE ReadAll(_, _)
ReadAll(entry, size) ==
    LET r == readdir(entry, size)
    IN  IF r.name = INVALID THEN <<>> ELSE <<r.name>> \o ReadAll(r.entry, size)
Directory(names) == [firsttime |-> TRUE, at |-> 1, names |-> names]
=============================================================================
