------------------------------ MODULE LtError -------------------------------
(***************************************************************************)
(* The error strings of libltdl (libltdl/lt_error.c): the last error is a  *)
(* pointer to a text.  Texts of the table and texts that clients and       *)
(* loaders register stay for ever; a text that belongs to the system's     *)
(* loader stays only until the system has another one.                     *)
(*                                                                         *)
(* This module has no next-state relation: Loaders has.                    *)
(***************************************************************************)
EXTENDS Integers, Sequences

CONSTANT
    NULL    \* no error

VARIABLES
    last_error,           \* NULL, or where the text is and what it said when
                          \* the error was set
    user_error_strings    \* the registered texts

errorVars == <<last_error, user_error_strings>>

lt_dlerror_table ==
    <<"UNKNOWN", "DLOPEN_NOT_SUPPORTED", "INVALID_LOADER", "INIT_LOADER",
      "REMOVE_LOADER", "FILE_NOT_FOUND", "DEPLIB_NOT_FOUND", "NO_SYMBOLS",
      "CANNOT_OPEN", "CANNOT_CLOSE", "SYMBOL_NOT_FOUND", "NO_MEMORY",
      "INVALID_HANDLE", "BUFFER_OVERFLOW", "INVALID_ERRORCODE", "SHUTDOWN",
      "CLOSE_RESIDENT_MODULE", "INVALID_MUTEX_ARGS", "INVALID_POSITION",
      "CONFLICTING_FLAGS">>

LT_ERROR_MAX == Len(lt_dlerror_table)

\* The number of the next text to be registered.
errorcount == LT_ERROR_MAX + Len(user_error_strings)

\* The error that is text t of the table, and the one whose text is elsewhere.
Strerror(t) == [at |-> "table", says |-> t]
ErrorAt(place, text) == [at |-> place, says |-> text]

\* What lt_dlseterror (errindex) sets.
ErrorNumber(errindex) ==
    IF errindex < 0 \/ errindex >= errorcount THEN Strerror("INVALID_ERRORCODE")
    ELSE IF errindex < LT_ERROR_MAX THEN Strerror(lt_dlerror_table[errindex + 1])
    ELSE ErrorAt("user", user_error_strings[errindex - LT_ERROR_MAX + 1])

lt_dlseterror(errindex) ==
    /\ last_error' = ErrorNumber(errindex)
    /\ UNCHANGED user_error_strings

\* A text is registered and gets the next number; without memory it gets -1.
lt_dladderror(text, memory) ==
    IF memory THEN /\ user_error_strings' = Append(user_error_strings, text)
                   /\ UNCHANGED last_error
              ELSE /\ last_error' = Strerror("NO_MEMORY")
                   /\ UNCHANGED user_error_strings
NumberAdded(memory) == IF memory THEN errorcount ELSE -1

\* lt_dlerror returns the last error and forgets it.
lt_dlerror ==
    /\ last_error' = NULL
    /\ UNCHANGED user_error_strings
=============================================================================
