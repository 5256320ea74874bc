--------------------------- MODULE RequestSession ---------------------------
(***************************************************************************)
(* One request, one session, one READ COMMITTED transaction.  A handler    *)
(* loads a row without a lock, checks and changes its copy, and the flush  *)
(* before the commit updates the columns whose value differs from the one  *)
(* it loaded.  Columns it did not change keep what others committed.       *)
(***************************************************************************)

\* The stored row after a handler that loaded `loaded` flushes `changed`.
Flush(stored, loaded, changed) ==
    [col \in DOMAIN stored |->
        IF changed[col] = loaded[col] THEN stored[col] ELSE changed[col]]
=============================================================================
