-------------------------------- MODULE Rows --------------------------------
(***************************************************************************)
(* Database tables as partial functions from primary keys to rows: the     *)
(* domain of the function is the set of keys that have a row.              *)
(***************************************************************************)

\* The table with one row more, or with the row of that key replaced.
Put(table, key, row) ==
    [k \in DOMAIN table \cup {key} |-> IF k = key THEN row ELSE table[k]]

\* The table without the rows of these keys (DELETE ... WHERE).
Without(table, keys) == [k \in DOMAIN table \ keys |-> table[k]]

\* The table before its first row.
NoRows == [k \in {} |-> k]

\* randomUUID(): some identifier that was never given out.  Which one it is
\* never matters, so one choice stands for all of them.
Fresh(ids, used) == CHOOSE id \in ids : id \notin used

=============================================================================
