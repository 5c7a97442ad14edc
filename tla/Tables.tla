------------------------------- MODULE Tables -------------------------------
(* A table is a function from the identities of its rows to the rows.      *)
EXTENDS Functions

Put(table, id, row) ==
    [i \in DOMAIN table \union {id} |-> IF i = id THEN row ELSE table[i]]

Drop(table, id) == Restrict(table, DOMAIN table \ {id})

(* History: what something happened to.                                    *)
NoteIf(cond, set, x) == IF cond THEN set \union {x} ELSE set
=============================================================================
