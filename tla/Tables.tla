------------------------------- MODULE Tables -------------------------------
(***************************************************************************)
(* Tables: a function from the keys of the rows to what the rows hold.     *)
(* They stand for the SQLite tables of the back end and for the hash maps  *)
(* of the in-memory back end.                                              *)
(***************************************************************************)
EXTENDS Integers, FiniteSets

\* A table all of whose rows are in Row, keyed by positive ids.
IsTable(tab, Row) ==
    /\ tab = [id \in DOMAIN tab |-> tab[id]]
    /\ DOMAIN tab \subseteq Nat \ {0}
    /\ IsFiniteSet(DOMAIN tab)
    /\ \A id \in DOMAIN tab : tab[id] \in Row

EmptyTable == [id \in {} |-> 0]

\* INSERT OR REPLACE INTO ... (id, ...) VALUES (...)
Put(tab, id, row) ==
    [x \in DOMAIN tab \cup {id} |-> IF x = id THEN row ELSE tab[x]]

\* DELETE FROM ... WHERE id = ?
Drop(tab, id) == [x \in DOMAIN tab \ {id} |-> tab[x]]

\* SELECT COUNT( * )
Count(tab) == Cardinality(DOMAIN tab)
=============================================================================
