---------------------------- MODULE MCDbKeyFile -----------------------------
(***************************************************************************)
(* An instance of DbKeyFile for TLC, with the processes as model values.   *)
(***************************************************************************)
EXTENDS DbKeyFile, TLC

CONSTANTS p1, p2, p3

\* Every definition treats the processes alike, and only invariants are checked.
Interchangeable == Permutations({p1, p2, p3})
=============================================================================
