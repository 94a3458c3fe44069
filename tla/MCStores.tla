----------------------------- MODULE MCStores ------------------------------
(***************************************************************************)
(* A small instance of Stores: one name is the beginning of the other, so  *)
(* that the texts of their addresses differ only in the number of parts.   *)
(***************************************************************************)
EXTENDS Stores

MCNames == {<<"alice">>, <<"alice", "1">>}
=============================================================================
