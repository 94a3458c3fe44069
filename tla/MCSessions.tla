----------------------------- MODULE MCSessions -----------------------------
(***************************************************************************)
(* Instances of Sessions for TLC: alice and carol write to bob.            *)
(***************************************************************************)
EXTENDS Sessions, TLC

CONSTANTS alice, bob, carol

\* The two that publish nothing are interchangeable.
Interchangeable == Permutations({alice, carol})
=============================================================================
