-------------------------- MODULE MCMessageHistory --------------------------
(***************************************************************************)
(* Instances of MessageHistory for TLC.                                    *)
(***************************************************************************)
EXTENDS MessageHistory, TLC

CONSTANTS alice, bob, app, other

\* Connections, and contacts, are interchangeable.
Interchangeable == Permutations({app, other}) \cup Permutations({alice, bob})
=============================================================================
