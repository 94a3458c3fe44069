--------------------------- MODULE MCKeyRotation ---------------------------
(***************************************************************************)
(* What the comments and tests of the repository say of key custody, for   *)
(* TLC to hold against KeyRotation.                                        *)
(***************************************************************************)
EXTENDS KeyRotation

Successor(tab, id) == FirstInScan({j \in DOMAIN tab : j > id})

\* "Grace period before deleting old keys" (key_rotation.rs:19): an old key is
\* kept for the grace period after the key that supersedes it was created, so
\* that first messages sent under an older bundle can still be read.
GracePeriodHonoured ==
    [][\A k \in Kinds : \A id \in DOMAIN keys[k] \ DOMAIN keys'[k] :
          id < CurrentId(keys[k]) =>
             PastGrace(keys[k][Successor(keys[k], id)].ts, now)]_vars

\* "The bundle contains all necessary public keys for peers to establish a
\* session with this instance" (lib.rs:256): the keys it would publish carry
\* signatures of the identity key it would publish.
BundleKeysVerify ==
    pc = "ready" /\ BundleReady =>
        \A k \in Kinds : keys[k][CurrentId(keys[k])].signer = identity
=============================================================================
