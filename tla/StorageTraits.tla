--------------------------- MODULE StorageTraits ---------------------------
(***************************************************************************)
(* What a storage back end promises its callers: the traits of             *)
(* storage_trait.rs and the libsignal traits they extend.  One action per  *)
(* operation that writes.  The two back ends differ in two places, and the *)
(* promise is what they have in common: the registration id after a key    *)
(* pair is set for the first time, and the answers to "older than" within  *)
(* one second (MayBeOlderThan).                                            *)
(***************************************************************************)
EXTENDS StoreData

VARIABLES
    sessions,      \* address -> session record
    identities,    \* address -> identity key of the peer
    pair,          \* the local identity key pair, or Unset
    registration,  \* the local registration id, or Unset
    preKeys,       \* id -> key pair
    signed,        \* id -> time of the signed record
    kyber          \* id -> time of the Kyber record

local     == <<pair, registration>>
keyTables == <<preKeys, signed, kyber>>
traitVars == <<sessions, identities, local, keyTables>>

Init ==
    /\ sessions = EmptyTable
    /\ identities = EmptyTable
    /\ pair = Unset
    /\ registration = Unset
    /\ preKeys = EmptyTable
    /\ signed = EmptyTable
    /\ kyber = EmptyTable

SetSessions(tab) ==
    /\ sessions' = tab
    /\ UNCHANGED <<identities, local, keyTables>>

StoreSession(a, r) == SetSessions(Put(sessions, a, r))
DeleteSession(a)   == SetSessions(Drop(sessions, a))
ClearAllSessions   == SetSessions(EmptyTable)

SetIdentities(tab) ==
    /\ identities' = tab
    /\ UNCHANGED <<sessions, local, keyTables>>

SaveIdentity(a, k)  == SetIdentities(Put(identities, a, k))
DeleteIdentity(a)   == SetIdentities(Drop(identities, a))
ClearAllIdentities  == SetIdentities(EmptyTable)

\* A registration id that was never set may read as 0 from here on.
SetLocalIdentityKeyPair(p) ==
    /\ pair' = p
    /\ \/ UNCHANGED registration
       \/ registration = Unset /\ registration' = 0
    /\ UNCHANGED <<sessions, identities, keyTables>>

SetLocalRegistrationId(r) ==
    /\ registration' = r
    /\ UNCHANGED <<sessions, identities, pair, keyTables>>

ClearLocalIdentity ==
    /\ pair' = Unset
    /\ registration' = Unset
    /\ UNCHANGED <<sessions, identities, keyTables>>

SetPreKeys(tab) ==
    /\ preKeys' = tab
    /\ UNCHANGED <<sessions, identities, local, signed, kyber>>

SavePreKey(id, p) == SetPreKeys(Put(preKeys, id, p))
DeletePreKey(id)  == SetPreKeys(Drop(preKeys, id))
ClearAllPreKeys   == SetPreKeys(EmptyTable)

SetSigned(tab) ==
    /\ signed' = tab
    /\ UNCHANGED <<sessions, identities, local, preKeys, kyber>>

SaveSignedPreKey(id, t) == SetSigned(Put(signed, id, t))
DeleteSignedPreKey(id)  == SetSigned(Drop(signed, id))
ClearAllSignedPreKeys   == SetSigned(EmptyTable)

SetKyber(tab) ==
    /\ kyber' = tab
    /\ UNCHANGED <<sessions, identities, local, preKeys, signed>>

SaveKyberPreKey(id, t) == SetKyber(Put(kyber, id, t))
DeleteKyberPreKey(id)  == SetKyber(Drop(kyber, id))
ClearAllKyberPreKeys   == SetKyber(EmptyTable)

Next ==
    \/ \E a \in Addresses, r \in SessionRecords : StoreSession(a, r)
    \/ \E a \in Addresses : DeleteSession(a)
    \/ ClearAllSessions
    \/ \E a \in Addresses, k \in IdentityKeys : SaveIdentity(a, k)
    \/ \E a \in Addresses : DeleteIdentity(a)
    \/ ClearAllIdentities
    \/ \E p \in KeyPairs : SetLocalIdentityKeyPair(p)
    \/ \E r \in RegistrationIds : SetLocalRegistrationId(r)
    \/ ClearLocalIdentity
    \/ \E id \in KeyIds, p \in PreKeyPairs : SavePreKey(id, p)
    \/ \E id \in KeyIds : DeletePreKey(id)
    \/ ClearAllPreKeys
    \/ \E id \in KeyIds, t \in Times : SaveSignedPreKey(id, t)
    \/ \E id \in KeyIds : DeleteSignedPreKey(id)
    \/ ClearAllSignedPreKeys
    \/ \E id \in KeyIds, t \in Times : SaveKyberPreKey(id, t)
    \/ \E id \in KeyIds : DeleteKyberPreKey(id)
    \/ ClearAllKyberPreKeys

Spec == Init /\ [][Next]_traitVars

\* The answers get_..._older_than may give at cutoff t: every record whose
\* second lies before the second of t, and no record that is not before t.
MayBeOlderThan(tab, t, ids) ==
    /\ {id \in DOMAIN tab : tab[id] \div 1000 < t \div 1000} \subseteq ids
    /\ ids \subseteq {id \in DOMAIN tab : tab[id] < t}
=============================================================================
