---------------------------- MODULE MemoryStore ----------------------------
(***************************************************************************)
(* The in-memory back end, memory_storage.rs: seven maps and options       *)
(* behind mutexes.  Every operation takes one lock for its whole length    *)
(* (save_identity reads before it writes, under &mut self), so each is one *)
(* action.                                                                 *)
(***************************************************************************)
EXTENDS StoreData

VARIABLES
    memSessions,      \* text of the address -> session record
    memIdentities,    \* text of the address -> identity key of the peer
    memPair,          \* the local identity key pair, or Unset
    memRegistration,  \* the local registration id, or Unset
    memPreKeys,       \* id -> key pair: the record is rebuilt when read
    memSigned,        \* id -> time of the signed record
    memKyber          \* id -> time of the Kyber record

memLocal     == <<memPair, memRegistration>>
memKeyTables == <<memPreKeys, memSigned, memKyber>>
memVars      == <<memSessions, memIdentities, memLocal, memKeyTables>>

\* Not the code: a name ends at its first colon.
AddressKeyOfFirstPart(a) == <<a[1][1], a[2]>>

\* The parts of "name:device".
AddressKey(a) == Append(a[1], a[2])

MemInit ==
    /\ memSessions = EmptyTable
    /\ memIdentities = EmptyTable
    /\ memPair = Unset
    /\ memRegistration = Unset
    /\ memPreKeys = EmptyTable
    /\ memSigned = EmptyTable
    /\ memKyber = EmptyTable

\* initialize and close do nothing.
MemLifeCycle == UNCHANGED memVars

-----------------------------------------------------------------------------
(* Sessions.                                                               *)

MemLoadSession(a) == Get(memSessions, AddressKey(a))

MemSetSessions(tab) ==
    /\ memSessions' = tab
    /\ UNCHANGED <<memIdentities, memLocal, memKeyTables>>

MemStoreSession(a, r) == MemSetSessions(Put(memSessions, AddressKey(a), r))

MemSessionCount == Count(memSessions)

MemClearAllSessions == MemSetSessions(EmptyTable)

MemDeleteSession(a) == MemSetSessions(Drop(memSessions, AddressKey(a)))

-----------------------------------------------------------------------------
(* Identities.                                                             *)

\* Ok(the pair), or an error.
MemGetIdentityKeyPair == {memPair} \ {Unset}

MemGetLocalRegistrationId == {memRegistration} \ {Unset}

MemGetIdentity(a) == Get(memIdentities, AddressKey(a))

MemSetIdentities(tab) ==
    /\ memIdentities' = tab
    /\ UNCHANGED <<memSessions, memLocal, memKeyTables>>

MemSaveIdentity(a, k) == MemSetIdentities(Put(memIdentities, AddressKey(a), k))

\* The answer of save_identity is ReplacedExisting.
MemReplacesIdentity(a, k) == MemGetIdentity(a) \ {k} # {}

\* Trust on first use.
MemIsTrustedIdentity(a, k) ==
    AddressKey(a) \in DOMAIN memIdentities => memIdentities[AddressKey(a)] = k

MemIdentityCount == Count(memIdentities)

MemSetLocalIdentityKeyPair(p) ==
    /\ memPair' = p
    /\ UNCHANGED <<memSessions, memIdentities, memRegistration, memKeyTables>>

MemSetLocalRegistrationId(r) ==
    /\ memRegistration' = r
    /\ UNCHANGED <<memSessions, memIdentities, memPair, memKeyTables>>

MemGetPeerIdentity(a) == Get(memIdentities, AddressKey(a))

MemDeleteIdentity(a) == MemSetIdentities(Drop(memIdentities, AddressKey(a)))

MemClearAllIdentities == MemSetIdentities(EmptyTable)

\* Not the code: the registration id stays.
MemClearIdentityPairOnly ==
    /\ memPair' = Unset
    /\ UNCHANGED <<memSessions, memIdentities, memRegistration, memKeyTables>>

MemClearLocalIdentity ==
    /\ memPair' = Unset
    /\ memRegistration' = Unset
    /\ UNCHANGED <<memSessions, memIdentities, memKeyTables>>

-----------------------------------------------------------------------------
(* One-time pre-keys.                                                      *)

MemGetPreKey(id) == Get(memPreKeys, id)

MemSetPreKeys(tab) ==
    /\ memPreKeys' = tab
    /\ UNCHANGED <<memSessions, memIdentities, memLocal, memSigned, memKyber>>

MemSavePreKey(id, p) == MemSetPreKeys(Put(memPreKeys, id, p))

MemRemovePreKey(id) == MemSetPreKeys(Drop(memPreKeys, id))

MemPreKeyCount == Count(memPreKeys)

MemClearAllPreKeys == MemSetPreKeys(EmptyTable)

MemMaxPreKeyId == MaxId(memPreKeys)

MemDeletePreKey(id) == MemSetPreKeys(Drop(memPreKeys, id))

-----------------------------------------------------------------------------
(* Signed pre-keys.                                                        *)

MemGetSignedPreKey(id) == Get(memSigned, id)

MemSetSigned(tab) ==
    /\ memSigned' = tab
    /\ UNCHANGED <<memSessions, memIdentities, memLocal, memPreKeys, memKyber>>

MemSaveSignedPreKey(id, t) == MemSetSigned(Put(memSigned, id, t))

MemSignedPreKeyCount == Count(memSigned)

MemClearAllSignedPreKeys == MemSetSigned(EmptyTable)

MemMaxSignedPreKeyId == MaxId(memSigned)

MemDeleteSignedPreKey(id) == MemSetSigned(Drop(memSigned, id))

\* In the order of a hash map, that is in any order.
MemSignedOlderThan(t) == {id \in DOMAIN memSigned : memSigned[id] < t}

-----------------------------------------------------------------------------
(* Kyber pre-keys.                                                         *)

MemGetKyberPreKey(id) == Get(memKyber, id)

MemSetKyber(tab) ==
    /\ memKyber' = tab
    /\ UNCHANGED <<memSessions, memIdentities, memLocal, memPreKeys, memSigned>>

MemSaveKyberPreKey(id, t) == MemSetKyber(Put(memKyber, id, t))

\* The back end does not track use.
MemMarkKyberPreKeyUsed(id) == UNCHANGED memVars

MemKyberPreKeyCount == Count(memKyber)

MemClearAllKyberPreKeys == MemSetKyber(EmptyTable)

MemMaxKyberPreKeyId == MaxId(memKyber)

MemDeleteKyberPreKey(id) == MemSetKyber(Drop(memKyber, id))

\* In the order of a hash map, that is in any order.
MemKyberOlderThan(t) == {id \in DOMAIN memKyber : memKyber[id] < t}

-----------------------------------------------------------------------------

\* The keys of the maps are texts of addresses, and the rest has its type.
MemTypeOK ==
    LET keys == {AddressKey(a) : a \in Addresses} IN
    /\ memSessions \in TablesOf(keys, SessionRecords)
    /\ memIdentities \in TablesOf(keys, IdentityKeys)
    /\ memPair \in KeyPairs \cup {Unset}
    /\ memRegistration \in RegistrationIds \cup {Unset}
    /\ memPreKeys \in TablesOf(KeyIds, PreKeyPairs)
    /\ memSigned \in TablesOf(KeyIds, Times)
    /\ memKyber \in TablesOf(KeyIds, Times)

\* The maps as the traits see them: keyed by addresses.
ByAddress(tab) ==
    [a \in {x \in Addresses : AddressKey(x) \in DOMAIN tab} |->
        tab[AddressKey(a)]]

MemTraits == INSTANCE StorageTraits WITH
    sessions     <- ByAddress(memSessions),
    identities   <- ByAddress(memIdentities),
    pair         <- memPair,
    registration <- memRegistration,
    preKeys      <- memPreKeys,
    signed       <- memSigned,
    kyber        <- memKyber
=============================================================================
