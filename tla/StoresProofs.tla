---------------------------- MODULE StoresProofs ----------------------------
(***************************************************************************)
(* Proofs about Stores: both back ends implement the traits, for any       *)
(* addresses, records and keys, and however the storage object is opened,  *)
(* half initialised, closed and replaced.                                  *)
(***************************************************************************)
EXTENDS Stores, FiniteSetTheorems, WellFoundedInduction, TLAPS

(* Tables and their keys.                                                  *)

\* The text of an address tells the address: the device number is its last
\* part, whatever colons the name has.
LEMMA AddressKeyInjective ==
    ASSUME NEW a \in Addresses, NEW b \in Addresses, AddressKey(a) = AddressKey(b)
    PROVE  a = b
<1> DEFINE m == a[1]
           n == b[1]
           d == a[2]
           e == b[2]
<1>1. /\ m \in Seq(Parts) /\ d \in Parts /\ a = <<m, d>>
      /\ n \in Seq(Parts) /\ e \in Parts /\ b = <<n, e>>
  BY AddressAssumption DEF Addresses, AddressAssumption
<1>2. Append(m, d) = Append(n, e)
  BY DEF AddressKey
<1> HIDE DEF m, n, d, e
<1>3. Len(m) = Len(n) /\ Len(m) \in Nat
  BY <1>1, <1>2
<1>4. d = Append(m, d)[Len(m) + 1] /\ e = Append(n, e)[Len(n) + 1]
  BY <1>1
<1>5. \A i \in 1 .. Len(m) : m[i] = Append(m, d)[i]
  BY <1>1
<1>6. \A i \in 1 .. Len(n) : n[i] = Append(n, e)[i]
  BY <1>1
<1>7. m = n
  BY <1>1, <1>2, <1>3, <1>5, <1>6
<1> QED BY <1>1, <1>2, <1>3, <1>4, <1>7

\* A table seen by address, after a row is put into it.
LEMMA ByAddressOfPut ==
    ASSUME NEW tab, NEW a \in Addresses, NEW row
    PROVE  ByAddress(Put(tab, AddressKey(a), row)) = Put(ByAddress(tab), a, row)
BY AddressKeyInjective DEF ByAddress, Put

\* ... and after one is dropped from it.
LEMMA ByAddressOfDrop ==
    ASSUME NEW tab, NEW a \in Addresses
    PROVE  ByAddress(Drop(tab, AddressKey(a))) = Drop(ByAddress(tab), a)
BY AddressKeyInjective DEF ByAddress, Drop

\* ... and when it is empty.
LEMMA ByAddressOfEmpty == ByAddress(EmptyTable) = EmptyTable
BY DEF ByAddress, EmptyTable

-----------------------------------------------------------------------------
(* The in-memory back end implements the traits.                           *)

\* The instances of the traits have the same tables.
LEMMA MemTraitsTables ==
    /\ MemTraits!Addresses = Addresses
    /\ MemTraits!EmptyTable = EmptyTable
    /\ \A tab, id, row : MemTraits!Put(tab, id, row) = Put(tab, id, row)
    /\ \A tab, id : MemTraits!Drop(tab, id) = Drop(tab, id)
BY DEF MemTraits!Addresses, Addresses, MemTraits!EmptyTable, EmptyTable,
       MemTraits!Put, Put, MemTraits!Drop, Drop

\* The steps of the maps of sessions and identities, by address.
LEMMA MemPeerSteps ==
    ASSUME NEW STATE tab
    PROVE  /\ MemSetSessions(tab) => MemTraits!SetSessions(ByAddress(tab))
           /\ MemSetIdentities(tab) => MemTraits!SetIdentities(ByAddress(tab))
BY DEF MemSetSessions, MemTraits!SetSessions, MemSetIdentities,
       MemTraits!SetIdentities, memLocal, memKeyTables, MemTraits!local,
       MemTraits!keyTables, ByAddress

\* What leaves the maps alone leaves them alone by address.
LEMMA MemPeersKept ==
    UNCHANGED <<memSessions, memIdentities>>
        => UNCHANGED <<ByAddress(memSessions), ByAddress(memIdentities)>>
BY DEF ByAddress

\* A call to the in-memory back end is the call of the traits, or nothing.
LEMMA MemSteps ==
    ASSUME [Next]_vars PROVE [MemTraits!Next]_(MemTraits!traitVars)
<1> USE MemTraitsTables
<1>1. CASE SessionCalls
  <2>1. ASSUME NEW a \in Addresses, NEW r \in SessionRecords, MemStoreSession(a, r)
        PROVE  MemTraits!StoreSession(a, r)
    <3>1. MemTraits!SetSessions(ByAddress(Put(memSessions, AddressKey(a), r)))
      BY <2>1, MemPeerSteps DEF MemStoreSession
    <3> QED BY <3>1, ByAddressOfPut DEF MemTraits!StoreSession
  <2>2. ASSUME NEW a \in Addresses, MemDeleteSession(a)
        PROVE  MemTraits!DeleteSession(a)
    <3>1. MemTraits!SetSessions(ByAddress(Drop(memSessions, AddressKey(a))))
      BY <2>2, MemPeerSteps DEF MemDeleteSession
    <3> QED BY <3>1, ByAddressOfDrop DEF MemTraits!DeleteSession
  <2>3. ASSUME MemClearAllSessions
        PROVE  MemTraits!ClearAllSessions
    <3>1. MemTraits!SetSessions(ByAddress(EmptyTable))
      BY <2>3, MemPeerSteps DEF MemClearAllSessions
    <3> QED BY <3>1, ByAddressOfEmpty DEF MemTraits!ClearAllSessions
  <2> QED BY <1>1, <2>1, <2>2, <2>3 DEF SessionCalls, MemTraits!Next
<1>2. CASE IdentityCalls
  <2>1. ASSUME NEW a \in Addresses, NEW k \in IdentityKeys, MemSaveIdentity(a, k)
        PROVE  MemTraits!SaveIdentity(a, k)
    <3>1. MemTraits!SetIdentities(ByAddress(Put(memIdentities, AddressKey(a), k)))
      BY <2>1, MemPeerSteps DEF MemSaveIdentity
    <3> QED BY <3>1, ByAddressOfPut DEF MemTraits!SaveIdentity
  <2>2. ASSUME NEW a \in Addresses, MemDeleteIdentity(a)
        PROVE  MemTraits!DeleteIdentity(a)
    <3>1. MemTraits!SetIdentities(ByAddress(Drop(memIdentities, AddressKey(a))))
      BY <2>2, MemPeerSteps DEF MemDeleteIdentity
    <3> QED BY <3>1, ByAddressOfDrop DEF MemTraits!DeleteIdentity
  <2>3. ASSUME MemClearAllIdentities
        PROVE  MemTraits!ClearAllIdentities
    <3>1. MemTraits!SetIdentities(ByAddress(EmptyTable))
      BY <2>3, MemPeerSteps DEF MemClearAllIdentities
    <3> QED BY <3>1, ByAddressOfEmpty DEF MemTraits!ClearAllIdentities
  <2> USE MemPeersKept DEF memKeyTables, MemTraits!keyTables
  <2>4. ASSUME NEW p \in KeyPairs, MemSetLocalIdentityKeyPair(p)
        PROVE  MemTraits!SetLocalIdentityKeyPair(p)
    BY <2>4 DEF MemSetLocalIdentityKeyPair, MemTraits!SetLocalIdentityKeyPair
  <2>5. ASSUME NEW r \in RegistrationIds, MemSetLocalRegistrationId(r)
        PROVE  MemTraits!SetLocalRegistrationId(r)
    BY <2>5 DEF MemSetLocalRegistrationId, MemTraits!SetLocalRegistrationId
  <2>6. ASSUME MemClearLocalIdentity
        PROVE  MemTraits!ClearLocalIdentity
    BY <2>6 DEF MemClearLocalIdentity, MemTraits!ClearLocalIdentity
  <2> QED BY <1>2, <2>1, <2>2, <2>3, <2>4, <2>5, <2>6
          DEF IdentityCalls, MemTraits!Next
<1> USE MemPeersKept
<1>3. CASE PreKeyCalls
  <2> USE DEF MemTraits!SetPreKeys, MemTraits!local, MemSetPreKeys, memLocal
  <2>1. ASSUME NEW id \in KeyIds, NEW p \in PreKeyPairs, MemSavePreKey(id, p)
        PROVE  MemTraits!SavePreKey(id, p)
    BY <2>1 DEF MemSavePreKey, MemTraits!SavePreKey
  <2>2. ASSUME NEW id \in KeyIds, MemRemovePreKey(id) \/ MemDeletePreKey(id)
        PROVE  MemTraits!DeletePreKey(id)
    BY <2>2 DEF MemRemovePreKey, MemDeletePreKey, MemTraits!DeletePreKey
  <2>3. ASSUME MemClearAllPreKeys
        PROVE  MemTraits!ClearAllPreKeys
    BY <2>3 DEF MemClearAllPreKeys, MemTraits!ClearAllPreKeys
  <2> QED BY <1>3, <2>1, <2>2, <2>3 DEF PreKeyCalls, MemTraits!Next
<1>4. CASE SignedPreKeyCalls
  <2> USE DEF MemTraits!SetSigned, MemTraits!local, MemSetSigned, memLocal
  <2>1. ASSUME NEW id \in KeyIds, NEW t \in Times, MemSaveSignedPreKey(id, t)
        PROVE  MemTraits!SaveSignedPreKey(id, t)
    BY <2>1 DEF MemSaveSignedPreKey, MemTraits!SaveSignedPreKey
  <2>2. ASSUME NEW id \in KeyIds, MemDeleteSignedPreKey(id)
        PROVE  MemTraits!DeleteSignedPreKey(id)
    BY <2>2 DEF MemDeleteSignedPreKey, MemTraits!DeleteSignedPreKey
  <2>3. ASSUME MemClearAllSignedPreKeys
        PROVE  MemTraits!ClearAllSignedPreKeys
    BY <2>3 DEF MemClearAllSignedPreKeys, MemTraits!ClearAllSignedPreKeys
  <2> QED BY <1>4, <2>1, <2>2, <2>3 DEF SignedPreKeyCalls, MemTraits!Next
<1>5. CASE KyberPreKeyCalls
  <2> USE DEF MemTraits!SetKyber, MemTraits!local, MemSetKyber, memLocal
  <2>1. ASSUME NEW id \in KeyIds, NEW t \in Times, MemSaveKyberPreKey(id, t)
        PROVE  MemTraits!SaveKyberPreKey(id, t)
    BY <2>1 DEF MemSaveKyberPreKey, MemTraits!SaveKyberPreKey
  <2>2. ASSUME NEW id \in KeyIds, MemDeleteKyberPreKey(id)
        PROVE  MemTraits!DeleteKyberPreKey(id)
    BY <2>2 DEF MemDeleteKyberPreKey, MemTraits!DeleteKyberPreKey
  <2>3. ASSUME MemClearAllKyberPreKeys
        PROVE  MemTraits!ClearAllKyberPreKeys
    BY <2>3 DEF MemClearAllKyberPreKeys, MemTraits!ClearAllKyberPreKeys
  <2>4. ASSUME NEW id \in KeyIds, MemMarkKyberPreKeyUsed(id)
        PROVE  UNCHANGED MemTraits!traitVars
    BY <2>4 DEF MemMarkKyberPreKeyUsed, memVars, memLocal, memKeyTables, ByAddress,
       MemTraits!traitVars, MemTraits!local, MemTraits!keyTables
  <2> QED BY <1>5, <2>1, <2>2, <2>3, <2>4 DEF KyberPreKeyCalls, MemTraits!Next
<1>6. CASE LifeCycle \/ UNCHANGED vars
  <2>1. UNCHANGED memVars
    BY <1>6 DEF LifeCycle, MemLifeCycle, vars
  <2> QED BY <2>1 DEF memVars, memLocal, memKeyTables, ByAddress,
          MemTraits!traitVars, MemTraits!local, MemTraits!keyTables
<1> QED BY <1>1, <1>2, <1>3, <1>4, <1>5, <1>6 DEF Next

\* Joining the name and the device number of an address into one text loses
\* nothing: the in-memory back end implements the traits.
THEOREM MemoryImplementsTraitsHolds == Spec => MemoryImplementsTraits
<1>1. Init => MemTraits!Init
  BY ByAddressOfEmpty, MemTraitsTables DEF Init, MemInit, MemTraits!Init
<1> QED BY <1>1, MemSteps, PTL DEF Spec, MemoryImplementsTraits, MemTraits!Spec

-----------------------------------------------------------------------------
(* What the groups of calls leave alone.                                   *)

\* In the in-memory back end.
LEMMA MemKept ==
    /\ SessionCalls =>
          UNCHANGED <<memIdentities, memLocal, memKeyTables>>
    /\ IdentityCalls =>
          UNCHANGED <<memSessions, memKeyTables>>
    /\ PreKeyCalls =>
          UNCHANGED <<memSessions, memIdentities, memLocal, memSigned, memKyber>>
    /\ SignedPreKeyCalls =>
          UNCHANGED <<memSessions, memIdentities, memLocal, memPreKeys, memKyber>>
    /\ KyberPreKeyCalls =>
          UNCHANGED <<memSessions, memIdentities, memLocal, memPreKeys, memSigned>>
    /\ LifeCycle => UNCHANGED memVars
<1>1. SessionCalls =>
         UNCHANGED <<memIdentities, memLocal, memKeyTables>>
  BY DEF SessionCalls, MemStoreSession, MemDeleteSession, MemClearAllSessions,
     MemSetSessions
<1>2. IdentityCalls =>
         UNCHANGED <<memSessions, memKeyTables>>
  BY DEF IdentityCalls, MemSaveIdentity, MemDeleteIdentity,
     MemClearAllIdentities, MemSetIdentities, MemSetLocalIdentityKeyPair,
     MemSetLocalRegistrationId, MemClearLocalIdentity
<1>3. PreKeyCalls =>
         UNCHANGED <<memSessions, memIdentities, memLocal, memSigned, memKyber>>
  BY DEF PreKeyCalls, MemSavePreKey, MemRemovePreKey, MemDeletePreKey,
     MemClearAllPreKeys, MemSetPreKeys
<1>4. SignedPreKeyCalls =>
         UNCHANGED <<memSessions, memIdentities, memLocal, memPreKeys, memKyber>>
  BY DEF SignedPreKeyCalls, MemSaveSignedPreKey, MemDeleteSignedPreKey,
     MemClearAllSignedPreKeys, MemSetSigned
<1>5. KyberPreKeyCalls =>
         UNCHANGED <<memSessions, memIdentities, memLocal, memPreKeys, memSigned>>
  BY DEF KyberPreKeyCalls, MemSaveKyberPreKey, MemMarkKyberPreKeyUsed,
     MemDeleteKyberPreKey, MemClearAllKyberPreKeys, MemSetKyber, memVars,
     memKeyTables
<1>6. LifeCycle => UNCHANGED memVars
  BY DEF LifeCycle, MemLifeCycle
<1> QED BY <1>1, <1>2, <1>3, <1>4, <1>5, <1>6

\* In the SQLite back end.
LEMMA DbKept ==
    /\ SessionCalls =>
          UNCHANGED <<dbIdentities, localRow, dbKeyTables, lifeCycle>>
    /\ IdentityCalls =>
          UNCHANGED <<dbSessions, dbKeyTables, lifeCycle>>
    /\ PreKeyCalls =>
          UNCHANGED <<dbPeers, localRow, dbSigned, dbKyber, lifeCycle>>
    /\ SignedPreKeyCalls =>
          UNCHANGED <<dbPeers, localRow, dbPreKeys, dbKyber, lifeCycle>>
    /\ KyberPreKeyCalls =>
          UNCHANGED <<dbPeers, localRow, dbPreKeys, dbSigned, lifeCycle>>
    /\ LifeCycle => UNCHANGED <<dbPeers, localRow, dbKeyTables>>
<1>1. SessionCalls =>
         UNCHANGED <<dbIdentities, localRow, dbKeyTables, lifeCycle>>
  BY DEF SessionCalls, DbStoreSession, DbDeleteSession, DbClearAllSessions,
     DbSetSessions
<1>2. IdentityCalls =>
         UNCHANGED <<dbSessions, dbKeyTables, lifeCycle>>
  BY DEF IdentityCalls, DbSaveIdentity, DbDeleteIdentity,
     DbClearAllIdentities, DbSetIdentities, DbSetLocalIdentityKeyPair,
     DbSetLocalRegistrationId, DbClearLocalIdentity, SetLocalRow, dbPeers
<1>3. PreKeyCalls =>
         UNCHANGED <<dbPeers, localRow, dbSigned, dbKyber, lifeCycle>>
  BY DEF PreKeyCalls, DbSavePreKey, DbRemovePreKey, DbDeletePreKey,
     DbClearAllPreKeys, DbSetPreKeys
<1>4. SignedPreKeyCalls =>
         UNCHANGED <<dbPeers, localRow, dbPreKeys, dbKyber, lifeCycle>>
  BY DEF SignedPreKeyCalls, DbSaveSignedPreKey, DbDeleteSignedPreKey,
     DbClearAllSignedPreKeys, DbSetSigned
<1>5. KyberPreKeyCalls =>
         UNCHANGED <<dbPeers, localRow, dbPreKeys, dbSigned, lifeCycle>>
  BY DEF KyberPreKeyCalls, DbSaveKyberPreKey, DbMarkKyberPreKeyUsed,
     DbDeleteKyberPreKey, DbClearAllKyberPreKeys, DbSetKyber
<1>6. LifeCycle => UNCHANGED <<dbPeers, localRow, dbKeyTables>>
  BY DEF LifeCycle, DbNew, DbInitializeSchema, DbInitializeFails, DbClose,
     InitializeSchemaInfo, UpdateSchemaVersion
<1> QED BY <1>1, <1>2, <1>3, <1>4, <1>5, <1>6

-----------------------------------------------------------------------------
(* Types.                                                                  *)

\* A table is a function whose keys and rows are where they should be.
LEMMA TablesOfDef ==
    ASSUME NEW Keys, NEW Rs, NEW tab
    PROVE  tab \in TablesOf(Keys, Rs)
               <=> DOMAIN tab \subseteq Keys /\ tab \in [DOMAIN tab -> Rs]
BY DEF TablesOf

\* Putting a row keeps the type of a table.
LEMMA PutTyped ==
    ASSUME NEW Keys, NEW Rs, NEW tab \in TablesOf(Keys, Rs),
           NEW key \in Keys, NEW row \in Rs
    PROVE  Put(tab, key, row) \in TablesOf(Keys, Rs)
<1>1. DOMAIN tab \subseteq Keys /\ tab \in [DOMAIN tab -> Rs]
  BY TablesOfDef
<1>2. Put(tab, key, row) \in [DOMAIN tab \cup {key} -> Rs]
  BY <1>1 DEF Put
<1> QED BY <1>1, <1>2 DEF TablesOf

\* So does dropping one.
LEMMA DropTyped ==
    ASSUME NEW Keys, NEW Rs, NEW tab \in TablesOf(Keys, Rs), NEW key
    PROVE  Drop(tab, key) \in TablesOf(Keys, Rs)
<1>1. DOMAIN tab \subseteq Keys /\ tab \in [DOMAIN tab -> Rs]
  BY TablesOfDef
<1>2. Drop(tab, key) \in [DOMAIN tab \ {key} -> Rs]
  BY <1>1 DEF Drop
<1> QED BY <1>1, <1>2 DEF TablesOf

\* The empty table has every type.
LEMMA EmptyTyped ==
    ASSUME NEW Keys, NEW Rs PROVE EmptyTable \in TablesOf(Keys, Rs)
<1>1. EmptyTable \in [{} -> Rs]
  BY DEF EmptyTable
<1> QED BY <1>1 DEF TablesOf

\* The texts of the addresses.
MemKeys == {AddressKey(a) : a \in Addresses}

\* The calls keep the types of the maps.
LEMMA MemTyped == MemTypeOK /\ [Next]_vars => MemTypeOK'
<1> SUFFICES ASSUME MemTypeOK, [Next]_vars PROVE MemTypeOK'
  OBVIOUS
<1>0. MemTypeOK <=>
        /\ memSessions \in TablesOf(MemKeys, SessionRecords)
        /\ memIdentities \in TablesOf(MemKeys, IdentityKeys)
        /\ memPair \in KeyPairs \cup {Unset}
        /\ memRegistration \in RegistrationIds \cup {Unset}
        /\ memPreKeys \in TablesOf(KeyIds, PreKeyPairs)
        /\ memSigned \in TablesOf(KeyIds, Times)
        /\ memKyber \in TablesOf(KeyIds, Times)
  BY DEF MemTypeOK, MemKeys
<1> DEFINE Typed ==
        /\ memSessions' \in TablesOf(MemKeys, SessionRecords)
        /\ memIdentities' \in TablesOf(MemKeys, IdentityKeys)
        /\ memPair' \in KeyPairs \cup {Unset}
        /\ memRegistration' \in RegistrationIds \cup {Unset}
        /\ memPreKeys' \in TablesOf(KeyIds, PreKeyPairs)
        /\ memSigned' \in TablesOf(KeyIds, Times)
        /\ memKyber' \in TablesOf(KeyIds, Times)
<1>1. Typed => MemTypeOK'
  BY DEF MemTypeOK, MemKeys
<1>2. \A a \in Addresses : AddressKey(a) \in MemKeys
  BY DEF MemKeys
<1>3. CASE SessionCalls
  <2>1. ASSUME NEW tab \in TablesOf(MemKeys, SessionRecords), MemSetSessions(tab)
        PROVE  Typed
    BY <1>0, <2>1 DEF MemSetSessions, memLocal, memKeyTables
  <2> HIDE DEF Typed
  <2>2. Typed
    BY <1>0, <1>2, <1>3, <2>1, PutTyped, DropTyped, EmptyTyped
       DEF SessionCalls, MemStoreSession, MemDeleteSession, MemClearAllSessions
  <2> QED BY <1>1, <2>2
<1>4. CASE IdentityCalls
  <2>1. ASSUME NEW tab \in TablesOf(MemKeys, IdentityKeys), MemSetIdentities(tab)
        PROVE  Typed
    BY <1>0, <2>1 DEF MemSetIdentities, memLocal, memKeyTables
  <2>2. ASSUME \/ \E p \in KeyPairs : MemSetLocalIdentityKeyPair(p)
               \/ \E r \in RegistrationIds : MemSetLocalRegistrationId(r)
               \/ MemClearLocalIdentity
        PROVE  Typed
    BY <1>0, <2>2 DEF MemSetLocalIdentityKeyPair, MemSetLocalRegistrationId,
       MemClearLocalIdentity, memKeyTables
  <2> HIDE DEF Typed
  <2>3. Typed
    BY <1>0, <1>2, <1>4, <2>1, <2>2, PutTyped, DropTyped, EmptyTyped
       DEF IdentityCalls, MemSaveIdentity, MemDeleteIdentity, MemClearAllIdentities
  <2> QED BY <1>1, <2>3
<1>5. CASE PreKeyCalls
  <2>1. ASSUME NEW tab \in TablesOf(KeyIds, PreKeyPairs), MemSetPreKeys(tab)
        PROVE  Typed
    BY <1>0, <2>1 DEF MemSetPreKeys, memLocal
  <2> HIDE DEF Typed
  <2>2. Typed
    BY <1>0, <1>5, <2>1, PutTyped, DropTyped, EmptyTyped
       DEF PreKeyCalls, MemSavePreKey, MemRemovePreKey, MemDeletePreKey,
           MemClearAllPreKeys
  <2> QED BY <1>1, <2>2
<1>6. CASE SignedPreKeyCalls
  <2>1. ASSUME NEW tab \in TablesOf(KeyIds, Times), MemSetSigned(tab)
        PROVE  Typed
    BY <1>0, <2>1 DEF MemSetSigned, memLocal
  <2> HIDE DEF Typed
  <2>2. Typed
    BY <1>0, <1>6, <2>1, PutTyped, DropTyped, EmptyTyped
       DEF SignedPreKeyCalls, MemSaveSignedPreKey, MemDeleteSignedPreKey,
           MemClearAllSignedPreKeys
  <2> QED BY <1>1, <2>2
<1>7. CASE KyberPreKeyCalls
  <2>1. ASSUME NEW tab \in TablesOf(KeyIds, Times), MemSetKyber(tab)
        PROVE  Typed
    BY <1>0, <2>1 DEF MemSetKyber, memLocal
  <2>2. ASSUME UNCHANGED memVars PROVE Typed
    BY <1>0, <2>2 DEF memVars, memLocal, memKeyTables
  <2> HIDE DEF Typed
  <2>3. Typed
    BY <1>0, <1>7, <2>1, <2>2, PutTyped, DropTyped, EmptyTyped
       DEF KyberPreKeyCalls, MemSaveKyberPreKey, MemMarkKyberPreKeyUsed,
           MemDeleteKyberPreKey, MemClearAllKyberPreKeys
  <2> QED BY <1>1, <2>3
<1>8. CASE LifeCycle \/ UNCHANGED vars
  <2>1. UNCHANGED memVars
    BY <1>8 DEF LifeCycle, MemLifeCycle, vars
  <2> QED BY <1>0, <1>1, <2>1 DEF memVars, memLocal, memKeyTables
<1> QED BY <1>3, <1>4, <1>5, <1>6, <1>7, <1>8 DEF Next

\* The conjuncts of DbTypeOK about what is stored.
DbTablesOK ==
    /\ schema \in SchemaRows
    /\ dbSessions \in SessionRows
    /\ dbIdentities \in IdentityRows
    /\ localRow \in LocalRows \cup {NoRow}
    /\ dbPreKeys \in PreKeyRows
    /\ dbSigned \in SignedRows
    /\ dbKyber \in KyberRows

\* A row of local_identity keeps its type, whichever column is written.
LEMMA LocalRowTyped ==
    ASSUME localRow \in LocalRows \cup {NoRow},
           \/ \E p \in KeyPairs : DbSetLocalIdentityKeyPair(p)
           \/ \E r \in RegistrationIds : DbSetLocalRegistrationId(r)
    PROVE  localRow' \in LocalRows
<1>1. localRow # NoRow => /\ localRow.registration_id \in RegistrationIds \cup {0}
                          /\ localRow.private_key \in KeyPairs \cup {EmptyBlob}
  BY DEF LocalRows
<1>2. ASSUME NEW p \in KeyPairs, DbSetLocalIdentityKeyPair(p)
      PROVE  localRow' \in LocalRows
  BY <1>1, <1>2 DEF DbSetLocalIdentityKeyPair, SetLocalRow, LocalRows
<1>3. ASSUME NEW r \in RegistrationIds, DbSetLocalRegistrationId(r)
      PROVE  localRow' \in LocalRows
  BY <1>1, <1>3 DEF DbSetLocalRegistrationId, SetLocalRow, LocalRows
<1> QED BY <1>2, <1>3

\* A row of signed or Kyber pre-keys.
Rowed(t, b) == [ts |-> t, created_at |-> t \div 1000, is_current |-> b]

\* The columns of such a row have their types.
LEMMA RowTyped ==
    ASSUME NEW t \in Times, NEW b \in BOOLEAN
    PROVE  Rowed(t, b) \in [ts : Times, created_at : Seconds, is_current : BOOLEAN]
<1> DEFINE c == t \div 1000
<1>1. c \in Seconds
  BY DEF Seconds
<1>2. Rowed(t, b) = [ts |-> t, created_at |-> c, is_current |-> b]
  BY DEF Rowed
<1> HIDE DEF c
<1> QED BY <1>1, <1>2

\* Both kinds are saved as such a row.
LEMMA SavedRows ==
    ASSUME NEW id, NEW t
    PROVE  /\ DbSaveSignedPreKey(id, t) => DbSetSigned(Put(dbSigned, id, Rowed(t, FALSE)))
           /\ DbSaveKyberPreKey(id, t) => DbSetKyber(Put(dbKyber, id, Rowed(t, FALSE)))
BY DEF DbSaveSignedPreKey, DbSaveKyberPreKey, Rowed

\* Marking a Kyber pre-key as used keeps the type of its table.
LEMMA MarkTyped ==
    ASSUME dbKyber \in KyberRows, NEW id \in KeyIds, DbMarkKyberPreKeyUsed(id)
    PROVE  dbKyber' \in KyberRows /\ TimesOf(dbKyber)' = TimesOf(dbKyber)
<1> DEFINE Row == [ts : Times, created_at : Seconds, is_current : BOOLEAN]
           Marked(x) == IF x = id THEN [dbKyber[x] EXCEPT !.is_current = FALSE]
                        ELSE dbKyber[x]
<1>1. DOMAIN dbKyber \subseteq KeyIds /\ dbKyber \in [DOMAIN dbKyber -> Row]
  BY TablesOfDef DEF KyberRows
<1>2. ASSUME NEW x \in DOMAIN dbKyber
      PROVE  Marked(x) \in Row /\ Marked(x).ts = dbKyber[x].ts
  <2>1. dbKyber[x] \in Row
    BY <1>1
  <2>2. /\ [dbKyber[x] EXCEPT !.is_current = FALSE] \in Row
        /\ [dbKyber[x] EXCEPT !.is_current = FALSE].ts = dbKyber[x].ts
    BY <2>1
  <2> QED BY <2>1, <2>2
<1>3. dbKyber' = [x \in DOMAIN dbKyber |-> Marked(x)]
  BY DEF DbMarkKyberPreKeyUsed, DbSetKyber
<1> HIDE DEF Row, Marked
<1>4. dbKyber' \in [DOMAIN dbKyber -> Row]
  BY <1>2, <1>3
<1>5. TimesOf(dbKyber)' = TimesOf(dbKyber)
  BY <1>2, <1>3 DEF TimesOf
<1>6. dbKyber' \in TablesOf(KeyIds, Row)
  BY <1>1, <1>4 DEF TablesOf
<1> QED BY <1>5, <1>6 DEF KyberRows, Row

\* The calls keep the types of the tables.
LEMMA DbTyped == DbTablesOK /\ [Next]_vars => DbTablesOK'
<1> SUFFICES ASSUME DbTablesOK, [Next]_vars PROVE DbTablesOK'
  OBVIOUS
<1> USE DEF DbTablesOK
<1>1. CASE SessionCalls
  <2>1. ASSUME NEW tab \in SessionRows, DbSetSessions(tab)
        PROVE  DbTablesOK'
    BY <2>1 DEF DbSetSessions, dbKeyTables, lifeCycle
  <2>2. /\ EmptyTable \in SessionRows
        /\ \A a \in Addresses, r \in SessionRecords : Put(dbSessions, a, r) \in SessionRows
        /\ \A a \in Addresses : Drop(dbSessions, a) \in SessionRows
    BY PutTyped, DropTyped, EmptyTyped DEF SessionRows
  <2> HIDE DEF DbTablesOK
  <2> QED BY <1>1, <2>1, <2>2
          DEF SessionCalls, DbStoreSession, DbDeleteSession, DbClearAllSessions
<1>2. CASE IdentityCalls
  <2>1. ASSUME NEW tab \in IdentityRows, DbSetIdentities(tab)
        PROVE  DbTablesOK'
    BY <2>1 DEF DbSetIdentities, dbKeyTables, lifeCycle
  <2>2. /\ EmptyTable \in IdentityRows
        /\ \A a \in Addresses, k \in IdentityKeys : Put(dbIdentities, a, k) \in IdentityRows
        /\ \A a \in Addresses : Drop(dbIdentities, a) \in IdentityRows
    BY PutTyped, DropTyped, EmptyTyped DEF IdentityRows
  <2>3. ASSUME NEW row \in LocalRows \cup {NoRow}, SetLocalRow(row)
        PROVE  DbTablesOK'
    BY <2>3 DEF SetLocalRow, dbPeers, dbKeyTables, lifeCycle
  <2>4. ASSUME \/ \E p \in KeyPairs : DbSetLocalIdentityKeyPair(p)
               \/ \E r \in RegistrationIds : DbSetLocalRegistrationId(r)
        PROVE  DbTablesOK'
    <3>1. localRow' \in LocalRows
      BY <2>4, LocalRowTyped
    <3>2. UNCHANGED <<schema, dbSessions, dbIdentities, dbPreKeys, dbSigned, dbKyber>>
      BY <2>4 DEF DbSetLocalIdentityKeyPair, DbSetLocalRegistrationId, SetLocalRow,
         dbPeers, dbKeyTables, lifeCycle
    <3> QED BY <3>1, <3>2
  <2> HIDE DEF DbTablesOK
  <2> QED BY <1>2, <2>1, <2>2, <2>3, <2>4
          DEF IdentityCalls, DbSaveIdentity, DbDeleteIdentity, DbClearAllIdentities,
              DbClearLocalIdentity
<1>3. CASE PreKeyCalls
  <2>1. ASSUME NEW tab \in PreKeyRows, DbSetPreKeys(tab)
        PROVE  DbTablesOK'
    BY <2>1 DEF DbSetPreKeys, dbPeers, lifeCycle
  <2>2. /\ EmptyTable \in PreKeyRows
        /\ \A id \in KeyIds, p \in PreKeyPairs : Put(dbPreKeys, id, p) \in PreKeyRows
        /\ \A id \in KeyIds : Drop(dbPreKeys, id) \in PreKeyRows
    BY PutTyped, DropTyped, EmptyTyped DEF PreKeyRows
  <2> HIDE DEF DbTablesOK
  <2> QED BY <1>3, <2>1, <2>2
          DEF PreKeyCalls, DbSavePreKey, DbRemovePreKey, DbDeletePreKey,
              DbClearAllPreKeys
<1>4. CASE SignedPreKeyCalls
  <2>1. ASSUME NEW tab \in SignedRows, DbSetSigned(tab)
        PROVE  DbTablesOK'
    BY <2>1 DEF DbSetSigned, dbPeers, lifeCycle
  <2>2. /\ EmptyTable \in SignedRows
        /\ \A id \in KeyIds, t \in Times : Put(dbSigned, id, Rowed(t, FALSE)) \in SignedRows
        /\ \A id \in KeyIds : Drop(dbSigned, id) \in SignedRows
    BY PutTyped, DropTyped, EmptyTyped, RowTyped DEF SignedRows
  <2> HIDE DEF DbTablesOK
  <2> QED BY <1>4, <2>1, <2>2, SavedRows
          DEF SignedPreKeyCalls, DbDeleteSignedPreKey, DbClearAllSignedPreKeys
<1>5. CASE KyberPreKeyCalls
  <2>1. ASSUME NEW tab \in KyberRows, DbSetKyber(tab)
        PROVE  DbTablesOK'
    BY <2>1 DEF DbSetKyber, dbPeers, lifeCycle
  <2>2. /\ EmptyTable \in KyberRows
        /\ \A id \in KeyIds, t \in Times : Put(dbKyber, id, Rowed(t, FALSE)) \in KyberRows
        /\ \A id \in KeyIds : Drop(dbKyber, id) \in KyberRows
    BY PutTyped, DropTyped, EmptyTyped, RowTyped DEF KyberRows
  <2>3. ASSUME NEW id \in KeyIds, DbMarkKyberPreKeyUsed(id)
        PROVE  DbTablesOK'
    <3>1. dbKyber' \in KyberRows
      BY <2>3, MarkTyped
    <3>2. UNCHANGED <<schema, dbSessions, dbIdentities, localRow, dbPreKeys, dbSigned>>
      BY <2>3 DEF DbMarkKyberPreKeyUsed, DbSetKyber, dbPeers, lifeCycle
    <3> QED BY <3>1, <3>2
  <2> HIDE DEF DbTablesOK
  <2> QED BY <1>5, <2>1, <2>2, <2>3, SavedRows
          DEF KyberPreKeyCalls, DbDeleteKyberPreKey, DbClearAllKyberPreKeys
<1>6. CASE LifeCycle
  <2>1. schema' \in SchemaRows
    <3>1. \/ schema' = schema
          \/ schema' = Append(schema, 1)
          \/ \E v \in Versions : schema' = [i \in DOMAIN schema |-> v]
      BY <1>6 DEF LifeCycle, DbNew, DbInitializeSchema, DbInitializeFails, DbClose,
         InitializeSchemaInfo, UpdateSchemaVersion, AddSchemaRow
    <3>2. schema \in Seq(Versions) /\ 1 \in Versions
      BY SchemaAssumption DEF SchemaRows, SchemaAssumption
    <3>3. Append(schema, 1) \in Seq(Versions)
      BY <3>2
    <3>4. ASSUME NEW v \in Versions PROVE [i \in DOMAIN schema |-> v] \in Seq(Versions)
      BY <3>2
    <3> QED BY <3>1, <3>2, <3>3, <3>4 DEF SchemaRows
  <2>2. UNCHANGED <<dbSessions, dbIdentities, localRow, dbPreKeys, dbSigned, dbKyber>>
    BY <1>6 DEF LifeCycle, DbNew, DbInitializeSchema, DbInitializeFails, DbClose,
       InitializeSchemaInfo, UpdateSchemaVersion, dbPeers, dbKeyTables
  <2> QED BY <2>1, <2>2
<1>7. CASE UNCHANGED vars
  BY <1>7 DEF vars, dbVars, dbPeers, dbKeyTables, lifeCycle
<1> QED BY <1>1, <1>2, <1>3, <1>4, <1>5, <1>6, <1>7 DEF Next

\* The marks of the storage object are truth values.
LEMMA MarksTyped ==
    attached \in BOOLEAN /\ isClosed \in BOOLEAN /\ [Next]_vars
        => attached' \in BOOLEAN /\ isClosed' \in BOOLEAN
<1> SUFFICES ASSUME attached \in BOOLEAN, isClosed \in BOOLEAN, [Next]_vars
             PROVE  attached' \in BOOLEAN /\ isClosed' \in BOOLEAN
  OBVIOUS
<1>1. CASE LifeCycle
  BY <1>1, Zenon
     DEF LifeCycle, DbNew, DbInitializeSchema, DbInitializeFails, DbClose,
         InitializeSchemaInfo, UpdateSchemaVersion
<1>2. CASE \/ SessionCalls \/ IdentityCalls
           \/ PreKeyCalls \/ SignedPreKeyCalls \/ KyberPreKeyCalls
  <2>1. UNCHANGED lifeCycle
    BY <1>2, DbKept
  <2> QED BY <2>1, Zenon DEF lifeCycle
<1>3. CASE UNCHANGED vars
  BY <1>3, Zenon DEF vars, dbVars, lifeCycle
<1> QED BY <1>1, <1>2, <1>3, Zenon DEF Next

\* Both back ends are well typed in every reachable state.
LEMMA TablesHold == Spec => []DbTablesOK
<1>1. Init => DbTablesOK
  BY EmptyTyped DEF Init, DbInit, DbTablesOK, SchemaRows, SessionRows, IdentityRows,
     PreKeyRows, SignedRows, KyberRows
<1> QED BY <1>1, DbTyped, PTL DEF Spec

\* The maps and the tables hold what their declarations allow.
THEOREM TypeCorrect == Spec => []TypeOK
<1>1. Init => MemTypeOK /\ attached \in BOOLEAN /\ isClosed \in BOOLEAN
  BY EmptyTyped DEF Init, MemInit, DbInit, MemTypeOK
<1>2. /\ MemTypeOK
      /\ DbTablesOK
      /\ attached \in BOOLEAN /\ isClosed \in BOOLEAN
      => TypeOK
  BY Zenon DEF TypeOK, DbTypeOK, DbTablesOK
<1> DEFINE Marks == attached \in BOOLEAN /\ isClosed \in BOOLEAN
<1>3. Init => Marks
  BY <1>1
<1>4. Marks /\ [Next]_vars => Marks'
  BY MarksTyped
<1>5. MemTypeOK /\ DbTablesOK /\ Marks => TypeOK
  BY <1>2
<1> QED BY <1>1, <1>3, <1>4, <1>5, MemTyped, TablesHold, PTL DEF Spec

-----------------------------------------------------------------------------
(* The SQLite back end implements the traits.                              *)

\* The instances of the traits have the same tables.
LEMMA DbTraitsTables ==
    /\ DbTraits!Addresses = Addresses
    /\ DbTraits!EmptyTable = EmptyTable
    /\ \A tab, id, row : DbTraits!Put(tab, id, row) = Put(tab, id, row)
    /\ \A tab, id : DbTraits!Drop(tab, id) = Drop(tab, id)
BY DEF DbTraits!Addresses, Addresses, DbTraits!EmptyTable, EmptyTable,
       DbTraits!Put, Put, DbTraits!Drop, Drop

\* The times of a table of signed or Kyber pre-keys, as its rows change.
LEMMA TimesOfTables ==
    /\ TimesOf(EmptyTable) = EmptyTable
    /\ \A tab, id : TimesOf(Drop(tab, id)) = Drop(TimesOf(tab), id)
    /\ \A tab, id, t, b : TimesOf(Put(tab, id, Rowed(t, b))) = Put(TimesOf(tab), id, t)
<1>1. TimesOf(EmptyTable) = EmptyTable
  BY DEF TimesOf, EmptyTable
<1>2. ASSUME NEW tab, NEW id
      PROVE  TimesOf(Drop(tab, id)) = Drop(TimesOf(tab), id)
  BY DEF TimesOf, Drop
<1>3. ASSUME NEW tab, NEW id, NEW t, NEW b
      PROVE  TimesOf(Put(tab, id, Rowed(t, b))) = Put(TimesOf(tab), id, t)
  <2>1. Rowed(t, b).ts = t
    BY DEF Rowed
  <2> HIDE DEF Rowed
  <2> QED BY <2>1 DEF TimesOf, Put
<1> QED BY <1>1, <1>2, <1>3

\* The pair and the registration id that the traits see in a row.
PairIn(row) == IF row = NoRow \/ row.private_key = EmptyBlob THEN Unset
               ELSE row.private_key

RegistrationIn(row) == IF row = NoRow THEN Unset ELSE row.registration_id

\* They are what the reads answer.
LEMMA LocalSeen ==
    /\ (IF DbGetIdentityKeyPair = {} THEN Unset ELSE localRow.private_key)
           = PairIn(localRow)
    /\ (IF localRow = NoRow THEN Unset ELSE localRow.registration_id)
           = RegistrationIn(localRow)
    /\ (IF DbGetIdentityKeyPair = {} THEN Unset ELSE localRow.private_key)'
           = PairIn(localRow)'
    /\ (IF localRow = NoRow THEN Unset ELSE localRow.registration_id)'
           = RegistrationIn(localRow)'
BY DEF DbGetIdentityKeyPair, PairIn, RegistrationIn

\* What the tables hold while all but some of them stay.
LEMMA LocalSeenKept ==
    UNCHANGED localRow =>
        /\ (IF DbGetIdentityKeyPair = {} THEN Unset ELSE localRow.private_key)'
               = (IF DbGetIdentityKeyPair = {} THEN Unset ELSE localRow.private_key)
        /\ (IF localRow = NoRow THEN Unset ELSE localRow.registration_id)'
               = (IF localRow = NoRow THEN Unset ELSE localRow.registration_id)
BY DEF DbGetIdentityKeyPair

\* The steps of the tables but that of the local identity.
LEMMA DbTableSteps ==
    ASSUME NEW STATE tab
    PROVE  /\ DbSetSessions(tab) => DbTraits!SetSessions(tab)
           /\ DbSetIdentities(tab) => DbTraits!SetIdentities(tab)
           /\ DbSetPreKeys(tab) => DbTraits!SetPreKeys(tab)
           /\ DbSetSigned(tab) => DbTraits!SetSigned(TimesOf(tab))
           /\ DbSetKyber(tab) => DbTraits!SetKyber(TimesOf(tab))
<1> USE LocalSeenKept
    DEF DbTraits!local, DbTraits!keyTables, dbPeers, dbKeyTables, lifeCycle, TimesOf
<1>1. DbSetSessions(tab) => DbTraits!SetSessions(tab)
  BY DEF DbSetSessions, DbTraits!SetSessions
<1>2. DbSetIdentities(tab) => DbTraits!SetIdentities(tab)
  BY DEF DbSetIdentities, DbTraits!SetIdentities
<1>3. DbSetPreKeys(tab) => DbTraits!SetPreKeys(tab)
  BY DEF DbSetPreKeys, DbTraits!SetPreKeys
<1>4. DbSetSigned(tab) => DbTraits!SetSigned(TimesOf(tab))
  BY DEF DbSetSigned, DbTraits!SetSigned
<1>5. DbSetKyber(tab) => DbTraits!SetKyber(TimesOf(tab))
  BY DEF DbSetKyber, DbTraits!SetKyber
<1> QED BY <1>1, <1>2, <1>3, <1>4, <1>5

\* Writing one column of the row of local_identity keeps the other, also when
\* there was no row; a key that was never written reads as no key.
LEMMA DbLocalSteps ==
    ASSUME DbTablesOK
    PROVE  /\ \A p \in KeyPairs :
                 DbSetLocalIdentityKeyPair(p) => DbTraits!SetLocalIdentityKeyPair(p)
           /\ \A r \in RegistrationIds :
                 DbSetLocalRegistrationId(r) => DbTraits!SetLocalRegistrationId(r)
           /\ DbClearLocalIdentity => DbTraits!ClearLocalIdentity
<1> DEFINE Others == /\ UNCHANGED <<dbSessions, dbIdentities, dbPreKeys>>
                     /\ UNCHANGED <<TimesOf(dbSigned), TimesOf(dbKyber)>>
<1>1. ASSUME NEW STATE row, SetLocalRow(row)
      PROVE  Others /\ localRow' = row
  BY <1>1 DEF SetLocalRow, dbPeers, dbKeyTables, TimesOf
<1>2. localRow # NoRow => /\ localRow.registration_id \in Nat
                          /\ localRow.private_key \in KeyPairs \cup {EmptyBlob}
  <2>1. localRow \in LocalRows \cup {NoRow}
    BY DEF DbTablesOK
  <2>2. RegistrationIds \cup {0} \subseteq Nat
    BY LocalAssumption DEF LocalAssumption
  <2> QED BY <2>1, <2>2 DEF LocalRows
<1>3. \A n \in Nat, k \in KeyPairs \cup {EmptyBlob} :
         [registration_id |-> n, private_key |-> k] # NoRow
  BY SchemaAssumption DEF SchemaAssumption
<1> HIDE DEF Others
<1>4. ASSUME NEW p \in KeyPairs, DbSetLocalIdentityKeyPair(p)
      PROVE  DbTraits!SetLocalIdentityKeyPair(p)
  <2>1. /\ PairIn(localRow)' = p
        /\ RegistrationIn(localRow)' = IF localRow = NoRow THEN 0
                                       ELSE RegistrationIn(localRow)
    <3>1. PICK n \in Nat : /\ n = IF localRow = NoRow THEN 0
                                  ELSE localRow.registration_id
                           /\ localRow' = [private_key |-> p, registration_id |-> n]
      BY <1>2, <1>4 DEF DbSetLocalIdentityKeyPair, SetLocalRow
    <3>2. localRow' # NoRow /\ p # EmptyBlob
      BY <1>3, <3>1, SchemaAssumption DEF SchemaAssumption
    <3> QED BY <3>1, <3>2 DEF PairIn, RegistrationIn
  <2>2. Others
    BY <1>1, <1>4 DEF DbSetLocalIdentityKeyPair
  <2>3. localRow = NoRow => RegistrationIn(localRow) = Unset
    BY DEF RegistrationIn
  <2> QED BY <2>1, <2>2, <2>3, LocalSeen
          DEF Others, DbTraits!SetLocalIdentityKeyPair, DbTraits!keyTables
<1>5. ASSUME NEW r \in RegistrationIds, DbSetLocalRegistrationId(r)
      PROVE  DbTraits!SetLocalRegistrationId(r)
  <2>1. /\ PairIn(localRow)' = PairIn(localRow)
        /\ RegistrationIn(localRow)' = r
    <3>1. PICK k \in KeyPairs \cup {EmptyBlob} :
             /\ k = IF localRow = NoRow THEN EmptyBlob ELSE localRow.private_key
             /\ localRow' = [registration_id |-> r, private_key |-> k]
      BY <1>2, <1>5 DEF DbSetLocalRegistrationId, SetLocalRow
    <3>2. localRow' # NoRow
      BY <1>3, <3>1, LocalAssumption DEF LocalAssumption
    <3> QED BY <3>1, <3>2 DEF PairIn, RegistrationIn
  <2>2. Others
    BY <1>1, <1>5 DEF DbSetLocalRegistrationId
  <2> QED BY <2>1, <2>2, LocalSeen
          DEF Others, DbTraits!SetLocalRegistrationId, DbTraits!keyTables
<1>6. ASSUME DbClearLocalIdentity
      PROVE  DbTraits!ClearLocalIdentity
  <2>1. Others /\ localRow' = NoRow
    BY <1>1, <1>6 DEF DbClearLocalIdentity
  <2>2. PairIn(localRow)' = Unset /\ RegistrationIn(localRow)' = Unset
    BY <2>1 DEF PairIn, RegistrationIn
  <2> QED BY <2>1, <2>2, LocalSeen
          DEF Others, DbTraits!ClearLocalIdentity, DbTraits!keyTables
<1> QED BY <1>4, <1>5, <1>6

\* A call to the SQLite back end is the call of the traits, or nothing.
LEMMA DbSteps ==
    ASSUME DbTablesOK, [Next]_vars
    PROVE  [DbTraits!Next]_(DbTraits!traitVars)
<1> USE DbTraitsTables
<1>1. CASE SessionCalls
  BY <1>1, DbTableSteps
     DEF SessionCalls, DbStoreSession, DbDeleteSession, DbClearAllSessions,
         DbTraits!StoreSession, DbTraits!DeleteSession, DbTraits!ClearAllSessions,
         DbTraits!Next
<1>2. CASE IdentityCalls
  BY <1>2, DbTableSteps, DbLocalSteps
     DEF IdentityCalls, DbSaveIdentity, DbDeleteIdentity, DbClearAllIdentities,
         DbTraits!SaveIdentity, DbTraits!DeleteIdentity, DbTraits!ClearAllIdentities,
         DbTraits!Next
<1>3. CASE PreKeyCalls
  BY <1>3, DbTableSteps
     DEF PreKeyCalls, DbSavePreKey, DbRemovePreKey, DbDeletePreKey, DbClearAllPreKeys,
         DbTraits!SavePreKey, DbTraits!DeletePreKey, DbTraits!ClearAllPreKeys,
         DbTraits!Next
<1>4. CASE SignedPreKeyCalls
  <2>1. ASSUME NEW id \in KeyIds, NEW t \in Times, DbSaveSignedPreKey(id, t)
        PROVE  DbTraits!SaveSignedPreKey(id, t)
    <3>1. DbTraits!SetSigned(TimesOf(Put(dbSigned, id, Rowed(t, FALSE))))
      BY <2>1, SavedRows, DbTableSteps
    <3> QED BY <3>1, TimesOfTables DEF DbTraits!SaveSignedPreKey
  <2>2. ASSUME NEW id \in KeyIds, DbDeleteSignedPreKey(id)
        PROVE  DbTraits!DeleteSignedPreKey(id)
    <3>1. DbTraits!SetSigned(TimesOf(Drop(dbSigned, id)))
      BY <2>2, DbTableSteps DEF DbDeleteSignedPreKey
    <3> QED BY <3>1, TimesOfTables DEF DbTraits!DeleteSignedPreKey
  <2>3. ASSUME DbClearAllSignedPreKeys
        PROVE  DbTraits!ClearAllSignedPreKeys
    <3>1. DbTraits!SetSigned(TimesOf(EmptyTable))
      BY <2>3, DbTableSteps DEF DbClearAllSignedPreKeys
    <3> QED BY <3>1, TimesOfTables DEF DbTraits!ClearAllSignedPreKeys
  <2> QED BY <1>4, <2>1, <2>2, <2>3 DEF SignedPreKeyCalls, DbTraits!Next
<1>5. CASE KyberPreKeyCalls
  <2>1. ASSUME NEW id \in KeyIds, NEW t \in Times, DbSaveKyberPreKey(id, t)
        PROVE  DbTraits!SaveKyberPreKey(id, t)
    <3>1. DbTraits!SetKyber(TimesOf(Put(dbKyber, id, Rowed(t, FALSE))))
      BY <2>1, SavedRows, DbTableSteps
    <3> QED BY <3>1, TimesOfTables DEF DbTraits!SaveKyberPreKey
  <2>2. ASSUME NEW id \in KeyIds, DbDeleteKyberPreKey(id)
        PROVE  DbTraits!DeleteKyberPreKey(id)
    <3>1. DbTraits!SetKyber(TimesOf(Drop(dbKyber, id)))
      BY <2>2, DbTableSteps DEF DbDeleteKyberPreKey
    <3> QED BY <3>1, TimesOfTables DEF DbTraits!DeleteKyberPreKey
  <2>3. ASSUME DbClearAllKyberPreKeys
        PROVE  DbTraits!ClearAllKyberPreKeys
    <3>1. DbTraits!SetKyber(TimesOf(EmptyTable))
      BY <2>3, DbTableSteps DEF DbClearAllKyberPreKeys
    <3> QED BY <3>1, TimesOfTables DEF DbTraits!ClearAllKyberPreKeys
  <2>4. ASSUME NEW id \in KeyIds, DbMarkKyberPreKeyUsed(id)
        PROVE  UNCHANGED DbTraits!traitVars
    <3>1. TimesOf(dbKyber)' = TimesOf(dbKyber)
      BY <2>4, MarkTyped DEF DbTablesOK
    <3>2. UNCHANGED <<dbSessions, dbIdentities, localRow, dbPreKeys, TimesOf(dbSigned)>>
      BY <2>4 DEF DbMarkKyberPreKeyUsed, DbSetKyber, dbPeers, TimesOf
    <3> QED BY <3>1, <3>2, LocalSeenKept
            DEF DbTraits!traitVars, DbTraits!local, DbTraits!keyTables
  <2> QED BY <1>5, <2>1, <2>2, <2>3, <2>4 DEF KyberPreKeyCalls, DbTraits!Next
<1>6. CASE LifeCycle \/ UNCHANGED vars
  <2>1. UNCHANGED <<dbSessions, dbIdentities, localRow, dbPreKeys,
                    TimesOf(dbSigned), TimesOf(dbKyber)>>
    BY <1>6 DEF LifeCycle, DbNew, DbInitializeSchema, DbInitializeFails, DbClose,
       InitializeSchemaInfo, UpdateSchemaVersion, vars, dbVars, dbPeers,
       dbKeyTables, TimesOf
  <2> QED BY <2>1, LocalSeenKept
          DEF DbTraits!traitVars, DbTraits!local, DbTraits!keyTables
<1> QED BY <1>1, <1>2, <1>3, <1>4, <1>5, <1>6 DEF Next

\* However the storage object is opened, half initialised, closed and replaced,
\* the SQLite back end implements the traits.
THEOREM SqliteImplementsTraitsHolds == Spec => SqliteImplementsTraits
<1>1. Init => DbTraits!Init
  BY TimesOfTables, DbTraitsTables, LocalSeen
     DEF Init, DbInit, DbTraits!Init, PairIn, RegistrationIn
<1> QED BY <1>1, DbSteps, TablesHold, PTL
        DEF Spec, SqliteImplementsTraits, DbTraits!Spec

-----------------------------------------------------------------------------
(* What stays as it was.                                                   *)

\* Adding rows to schema_info does not change the version that is read.
THEOREM SchemaVersionKeptHolds == Spec => SchemaVersionKept
<1> DEFINE Kept == Len(schema') > Len(schema) /\ DbSchemaVersion # {}
                      => DbSchemaVersion' = DbSchemaVersion
<1>1. DbTablesOK /\ [Next]_vars => Kept
  <2> SUFFICES ASSUME DbTablesOK, [Next]_vars PROVE Kept
    OBVIOUS
  <2>1. schema \in Seq(Versions)
    BY DEF DbTablesOK, SchemaRows
  <2>2. CASE schema' = Append(schema, 1)
    <3>1. CASE Len(schema) = 0
      BY <2>1, <3>1 DEF DbSchemaVersion
    <3>2. CASE Len(schema) # 0
      <4>1. /\ 1 \in DOMAIN schema /\ 1 \in DOMAIN schema'
            /\ schema'[1] = schema[1]
        BY <2>1, <2>2, <3>2, SchemaAssumption DEF SchemaAssumption
      <4> QED BY <4>1 DEF DbSchemaVersion
    <3> QED BY <3>1, <3>2
  <2>3. CASE \E v \in Versions : UpdateSchemaVersion(v)
    <3>1. PICK v \in Versions : schema' = [i \in DOMAIN schema |-> v]
      BY <2>3 DEF UpdateSchemaVersion
    <3>2. Len(schema') = Len(schema) /\ Len(schema) \in Nat
      BY <2>1, <3>1
    <3> QED BY <3>2
  <2>4. CASE schema' = schema
    BY <2>4 DEF DbSchemaVersion
  <2>5. LifeCycle => \/ schema' = Append(schema, 1)
                     \/ schema' = schema
                     \/ \E v \in Versions : UpdateSchemaVersion(v)
    BY DEF LifeCycle, DbNew, DbInitializeSchema, DbInitializeFails, DbClose,
       InitializeSchemaInfo, AddSchemaRow
  <2>6. \/ SessionCalls \/ IdentityCalls
        \/ PreKeyCalls \/ SignedPreKeyCalls \/ KyberPreKeyCalls
        => schema' = schema
    BY DbKept DEF lifeCycle
  <2>7. UNCHANGED vars => schema' = schema
    BY DEF vars, dbVars, lifeCycle
  <2> QED BY <2>2, <2>3, <2>4, <2>5, <2>6, <2>7 DEF Next
<1>2. DbTablesOK /\ [Next]_vars => [Kept]_vars
  BY <1>1
<1> QED BY <1>2, TablesHold, PTL DEF Spec, SchemaVersionKept

\* Nothing is written through a closed storage object to the tables that only
\* the accessors reach.
THEOREM FrozenOnceClosedHolds == Spec => FrozenOnceClosed
<1> DEFINE Frozen == isClosed /\ isClosed' => UNCHANGED <<localRow, dbSigned>>
<1>1. [Next]_vars => Frozen
  <2>1. LifeCycle => UNCHANGED <<localRow, dbSigned>>
    BY DbKept DEF dbKeyTables
  <2>2. SessionCalls \/ PreKeyCalls \/ KyberPreKeyCalls
           => UNCHANGED <<localRow, dbSigned>>
    BY DbKept DEF dbKeyTables
  <2>3. IdentityCalls => ~isClosed \/ UNCHANGED <<localRow, dbSigned>>
    BY Zenon DEF IdentityCalls, DbSaveIdentity, DbDeleteIdentity, DbClearAllIdentities,
       DbSetIdentities, DbSetLocalIdentityKeyPair, DbSetLocalRegistrationId,
       DbClearLocalIdentity, SetLocalRow, Accessible, dbKeyTables
  <2>4. SignedPreKeyCalls => ~isClosed
    BY Zenon DEF SignedPreKeyCalls, DbSaveSignedPreKey, DbDeleteSignedPreKey,
       DbClearAllSignedPreKeys, Accessible
  <2>5. UNCHANGED vars => UNCHANGED <<localRow, dbSigned>>
    BY DEF vars, dbVars, dbKeyTables
  <2> QED BY <2>1, <2>2, <2>3, <2>4, <2>5 DEF Next
<1>2. [Next]_vars => [Frozen]_vars
  BY <1>1
<1> QED BY <1>2, PTL DEF Spec, FrozenOnceClosed

-----------------------------------------------------------------------------
(* Given the same calls, the back ends answer the same.                    *)

\* A map and a table that hold the same by address, and as many rows.
Coupled(mem, db) ==
    /\ ByAddress(mem) = db
    /\ IsFiniteSet(DOMAIN mem) /\ IsFiniteSet(DOMAIN db)
    /\ Count(mem) = Count(db)

\* They do after a row is put into both or dropped from both.
LEMMA CoupledSteps ==
    ASSUME NEW mem, NEW db, Coupled(mem, db), NEW a \in Addresses, NEW row
    PROVE  /\ Coupled(Put(mem, AddressKey(a), row), Put(db, a, row))
           /\ Coupled(Drop(mem, AddressKey(a)), Drop(db, a))
<1>1. a \in DOMAIN db <=> AddressKey(a) \in DOMAIN mem
  BY DEF Coupled, ByAddress
<1>2. Coupled(Put(mem, AddressKey(a), row), Put(db, a, row))
  <2>1. /\ DOMAIN Put(mem, AddressKey(a), row) = DOMAIN mem \cup {AddressKey(a)}
        /\ DOMAIN Put(db, a, row) = DOMAIN db \cup {a}
    BY DEF Put
  <2>2. ByAddress(Put(mem, AddressKey(a), row)) = Put(db, a, row)
    BY ByAddressOfPut DEF Coupled
  <2> QED BY <1>1, <2>1, <2>2, FS_AddElement DEF Coupled, Count
<1>3. Coupled(Drop(mem, AddressKey(a)), Drop(db, a))
  <2>1. /\ DOMAIN Drop(mem, AddressKey(a)) = DOMAIN mem \ {AddressKey(a)}
        /\ DOMAIN Drop(db, a) = DOMAIN db \ {a}
    BY DEF Drop
  <2>2. ByAddress(Drop(mem, AddressKey(a))) = Drop(db, a)
    BY ByAddressOfDrop DEF Coupled
  <2>3. /\ IsFiniteSet(DOMAIN mem) /\ IsFiniteSet(DOMAIN db)
        /\ Cardinality(DOMAIN mem) = Cardinality(DOMAIN db)
    BY DEF Coupled, Count
  <2>4. /\ IsFiniteSet(DOMAIN mem \ {AddressKey(a)})
        /\ Cardinality(DOMAIN mem \ {AddressKey(a)})
               = IF AddressKey(a) \in DOMAIN mem THEN Cardinality(DOMAIN mem) - 1
                 ELSE Cardinality(DOMAIN mem)
    BY <2>3, FS_RemoveElement
  <2>5. /\ IsFiniteSet(DOMAIN db \ {a})
        /\ Cardinality(DOMAIN db \ {a})
               = IF a \in DOMAIN db THEN Cardinality(DOMAIN db) - 1
                 ELSE Cardinality(DOMAIN db)
    BY <2>3, FS_RemoveElement
  <2>6. Cardinality(DOMAIN mem \ {AddressKey(a)}) = Cardinality(DOMAIN db \ {a})
    BY <1>1, <2>3, <2>4, <2>5
  <2> QED BY <2>1, <2>2, <2>4, <2>5, <2>6 DEF Coupled, Count
<1> QED BY <1>2, <1>3

\* ... and when both are empty.
LEMMA CoupledEmpty == Coupled(EmptyTable, EmptyTable)
<1>1. DOMAIN EmptyTable = {}
  BY DEF EmptyTable
<1> QED BY <1>1, ByAddressOfEmpty, FS_EmptySet DEF Coupled, Count

\* What the two back ends hold, while both are given the same calls.
CoupledPeers ==
    /\ Coupled(memSessions, dbSessions)
    /\ Coupled(memIdentities, dbIdentities)

CoupledLocal ==
    /\ memPair = PairIn(localRow)
    /\ memRegistration = Unset \/ memRegistration = RegistrationIn(localRow)

CoupledKeys ==
    /\ memPreKeys = dbPreKeys
    /\ memSigned = TimesOf(dbSigned)
    /\ memKyber = TimesOf(dbKyber)

\* The calls about peers keep CoupledPeers.
LEMMA CoupledPeersInductive == CoupledPeers /\ [Next]_vars => CoupledPeers'
<1> SUFFICES ASSUME CoupledPeers, [Next]_vars PROVE CoupledPeers'
  OBVIOUS
<1>1. CASE SessionCalls
  <2>1. PICK mem, db : /\ Coupled(mem, db)
                       /\ MemSetSessions(mem) /\ DbSetSessions(db)
    BY <1>1, CoupledSteps, CoupledEmpty
       DEF CoupledPeers, SessionCalls, MemStoreSession, MemDeleteSession,
           MemClearAllSessions, DbStoreSession, DbDeleteSession, DbClearAllSessions
  <2>2. /\ memSessions' = mem /\ dbSessions' = db
        /\ UNCHANGED <<memIdentities, dbIdentities>>
    BY <2>1 DEF MemSetSessions, DbSetSessions
  <2> QED BY <2>1, <2>2 DEF CoupledPeers, Coupled, ByAddress, Count
<1>2. CASE IdentityCalls
  <2>1. CASE UNCHANGED <<memSessions, memIdentities, dbSessions, dbIdentities>>
    BY <2>1 DEF CoupledPeers, Coupled, ByAddress, Count
  <2>2. ASSUME NEW mem, NEW db, Coupled(mem, db),
               MemSetIdentities(mem), DbSetIdentities(db)
        PROVE  CoupledPeers'
    <3>1. /\ memIdentities' = mem /\ dbIdentities' = db
          /\ UNCHANGED <<memSessions, dbSessions>>
      BY <2>2 DEF MemSetIdentities, DbSetIdentities
    <3> QED BY <2>2, <3>1 DEF CoupledPeers, Coupled, ByAddress, Count
  <2>3. \/ UNCHANGED <<memSessions, memIdentities, dbSessions, dbIdentities>>
        \/ \E mem, db : Coupled(mem, db) /\ MemSetIdentities(mem) /\ DbSetIdentities(db)
    <3>1. ASSUME \/ \E p \in KeyPairs : /\ MemSetLocalIdentityKeyPair(p)
                                        /\ DbSetLocalIdentityKeyPair(p)
                 \/ \E r \in RegistrationIds : /\ MemSetLocalRegistrationId(r)
                                               /\ DbSetLocalRegistrationId(r)
                 \/ MemClearLocalIdentity /\ DbClearLocalIdentity
          PROVE  UNCHANGED <<memSessions, memIdentities, dbSessions, dbIdentities>>
      BY <3>1 DEF MemSetLocalIdentityKeyPair, DbSetLocalIdentityKeyPair,
         MemSetLocalRegistrationId, DbSetLocalRegistrationId, MemClearLocalIdentity,
         DbClearLocalIdentity, SetLocalRow, dbPeers
    <3> QED BY <1>2, <3>1, CoupledSteps, CoupledEmpty
            DEF CoupledPeers, IdentityCalls, MemSaveIdentity, MemDeleteIdentity,
                MemClearAllIdentities, DbSaveIdentity, DbDeleteIdentity,
                DbClearAllIdentities
  <2> QED BY <2>1, <2>2, <2>3
<1>3. CASE PreKeyCalls \/ SignedPreKeyCalls \/ KyberPreKeyCalls \/ LifeCycle
           \/ UNCHANGED vars
  <2>1. UNCHANGED <<memSessions, memIdentities>>
    BY <1>3, MemKept DEF vars, memVars
  <2>2. UNCHANGED dbPeers
    BY <1>3, DbKept DEF vars, dbVars
  <2> QED BY <2>1, <2>2 DEF dbPeers, CoupledPeers, Coupled, ByAddress, Count
<1> QED BY <1>1, <1>2, <1>3 DEF Next

\* The calls about the local identity keep CoupledLocal.
LEMMA CoupledLocalInductive ==
    DbTablesOK /\ CoupledLocal /\ [Next]_vars => CoupledLocal'
<1> SUFFICES ASSUME DbTablesOK, CoupledLocal, [Next]_vars PROVE CoupledLocal'
  OBVIOUS
<1>1. ASSUME UNCHANGED <<memPair, memRegistration, localRow>>
      PROVE  CoupledLocal'
  BY <1>1 DEF CoupledLocal, PairIn, RegistrationIn
<1>2. CASE IdentityCalls
  <2>1. ASSUME NEW p \in KeyPairs, MemSetLocalIdentityKeyPair(p),
               DbSetLocalIdentityKeyPair(p)
        PROVE  CoupledLocal'
    <3>1. /\ PairIn(localRow)' = p
          /\ \/ RegistrationIn(localRow)' = RegistrationIn(localRow)
             \/ RegistrationIn(localRow) = Unset
      BY <2>1, DbLocalSteps, LocalSeen DEF DbTraits!SetLocalIdentityKeyPair
    <3> QED BY <2>1, <3>1 DEF CoupledLocal, MemSetLocalIdentityKeyPair
  <2>2. ASSUME NEW r \in RegistrationIds, MemSetLocalRegistrationId(r),
               DbSetLocalRegistrationId(r)
        PROVE  CoupledLocal'
    <3>1. /\ PairIn(localRow)' = PairIn(localRow)
          /\ RegistrationIn(localRow)' = r
      BY <2>2, DbLocalSteps, LocalSeen DEF DbTraits!SetLocalRegistrationId
    <3> QED BY <2>2, <3>1 DEF CoupledLocal, MemSetLocalRegistrationId
  <2>3. ASSUME MemClearLocalIdentity, DbClearLocalIdentity
        PROVE  CoupledLocal'
    BY <2>3 DEF CoupledLocal, MemClearLocalIdentity, DbClearLocalIdentity,
       SetLocalRow, PairIn
  <2>4. ASSUME \/ \E a \in Addresses, k \in IdentityKeys :
                     MemSaveIdentity(a, k) /\ DbSaveIdentity(a, k)
               \/ \E a \in Addresses : MemDeleteIdentity(a) /\ DbDeleteIdentity(a)
               \/ MemClearAllIdentities /\ DbClearAllIdentities
        PROVE  UNCHANGED <<memPair, memRegistration, localRow>>
    BY <2>4 DEF MemSaveIdentity, MemDeleteIdentity, MemClearAllIdentities,
       MemSetIdentities, DbSaveIdentity, DbDeleteIdentity, DbClearAllIdentities,
       DbSetIdentities, memLocal
  <2> QED BY <1>1, <1>2, <2>1, <2>2, <2>3, <2>4 DEF IdentityCalls
<1>3. CASE SessionCalls \/ PreKeyCalls \/ SignedPreKeyCalls \/ KyberPreKeyCalls
           \/ LifeCycle \/ UNCHANGED vars
  <2>1. UNCHANGED memLocal
    BY <1>3, MemKept DEF vars, memVars
  <2>2. UNCHANGED localRow
    BY <1>3, DbKept DEF vars, dbVars
  <2> QED BY <1>1, <2>1, <2>2 DEF memLocal
<1> QED BY <1>2, <1>3 DEF Next

\* The calls about pre-keys keep CoupledKeys.
LEMMA CoupledKeysInductive ==
    DbTablesOK /\ CoupledKeys /\ [Next]_vars => CoupledKeys'
<1> SUFFICES ASSUME DbTablesOK, CoupledKeys, [Next]_vars PROVE CoupledKeys'
  OBVIOUS
<1>1. CASE PreKeyCalls
  BY <1>1
     DEF CoupledKeys, PreKeyCalls, MemSavePreKey, MemRemovePreKey, MemDeletePreKey,
         MemClearAllPreKeys, MemSetPreKeys, DbSavePreKey, DbRemovePreKey,
         DbDeletePreKey, DbClearAllPreKeys, DbSetPreKeys, TimesOf
<1>2. CASE SignedPreKeyCalls
  <2>1. ASSUME NEW STATE mem, NEW STATE db, mem = TimesOf(db),
               MemSetSigned(mem), DbSetSigned(db)
        PROVE  CoupledKeys'
    BY <2>1 DEF CoupledKeys, MemSetSigned, DbSetSigned, TimesOf
  <2>2. ASSUME NEW id \in KeyIds, NEW t \in Times,
               MemSaveSignedPreKey(id, t), DbSaveSignedPreKey(id, t)
        PROVE  CoupledKeys'
    <3>1. /\ MemSetSigned(Put(memSigned, id, t))
          /\ DbSetSigned(Put(dbSigned, id, Rowed(t, FALSE)))
      BY <2>2, SavedRows DEF MemSaveSignedPreKey
    <3>2. Put(memSigned, id, t) = TimesOf(Put(dbSigned, id, Rowed(t, FALSE)))
      BY TimesOfTables DEF CoupledKeys
    <3> QED BY <2>1, <3>1, <3>2
  <2>3. ASSUME NEW id \in KeyIds, MemDeleteSignedPreKey(id), DbDeleteSignedPreKey(id)
        PROVE  CoupledKeys'
    <3>1. Drop(memSigned, id) = TimesOf(Drop(dbSigned, id))
      BY TimesOfTables DEF CoupledKeys
    <3> QED BY <2>1, <2>3, <3>1 DEF MemDeleteSignedPreKey, DbDeleteSignedPreKey
  <2>4. ASSUME MemClearAllSignedPreKeys, DbClearAllSignedPreKeys
        PROVE  CoupledKeys'
    BY <2>1, <2>4, TimesOfTables DEF MemClearAllSignedPreKeys, DbClearAllSignedPreKeys
  <2> QED BY <1>2, <2>2, <2>3, <2>4 DEF SignedPreKeyCalls
<1>3. CASE KyberPreKeyCalls
  <2>1. ASSUME NEW STATE mem, NEW STATE db, mem = TimesOf(db),
               MemSetKyber(mem), DbSetKyber(db)
        PROVE  CoupledKeys'
    BY <2>1 DEF CoupledKeys, MemSetKyber, DbSetKyber, TimesOf
  <2>2. ASSUME NEW id \in KeyIds, NEW t \in Times,
               MemSaveKyberPreKey(id, t), DbSaveKyberPreKey(id, t)
        PROVE  CoupledKeys'
    <3>1. /\ MemSetKyber(Put(memKyber, id, t))
          /\ DbSetKyber(Put(dbKyber, id, Rowed(t, FALSE)))
      BY <2>2, SavedRows DEF MemSaveKyberPreKey
    <3>2. Put(memKyber, id, t) = TimesOf(Put(dbKyber, id, Rowed(t, FALSE)))
      BY TimesOfTables DEF CoupledKeys
    <3> QED BY <2>1, <3>1, <3>2
  <2>3. ASSUME NEW id \in KeyIds, MemDeleteKyberPreKey(id), DbDeleteKyberPreKey(id)
        PROVE  CoupledKeys'
    <3>1. Drop(memKyber, id) = TimesOf(Drop(dbKyber, id))
      BY TimesOfTables DEF CoupledKeys
    <3> QED BY <2>1, <2>3, <3>1 DEF MemDeleteKyberPreKey, DbDeleteKyberPreKey
  <2>4. ASSUME MemClearAllKyberPreKeys, DbClearAllKyberPreKeys
        PROVE  CoupledKeys'
    BY <2>1, <2>4, TimesOfTables DEF MemClearAllKyberPreKeys, DbClearAllKyberPreKeys
  <2>5. ASSUME NEW id \in KeyIds, MemMarkKyberPreKeyUsed(id), DbMarkKyberPreKeyUsed(id)
        PROVE  CoupledKeys'
    <3>1. TimesOf(dbKyber)' = TimesOf(dbKyber)
      BY <2>5, MarkTyped DEF DbTablesOK
    <3>2. UNCHANGED <<memPreKeys, memSigned, memKyber, dbPreKeys, dbSigned>>
      BY <2>5 DEF MemMarkKyberPreKeyUsed, memVars, memKeyTables,
         DbMarkKyberPreKeyUsed, DbSetKyber
    <3> QED BY <3>1, <3>2 DEF CoupledKeys, TimesOf
  <2> QED BY <1>3, <2>2, <2>3, <2>4, <2>5 DEF KyberPreKeyCalls
<1>4. CASE SessionCalls \/ IdentityCalls \/ LifeCycle \/ UNCHANGED vars
  <2>1. UNCHANGED memKeyTables
    BY <1>4, MemKept DEF vars, memVars
  <2>2. UNCHANGED dbKeyTables
    BY <1>4, DbKept DEF vars, dbVars
  <2> QED BY <2>1, <2>2 DEF memKeyTables, dbKeyTables, CoupledKeys, TimesOf
<1> QED BY <1>1, <1>2, <1>3, <1>4 DEF Next

\* What is held alike is answered alike: peers.
LEMMA SamePeerAnswers ==
    ASSUME NEW mem, NEW db, Coupled(mem, db)
    PROVE  /\ Count(mem) = Count(db)
           /\ \A a \in Addresses : Get(mem, AddressKey(a)) = Get(db, a)
           /\ \A a \in Addresses : \A k :
                 (AddressKey(a) \in DOMAIN mem => mem[AddressKey(a)] = k)
                     <=> \A known \in Get(db, a) : known = k
BY DEF Coupled, ByAddress, Get

\* ... and keys.
LEMMA SameKeyAnswers ==
    ASSUME NEW tab
    PROVE  /\ \A id : Get(TimesOf(tab), id) = {row.ts : row \in Get(tab, id)}
           /\ Count(TimesOf(tab)) = Count(tab)
           /\ MaxId(TimesOf(tab)) = MaxId(tab)
<1>1. DOMAIN TimesOf(tab) = DOMAIN tab /\ \A x \in DOMAIN tab : TimesOf(tab)[x] = tab[x].ts
  BY DEF TimesOf
<1> HIDE DEF TimesOf
<1>2. \A id : Get(TimesOf(tab), id) = {row.ts : row \in Get(tab, id)}
  BY <1>1 DEF Get
<1> QED BY <1>1, <1>2 DEF Count, MaxId

\* Production on SQLite and tests on the in-memory back end get the same
\* answers, for any calls.
THEOREM SameAnswersHolds == Spec => []SameAnswers
<1>1. Init => CoupledPeers /\ CoupledLocal /\ CoupledKeys
  BY CoupledEmpty, TimesOfTables
     DEF Init, MemInit, DbInit, CoupledPeers, CoupledLocal, CoupledKeys, PairIn
<1>2. DbTablesOK /\ CoupledPeers /\ CoupledLocal /\ CoupledKeys => SameAnswers
  <2> SUFFICES ASSUME DbTablesOK, CoupledPeers, CoupledLocal, CoupledKeys
               PROVE  SameAnswers
    OBVIOUS
  <2>1. /\ MemSessionCount = DbSessionCount
        /\ \A a \in Addresses : MemLoadSession(a) = DbLoadSession(a)
    BY SamePeerAnswers
       DEF CoupledPeers, MemSessionCount, DbSessionCount, MemLoadSession, DbLoadSession
  <2>2. /\ MemIdentityCount = DbIdentityCount
        /\ \A a \in Addresses :
              /\ MemGetIdentity(a) = DbGetIdentity(a)
              /\ MemGetPeerIdentity(a) = DbGetPeerIdentity(a)
    BY SamePeerAnswers
       DEF CoupledPeers, MemIdentityCount, DbIdentityCount, MemGetIdentity,
           DbGetIdentity, MemGetPeerIdentity, DbGetPeerIdentity
  <2>3. ASSUME NEW a \in Addresses, NEW k \in IdentityKeys
        PROVE  /\ MemIsTrustedIdentity(a, k) = DbIsTrustedIdentity(a, k)
               /\ MemReplacesIdentity(a, k) = DbReplacesIdentity(a, k)
    <3>1. MemIsTrustedIdentity(a, k) <=> DbIsTrustedIdentity(a, k)
      BY SamePeerAnswers
         DEF CoupledPeers, MemIsTrustedIdentity, DbIsTrustedIdentity, DbGetIdentity
    <3>2. MemReplacesIdentity(a, k) <=> DbReplacesIdentity(a, k)
      BY <2>2 DEF MemReplacesIdentity, DbReplacesIdentity, DbGetIdentity
    <3>3. /\ MemIsTrustedIdentity(a, k) \in BOOLEAN
          /\ DbIsTrustedIdentity(a, k) \in BOOLEAN
          /\ MemReplacesIdentity(a, k) \in BOOLEAN
          /\ DbReplacesIdentity(a, k) \in BOOLEAN
      BY Zenon DEF MemIsTrustedIdentity, DbIsTrustedIdentity, MemReplacesIdentity,
         DbReplacesIdentity
    <3> QED BY <3>1, <3>2, <3>3, Zenon
  <2>4. /\ MemGetIdentityKeyPair = DbGetIdentityKeyPair
        /\ MemGetLocalRegistrationId \subseteq DbGetLocalRegistrationId
    <3>1. localRow # NoRow => localRow.private_key \in KeyPairs \cup {EmptyBlob}
      BY DEF DbTablesOK, LocalRows
    <3> QED BY <3>1, LocalAssumption
            DEF CoupledLocal, PairIn, RegistrationIn, MemGetIdentityKeyPair,
                DbGetIdentityKeyPair, MemGetLocalRegistrationId,
                DbGetLocalRegistrationId, LocalAssumption
  <2>5. /\ \A id \in KeyIds :
              /\ MemGetPreKey(id) = DbGetPreKey(id)
              /\ MemGetSignedPreKey(id) = DbGetSignedPreKey(id)
              /\ MemGetKyberPreKey(id) = DbGetKyberPreKey(id)
    BY SameKeyAnswers
       DEF CoupledKeys, MemGetPreKey, DbGetPreKey, MemGetSignedPreKey,
           DbGetSignedPreKey, MemGetKyberPreKey, DbGetKyberPreKey
  <2>6. /\ MemPreKeyCount = DbPreKeyCount
        /\ MemMaxPreKeyId = DbMaxPreKeyId
        /\ MemSignedPreKeyCount = DbSignedPreKeyCount
        /\ MemMaxSignedPreKeyId = DbMaxSignedPreKeyId
        /\ MemKyberPreKeyCount = DbKyberPreKeyCount
        /\ MemMaxKyberPreKeyId = DbMaxKyberPreKeyId
    BY SameKeyAnswers
       DEF CoupledKeys, MemPreKeyCount, DbPreKeyCount, MemMaxPreKeyId, DbMaxPreKeyId,
           MemSignedPreKeyCount, DbSignedPreKeyCount, MemMaxSignedPreKeyId,
           DbMaxSignedPreKeyId, MemKyberPreKeyCount, DbKyberPreKeyCount,
           MemMaxKyberPreKeyId, DbMaxKyberPreKeyId
  <2> QED BY <2>1, <2>2, <2>3, <2>4, <2>5, <2>6 DEF SameAnswers
<1> QED BY <1>1, <1>2, CoupledPeersInductive, CoupledLocalInductive,
        CoupledKeysInductive, TablesHold, PTL DEF Spec

\* A table of signed or Kyber pre-keys whose creation times are in seconds.
InSeconds(tab) == \A id \in DOMAIN tab : tab[id].created_at = tab[id].ts \div 1000

\* The calls keep creation times in seconds.
LEMMA SecondsInductive ==
    /\ DbTablesOK /\ InSeconds(dbSigned) /\ InSeconds(dbKyber) /\ [Next]_vars
    => InSeconds(dbSigned)' /\ InSeconds(dbKyber)'
<1> SUFFICES ASSUME DbTablesOK, InSeconds(dbSigned), InSeconds(dbKyber), [Next]_vars
             PROVE  InSeconds(dbSigned)' /\ InSeconds(dbKyber)'
  OBVIOUS
<1>1. /\ InSeconds(EmptyTable)
      /\ \A tab, id : InSeconds(tab) => InSeconds(Drop(tab, id))
      /\ \A tab, id, t, b : InSeconds(tab) => InSeconds(Put(tab, id, Rowed(t, b)))
  <2>1. \A t, b : Rowed(t, b).created_at = Rowed(t, b).ts \div 1000
    BY DEF Rowed
  <2> QED BY <2>1 DEF InSeconds, EmptyTable, Drop, Put
<1>2. CASE SignedPreKeyCalls
  <2>1. ASSUME NEW STATE tab, InSeconds(tab), DbSetSigned(tab)
        PROVE  InSeconds(dbSigned)' /\ InSeconds(dbKyber)'
    BY <2>1 DEF DbSetSigned, InSeconds
  <2> QED BY <1>1, <1>2, <2>1, SavedRows
          DEF SignedPreKeyCalls, DbDeleteSignedPreKey, DbClearAllSignedPreKeys
<1>3. CASE KyberPreKeyCalls
  <2>1. ASSUME NEW STATE tab, InSeconds(tab), DbSetKyber(tab)
        PROVE  InSeconds(dbSigned)' /\ InSeconds(dbKyber)'
    BY <2>1 DEF DbSetKyber, InSeconds
  <2>2. ASSUME NEW id \in KeyIds, DbMarkKyberPreKeyUsed(id)
        PROVE  InSeconds(dbSigned)' /\ InSeconds(dbKyber)'
    <3> DEFINE Row == [ts : Times, created_at : Seconds, is_current : BOOLEAN]
               Marked(x) == IF x = id THEN [dbKyber[x] EXCEPT !.is_current = FALSE]
                            ELSE dbKyber[x]
    <3>1. dbKyber \in [DOMAIN dbKyber -> Row]
      BY TablesOfDef DEF DbTablesOK, KyberRows
    <3>2. ASSUME NEW x \in DOMAIN dbKyber
          PROVE  Marked(x).created_at = Marked(x).ts \div 1000
      <4>1. dbKyber[x] \in Row
        BY <3>1
      <4>2. /\ [dbKyber[x] EXCEPT !.is_current = FALSE].ts = dbKyber[x].ts
            /\ [dbKyber[x] EXCEPT !.is_current = FALSE].created_at
                   = dbKyber[x].created_at
        BY <4>1
      <4> QED BY <4>2 DEF InSeconds
    <3>3. dbKyber' = [x \in DOMAIN dbKyber |-> Marked(x)] /\ UNCHANGED dbSigned
      BY <2>2 DEF DbMarkKyberPreKeyUsed, DbSetKyber
    <3> HIDE DEF Marked
    <3> QED BY <3>2, <3>3 DEF InSeconds
  <2> QED BY <1>1, <1>3, <2>1, <2>2, SavedRows
          DEF KyberPreKeyCalls, DbDeleteKyberPreKey, DbClearAllKyberPreKeys
<1>4. CASE SessionCalls \/ IdentityCalls \/ PreKeyCalls \/ LifeCycle
           \/ UNCHANGED vars
  <2>1. UNCHANGED <<dbSigned, dbKyber>>
    BY <1>4, DbKept DEF vars, dbVars, dbKeyTables
  <2> QED BY <2>1 DEF InSeconds
<1> QED BY <1>2, <1>3, <1>4 DEF Next

\* Cutting two times to the second keeps their order, up to equality.
LEMMA SecondsOrdered ==
    ASSUME NEW a \in Nat, NEW b \in Nat, a \div 1000 < b \div 1000
    PROVE  a < b
<1> DEFINE x == a \div 1000
           y == b \div 1000
<1>1. x \in Int /\ a < 1000 * x + 1000
  OBVIOUS
<1>2. y \in Int /\ 1000 * y <= b
  OBVIOUS
<1>3. x < y
  OBVIOUS
<1> HIDE DEF x, y
<1> QED BY <1>1, <1>2, <1>3

\* The milliseconds of the in-memory back end are an answer the traits allow.
LEMMA MillisAnswer ==
    ASSUME NEW tab \in TablesOf(KeyIds, Times), NEW t \in Cutoffs
    PROVE  MemTraits!MayBeOlderThan(tab, t, {id \in DOMAIN tab : tab[id] < t})
<1>1. \A id \in DOMAIN tab : tab[id] \in Nat
  BY TablesOfDef, KeyAssumption DEF KeyAssumption
<1>2. t \in Nat
  BY CutoffAssumption DEF CutoffAssumption
<1>3. \A id \in DOMAIN tab : tab[id] \div 1000 < t \div 1000 => tab[id] < t
  BY <1>1, <1>2, SecondsOrdered
<1> QED BY <1>3 DEF MemTraits!MayBeOlderThan

\* The ids whose second lies before that of t, as the SQLite back end answers.
OlderInSeconds(tab, t) == {id \in DOMAIN tab : tab[id].created_at < t \div 1000}

\* They are an answer the traits allow too.
LEMMA SecondsAnswer ==
    ASSUME NEW tab \in TablesOf(KeyIds, [ts : Times, created_at : Seconds,
                                         is_current : BOOLEAN]),
           InSeconds(tab), NEW t \in Cutoffs
    PROVE  DbTraits!MayBeOlderThan(TimesOf(tab), t, OlderInSeconds(tab, t))
<1>1. \A id \in DOMAIN tab : tab[id].ts \in Nat
  <2> DEFINE Row == [ts : Times, created_at : Seconds, is_current : BOOLEAN]
  <2>1. tab \in [DOMAIN tab -> Row]
    BY TablesOfDef
  <2>2. \A id \in DOMAIN tab : tab[id] \in Row
    BY <2>1
  <2> QED BY <2>2, KeyAssumption DEF KeyAssumption
<1>2. t \in Nat
  BY CutoffAssumption DEF CutoffAssumption
<1>3. \A id \in DOMAIN tab : tab[id].ts \div 1000 < t \div 1000 => tab[id].ts < t
  BY <1>1, <1>2, SecondsOrdered
<1>4. \A id \in DOMAIN tab : tab[id].created_at = tab[id].ts \div 1000
  BY DEF InSeconds
<1>5. DOMAIN TimesOf(tab) = DOMAIN tab /\ \A id \in DOMAIN tab : TimesOf(tab)[id] = tab[id].ts
  BY DEF TimesOf
<1> HIDE DEF TimesOf
<1> QED BY <1>3, <1>4, <1>5 DEF DbTraits!MayBeOlderThan, OlderInSeconds

\* Neither back end names a key that is not older than the cutoff, and they
\* differ only within the second of the cutoff.
THEOREM ExpiredWithinSecondHolds == Spec => []ExpiredWithinSecond
<1> DEFINE BothInSeconds == InSeconds(dbSigned) /\ InSeconds(dbKyber)
<1>1. Init => BothInSeconds
  BY DEF Init, DbInit, InSeconds, EmptyTable
<1>2. DbTablesOK /\ BothInSeconds /\ [Next]_vars => BothInSeconds'
  BY SecondsInductive
<1>3. MemTypeOK /\ DbTablesOK /\ BothInSeconds => ExpiredWithinSecond
  <2> SUFFICES ASSUME MemTypeOK, DbTablesOK, BothInSeconds, NEW t \in Cutoffs
               PROVE  /\ MemTraits!MayBeOlderThan(memSigned, t, MemSignedOlderThan(t))
                      /\ MemTraits!MayBeOlderThan(memKyber, t, MemKyberOlderThan(t))
                      /\ DbTraits!MayBeOlderThan(TimesOf(dbSigned), t, DbSignedOlderThan(t))
                      /\ DbTraits!MayBeOlderThan(TimesOf(dbKyber), t, DbKyberOlderThan(t))
    BY Zenon DEF ExpiredWithinSecond
  <2>1. memSigned \in TablesOf(KeyIds, Times) /\ memKyber \in TablesOf(KeyIds, Times)
    BY DEF MemTypeOK
  <2>2. /\ dbSigned \in SignedRows /\ InSeconds(dbSigned)
        /\ dbKyber \in KyberRows /\ InSeconds(dbKyber)
    BY DEF DbTablesOK
  <2>3. /\ MemTraits!MayBeOlderThan(memSigned, t, MemSignedOlderThan(t))
        /\ MemTraits!MayBeOlderThan(memKyber, t, MemKyberOlderThan(t))
    BY <2>1, MillisAnswer, Zenon DEF MemSignedOlderThan, MemKyberOlderThan
  <2>4. DbTraits!MayBeOlderThan(TimesOf(dbSigned), t, DbSignedOlderThan(t))
    <3>1. DbSignedOlderThan(t) = OlderInSeconds(dbSigned, t)
      BY Zenon DEF DbSignedOlderThan, OlderInSeconds
    <3>2. DbTraits!MayBeOlderThan(TimesOf(dbSigned), t, OlderInSeconds(dbSigned, t))
      BY <2>2, SecondsAnswer DEF SignedRows
    <3> QED BY <3>1, <3>2
  <2>5. DbTraits!MayBeOlderThan(TimesOf(dbKyber), t, DbKyberOlderThan(t))
    <3>1. DbKyberOlderThan(t) = OlderInSeconds(dbKyber, t)
      BY Zenon DEF DbKyberOlderThan, OlderInSeconds
    <3>2. DbTraits!MayBeOlderThan(TimesOf(dbKyber), t, OlderInSeconds(dbKyber, t))
      BY <2>2, SecondsAnswer DEF KyberRows
    <3> QED BY <3>1, <3>2
  <2> QED BY <2>3, <2>4, <2>5
<1>4. Init => MemTypeOK
  BY EmptyTyped DEF Init, MemInit, MemTypeOK
<1> QED BY <1>1, <1>2, <1>3, <1>4, MemTyped, TablesHold, PTL DEF Spec

-----------------------------------------------------------------------------
(* Clean-up leaves a key.                                                  *)

\* A non-empty set of naturals has a least element.
LEMMA LeastNatural ==
    ASSUME NEW S \in SUBSET Nat, S # {}
    PROVE  \E m \in S : \A n \in S : m <= n
<1> DEFINE Less == {ss \in Nat \X Nat : ss[1] < ss[2]}
<1>1. IsWellFoundedOn(Less, Nat)
  BY NatLessThanWellFounded DEF OpToRel
<1>2. PICK m \in S : \A n \in S : ~ (<<n, m>> \in Less)
  BY <1>1, WFMin
<1>3. \A n \in S : ~ (n < m)
  BY <1>2
<1> QED BY <1>3

\* What is left of a table after each of the first m visits.
Leaves(left, tab, order, m) ==
    left = [n \in 0 .. m |-> IF n = 0 THEN tab ELSE Visit(left[n - 1], order[n])]

\* The visits can be made one after the other, whatever their number.
LEMMA LeavesExist ==
    ASSUME NEW tab, NEW order, NEW m \in Nat
    PROVE  \E left : Leaves(left, tab, order, m)
<1> DEFINE Bad == {n \in Nat : ~ \E left : Leaves(left, tab, order, n)}
<1>1. SUFFICES ASSUME Bad # {} PROVE FALSE
  OBVIOUS
<1>2. PICK n \in Bad : \A k \in Bad : n <= k
  BY <1>1, LeastNatural
<1>3. CASE n = 0
  <2>1. Leaves([k \in {0} |-> tab], tab, order, 0)
    BY DEF Leaves
  <2> QED BY <1>2, <1>3, <2>1
<1>4. CASE n # 0
  <2>1. n \in Nat /\ n - 1 \in Nat /\ n - 1 \notin Bad
    BY <1>2, <1>4
  <2>2. PICK g : Leaves(g, tab, order, n - 1)
    BY <2>1
  <2> DEFINE h == [k \in 0 .. n |-> IF k = n THEN Visit(g[n - 1], order[n]) ELSE g[k]]
  <2>3. /\ DOMAIN h = 0 .. n /\ h = [k \in DOMAIN h |-> h[k]]
        /\ h[n] = Visit(g[n - 1], order[n])
        /\ \A k \in 0 .. n - 1 : h[k] = g[k]
    BY <2>1
  <2>4. /\ g[0] = tab
        /\ \A k \in 1 .. n - 1 : g[k] = Visit(g[k - 1], order[k])
    BY <2>1, <2>2 DEF Leaves
  <2> HIDE DEF h
  <2>5. ASSUME NEW k \in 0 .. n
        PROVE  h[k] = IF k = 0 THEN tab ELSE Visit(h[k - 1], order[k])
    <3>1. CASE k = 0
      BY <1>4, <2>1, <2>3, <2>4, <3>1
    <3>2. CASE k = n
      BY <1>4, <2>1, <2>3, <3>2
    <3>3. CASE k # 0 /\ k # n
      BY <2>1, <2>3, <2>4, <3>3
    <3> QED BY <3>1, <3>2, <3>3
  <2>6. Leaves(h, tab, order, n)
    BY <2>3, <2>5 DEF Leaves
  <2> QED BY <1>2, <2>6
<1> QED BY <1>3, <1>4

\* Clean-up is the last of its visits.
LEMMA CleanupVisits ==
    ASSUME NEW tab, NEW order, Len(order) \in Nat
    PROVE  \E left : /\ left[0] = tab
                     /\ \A n \in 1 .. Len(order) : left[n] = Visit(left[n - 1], order[n])
                     /\ Cleanup(tab, order) = left[Len(order)]
<1> DEFINE left == CHOOSE f : Leaves(f, tab, order, Len(order))
<1>1. Leaves(left, tab, order, Len(order))
  BY LeavesExist
<1>2. Cleanup(tab, order) = left[Len(order)]
  BY DEF Cleanup, Leaves
<1> HIDE DEF left
<1>3. /\ left[0] = tab
      /\ \A n \in 1 .. Len(order) : left[n] = Visit(left[n - 1], order[n])
  BY <1>1 DEF Leaves
<1> QED BY <1>2, <1>3

\* A visit drops the key if there is another one.
LEMMA VisitLeaves ==
    ASSUME NEW tab, NEW id
    PROVE  /\ DOMAIN tab \ {id} \subseteq DOMAIN Visit(tab, id)
           /\ DOMAIN Visit(tab, id) \subseteq DOMAIN tab
           /\ DOMAIN tab # {} => DOMAIN Visit(tab, id) # {}
           /\ IsFiniteSet(DOMAIN tab) /\ DOMAIN tab \ {id} # {}
                 => DOMAIN Visit(tab, id) = DOMAIN tab \ {id}
           /\ DOMAIN tab = {id} => DOMAIN Visit(tab, id) = {id}
<1> DEFINE keys == DOMAIN tab
<1>1. DOMAIN Visit(tab, id) = IF Cardinality(keys) > 1 THEN keys \ {id} ELSE keys
  BY DEF Visit, Drop, Count
<1>2. keys \ {id} = {} => keys = {} \/ keys = {id}
  OBVIOUS
<1>3. Cardinality({id}) = 1 /\ Cardinality({}) = 0
  BY FS_Singleton, FS_EmptySet
<1>4. ASSUME IsFiniteSet(keys), NEW other \in keys \ {id}, id \in keys
      PROVE  Cardinality(keys) > 1
  <2>1. /\ IsFiniteSet(keys \ {id}) /\ Cardinality(keys \ {id}) = Cardinality(keys) - 1
        /\ Cardinality(keys) \in Nat
    BY <1>4, FS_RemoveElement, FS_CardinalityType
  <2>2. Cardinality(keys \ {id}) # 0
    BY <1>4, <2>1, FS_EmptySet
  <2>3. Cardinality(keys \ {id}) \in Nat
    BY <2>1, FS_CardinalityType
  <2> QED BY <2>1, <2>2, <2>3
<1> HIDE DEF keys
<1>5. keys # {} => DOMAIN Visit(tab, id) # {}
  BY <1>1, <1>2, <1>3
<1>6. IsFiniteSet(keys) /\ keys \ {id} # {} => DOMAIN Visit(tab, id) = keys \ {id}
  BY <1>1, <1>4
<1>7. keys = {id} => DOMAIN Visit(tab, id) = {id}
  BY <1>1, <1>3
<1> QED BY <1>1, <1>5, <1>6, <1>7 DEF keys

\* The orders of the expired ids.
LEMMA Orders ==
    ASSUME NEW ids, IsFiniteSet(ids), NEW order \in InAnyOrder(ids)
    PROVE  /\ Len(order) \in Nat
           /\ \A i \in 1 .. Len(order) : order[i] \in ids
           /\ \A x \in ids : \E i \in 1 .. Len(order) : order[i] = x
<1> DEFINE n == Cardinality(ids)
<1>1. n \in Nat /\ IsFiniteSet(1 .. n) /\ Cardinality(1 .. n) = n
  BY FS_CardinalityType, FS_Interval
<1>2. /\ order \in [1 .. n -> ids]
      /\ \A i, j \in 1 .. n : i # j => order[i] # order[j]
  BY DEF InAnyOrder, SetToSeqs
<1> HIDE DEF n
<1>3. order \in Seq(ids) /\ Len(order) = n
  BY <1>1, <1>2
<1>4. order \in Injection(1 .. n, ids)
  BY <1>2 DEF Injection, IsInjective
<1>5. order \in Surjection(1 .. n, ids)
  BY <1>1, <1>4, FS_Injection DEF n
<1> QED BY <1>1, <1>2, <1>3, <1>5 DEF Surjection

\* In any order, clean-up leaves a key and every key that is not expired.
LEMMA CleanupKeeps ==
    ASSUME NEW tab, NEW ids, IsFiniteSet(ids), NEW order \in InAnyOrder(ids)
    PROVE  KeepsKeys(tab, ids, order)
<1>1. PICK left : /\ left[0] = tab
                  /\ \A n \in 1 .. Len(order) : left[n] = Visit(left[n - 1], order[n])
                  /\ Cleanup(tab, order) = left[Len(order)]
  BY Orders, CleanupVisits
<1> DEFINE Good(n) == /\ DOMAIN tab \ ids \subseteq DOMAIN left[n]
                      /\ DOMAIN tab # {} => DOMAIN left[n] # {}
           Bad == {n \in 0 .. Len(order) : ~ Good(n)}
<1>2. Len(order) \in Nat
  BY Orders
<1>3. Good(0)
  BY <1>1
<1>4. ASSUME NEW n \in 1 .. Len(order), Good(n - 1) PROVE Good(n)
  <2>1. order[n] \in ids /\ left[n] = Visit(left[n - 1], order[n])
    BY <1>1, <1>2, <1>4, Orders
  <2> DEFINE was == left[n - 1]
             now == left[n]
             id == order[n]
  <2>2. /\ DOMAIN tab \ ids \subseteq DOMAIN was
        /\ DOMAIN tab # {} => DOMAIN was # {}
    BY <1>4
  <2>3. id \in ids /\ now = Visit(was, id)
    BY <2>1
  <2> HIDE DEF was, now, id
  <2>4. /\ DOMAIN was \ {id} \subseteq DOMAIN now
        /\ DOMAIN was # {} => DOMAIN now # {}
    BY <2>3, VisitLeaves
  <2>5. /\ DOMAIN tab \ ids \subseteq DOMAIN now
        /\ DOMAIN tab # {} => DOMAIN now # {}
    BY <2>2, <2>3, <2>4
  <2> QED BY <2>5 DEF now
<1>5. Bad = {}
  <2>1. SUFFICES ASSUME Bad # {} PROVE FALSE
    OBVIOUS
  <2>2. Bad \in SUBSET Nat
    BY <1>2
  <2> HIDE DEF Bad
  <2>3. PICK n \in Bad : \A k \in Bad : n <= k
    BY <2>1, <2>2, LeastNatural
  <2> HIDE DEF Good
  <2>4. n \in 1 .. Len(order) /\ n - 1 \in 0 .. Len(order) /\ ~ Good(n)
    BY <1>2, <1>3, <2>3 DEF Bad
  <2>5. Good(n - 1)
    BY <1>2, <2>3, <2>4 DEF Bad
  <2> QED BY <1>4, <2>4, <2>5
<1> QED BY <1>1, <1>2, <1>5 DEF KeepsKeys

\* In the order of the ids, when all keys are expired, the newest is left.
LEMMA CleanupKeepsNewest ==
    ASSUME NEW tab, IsFiniteSet(DOMAIN tab), DOMAIN tab \subseteq Nat,
           NEW order \in InIdOrder(DOMAIN tab)
    PROVE  MaxId(Cleanup(tab, order)) = MaxId(tab)
<1> DEFINE last == Len(order)
<1>1. /\ order \in InAnyOrder(DOMAIN tab)
      /\ \A i, j \in DOMAIN order : i < j => order[i] < order[j]
  BY DEF InIdOrder
<1>2. /\ last \in Nat
      /\ \A i \in 1 .. last : order[i] \in DOMAIN tab /\ order[i] \in Nat
      /\ \A x \in DOMAIN tab : \E i \in 1 .. last : order[i] = x
  BY <1>1, Orders
<1>3. DOMAIN order = 1 .. last
  <2>1. order \in [1 .. Cardinality(DOMAIN tab) -> DOMAIN tab]
    BY <1>1 DEF InAnyOrder, SetToSeqs
  <2>2. Cardinality(DOMAIN tab) \in Nat
    BY FS_CardinalityType
  <2> QED BY <2>1, <2>2
<1>4. PICK left : /\ left[0] = tab
                  /\ \A n \in 1 .. last : left[n] = Visit(left[n - 1], order[n])
                  /\ Cleanup(tab, order) = left[last]
  BY <1>2, CleanupVisits
<1> HIDE DEF last
<1>5. CASE last = 0
  BY <1>4, <1>5
<1>6. CASE last # 0
  <2> DEFINE top == order[last]
             Good(n) == /\ DOMAIN left[n] \subseteq DOMAIN tab
                        /\ top \in DOMAIN left[n]
                        /\ \A i \in 1 .. n : i < last => order[i] \notin DOMAIN left[n]
             Bad == {n \in 0 .. last : ~ Good(n)}
  <2>1. last \in 1 .. last /\ top \in DOMAIN tab /\ top \in Nat
    BY <1>2, <1>6
  <2>2. ASSUME NEW i \in 1 .. last, i < last PROVE order[i] < top /\ order[i] # top
    <3>1. order[i] < order[last]
      BY <1>1, <1>3, <2>1, <2>2
    <3> QED BY <1>2, <2>1, <3>1
  <2> HIDE DEF top
  <2>3. Good(0)
    BY <1>4, <2>1
  <2>4. ASSUME NEW n \in 1 .. last, Good(n - 1) PROVE Good(n)
    <3> DEFINE was == left[n - 1]
               now == left[n]
               id == order[n]
    <3>1. /\ DOMAIN was \subseteq DOMAIN tab /\ top \in DOMAIN was
          /\ \A i \in 1 .. n - 1 : i < last => order[i] \notin DOMAIN was
          /\ now = Visit(was, id) /\ id = order[n]
      BY <1>4, <2>4
    <3> HIDE DEF was, now, id
    <3>2. IsFiniteSet(DOMAIN was)
      BY <3>1, FS_Subset
    <3>3. CASE n < last
      <4>1. top \in DOMAIN was \ {id}
        BY <2>2, <3>1, <3>3
      <4>2. DOMAIN now = DOMAIN was \ {id}
        <5>1. DOMAIN was \ {id} # {}
          BY <4>1
        <5>2. DOMAIN Visit(was, id) = DOMAIN was \ {id}
          BY <3>2, <5>1, VisitLeaves
        <5> QED BY <3>1, <5>2
      <4>3. \A i \in 1 .. n : i \in 1 .. n - 1 \/ i = n
        BY <1>2
      <4>4. /\ DOMAIN now \subseteq DOMAIN tab /\ top \in DOMAIN now
            /\ \A i \in 1 .. n : i < last => order[i] \notin DOMAIN now
        BY <3>1, <4>1, <4>2, <4>3
      <4> QED BY <4>4 DEF now
    <3>4. CASE n = last
      <4>1. ASSUME NEW x \in DOMAIN was PROVE x = top
        <5>1. PICK i \in 1 .. last : order[i] = x
          BY <1>2, <3>1
        <5>2. i = last \/ (i \in 1 .. n - 1 /\ i < last)
          BY <1>2, <3>4
        <5> QED BY <3>1, <5>1, <5>2 DEF top
      <4>2. DOMAIN was = {id} /\ id = top
        BY <3>1, <3>4, <4>1 DEF top
      <4>3. DOMAIN now = {id}
        BY <3>1, <4>2, VisitLeaves
      <4>4. DOMAIN now = {top}
        BY <4>2, <4>3
      <4>5. \A i \in 1 .. n : i < last => order[i] \notin DOMAIN now
        BY <2>2, <3>4, <4>4
      <4>6. DOMAIN now \subseteq DOMAIN tab /\ top \in DOMAIN now
        BY <2>1, <4>4
      <4> QED BY <4>5, <4>6 DEF now
    <3> QED BY <1>2, <3>3, <3>4
  <2>5. Bad = {}
    <3>1. SUFFICES ASSUME Bad # {} PROVE FALSE
      OBVIOUS
    <3>2. Bad \in SUBSET Nat
      BY <1>2
    <3> HIDE DEF Bad
    <3>3. PICK n \in Bad : \A k \in Bad : n <= k
      BY <3>1, <3>2, LeastNatural
    <3> HIDE DEF Good
    <3>4. n \in 1 .. last /\ n - 1 \in 0 .. last /\ ~ Good(n)
      BY <1>2, <2>3, <3>3 DEF Bad
    <3>5. Good(n - 1)
      BY <1>2, <3>3, <3>4 DEF Bad
    <3> QED BY <2>4, <3>4, <3>5
  <2>6. Good(last)
    BY <1>2, <2>5
  <2>7. DOMAIN left[last] = {top}
    <3>1. ASSUME NEW x \in DOMAIN left[last] PROVE x = top
      <4>1. PICK i \in 1 .. last : order[i] = x
        BY <1>2, <2>6
      <4>2. i = last
        BY <1>2, <2>6, <3>1, <4>1
      <4> QED BY <4>1, <4>2 DEF top
    <3> QED BY <2>6, <3>1
  <2>8. MaxId(left[last]) = {top}
    BY <2>1, <2>7 DEF MaxId
  <2>9. \A x \in DOMAIN tab : x \in Nat /\ x <= top
    <3>1. SUFFICES ASSUME NEW x \in DOMAIN tab PROVE x <= top
      OBVIOUS
    <3>2. PICK i \in 1 .. last : order[i] = x
      BY <1>2
    <3>3. i = last \/ i < last
      BY <1>2
    <3> QED BY <1>2, <2>1, <2>2, <3>2, <3>3 DEF top
  <2>10. MaxId(tab) = {top}
    BY <2>1, <2>9 DEF MaxId
  <2> QED BY <1>4, <2>8, <2>10
<1> QED BY <1>5, <1>6

\* There are only so many signed pre-keys.
SignedFinite == IsFiniteSet(DOMAIN dbSigned)

\* The calls keep it so.
LEMMA SignedFiniteInductive == SignedFinite /\ [Next]_vars => SignedFinite'
<1> SUFFICES ASSUME SignedFinite, [Next]_vars PROVE SignedFinite'
  OBVIOUS
<1>1. CASE SignedPreKeyCalls
  <2>1. \/ \E id \in KeyIds, t \in Times : DbSaveSignedPreKey(id, t)
        \/ \E id \in KeyIds : DbDeleteSignedPreKey(id)
        \/ DbClearAllSignedPreKeys
    BY <1>1 DEF SignedPreKeyCalls
  <2>2. \/ \E id : DOMAIN dbSigned' = DOMAIN dbSigned \cup {id}
        \/ \E id : DOMAIN dbSigned' = DOMAIN dbSigned \ {id}
        \/ DOMAIN dbSigned' = {}
    BY <2>1 DEF DbSaveSignedPreKey, DbDeleteSignedPreKey, DbClearAllSignedPreKeys,
       DbSetSigned, Put, Drop, EmptyTable
  <2>3. \A id : /\ IsFiniteSet(DOMAIN dbSigned \cup {id})
                /\ IsFiniteSet(DOMAIN dbSigned \ {id})
    BY FS_AddElement, FS_RemoveElement DEF SignedFinite
  <2> QED BY <2>2, <2>3, FS_EmptySet DEF SignedFinite
<1>2. CASE \/ SessionCalls \/ IdentityCalls \/ PreKeyCalls \/ KyberPreKeyCalls
           \/ LifeCycle \/ UNCHANGED vars
  <2>1. UNCHANGED dbSigned
    BY <1>2, DbKept DEF vars, dbVars, dbKeyTables
  <2> QED BY <2>1 DEF SignedFinite
<1> QED BY <1>1, <1>2 DEF Next

\* Whatever the clock and the order in which a back end answers, clean-up
\* leaves a signed pre-key to publish; over SQLite the newest, if all expired.
THEOREM CleanupKeepsKeyHolds == Spec => []CleanupKeepsKey
<1>1. Init => CoupledKeys /\ SignedFinite
  BY TimesOfTables, FS_EmptySet
     DEF Init, MemInit, DbInit, CoupledKeys, SignedFinite, EmptyTable
<1>2. DbTablesOK /\ CoupledKeys /\ SignedFinite => CleanupKeepsKey
  <2> SUFFICES ASSUME DbTablesOK, CoupledKeys, SignedFinite, NEW t \in Cutoffs
               PROVE  LET mem == MemSignedOlderThan(t)
                          db  == DbSignedOlderThan(t)
                      IN /\ \A order \in InAnyOrder(mem) :
                               KeepsKeys(memSigned, mem, order)
                         /\ \A order \in InIdOrder(db) :
                               /\ KeepsKeys(dbSigned, db, order)
                               /\ db = DOMAIN dbSigned =>
                                     MaxId(Cleanup(dbSigned, order))
                                        = DbMaxSignedPreKeyId
    BY DEF CleanupKeepsKey
  <2> DEFINE mem == MemSignedOlderThan(t)
             db  == DbSignedOlderThan(t)
  <2>1. IsFiniteSet(mem) /\ IsFiniteSet(db)
    <3>1. DOMAIN memSigned = DOMAIN dbSigned
      BY DEF CoupledKeys, TimesOf
    <3>2. mem \subseteq DOMAIN dbSigned /\ db \subseteq DOMAIN dbSigned
      BY <3>1 DEF MemSignedOlderThan, DbSignedOlderThan
    <3> QED BY <3>2, FS_Subset DEF SignedFinite
  <2>2. DOMAIN dbSigned \subseteq Nat
    BY TablesOfDef, KeyAssumption DEF DbTablesOK, SignedRows, KeyAssumption, TablesOf
  <2> HIDE DEF mem, db
  <2>3. \A order \in InAnyOrder(mem) : KeepsKeys(memSigned, mem, order)
    BY <2>1, CleanupKeeps
  <2>4. \A order \in InIdOrder(db) : KeepsKeys(dbSigned, db, order)
    BY <2>1, CleanupKeeps DEF InIdOrder
  <2>5. ASSUME NEW order \in InIdOrder(db), db = DOMAIN dbSigned
        PROVE  MaxId(Cleanup(dbSigned, order)) = DbMaxSignedPreKeyId
    <3>1. order \in InIdOrder(DOMAIN dbSigned)
      BY <2>5
    <3> QED BY <2>2, <3>1, CleanupKeepsNewest DEF DbMaxSignedPreKeyId, SignedFinite
  <2> QED BY <2>3, <2>4, <2>5 DEF mem, db
<1> QED BY <1>1, <1>2, CoupledKeysInductive, SignedFiniteInductive, TablesHold,
        PTL DEF Spec
=============================================================================
