------------------------------ MODULE Stores -------------------------------
(***************************************************************************)
(* The two back ends given the same calls.  storage_trait.rs lets either   *)
(* be injected, and the tests of key_rotation.rs and keys.rs run on the    *)
(* in-memory one what production runs on SQLite; so what they answer must  *)
(* agree.  Each call is applied to both, when the SQLite storage takes it; *)
(* the life cycle of the storage object leaves the in-memory one alone.    *)
(***************************************************************************)
EXTENDS MemoryStore, SqliteStore, SequencesExt

CONSTANTS
    Cutoffs,   \* the cutoffs, in milliseconds, that clean-up may compute
    MaxRows    \* bound: the number of rows in all tables together

ASSUME CutoffAssumption ==
    /\ Cutoffs \subseteq Nat
    /\ MaxRows \in Nat

vars == <<memVars, dbVars>>

Init ==
    /\ MemInit
    /\ DbInit

\* The number of rows in all tables of the SQLite back end.
Rows ==
    Count(dbSessions) + Count(dbIdentities) + Count(dbPreKeys)
        + Count(dbSigned) + Count(dbKyber)

\* Bound: the tables do not grow past MaxRows rows.
Bounded == Rows' <= MaxRows

SessionCalls ==
    \/ \E a \in Addresses, r \in SessionRecords :
          MemStoreSession(a, r) /\ DbStoreSession(a, r) /\ Bounded
    \/ \E a \in Addresses : MemDeleteSession(a) /\ DbDeleteSession(a)
    \/ MemClearAllSessions /\ DbClearAllSessions

IdentityCalls ==
    \/ \E a \in Addresses, k \in IdentityKeys :
          MemSaveIdentity(a, k) /\ DbSaveIdentity(a, k) /\ Bounded
    \/ \E a \in Addresses : MemDeleteIdentity(a) /\ DbDeleteIdentity(a)
    \/ MemClearAllIdentities /\ DbClearAllIdentities
    \/ \E p \in KeyPairs :
          MemSetLocalIdentityKeyPair(p) /\ DbSetLocalIdentityKeyPair(p)
    \/ \E r \in RegistrationIds :
          MemSetLocalRegistrationId(r) /\ DbSetLocalRegistrationId(r)
    \/ MemClearLocalIdentity /\ DbClearLocalIdentity

PreKeyCalls ==
    \/ \E id \in KeyIds, p \in PreKeyPairs :
          MemSavePreKey(id, p) /\ DbSavePreKey(id, p) /\ Bounded
    \/ \E id \in KeyIds : MemRemovePreKey(id) /\ DbRemovePreKey(id)
    \/ \E id \in KeyIds : MemDeletePreKey(id) /\ DbDeletePreKey(id)
    \/ MemClearAllPreKeys /\ DbClearAllPreKeys

SignedPreKeyCalls ==
    \/ \E id \in KeyIds, t \in Times :
          MemSaveSignedPreKey(id, t) /\ DbSaveSignedPreKey(id, t) /\ Bounded
    \/ \E id \in KeyIds : MemDeleteSignedPreKey(id) /\ DbDeleteSignedPreKey(id)
    \/ MemClearAllSignedPreKeys /\ DbClearAllSignedPreKeys

KyberPreKeyCalls ==
    \/ \E id \in KeyIds, t \in Times :
          MemSaveKyberPreKey(id, t) /\ DbSaveKyberPreKey(id, t) /\ Bounded
    \/ \E id \in KeyIds : MemMarkKyberPreKeyUsed(id) /\ DbMarkKyberPreKeyUsed(id)
    \/ \E id \in KeyIds : MemDeleteKyberPreKey(id) /\ DbDeleteKyberPreKey(id)
    \/ MemClearAllKyberPreKeys /\ DbClearAllKyberPreKeys

LifeCycle ==
    \/ MemLifeCycle /\ DbNew
    \/ MemLifeCycle /\ DbInitializeSchema
    \/ MemLifeCycle /\ DbInitializeFails
    \/ MemLifeCycle /\ DbClose
    \/ MemLifeCycle /\ InitializeSchemaInfo
    \/ \E v \in Versions : MemLifeCycle /\ UpdateSchemaVersion(v)

Next ==
    \/ SessionCalls
    \/ IdentityCalls
    \/ PreKeyCalls
    \/ SignedPreKeyCalls
    \/ KyberPreKeyCalls
    \/ LifeCycle

Spec == Init /\ [][Next]_vars

-----------------------------------------------------------------------------
(* cleanup_expired_signed_pre_keys and cleanup_expired_kyber_pre_keys,     *)
(* which are generic in the back end: tab is its table, order the expired  *)
(* ids in the order in which it answers them.                              *)

\* Not the code: every expired key goes.
CleanupAll(tab, order) == [id \in DOMAIN tab \ Range(order) |-> tab[id]]

\* Each visit counts the keys again, and leaves the last one.
Visit(left, id) == IF Count(left) > 1 THEN Drop(left, id) ELSE left

Cleanup(tab, order) ==
    LET left[n \in 0 .. Len(order)] ==
            IF n = 0 THEN tab ELSE Visit(left[n - 1], order[n])
    IN  left[Len(order)]

\* The orders a hash map may use, and the one in which SQLite answers ids.
InAnyOrder(ids) == SetToSeqs(ids)
InIdOrder(ids) ==
    {order \in InAnyOrder(ids) : \A i, j \in DOMAIN order : i < j => order[i] < order[j]}

-----------------------------------------------------------------------------
(* Properties.                                                             *)

\* The maps and the tables hold what their declarations allow, among it that
\* created_at is in seconds.
TypeOK ==
    /\ MemTypeOK
    /\ DbTypeOK

\* The in-memory back end does what the traits promise: keyed by the text of
\* an address it behaves like a table keyed by the address.
MemoryImplementsTraits == MemTraits!Spec

\* The SQLite back end does what the traits promise, whatever happens to the
\* storage object: closed, initialised again, replaced, or half initialised.
SqliteImplementsTraits == DbTraits!Spec

\* Given the same calls, the two back ends answer the same; the SQLite one
\* may answer a registration id where the in-memory one has none.
SameAnswers ==
    /\ \A a \in Addresses :
          /\ MemLoadSession(a) = DbLoadSession(a)
          /\ MemGetIdentity(a) = DbGetIdentity(a)
          /\ MemGetPeerIdentity(a) = DbGetPeerIdentity(a)
          /\ \A k \in IdentityKeys :
                /\ MemIsTrustedIdentity(a, k) = DbIsTrustedIdentity(a, k)
                /\ MemReplacesIdentity(a, k) = DbReplacesIdentity(a, k)
    /\ MemSessionCount = DbSessionCount
    /\ MemIdentityCount = DbIdentityCount
    /\ MemGetIdentityKeyPair = DbGetIdentityKeyPair
    /\ MemGetLocalRegistrationId \subseteq DbGetLocalRegistrationId
    /\ \A id \in KeyIds :
          /\ MemGetPreKey(id) = DbGetPreKey(id)
          /\ MemGetSignedPreKey(id) = DbGetSignedPreKey(id)
          /\ MemGetKyberPreKey(id) = DbGetKyberPreKey(id)
    /\ MemPreKeyCount = DbPreKeyCount
    /\ MemMaxPreKeyId = DbMaxPreKeyId
    /\ MemSignedPreKeyCount = DbSignedPreKeyCount
    /\ MemMaxSignedPreKeyId = DbMaxSignedPreKeyId
    /\ MemKyberPreKeyCount = DbKyberPreKeyCount
    /\ MemMaxKyberPreKeyId = DbMaxKyberPreKeyId

\* The two back ends agree on which keys are older than a cutoff up to the
\* second: SQLite never names a key that is not, and only keeps back keys of
\* the second of the cutoff.
ExpiredWithinSecond ==
    \A t \in Cutoffs :
        /\ MemTraits!MayBeOlderThan(memSigned, t, MemSignedOlderThan(t))
        /\ MemTraits!MayBeOlderThan(memKyber, t, MemKyberOlderThan(t))
        /\ DbTraits!MayBeOlderThan(TimesOf(dbSigned), t, DbSignedOlderThan(t))
        /\ DbTraits!MayBeOlderThan(TimesOf(dbKyber), t, DbKyberOlderThan(t))

\* Clean-up leaves every key that is not expired, and at least one key.
KeepsKeys(tab, expired, order) ==
    LET left == DOMAIN Cleanup(tab, order) IN
    /\ DOMAIN tab \ expired \subseteq left
    /\ DOMAIN tab # {} => left # {}

\* In whatever order a back end answers the expired ids, clean-up leaves a
\* key and every key that is not expired; and over SQLite, when all are
\* expired, the one it leaves is the newest, whose id is then not given again.
CleanupKeepsKey ==
    \A t \in Cutoffs :
        LET mem == MemSignedOlderThan(t)
            db  == DbSignedOlderThan(t)
        IN /\ \A order \in InAnyOrder(mem) : KeepsKeys(memSigned, mem, order)
           /\ \A order \in InIdOrder(db) :
                 /\ KeepsKeys(dbSigned, db, order)
                 /\ db = DOMAIN dbSigned =>
                       MaxId(Cleanup(dbSigned, order)) = DbMaxSignedPreKeyId

\* Initialising again, which adds a row to schema_info each time, does not
\* change the version that is read.
SchemaVersionKept ==
    [][Len(schema') > Len(schema) /\ DbSchemaVersion # {}
            => DbSchemaVersion' = DbSchemaVersion]_vars

\* Once a storage object is closed, the local identity and the signed
\* pre-keys do not change through it, even if it is initialised again and
\* libsignal uses it.
FrozenOnceClosed ==
    [][isClosed /\ isClosed' => UNCHANGED <<localRow, dbSigned>>]_vars
=============================================================================
