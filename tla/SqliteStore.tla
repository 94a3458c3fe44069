---------------------------- MODULE SqliteStore ----------------------------
(***************************************************************************)
(* The SQLite back end, signal_storage.rs, with the schema_info table of   *)
(* db_connection.rs.  Every operation locks the connection for its whole   *)
(* length and writes with one statement, so each is one action; a          *)
(* statement that fails changes nothing.  Only initialize_schema has       *)
(* several statements, and can fail between two of them.                   *)
(*                                                                         *)
(* A storage must be attached to its tables before it is used.  The        *)
(* accessors, through which lib.rs and key_rotation.rs reach the tables,   *)
(* also refuse a closed storage; libsignal's calls inside encrypt_message, *)
(* decrypt_message and establish_session_from_bundle do not ask.           *)
(***************************************************************************)
EXTENDS StoreData

CONSTANTS
    Versions,    \* schema versions
    NoRow,       \* local_identity is empty
    EmptyBlob,   \* X'', the key of a row written before there was a key
    MaxSchemas   \* bound: the number of rows in schema_info

ASSUME SchemaAssumption ==
    /\ Versions \subseteq Nat
    /\ 1 \in Versions
    /\ EmptyBlob \notin KeyPairs
    /\ NoRow \notin [registration_id : Nat,
                     private_key : KeyPairs \cup {EmptyBlob}]

VARIABLES
    schema,        \* rows of schema_info in the order of insertion: versions
    dbSessions,    \* sessions: (address, device_id) -> session_data
    dbIdentities,  \* identity_keys: (address, device_id) -> public_key
    localRow,      \* the one row of local_identity, or NoRow
    dbPreKeys,     \* pre_keys: id -> key_data
    dbSigned,      \* signed_pre_keys: id -> row
    dbKyber,       \* kyber_pre_keys: id -> row
    attached,      \* the five stores of the storage object are Some
    isClosed       \* is_closed of the storage object

dbPeers     == <<dbSessions, dbIdentities>>
dbKeyTables == <<dbPreKeys, dbSigned, dbKyber>>
lifeCycle   == <<schema, attached, isClosed>>
dbVars      == <<dbPeers, localRow, dbKeyTables, lifeCycle>>

-----------------------------------------------------------------------------
(* What the tables hold.                                                   *)

SchemaRows == Seq(Versions)

SessionRows == TablesOf(Addresses, SessionRecords)

IdentityRows == TablesOf(Addresses, IdentityKeys)

LocalRows ==
    [registration_id : RegistrationIds \cup {0},
     private_key : KeyPairs \cup {EmptyBlob}]

PreKeyRows == TablesOf(KeyIds, PreKeyPairs)

Seconds == {t \div 1000 : t \in Times}

SignedRows ==
    TablesOf(KeyIds, [ts : Times, created_at : Seconds, is_current : BOOLEAN])

KyberRows ==
    TablesOf(KeyIds, [ts : Times, created_at : Seconds, is_current : BOOLEAN])

DbTypeOK ==
    /\ schema \in SchemaRows
    /\ dbSessions \in SessionRows
    /\ dbIdentities \in IdentityRows
    /\ localRow \in LocalRows \cup {NoRow}
    /\ dbPreKeys \in PreKeyRows
    /\ dbSigned \in SignedRows
    /\ dbKyber \in KyberRows
    /\ attached \in BOOLEAN
    /\ isClosed \in BOOLEAN

-----------------------------------------------------------------------------
(* The storage object and the schema.                                      *)

DbInit ==
    /\ schema = <<>>
    /\ dbSessions = EmptyTable
    /\ dbIdentities = EmptyTable
    /\ localRow = NoRow
    /\ dbPreKeys = EmptyTable
    /\ dbSigned = EmptyTable
    /\ dbKyber = EmptyTable
    /\ attached = FALSE
    /\ isClosed = FALSE

\* SqliteStorage::new: another storage object over the same connection.
DbNew ==
    /\ attached' = FALSE
    /\ isClosed' = FALSE
    /\ UNCHANGED <<schema, dbPeers, localRow, dbKeyTables>>

\* Not the code: the version of an existing row is set back to 1.
SetSchemaBack ==
    /\ Len(schema) < MaxSchemas
    /\ schema' = Append([i \in 1 .. Len(schema) |-> 1], 1)

\* The table has no unique column, so INSERT OR IGNORE always adds a row.
AddSchemaRow ==
    /\ Len(schema) < MaxSchemas
    /\ schema' = Append(schema, 1)

\* initialize_schema; tables that are there already stay as they are.
DbInitializeSchema ==
    /\ AddSchemaRow
    /\ attached' = TRUE
    /\ UNCHANGED <<dbPeers, localRow, dbKeyTables, isClosed>>

\* initialize_schema fails after the row, at a CREATE TABLE.
DbInitializeFails ==
    /\ AddSchemaRow
    /\ UNCHANGED <<dbPeers, localRow, dbKeyTables, attached, isClosed>>

\* DbConnection::initialize_schema_info
InitializeSchemaInfo ==
    /\ AddSchemaRow
    /\ UNCHANGED <<dbPeers, localRow, dbKeyTables, attached, isClosed>>

\* SELECT version FROM schema_info: the first row of the scan, if any.
DbSchemaVersion == {schema[i] : i \in DOMAIN schema \cap {1}}

\* UPDATE without WHERE: every row.
UpdateSchemaVersion(v) ==
    /\ schema' = [i \in DOMAIN schema |-> v]
    /\ UNCHANGED <<dbPeers, localRow, dbKeyTables, attached, isClosed>>

\* close: it does nothing when the storage is closed already.
DbClose ==
    /\ ~isClosed
    /\ isClosed' = TRUE
    /\ attached' = FALSE
    /\ UNCHANGED <<schema, dbPeers, localRow, dbKeyTables>>

\* Not the code: an accessor does not ask whether the storage is closed.
AccessibleWhenAttached == attached

\* session_store() ... kyber_pre_key_store() return the store.
Accessible ==
    /\ ~isClosed
    /\ attached

\* The stores libsignal is given.
UsableByLibsignal == attached

-----------------------------------------------------------------------------
(* Sessions.                                                               *)

DbLoadSession(a) == Get(dbSessions, a)

DbSetSessions(tab) ==
    /\ dbSessions' = tab
    /\ UNCHANGED <<dbIdentities, localRow, dbKeyTables, lifeCycle>>

DbStoreSession(a, r) ==
    /\ UsableByLibsignal
    /\ DbSetSessions(Put(dbSessions, a, r))

DbSessionCount == Count(dbSessions)

DbClearAllSessions ==
    /\ Accessible
    /\ DbSetSessions(EmptyTable)

DbDeleteSession(a) ==
    /\ Accessible
    /\ DbSetSessions(Drop(dbSessions, a))

-----------------------------------------------------------------------------
(* Identities.                                                             *)

\* Ok(the pair), or an error: no row, or a blob that is no key pair.
DbGetIdentityKeyPair ==
    IF localRow = NoRow THEN {} ELSE {localRow.private_key} \ {EmptyBlob}

DbGetLocalRegistrationId ==
    IF localRow = NoRow THEN {} ELSE {localRow.registration_id}

DbGetIdentity(a) == Get(dbIdentities, a)

DbSetIdentities(tab) ==
    /\ dbIdentities' = tab
    /\ UNCHANGED <<dbSessions, localRow, dbKeyTables, lifeCycle>>

DbSaveIdentity(a, k) ==
    /\ UsableByLibsignal
    /\ DbSetIdentities(Put(dbIdentities, a, k))

\* The answer of save_identity is ReplacedExisting.
DbReplacesIdentity(a, k) == Get(dbIdentities, a) \ {k} # {}

\* Trust on first use.
DbIsTrustedIdentity(a, k) == \A known \in DbGetIdentity(a) : known = k

DbIdentityCount == Count(dbIdentities)

SetLocalRow(row) ==
    /\ localRow' = row
    /\ UNCHANGED <<dbPeers, dbKeyTables, lifeCycle>>

\* COALESCE((SELECT registration_id ...), 0)
DbSetLocalIdentityKeyPair(p) ==
    /\ Accessible
    /\ SetLocalRow([private_key |-> p,
                    registration_id |-> IF localRow = NoRow THEN 0
                                        ELSE localRow.registration_id])

\* Not the code: the row is written without the key it had.
DbSetRegistrationForgetsKey(r) ==
    /\ Accessible
    /\ SetLocalRow([registration_id |-> r, private_key |-> EmptyBlob])

\* COALESCE((SELECT private_key ...), X'')
DbSetLocalRegistrationId(r) ==
    /\ Accessible
    /\ SetLocalRow([registration_id |-> r,
                    private_key |-> IF localRow = NoRow THEN EmptyBlob
                                    ELSE localRow.private_key])

DbGetPeerIdentity(a) == Get(dbIdentities, a)

DbDeleteIdentity(a) ==
    /\ Accessible
    /\ DbSetIdentities(Drop(dbIdentities, a))

DbClearAllIdentities ==
    /\ Accessible
    /\ DbSetIdentities(EmptyTable)

DbClearLocalIdentity ==
    /\ Accessible
    /\ SetLocalRow(NoRow)

-----------------------------------------------------------------------------
(* One-time pre-keys.                                                      *)

DbGetPreKey(id) == Get(dbPreKeys, id)

DbSetPreKeys(tab) ==
    /\ dbPreKeys' = tab
    /\ UNCHANGED <<dbPeers, localRow, dbSigned, dbKyber, lifeCycle>>

DbSavePreKey(id, p) ==
    /\ Accessible
    /\ DbSetPreKeys(Put(dbPreKeys, id, p))

DbRemovePreKey(id) ==
    /\ UsableByLibsignal
    /\ DbSetPreKeys(Drop(dbPreKeys, id))

DbPreKeyCount == Count(dbPreKeys)

DbClearAllPreKeys ==
    /\ Accessible
    /\ DbSetPreKeys(EmptyTable)

DbMaxPreKeyId == MaxId(dbPreKeys)

DbDeletePreKey(id) ==
    /\ Accessible
    /\ DbSetPreKeys(Drop(dbPreKeys, id))

-----------------------------------------------------------------------------
(* Signed pre-keys.                                                        *)

DbGetSignedPreKey(id) == {row.ts : row \in Get(dbSigned, id)}

DbSetSigned(tab) ==
    /\ dbSigned' = tab
    /\ UNCHANGED <<dbPeers, localRow, dbPreKeys, dbKyber, lifeCycle>>

\* created_at keeps the time of the record, cut to seconds.
DbSaveSignedPreKey(id, t) ==
    /\ Accessible
    /\ DbSetSigned(Put(dbSigned, id, [ts |-> t, created_at |-> t \div 1000,
                                      is_current |-> FALSE]))

DbSignedPreKeyCount == Count(dbSigned)

DbClearAllSignedPreKeys ==
    /\ Accessible
    /\ DbSetSigned(EmptyTable)

DbMaxSignedPreKeyId == MaxId(dbSigned)

DbDeleteSignedPreKey(id) ==
    /\ Accessible
    /\ DbSetSigned(Drop(dbSigned, id))

\* Not the code: a record of the second of the cutoff is old enough.
DbSignedNotAfter(t) ==
    {id \in DOMAIN dbSigned : dbSigned[id].created_at <= t \div 1000}

\* WHERE created_at < ?, both in whole seconds; scanned in id order.
DbSignedOlderThan(t) ==
    {id \in DOMAIN dbSigned : dbSigned[id].created_at < t \div 1000}

-----------------------------------------------------------------------------
(* Kyber pre-keys.                                                         *)

DbGetKyberPreKey(id) == {row.ts : row \in Get(dbKyber, id)}

DbSetKyber(tab) ==
    /\ dbKyber' = tab
    /\ UNCHANGED <<dbPeers, localRow, dbPreKeys, dbSigned, lifeCycle>>

\* Not the code: created_at keeps the milliseconds.
DbSaveKyberInMillis(id, t) ==
    /\ Accessible
    /\ DbSetKyber(Put(dbKyber, id, [ts |-> t, created_at |-> t,
                                    is_current |-> FALSE]))

\* created_at keeps the time of the record, cut to seconds.
DbSaveKyberPreKey(id, t) ==
    /\ Accessible
    /\ DbSetKyber(Put(dbKyber, id, [ts |-> t, created_at |-> t \div 1000,
                                    is_current |-> FALSE]))

\* UPDATE kyber_pre_keys SET is_current = FALSE WHERE id = ?
DbMarkKyberPreKeyUsed(id) ==
    /\ UsableByLibsignal
    /\ DbSetKyber([x \in DOMAIN dbKyber |->
                      IF x = id THEN [dbKyber[x] EXCEPT !.is_current = FALSE]
                      ELSE dbKyber[x]])

DbKyberPreKeyCount == Count(dbKyber)

DbClearAllKyberPreKeys ==
    /\ Accessible
    /\ DbSetKyber(EmptyTable)

DbMaxKyberPreKeyId == MaxId(dbKyber)

DbDeleteKyberPreKey(id) ==
    /\ Accessible
    /\ DbSetKyber(Drop(dbKyber, id))

\* WHERE created_at < ?, both in whole seconds; scanned in id order.
DbKyberOlderThan(t) ==
    {id \in DOMAIN dbKyber : dbKyber[id].created_at < t \div 1000}

-----------------------------------------------------------------------------

\* The column of the times of a table of signed or Kyber pre-keys.
TimesOf(tab) == [id \in DOMAIN tab |-> tab[id].ts]

DbTraits == INSTANCE StorageTraits WITH
    sessions     <- dbSessions,
    identities   <- dbIdentities,
    pair         <- IF DbGetIdentityKeyPair = {} THEN Unset
                    ELSE localRow.private_key,
    registration <- IF localRow = NoRow THEN Unset
                    ELSE localRow.registration_id,
    preKeys      <- dbPreKeys,
    signed       <- TimesOf(dbSigned),
    kyber        <- TimesOf(dbKyber)
=============================================================================
