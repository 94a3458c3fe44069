# A verification development for lotl

lotl is a Rust library that gives an application a Signal-protocol identity and
its contacts, sessions and message history, all in one SQLCipher database. The
cryptography is libsignal's. What lotl itself adds is *custody*: which keys are
in which table, when they are made, published, rotated and erased, which
messages are filed where, and what of this survives a crash, a failing
statement or a clock that moves. That is what these modules model. Paths below
are relative to the repository (`src/...`).

## Inventory

| component | state | operations | status |
|---|---|---|---|
| key custody (`lib.rs`, `key_rotation.rs`, `keys.rs`) | the tables `local_identity`, `pre_keys`, `signed_pre_keys`, `kyber_pre_keys` | `Lotl::new`, `perform_key_maintenance`, `consume_pre_key`, bundles, rotation, clean-up, replenishment | modelled, `PreKeyTable` and `KeyRotation` |
| message history (`message_history.rs`) | the tables `conversations` and `messages` and their AUTOINCREMENT counters | storing, delivery status, mark as read, deletion, archiving | modelled, `MessageHistory` |
| sessions (`lib.rs` 343-540, `signal_storage.rs` 170-610) | the tables `sessions`, `identity_keys` and `pre_keys` of each party | processing a bundle, encrypting, decrypting, deleting | modelled, `Sessions`; what it promises, `Channel` |
| contacts, Nostr mapping (`contact_manager.rs`, `integrations/nostr/storage.rs`) | `contacts`, `nostr_identities` | add, rename, look up; map a Nostr key | modelled, `Contacts`; the derivation of Nostr keys is cryptography |
| database key (`db_encryption.rs`, `db_connection.rs`) | the key file, the database file, `schema_info` | get or create the key, open; schema versions | modelled, `DbKeyFile` and `SqliteStore` |
| SQLite store (`signal_storage.rs`) | the five stores' tables, `schema_info`, whether the storage object is attached and closed | the storage traits, `initialize`, `close` | modelled, `SqliteStore` |
| in-memory store (`memory_storage.rs`) | a hash map per kind of record and the local identity, behind mutexes | the storage traits, for tests | modelled, `MemoryStore` |
| storage traits (`storage_trait.rs`) | what both stores promise | | modelled, `StorageTraits` |
| errors, types; bincode, libsignal, SQLite | | | external or without behaviour |

How they interact. `Lotl` holds one connection in an `Arc<Mutex<_>>`, hands it
to every store, and gives it to the application as well (`lib.rs:664`). No
operation opens a transaction, so **every SQL statement commits on its own** and
a call is a sequence of statements. Two things make that matter: a crash or a
failing statement may fall between any two of them, and the calls of two
connections to one database file interleave. Methods of one `Lotl` that write
keys take `&mut self`: those calls do not interleave. History functions take a
locked connection and are serialised per connection.

What is hard in this code: the first run that decides by one of its own steps
whether it has happened; the maintenance call that rotates, refills, lists
expired keys and then deletes them one at a time; the unsigned clock
arithmetic; the reuse of key ids by `MAX(id) + 1`; ids held across calls while
rows are deleted; counters that are kept beside what they count.

What makes each component correct:

* key custody: a bundle can be built, its keys carry the signature of its
  identity, the private halves of what was published are still there when they
  are needed, and are gone when they should be;
* history: a message is found under its contact, a status belongs to the message
  it was reported for, and the unread count means something;
* sessions: a plaintext comes out once and a message number is used once, over any
  network and across crashes; a one-time key begins one session; the identity
  stored for a peer is not replaced by another;
* database key: the key in the file opens the database beside it;
* stores: the one production runs on and the one the tests run on do what the traits
  promise, and answer alike;
* contacts: what hangs on a contact lives as long as the contact, a Nostr key leads
  back to one contact, and an added contact is there.

## Modules

`Tables` has the tables that all modules share: functions from the keys of the rows
to what the rows hold, with `INSERT OR REPLACE` (`Put`), `DELETE` (`Drop`) and
`COUNT`.

### PreKeyTable

Key tables: `MAX` over `Tables`, and the age arithmetic of `key_rotation.rs`: `NeedsRotation`,
`Cutoff`, `OlderThan`. The clock arithmetic is on u64: `TwoTo64` is the modulus,
and `AgeUnderflows` and `CutoffUnderflows` say when a subtraction goes below
zero. Times are milliseconds, and the comparisons in SQL are in whole seconds, as
in the code.

### KeyRotation

One database, one process, one step per statement that writes. `pc` is the next
step of the call in progress, `call` names the call.

| actions | code |
|---|---|
| `Open`, `SetRegistrationId`, `SaveFirstSigned`, `SaveFirstKyber` | `Lotl::new`, `ensure_identity_initialized`, lib.rs:151-198 |
| `GeneratePreKeys`, `SavePreKey`, `PreKeysSaved` | `replenish_pre_keys`, key_rotation.rs:122-135 |
| `BeginMaintenance`, `RotateSigned`, `RotateKyber`, `Refill` | `perform_key_maintenance`, lib.rs:557-596 |
| `ExpireSigned`, `DropSigned`, `ExpireKyber`, `DropKyber` | `cleanup_expired_*`, key_rotation.rs:75-97 and 202-224: list the expired ids, then visit each |
| `GenerateBundle` | both bundle functions, which take the highest id of each table |
| `DecryptPreKeyMessage`, `ConsumePreKey` | the removal of a one-time key by libsignal, and by `consume_pre_key` |
| `ClearLocalIdentity`, `Close` | what an application may do with an open handle |
| `Tick`, `ClockBack`, `Crash`, `StatementFails` | the environment |

The code treats errors in two ways, and so does the model. A statement that writes, or
that loads a record or a list, passes its error up, and the call ends (`StatementFails`).
Three reads **swallow** theirs, and the call goes on with what it takes the answer to be:

| fault | the failing read | what the call takes it for |
|---|---|---|
| `noIdentity` | the identity, in `Lotl::new` (`is_ok()`, lib.rs:157) | a first run |
| `noMax` | `MAX(id)` (`.ok()`, signal_storage.rs:739, 883, 1061) | an empty table: a rotation is due, the next id is 1 |
| `noCount` | a `COUNT` (`.unwrap_or(0)`, signal_storage.rs:725, 867, 1045) | 0: a refill is due, nothing to clean up |

`Reads` says that a read ends right or is one of these faults, and each step that reads
a `MAX(id)` or a count has both outcomes: `GeneratePreKeys`, `Rotate` (which reads it
twice), `Refill`, `Expire`, `DropExpired`. The other faults are a crash, the clock set
back and the identity cleared through `storage_mut`. `FaultKinds` switches them on,
`MaxFaults` bounds them, and `happened` records which kinds there were: `Spared(kinds)`
says none of these, and properties that the code keeps only then are stated under such a
condition. `Disordering` are the faults after which a key may be younger than one with a
lower id. `checked` is the build: a debug build panics where a subtraction of u64 would
go below zero, and a release build wraps. Key material is a serial number: `minted` for
one-time keys, `generation` for identities; a signed or Kyber key records the identity
that signed it.

### MessageHistory

The statements of `message_history.rs`. `step[c]` is the next statement of the
call that connection `c` is executing and `arg[c]` its arguments and locals, in
particular the conversation id that an earlier statement read. `Callers` with
one element is the usual application; two elements are two connections (two
handles, or two processes) on one file. Foreign keys are enforced or not,
depending on the SQLite the build links: the bundled SQLCipher turns them on by
default, a system library usually does not, and the code sets no pragma.
`page` and `outbox` stand for what the application keeps between calls: the
history it loaded, and the ids of its outgoing messages. Timestamps come from the caller
and are in no order: equal and late ones occur.

History variables (`published`, `used`, `minted`, `generation`, `faultCount`, `happened` in
`KeyRotation`; `serial`, `reported`, `toRead`, `drift` in
`MessageHistory`, and the fields `peer` and `serial` of a message) are read by
properties and by bounds, never by a guard that stands for code. `toRead` has the ids of the
incoming messages that the last mark as read left out, and of those stored since.

### Sessions

Parties that each have a Lotl instance, and a network. Every party has its tables
`pre_keys` (`oneTime`), `identity_keys` (`pinned`) and `sessions` (`record`); a
reinstallation (`Reinstall`) gives it a new identity and empty tables. `base`
remembers for whom and for which one-time key a session was made: it stands for
the key agreement, which no party can read.

| actions | code |
|---|---|
| `GenerateBundle` | the one-time key with the highest id; lib.rs:266 and 685 |
| `BeginProcess`, `BeginEncrypt`, `BeginDecrypt`, `BeginAccept` | the reads of `process_prekey_bundle`, `encrypt` and `decrypt` (of a message in a known session, and of one that begins a session), `is_trusted_identity` included |
| `SaveIdentity`, `RemovePreKey`, `StoreSession` | the writes that libsignal makes through the stores of signal_storage.rs, in its order |
| `CutShort` | the process dies, or the next write fails, before any of these |
| `DeleteSession`, `DeleteIdentity`, `Replenish` | calls of one statement, and the refill as one step (`KeyRotation` has its steps) |

What libsignal (v0.80.0, the version in `Cargo.toml`) is taken to do: save the
identity, remove the one-time key, store the session, in this order; keep the earlier sessions
of a peer in the record and make the one that read a message current; refuse a
message number that was received. Cryptography is ideal. A peer is addressed by one
name and device 1, as in lotl. Signed and Kyber keys are left to `KeyRotation`.

The network is the set of messages sent: nothing is ever taken out, so a message may
be lost, delayed, overtaken and delivered any number of times.

`Channel` is the abstract specification of what the two applications see: a party begins
a session with a one-time key of another, whoever is in a session sends messages with
rising numbers, the other party joins by reading one, a key serves one session, and a
message is handed out once. It has no storage, record or identity, no first messages
that carry keys, and nothing that fails. The instance `Promise` at the end of `Sessions` maps it:

| abstract | in `Sessions` |
|---|---|
| `agreed` | `base`, the sessions begun, without the installations |
| `joined` | `accepted` |
| `sent`, `read` | `network`, `returned`, without what makes a message a first one |
| `answers` | `answers`, a history variable that counts the ciphertexts and plaintexts returned, so that giving out one a second time is not a stutter |

### DbKeyFile

The key file, the database beside it, and the steps of `DbConnection::new` in any
number of processes: read the key file, or make a key, truncate the file, write it,
and touch the database (`PRAGMA journal_mode`, the first statement that reads it),
which takes the key of whoever comes first. `disturbed` records that a key was
generated while there was one in the file or another process was about to store one.
A partial write is the same as none: `read_exact` refuses both.

### StoreData, StorageTraits, MemoryStore, SqliteStore, Stores

`StorageTraits` is the abstract specification: one action per operation that writes,
over tables keyed by addresses and by ids. It is deliberately loose where the code of
the two back ends differs: the registration id once a key pair has been set, and the
answers to "older than" within one second (`MayBeOlderThan`).

`MemoryStore` and `SqliteStore` are the two back ends, one action per operation and one
operator per read, named as in the code with the prefix `Mem` or `Db`. Each is mapped
to the traits by an instance at its end:

| abstract | `MemTraits` | `DbTraits` |
|---|---|---|
| `sessions`, `identities` | the maps read through `AddressKey`, the text `name:device` | the tables |
| `pair`, `registration` | the two options | the columns of the one row of `local_identity`; the blob X'' is no pair |
| `signed`, `kyber` | the maps | the column of times (`TimesOf`), whatever `created_at` and `is_current` are |
| nothing | | `schema_info`, `attached`, `isClosed` |

A name is a sequence of its parts between colons, since joining with a colon is what
could go wrong in `memory_storage.rs:13`. `SqliteStore` has the life cycle of the
storage object: `Accessible` is the guard of the accessors (attached and not closed),
`UsableByLibsignal` that of libsignal's calls, which only need the stores to be there;
`DbInitializeFails` is an `initialize_schema` that stops half way.

`Stores` gives both back ends the same calls, when SQLite takes them, and the life
cycle to SQLite alone. It also has the loop of `cleanup_expired_*`, generic in the
back end, as the fold `Cleanup`.

### Contacts

`add_contact` and `store_nostr_identity` are two statements each: `BeginAdd` and
`BeginMap` read, `InsertContact`, `UpdateContact` and `StoreMapping` write, and the
calls of other connections, removals by the application and faults fall between. A read
error in `add_contact` looks like an absent contact (`BeginAddMisread`). Conversations and
mappings refer to contacts with ON DELETE CASCADE; `Builds` says whether SQLite
enforces it. `meanwhile` is a history variable: what happened to contacts and mappings
between the two statements of each call.

### MC modules

`MCKeyRotation` holds what comments and tests of the repository say of key
custody, for the runs that expect a violation. `MCMessageHistory` adds the model
values and the symmetry of connections and contacts (every definition treats them
alike, and only invariants are checked under it); `MCSessions` and `MCDbKeyFile` do
the same. `MCStores` has two names, one of which is the beginning of the other, so that
their texts differ only in the number of parts. `Contacts` needs no such module.

Definitions that begin with "Not the code:" are plausible wrong versions of the
definition after them. They are not part of any specification; replacing the right
one by them shows that a property notices.

## Runs

| run | instance | what it shows |
|---|---|---|
| `keys` | debug and release build, a clock that starts less than a grace period after the epoch, fair scheduler, one fault of any of the seven kinds, one one-time key used | `TypeOK`, `SupersededKeysExpired`, `PublishedPreKeysUsable`, `KeysSignedByIdentity`, `StoreNeverEmptied`, `CurrentKeySurvives`, `RotationOnlyWhenOld`, `MaintenanceResult`, `BundleEventuallyReady`, `SupersededKeysErased` |
| `keys_grace` | no faults | violates `GracePeriodHonoured` |
| `keys_identity_misread` | one failing read of the identity | violates `BundleKeysVerify` |
| `history_single` | one connection, one contact, three messages with any of three timestamps, one call cut short, foreign keys on or off | `TypeOK`, `StatusOfItsReport`, `UnreadIsExact` |
| `history_shared` | two connections, two contacts, two messages, two conversations | `StatusOfItsReport`, `MessagesFiledUnderPeer` |
| `history_mark_race` | a message in the second of the newest one loaded | violates `UnseenStayUnread` |
| `sessions` | two parties, one of which publishes bundles; two sessions, two messages each way, one call cut short, one reinstallation, one deletion | `TypeOK`, `OneSessionPerKey`, `ReturnedOnce`, `NumbersFresh`, `IdentityPinned`, `SessionsImplementChannel` |
| `sessions_shared_key` | two peers given bundles in a row, two one-time keys | violates `FirstMessagesReadable` |
| `db_key` | three processes, three faults | `TypeOK`, `KeyFileOpensDatabase` |
| `stores` | both back ends, two names, three key ids, three times, three rows, two rows in `schema_info` | `TypeOK`, `SameAnswers`, `ExpiredWithinSecond`, `CleanupKeepsKey`, `MemoryImplementsTraits`, `SqliteImplementsTraits`, `SchemaVersionKept`, `FrozenOnceClosed` |
| `contacts` | two connections, two contacts, two Nostr keys, one call cut short or misreading, foreign keys on or off | `TypeOK`, `OneOwnerPerPubkey`, `DependentsHaveContact`, `MappingLostOnlyInRace`, `ReAddKeepsDependents`, `AddTakesEffect` |
| `contacts_alias` | one connection, one contact, no faults | violates `AliasUpdatedOnlyIfProvided` |

What the properties say, beyond their names:

* **The current key survives although nothing protects it by name.** The clean-up
  lists expired ids first and deletes them later, while more than one key is left.
  The list may hold the current key. What keeps that key is the order (SQLite
  scans by id, so the current key comes last) together with the re-read of the
  count. Once the clock was set back, or a `MAX(id)` or a count was not read, the current
  key *can* be deleted or overwritten (`CurrentKeySurvives` excludes that), but the
  table is still never emptied (`StoreNeverEmptied` excludes nothing).
* **`MaintenanceResult`.** Whatever was cut short before, a call of
  `perform_key_maintenance` that returns Ok leaves a store from which a bundle can
  be built, and enough one-time keys. That there is exactly one signed and one Kyber key is
  a consequence of rotation interval = grace period, and needs every count to have been
  read: where one was not, clean-up returns Ok without cleaning up.
* **`SupersededKeysExpired`** is the reason for it: a key is superseded only when
  it has expired already, unless `MAX(id)` was not read, when a young key is rotated out.
  The same equality is behind the finding of `keys_grace`:
  the grace period never passes, since it is counted from the creation of the old
  key and not from that of its successor.
* **`RotationOnlyWhenOld`** speaks of the steps that read their `MAX(id)`, after whatever
  other faults; **`PublishedPreKeysUsable`** of all behaviours in which it was always read,
  since one failing read restarts the ids at 1 over keys that bundles name.
* **`UnreadIsExact`** gives the whole meaning of the unread count on one
  connection: the messages that the last mark as read left out (those with a later
  timestamp than its own) and all that were stored since, whatever their
  timestamps, up to `drift`, which counts
  exactly the two ways in which the code lets it drift (a deletion of unread
  messages; a call cut short between inserting and counting).
* **`MessagesFiledUnderPeer` and `StatusOfItsReport`** rest on AUTOINCREMENT: ids
  are never given out twice, so a stale id names nothing rather than something
  else. With foreign keys off a message may be left without a conversation, never
  in a wrong one.

* **`ReturnedOnce` after a deletion.** `delete_session` forgets which messages were
  received. A first message that is replayed afterwards finds no session, and what
  refuses it is that its one-time key is gone; a key given the same id later is
  another key. A replay of a later message finds no session at all. The same argument
  carries `OneSessionPerKey` across the crash between removing the key and storing
  the session, which loses the message for good but reads nothing twice.
* **`NumbersFresh`** rests on the order in `encrypt`: the ciphertext is returned after
  the session that counts it is stored. A crash costs a number.
* **`IdentityPinned`** is trust on first use across the whole call: the check is made
  before, and the write is `INSERT OR REPLACE`.
* **`SessionsImplementChannel`** puts them together as a refinement, with an order besides:
  nothing is read before it is sent, a party reads what the initiator wrote only in a
  session that it joins or has joined, and writes only then.
* **`KeyFileOpensDatabase`** says exactly when the key file can be trusted: always,
  unless a key was generated beside another one. Without the second half it is
  false (see below).

* **`MemoryImplementsTraits` and `SqliteImplementsTraits`** are refinements: every step
  of a back end is a step of the traits or changes nothing they can see. On the
  in-memory side that needs texts of different addresses to differ; on the SQLite side
  it needs the COALESCE of the two upserts of `local_identity`, and that no step of the
  life cycle touches what is stored.
* **`SameAnswers`** is why tests on the in-memory store say something about production:
  `key_rotation.rs` and `keys.rs` are tested on one and run on the other. The one
  difference (a registration id of 0 where the in-memory store has an error) is in it.
* **`ExpiredWithinSecond`** bounds the other difference: SQLite compares whole seconds,
  the in-memory store milliseconds.
* **`CleanupKeepsKey`** runs the clean-up loop over every order a hash map may answer
  in, and over the id order of SQLite: a key always stays, but only in id order is it
  the newest.
* **`SchemaVersionKept`**: each start adds a row with version 1 to `schema_info`, which
  has no unique column. What is read stays, because the first row is read and the
  update writes all of them; whether it is the first is the scan order of SQLite, which
  the code leaves open by not sorting.
* **`FrozenOnceClosed`**: `initialize` after `close` attaches the stores again and leaves
  the mark. What the accessors reach stays as it is; what libsignal writes does not.
* **`OneOwnerPerPubkey` and `MappingLostOnlyInRace`**: the check for an owner of a Nostr
  key may be stale when the mapping is inserted. The UNIQUE column with INSERT OR REPLACE
  keeps the key with one contact, at the price of taking it silently from another;
  the second property says that nothing else takes a mapping away.
* **`ReAddKeepsDependents`** is about UPDATE against an upsert that replaces, which would
  cascade to the history of the contact.
* **`AddTakesEffect`** covers the races of `add_contact`: a conflict means that the contact
  is there, an update of a removed contact is Ok and stores nothing. Of the alias it says
  only that one that was given is stored; what happens to the alias when none is given is
  the finding of `contacts_alias`.

### Bounds

The intervals are 1 s instead of seven days. In `keys` the clock starts at 0.5 s and
advances by 1.5 s or 2 s up to 4 s, so that a subtraction of the grace period goes below
zero at the start and after a step back, an age below, at and above the interval all
occur, and the millisecond to second rounding matters; the two other key runs step by
0.5 s and 1.5 s. What the code depends on is the relation of the two intervals, which is
kept: they are equal. `MIN_PRE_KEY_COUNT` and `REPLENISH_COUNT` are 2 and 2 instead of
50 and 100: the guard is taken both ways, a refill is cut short, and ids are given out
again. `TwoTo64` is 10^6, far above any time of a behaviour, so that a wrapped
subtraction is recognisably large, as it is with the true modulus. `MaxNow` allows two
rotations of each key in `keys`. One fault in `keys` is one of any kind at any
statement: two failing reads in a row, or a crash after one, are left to the theorems,
which bound no faults. Two connections are enough for the stale ids, since a stale id
needs one call that holds it and one that deletes; two conversations are needed so that
a wrong id has something to name, and two messages so that one may take the place of
another. `drift` and `UnreadIsExact` need a third message: one before a mark, one after
it, one deleted. Three timestamps allow three messages in any order, two in one second,
and one older than all that are stored; in `history_shared` no property looks at them,
and there is one. No state constraint is used: bounds are guards, named in the
constants.

In `sessions` one party publishes and the other writes first, as in the tests; both
answer. Two sessions allow a second one for the same peer, for a one-time key whose
id was given out before, or for a new installation; two messages allow
reordering and a replay of a first message that is not the first one. In `db_key` the
third process comes upon what the other two left behind.

In `stores`, three times fall into one second twice and into another once, and the cutoffs
between and at them; three rows let every table be full, and three ids give a
table of signed keys six orders to be cleaned up in. Two rows of `schema_info` are the
fewest that may disagree. In `contacts`, two connections suffice for a stale check, two
Nostr keys and two contacts for one to be taken away, and one second for `first_seen` to
be wrong.

`CHECK_DEADLOCK FALSE` is set for the history, the sessions and the key file, which
stop when their bounded supply (of messages, sessions, keys) is used up.

### Fairness

`LiveSpec` assumes that a call once begun runs on (`WF_vars(Step)`), that the
application reopens a closed database (`WF_vars(Open)`), and that it calls
`perform_key_maintenance` again and again (`SF_vars(BeginMaintenance)`; strong, as
other calls may take the handle in between). Nothing in
the library schedules maintenance (`perform_key_maintenance` is there for the
application to call), so the last one is an assumption about the application. Time
need not advance: `SupersededKeysErased` speaks of the superseded keys that are past
their grace period, as they all are unless a fault disordered them, and these
stay so unless the clock is set back. Faults are bounded, so that in the end a call reads
what it asks for. No fairness is assumed of faults or of the peer.

## Proofs

TLAPS proves, for all values of the constants allowed by the assumptions:

| theorem | module | statement |
|---|---|---|
| `TypeCorrect` | `KeyRotationProofs` | `Spec => []TypeOK` |
| `StoreNeverEmptiedHolds` | `KeyRotationProofs` | `Spec => StoreNeverEmptied` |
| `RotationOnlyWhenOldHolds` | `KeyRotationProofs` | `Spec => RotationOnlyWhenOld` |
| `PublishedPreKeysUsableHolds` | `KeyRotationProofs` | `Spec => []PublishedPreKeysUsable` |
| `SupersededKeysExpiredHolds` | `KeyAgeProofs` | `Spec => []SupersededKeysExpired`, assuming `IntervalsOrdered` |
| `KeysSignedByIdentityHolds` | `KeyAgeProofs` | `Spec => []KeysSignedByIdentity` |
| `CurrentKeySurvivesHolds` | `KeyAgeProofs` | `Spec => CurrentKeySurvives`, assuming `IntervalsOrdered` |
| `MaintenanceResultHolds` | `KeyAgeProofs` | `Spec => MaintenanceResult`, assuming `IntervalsOrdered` and `MinPreKeyCount # 0` |
| `TypeCorrect` | `MessageHistoryProofs` | `Spec => []TypeOK` |
| `MessagesFiled` | `MessageHistoryProofs` | `Spec => []MessagesFiledUnderPeer` |
| `StatusOfItsReportHolds` | `MessageHistoryProofs` | `Spec => []StatusOfItsReport` |
| `UnreadIsExactHolds` | `MessageHistoryProofs` | `Spec => []UnreadIsExact`, assuming one caller |
| `IdentityPinnedHolds` | `SessionsProofs` | `Spec => IdentityPinned` |
| `OneSessionPerKeyHolds` | `SessionsProofs` | `Spec => []OneSessionPerKey` |
| `ReturnedOnceHolds` | `SessionsProofs` | `Spec => ReturnedOnce` |
| `NumbersFreshHolds` | `SessionsProofs` | `Spec => NumbersFresh` |
| `SessionsImplementChannelHolds` | `SessionsProofs` | `Spec => SessionsImplementChannel` |
| `TypeCorrect` | `SessionsProofs` | `Spec => []TypeOK` |
| `TypeCorrect` | `DbKeyFileProofs` | `Spec => []TypeOK` |
| `KeyFileOpensDatabaseHolds` | `DbKeyFileProofs` | `Spec => []KeyFileOpensDatabase` |
| `TypeCorrect` | `StoresProofs` | `Spec => []TypeOK` |
| `MemoryImplementsTraitsHolds` | `StoresProofs` | `Spec => MemoryImplementsTraits` |
| `SqliteImplementsTraitsHolds` | `StoresProofs` | `Spec => SqliteImplementsTraits` |
| `SameAnswersHolds` | `StoresProofs` | `Spec => []SameAnswers` |
| `ExpiredWithinSecondHolds` | `StoresProofs` | `Spec => []ExpiredWithinSecond` |
| `SchemaVersionKeptHolds` | `StoresProofs` | `Spec => SchemaVersionKept` |
| `FrozenOnceClosedHolds` | `StoresProofs` | `Spec => FrozenOnceClosed` |
| `CleanupKeepsKeyHolds` | `StoresProofs` | `Spec => []CleanupKeepsKey` |
| `TypeCorrect` | `ContactsProofs` | `Spec => []TypeOK` |
| `OneOwnerPerPubkeyHolds` | `ContactsProofs` | `Spec => []OneOwnerPerPubkey` |
| `DependentsHaveContactHolds` | `ContactsProofs` | `Spec => []DependentsHaveContact` |
| `MappingLostOnlyInRaceHolds` | `ContactsProofs` | `Spec => MappingLostOnlyInRace` |
| `ReAddKeepsDependentsHolds` | `ContactsProofs` | `Spec => ReAddKeepsDependents` |
| `AddTakesEffectHolds` | `ContactsProofs` | `Spec => AddTakesEffect` |

`PreKeyTableProofs` has the lemmas about the table operators (what `Put` and
`Drop` do to the highest id and the count, that a key due for rotation is past
grace, that this lasts as time passes).

*Type correctness* needs one fact alongside (`BaseInv`): the steps that sign with
the identity key pair have one (`IdentityHeld`). *StoreNeverEmptied* follows from it
step by step: whatever the list of expired ids holds, a key is deleted only from a
table that has two. Swallowed errors do not matter to it: a count that was not read
keeps a key.

*Rotation only of old keys.* Only rotation raises the highest id of a table that holds a
key (the first run saves under id 1, clean-up takes rows away). Where it read its id, it
compared a real age: a debug build got past the checked subtraction, and a clock that was
never set back is behind the time of no key (`ClockInv`).

*Published keys stay usable.* `MAX(id) + 1` names an id above every stored one at
the moment it is read; the insertions follow one at a time. The invariant is that
the ids left to save are not in the table (`BatchIsFree`), so that a `Put` replaces
nothing; consumption moves a key from "usable" to "used" in one step. It holds as long as no
`MAX(id)` was misread, and so does the property.

*The age theorems* hold under conditions on what has happened, which are part of the
properties: a fault that happened stays in `happened`, so a step that keeps the
condition is none of these faults, and each invariant is inductive as the conclusion of
`Spared(kinds) => ...`. Their one assumption is `IntervalsOrdered`: the rotation
interval is at least the grace period. `SignInv` (unless the identity was cleared or
misread) says that every key is signed by the identity, and that during the first run
the tables about to be filled are empty (`FirstRunTables`). `AgeInv` (unless a fault
disordered the keys) adds that no key's time is ahead of the clock (`NoKeyAhead`) and
that superseded keys are past grace (`SupersededPastGrace`). `VisitInv` (and every count
was read) adds that, as long as the current key is on the list of the clean-up loop, so
is every key there is (`CurrentVisitedLast`). The last part carries the survival of the
current key: the loop takes the least id first, so when it reaches the current key no
other is left, the count is one and the guard holds. An id that is passed over because
it could not be counted breaks exactly this.

*The result of maintenance.* `MaintenanceInv` follows a call to its end, after any
faults: a rotation leaves a key in each table, so the bundle can be built, and the
refill saves as many keys as the count it read fell short of, whatever crashes left
earlier; a count that is misread makes it save more, and after a `MAX(id)` that is
misread the batch alone is enough. `CleanUpInv`, under the condition of `VisitInv`: when
a list of expired ids is made, every superseded key is on it, and the loop takes them
off until one key is left, the current one. `MinPreKeyCount # 0` (it is 50,
key_rotation.rs:14) is needed for the bundle: with no keys to keep in stock a call could
return without one to hand out.

*Filing of messages.* `FilingInv` adds to the property that conversation ids are
distinct and at most the AUTOINCREMENT counter, and that a call about to insert a
message holds an id that belongs to its contact or to no row. A new conversation takes
the counter plus one, which no held id can equal.

*Statuses and types of the history.* `TypesOK` says what each statement finds in the
locals of its call (`LocalsOK`), what types the rows, counters and marks have (`RowsOK`,
`CountersOK`, `MarksOK`), and that the AUTOINCREMENT counter of messages is the number
of messages ever stored, so that every message, and every id the application holds,
goes by its serial number (`SerialsOK`). From the last part follows that a reported
status goes to the message it was reported for.

*The count of unread messages.* Between two statements of a call the count is off by what
the call still owes it, so the invariant (`ExactInv`) has three parts: the call in
progress finds the conversation that it read, still under the same id, and the count that
it is about to write is still true (`CallsExact`); no message is without a conversation
(`NoOrphans`); and the count plus what is owed is the number of messages to read (`toRead`)
plus the drift (`Counted`), one cardinality argument per statement. That there is one caller
is needed: with two, the count that was read may be stale when it is written
(message_history.rs:562). Nothing is assumed of the timestamps: a message stored with
a timestamp that the last mark already covers counts as unread until the next mark, and
`toRead` says the same.

*Trust on first use.* The invariant (`TrustInv`) says that the identity which a call is
about to save was trusted when it began and still is: the row is empty or
equal. Nothing can come between, since the calls of one party do not interleave;
deletions happen between calls.

*One session per one-time key* (`OneTimeInv`). A key in the table has begun no session
(`FreshInTable`); a call that is going to begin one has a key that began none, and that
is out of the table before the session is stored (`FreshInCall`). Since ids are given
out again, keys are told apart by their material: no key, bundle or session is ahead of
the count of its party (`MintedOK`), so that a refill or a reinstallation adds keys that
no session was made for.

*What a message stands for* (`ChannelInv`). A session on record is one of the two parties, and was
begun by the owner of the record or accepted by it; its state counts every message that the
owner sent in it and has seen every one that was returned to it. After a deletion nothing
is left of the latter, but a first message would have to be accepted again then, and the
key for it is gone.

*The types of the sessions* (`SessionTypes`) rest on the other three invariants. A table of
one-time keys has one key per id, with ids and numbers up to the count of the party's
keys (`KeyTable`: `MAX(id) + i` lies above every id, and ids never overtake the
count), so that there are as many ids as keys by a bijection; no identity, in a table, a
bundle, a session or a call, is ahead of the installations of its owner (`IdentitiesOK`:
that of a peer in a session on record is one the peer had); and a record speaks of
sessions that were begun only (`RecordsFit`).

*The channel.* The last step of encrypt and decrypt is the step of the channel
(`ReturnsSent`, `ReturnsRead`), process_prekey_bundle begins a session
(`ProcessBeginsSession`), all else shows nothing (`StepsThatShow`). It takes the
invariants above and two more (`PromiseInv`): two messages of one party in a session
with one number are one message (`NumbersTellMessages`), so that forgetting whether it
carries keys loses nothing; and what a bundle names was published (`BundlesFit`).

*The key file.* Undisturbed, at most one process is making a key, and then the file has
none and the database is empty; whoever is past storing holds the key that is in the
file (`KeyInv`).

*The back ends.* That an address is the text of one address only (`AddressKeyInjective`)
makes the tables of the in-memory store, read by address, change as the traits say
(`ByAddressOfPut`, `ByAddressOfDrop`); it needs nothing but that names and devices are
sequences of parts and single parts. The refinement of the SQLite store needs its type
invariant (`DbTablesOK`). `SameAnswers` is not inductive: what is, is that the two back ends
hold the same (`CoupledPeers`, `CoupledLocal`, `CoupledKeys`), with counts equal because the
map has no text that is not of an address. `ExpiredWithinSecond` adds that `created_at` is
the time of the record cut to the second (`InSeconds`).

*Clean-up.* `Cleanup` is a recursive function of the number of visits. That it exists
(`LeavesExist`), and that what a visit preserves is preserved by all (`CleanupKeeps`),
is shown by the least number of visits for which it would fail, since the induction
theorems of the library cannot be used. In the order of the ids, when all are expired, a
visit before the last drops its key because the last one is still there; the last visit
finds no other (`CleanupKeepsNewest`). Tables are finite because a call adds a row at a
time (`SignedFinite`).

*Contacts.* `Inv` joins to the types that the call of a connection holds arguments of its
statement (`CallsOK`); that a Nostr key which another contact owns when a mapping is
about to be stored was mapped since the check (`MapRace`); and that a contact which an
update is about to change is there, or was removed since it was read (`AddRace`).

Every safety property of a passing run is stated by a theorem. Only model-checked are the
liveness properties `BundleEventuallyReady` and `SupersededKeysErased`: liveness under
fairness is beyond this prover.

## What the checks found

* A rotated-out key gets no grace period (`keys_grace`; key_rotation.rs:18-20, 81).
* A failing read of a `MAX(id)` rotates a key that is not old, although
  key_rotation.rs:50 and 177 say "true if key is older than rotation interval, false
  otherwise"; when it is the read of the rotation that fails, the new key is saved under
  id 1 over the one that is there (key_rotation.rs:31-34, 146-147), and when it is that of
  a refill, the ids of one-time keys restart at 1, over keys that bundles name
  (key_rotation.rs:125; signal_storage.rs:739, 883, 1061).
  `SupersededKeysExpired`, `CurrentKeySurvives` and `PublishedPreKeysUsable` each
  exclude it.
* A failing read of a count makes clean-up return Ok without cleaning up
  (key_rotation.rs:86, 91; signal_storage.rs:867, 1045); `MaintenanceResult` excludes
  it, and the next maintenance makes up for it (`SupersededKeysErased`).
* A failing read of the identity replaces the identity and leaves bundles signed by the
  old one (`keys_identity_misread`; lib.rs:157).
* A crash in the first run leaves an instance that opens without keys (lib.rs:157);
  maintenance repairs it (`BundleEventuallyReady`, `MaintenanceResult`), except for the
  registration id, which stays 0.
* A message in the second of the newest loaded one is marked as read unseen
  (`history_mark_race`; message_history.rs:557).
* All peers that are given bundles before one of them writes share one one-time key, and
  only the first of their messages to arrive can be read (`sessions_shared_key`;
  lib.rs:277).
* Deleting an unread message leaves it in the count (message_history.rs:576); so does a
  crash before it is counted leave one out. `drift` in `UnreadIsExact` counts both.
* Two processes that start on a new path, or one failing read of the key file later, may
  leave a key in the file that does not open the database (db_encryption.rs:94).
  `disturbed` in `KeyFileOpensDatabase` is exactly these two cases.
* Two connections that map one Nostr key at the same time both get Ok, and the mapping
  of the first is gone (integrations/nostr/storage.rs:74), where storage.rs:45-48 says
  that "attempting to store a different fingerprint with the same nostr_pubkey will
  fail", and line 57 promises "Error if the nostr_pubkey is already associated with a
  different fingerprint"; `MappingLostOnlyInRace` has exactly this case.
* Adding a known contact without an alias takes its alias away (`contacts_alias`;
  contact_manager.rs:98), where lines 62-64 say that it "is only updated if provided".
* A storage that is closed and initialised again is half open: libsignal writes
  sessions, identities and one-time keys through it, and the accessors refuse
  (signal_storage.rs:103, 157; `FrozenOnceClosed`).
* Clean-up on the in-memory store may leave any of the expired keys, on SQLite only the
  newest (`CleanupKeepsKey`): a test on the former cannot rely on which.

## Plan

In order of importance:

1. Signed and Kyber keys in `Sessions`, with rotation and clean-up between the bundle
   and the first message, composed with `KeyRotation` (what the missing grace period
   does to a peer); simultaneous initiation by both parties.
2. `KeyCustody`, an abstract specification of what key custody promises (a key is
   published, then used or erased), with `KeyRotation` shown to implement it; and an
   abstract inbox implemented by `MessageHistory`.
3. Two handles on one database: `replenish_pre_keys` and rotation interleaved.

Proofs to follow: the refinements of step 2.

## Not modelled

Cryptography (the ratchet, signatures, the derivation of Nostr keys and the digest of a
fingerprint, which is an ideal hash), serialisation, the SQLite engine (a statement is
atomic and durable) and logging. The wrappers by which each storage passes its stores
to libsignal have no state of their own. `list_contacts`, `list_conversations` and
`get_message` only read, and the derivation context of a Nostr key is read by nothing.
Two handles that rotate or refill keys on one database at the same time are not
modelled: `KeyRotation` has one handle, whose `&mut self` serialises the calls.
The age of `created_at` is taken from the
record's own timestamp, as `save_signed_pre_key` does.
`Replenish` in `Sessions` and the tables of `Stores` have no failing reads: what a misread
`MAX(id)` or count does to the keys is in `KeyRotation`, and what it would do to a peer
is not modelled.
