------------------------------ MODULE Sessions ------------------------------
(***************************************************************************)
(* Sessions between parties that each have a Lotl instance: bundles        *)
(* processed, messages encrypted and decrypted, sessions deleted, and the  *)
(* three tables behind them: sessions, identity_keys and pre_keys.         *)
(*                                                                         *)
(* A call reads what it needs, and libsignal then writes through the       *)
(* stores: the identity of the peer, the removal of a one-time pre-key,    *)
(* and the session last.  Each write commits on its own; a call can be cut *)
(* short before any of them, and what it computed is returned only after   *)
(* the last.  The calls of one party do not interleave (&mut self).        *)
(*                                                                         *)
(* The network loses, duplicates and reorders: a message that was sent may *)
(* be decrypted at any time, any number of times.  Cryptography is ideal:  *)
(* a message is read with the very session, one-time key and message       *)
(* number for which it was made, or not at all.                            *)
(***************************************************************************)
EXTENDS Integers, FiniteSets, FiniteSetsExt, Sequences

CONSTANTS
    Parties,
    Publishers,     \* the parties whose bundles are given to others
    MinPreKeyCount, \* MIN_PRE_KEY_COUNT, key_rotation.rs:14
    ReplenishCount, \* REPLENISH_COUNT, key_rotation.rs:16
    MaxMinted,      \* bound: the one-time pre-keys that a party generates
    MaxSessions,    \* bound: the bundles ever processed
    MaxSent,        \* bound: the messages that a party sends in a session
    MaxReinstalls,  \* bound: the installations that are replaced
    MaxDeletes,     \* bound: the deletions of sessions and of identities
    MaxFaults       \* bound: the calls cut short

ASSUME BoundsAssumption ==
    /\ Publishers \subseteq Parties
    /\ ReplenishCount \in Nat \ {0}
    /\ MinPreKeyCount \in Nat
    /\ {MaxMinted, MaxSessions, MaxSent, MaxReinstalls, MaxDeletes, MaxFaults}
          \subseteq Nat
    /\ ReplenishCount <= MaxMinted   \* room for the keys of the first installation

VARIABLES
    install,   \* party -> its installation: each has an identity of its own
    oneTime,   \* party -> table pre_keys, as a set of <<id, key material>>
    pinned,    \* party -> peer -> table identity_keys: installation, 0 for none
    record,    \* party -> peer -> table sessions
    step,      \* party -> the next write of its call, or "idle"
    arg,       \* party -> what its call has computed
    bundles,   \* the bundles published
    base,      \* for each session, whom and which keys it was made for
    network,   \* the messages sent
    minted,    \* history: party -> the one-time pre-keys it generated
    returned,  \* history: the messages whose plaintext was returned
    accepted,  \* history: the sessions begun by a first message that was read
    answers,   \* history: how many ciphertexts and plaintexts calls returned
    deletes,   \* history: the deletions so far
    faults     \* history: the calls cut short

tables  == <<install, oneTime, pinned, record>>
calls   == <<step, arg>>
outside == <<bundles, base, network>>
history == <<minted, returned, accepted, answers, deletes, faults>>
vars    == <<tables, calls, outside, history>>

-----------------------------------------------------------------------------
(* Session records: the current session and the earlier ones, each with    *)
(* whether the peer still has to acknowledge it, how many messages were    *)
(* sent in it, and the numbers of those received.                          *)

NoRecord == [current |-> 0, states |-> [s \in {} |-> 0]]

NoKey == <<0, 0>>

NoMessage == [session |-> 0, number |-> 0, from |-> "none", first |-> FALSE]

State(pending, sent, seen) == [pending |-> pending, sent |-> sent, seen |-> seen]

\* The record with this session as its current one.
WithCurrent(rec, s, st) ==
    [current |-> s,
     states |-> [x \in DOMAIN rec.states \cup {s} |->
                    IF x = s THEN st ELSE rec.states[x]]]

Peer(p, s) == IF base[s].by = p THEN base[s].to ELSE base[s].by

\* The installation of the peer with which p shares session s.
PeerInstall(p, s) ==
    IF base[s].by = p THEN base[s].toInstall ELSE base[s].byInstall

\* Not the code: whoever answers at an address is trusted.
TrustAnyone(p, q, identity) == TRUE

\* is_trusted_identity: trust on first use.
IsTrusted(p, q, identity) == pinned[p][q] \in {0, identity}

\* The ids in table pre_keys; MAX(id), or 0.
KeyIds(p) == {k[1] : k \in oneTime[p]}

MaxKeyId(p) == IF oneTime[p] = {} THEN 0 ELSE Max(KeyIds(p))

\* Not the code: the ids start at the last one.
NewKeysFromLast(p, id, count) == {<<id + i - 1, minted[p] + i>> : i \in 1 .. count}

\* What replenish_pre_keys adds.
NewKeys(p, id, count) == {<<id + i, minted[p] + i>> : i \in 1 .. count}

Args(q, identity, rec, key, msg, result) ==
    [peer |-> q, identity |-> identity, rec |-> rec, key |-> key, msg |-> msg,
     result |-> result]

NoArg == Args("none", 0, NoRecord, NoKey, NoMessage, "none")

Busy(p, s) == step[p] = s

Go(p, s, a) ==
    /\ step' = [step EXCEPT ![p] = s]
    /\ arg' = [arg EXCEPT ![p] = a]

\* The installation comes up: Lotl::new has generated one-time pre-keys.
Init ==
    /\ install = [p \in Parties |-> 1]
    /\ minted = [p \in Parties |-> IF p \in Publishers THEN ReplenishCount ELSE 0]
    /\ oneTime = [p \in Parties |->
          {<<i, i>> : i \in 1 .. (IF p \in Publishers THEN ReplenishCount ELSE 0)}]
    /\ pinned = [p \in Parties |-> [q \in Parties |-> 0]]
    /\ record = [p \in Parties |-> [q \in Parties |-> NoRecord]]
    /\ step = [p \in Parties |-> "idle"]
    /\ arg = [p \in Parties |-> NoArg]
    /\ bundles = {}
    /\ base = <<>>
    /\ network = {}
    /\ returned = {}
    /\ accepted = {}
    /\ answers = 0
    /\ deletes = 0
    /\ faults = 0

-----------------------------------------------------------------------------
(* The beginnings of calls.                                                *)

\* generate_prekey_bundle: the one-time pre-key with the highest id.
GenerateBundle(p) ==
    /\ Busy(p, "idle")
    /\ \E k \in oneTime[p] :
          /\ k[1] = MaxKeyId(p)
          /\ bundles' = bundles \cup {[of |-> p, install |-> install[p], key |-> k]}
    /\ UNCHANGED <<tables, calls, base, network, history>>

\* process_prekey_bundle: a new session becomes the current one.
BeginProcess(p, b) ==
    /\ Busy(p, "idle")
    /\ b.of # p
    /\ Len(base) < MaxSessions
    /\ IsTrusted(p, b.of, b.install)
    /\ base' = Append(base, [by |-> p, byInstall |-> install[p], to |-> b.of,
                             toInstall |-> b.install, key |-> b.key])
    /\ Go(p, "saveIdentity",
          Args(b.of, b.install,
               WithCurrent(record[p][b.of], Len(base) + 1, State(TRUE, 0, {})),
               NoKey, NoMessage, "ok"))
    /\ UNCHANGED <<tables, bundles, network, history>>

\* encrypt: the next message of the current session.  It carries the session's
\* keys along as long as the peer has not acknowledged the session.
BeginEncrypt(p, q) ==
    /\ Busy(p, "idle")
    /\ LET rec == record[p][q]
           s   == rec.current
           st  == rec.states[s]
           msg == [session |-> s, number |-> st.sent + 1, from |-> p,
                   first |-> st.pending]
       IN  /\ s # 0
           /\ st.sent < MaxSent
           /\ IsTrusted(p, q, PeerInstall(p, s))
           /\ Go(p, "saveIdentity",
                 Args(q, PeerInstall(p, s),
                      WithCurrent(rec, s, State(st.pending, st.sent + 1, st.seen)),
                      NoKey, msg, "sent"))
    /\ UNCHANGED <<tables, outside, history>>

\* Not the code: what a session has received is not asked for.
BeginDecryptSeen(p, m) ==
    /\ Busy(p, "idle")
    /\ LET s   == m.session
           q   == m.from
           rec == record[p][q]
       IN  /\ Peer(p, s) = q
           /\ s \in DOMAIN rec.states
           /\ IsTrusted(p, q, PeerInstall(p, s))
           /\ Go(p, "saveIdentity",
                 Args(q, PeerInstall(p, s),
                      WithCurrent(rec, s,
                          State(FALSE, rec.states[s].sent,
                                rec.states[s].seen \cup {m.number})),
                      NoKey, m, "read"))
    /\ UNCHANGED <<tables, outside, history>>

\* decrypt, in a session that is on record: each message number once.
BeginDecrypt(p, m) ==
    /\ Busy(p, "idle")
    /\ LET s   == m.session
           q   == m.from
           rec == record[p][q]
       IN  /\ Peer(p, s) = q
           /\ s \in DOMAIN rec.states
           /\ m.number \notin rec.states[s].seen
           /\ IsTrusted(p, q, PeerInstall(p, s))
           /\ Go(p, "saveIdentity",
                 Args(q, PeerInstall(p, s),
                      WithCurrent(rec, s,
                          State(FALSE, rec.states[s].sent,
                                rec.states[s].seen \cup {m.number})),
                      NoKey, m, "read"))
    /\ UNCHANGED <<tables, outside, history>>

\* decrypt, of a message that begins a session: its one-time pre-key has to be
\* in the table, with the material for which the message was made.
BeginAccept(p, m) ==
    /\ Busy(p, "idle")
    /\ m.first
    /\ LET s   == m.session
           q   == m.from
           rec == record[p][q]
       IN  /\ base[s].to = p
           /\ s \notin DOMAIN rec.states
           /\ base[s].key \in oneTime[p]
           /\ IsTrusted(p, q, base[s].byInstall)
           /\ Go(p, "saveIdentity",
                 Args(q, base[s].byInstall,
                      WithCurrent(rec, s, State(FALSE, 0, {m.number})),
                      base[s].key, m, "read"))
    /\ UNCHANGED <<tables, outside, history>>

-----------------------------------------------------------------------------
(* The writes of a call.                                                   *)

\* save_identity: INSERT OR REPLACE.
SaveIdentity(p) ==
    /\ Busy(p, "saveIdentity")
    /\ pinned' = [pinned EXCEPT ![p][arg[p].peer] = arg[p].identity]
    /\ Go(p, IF arg[p].key = NoKey THEN "storeSession" ELSE "removePreKey", arg[p])
    /\ UNCHANGED <<install, oneTime, record, outside, history>>

\* Not the code: the one-time pre-key stays.
KeepPreKey(p) ==
    /\ Busy(p, "removePreKey")
    /\ Go(p, "storeSession", arg[p])
    /\ UNCHANGED <<tables, outside, history>>

\* remove_pre_key: DELETE by id.
RemovePreKey(p) ==
    /\ Busy(p, "removePreKey")
    /\ oneTime' = [oneTime EXCEPT ![p] = {k \in @ : k[1] # arg[p].key[1]}]
    /\ Go(p, "storeSession", arg[p])
    /\ UNCHANGED <<install, pinned, record, outside, history>>

\* Not the code: INSERT OR IGNORE keeps the row that is there.
Stored(old, new) == IF old = NoRecord THEN new ELSE old

\* Not the code: see Stored.
StoreSessionOnce(p) ==
    /\ Busy(p, "storeSession")
    /\ LET a == arg[p] IN
       /\ record' = [record EXCEPT ![p][a.peer] = Stored(@, a.rec)]
       /\ network' = IF a.result = "sent" THEN network \cup {a.msg} ELSE network
       /\ returned' = IF a.result = "read" THEN returned \cup {a.msg} ELSE returned
       /\ accepted' = IF a.key # NoKey THEN accepted \cup {a.msg.session} ELSE accepted
       /\ answers' = IF a.result \in {"sent", "read"} THEN answers + 1 ELSE answers
    /\ Go(p, "idle", NoArg)
    /\ UNCHANGED <<install, oneTime, pinned, bundles, base, minted, deletes, faults>>

\* store_session: INSERT OR REPLACE; the call returns its result.
StoreSession(p) ==
    /\ Busy(p, "storeSession")
    /\ LET a == arg[p] IN
       /\ record' = [record EXCEPT ![p][a.peer] = a.rec]
       /\ network' = IF a.result = "sent" THEN network \cup {a.msg} ELSE network
       /\ returned' = IF a.result = "read" THEN returned \cup {a.msg} ELSE returned
       /\ accepted' = IF a.key # NoKey THEN accepted \cup {a.msg.session} ELSE accepted
       /\ answers' = IF a.result \in {"sent", "read"} THEN answers + 1 ELSE answers
    /\ Go(p, "idle", NoArg)
    /\ UNCHANGED <<install, oneTime, pinned, bundles, base, minted, deletes, faults>>

\* The process dies, or the next write fails and the error is passed up.
CutShort(p) ==
    /\ ~ Busy(p, "idle")
    /\ faults < MaxFaults
    /\ faults' = faults + 1
    /\ Go(p, "idle", NoArg)
    /\ UNCHANGED <<tables, outside, minted, returned, accepted, answers, deletes>>

-----------------------------------------------------------------------------
(* Calls of one statement.                                                 *)

\* delete_session
DeleteSession(p, q) ==
    /\ Busy(p, "idle")
    /\ deletes < MaxDeletes
    /\ record[p][q] # NoRecord
    /\ record' = [record EXCEPT ![p][q] = NoRecord]
    /\ deletes' = deletes + 1
    /\ UNCHANGED <<install, oneTime, pinned, calls, outside, minted, returned,
                   accepted, answers, faults>>

\* delete_identity, which an application reaches through storage_mut.
DeleteIdentity(p, q) ==
    /\ Busy(p, "idle")
    /\ deletes < MaxDeletes
    /\ pinned[p][q] # 0
    /\ pinned' = [pinned EXCEPT ![p][q] = 0]
    /\ deletes' = deletes + 1
    /\ UNCHANGED <<install, oneTime, record, calls, outside, minted, returned,
                   accepted, answers, faults>>

\* The refill of perform_key_maintenance, as one step.
Replenish(p) ==
    /\ Busy(p, "idle")
    /\ p \in Publishers
    /\ Cardinality(oneTime[p]) < MinPreKeyCount
    /\ minted[p] + ReplenishCount <= MaxMinted
    /\ oneTime' = [oneTime EXCEPT ![p] =
          @ \cup NewKeys(p, MaxKeyId(p), ReplenishCount)]
    /\ minted' = [minted EXCEPT ![p] = @ + ReplenishCount]
    /\ UNCHANGED <<install, pinned, record, calls, outside, returned, accepted,
                   answers, deletes, faults>>

\* The application starts over with an empty database.
Reinstall(p) ==
    /\ Busy(p, "idle")
    /\ install[p] <= MaxReinstalls
    /\ minted[p] + ReplenishCount <= MaxMinted
    /\ install' = [install EXCEPT ![p] = @ + 1]
    /\ oneTime' = [oneTime EXCEPT ![p] =
          IF p \in Publishers THEN NewKeys(p, 0, ReplenishCount) ELSE {}]
    /\ minted' = [minted EXCEPT ![p] =
          IF p \in Publishers THEN @ + ReplenishCount ELSE @]
    /\ pinned' = [pinned EXCEPT ![p] = [q \in Parties |-> 0]]
    /\ record' = [record EXCEPT ![p] = [q \in Parties |-> NoRecord]]
    /\ UNCHANGED <<calls, outside, returned, accepted, answers, deletes, faults>>

-----------------------------------------------------------------------------

Next ==
    \E p \in Parties :
       \/ p \in Publishers /\ GenerateBundle(p)
       \/ \E b \in bundles : BeginProcess(p, b)
       \/ \E q \in Parties : BeginEncrypt(p, q) \/ DeleteSession(p, q)
                             \/ DeleteIdentity(p, q)
       \/ \E m \in network : BeginDecrypt(p, m) \/ BeginAccept(p, m)
       \/ SaveIdentity(p) \/ RemovePreKey(p) \/ StoreSession(p)
       \/ Replenish(p) \/ Reinstall(p) \/ CutShort(p)

Spec == Init /\ [][Next]_vars

-----------------------------------------------------------------------------
(* Properties.                                                             *)

Sids == 1 .. Len(base)

RecordOK(rec) ==
    /\ DOMAIN rec.states \subseteq Sids
    /\ rec.current \in {0} \cup DOMAIN rec.states
    /\ rec.current = 0 <=> DOMAIN rec.states = {}
    /\ \A s \in DOMAIN rec.states :
          rec.states[s] \in [pending : BOOLEAN, sent : 0 .. MaxSent,
                             seen : SUBSET (1 .. MaxSent)]

TypeOK ==
    /\ \A p \in Parties :
          /\ install[p] \in Nat \ {0}
          /\ minted[p] \in 0 .. MaxMinted
          /\ oneTime[p] \subseteq (1 .. MaxMinted) \X (1 .. minted[p])
          /\ Cardinality(KeyIds(p)) = Cardinality(oneTime[p])
          /\ step[p] \in {"idle", "saveIdentity", "removePreKey", "storeSession"}
          /\ RecordOK(arg[p].rec)
          /\ \A q \in Parties :
                /\ pinned[p][q] \in {0} \cup (1 .. install[q])
                /\ RecordOK(record[p][q])
    /\ Len(base) <= MaxSessions
    /\ \A m \in network : m.session \in Sids /\ m.number \in 1 .. MaxSent
    /\ returned \subseteq network
    /\ accepted \subseteq Sids
    /\ answers \in Nat
    /\ deletes \in 0 .. MaxDeletes
    /\ faults \in 0 .. MaxFaults

\* A plaintext is returned to the application at most once, whatever is
\* duplicated or replayed, also after delete_session removed the record of
\* what was received, and after calls that were cut short: what keeps a replay
\* out then is that the one-time pre-key is gone (signal_storage.rs:700).
ReturnedOnce ==
    [][\A p \in Parties :
          Busy(p, "storeSession") /\ step'[p] = "idle" /\ faults' = faults
          /\ arg[p].result = "read" => arg[p].msg \notin returned]_vars

\* A number of a session is used for one message only: no ciphertext leaves
\* before the session that counts it is stored (signal_storage.rs:254).
NumbersFresh ==
    [][\A p \in Parties :
          Busy(p, "storeSession") /\ step'[p] = "idle" /\ faults' = faults
          /\ arg[p].result = "sent" => arg[p].msg \notin network]_vars

\* A one-time pre-key begins one session at most, although bundles may name it
\* any number of times and its id is given out again.
OneSessionPerKey ==
    \A s, t \in accepted :
        base[s].to = base[t].to /\ base[s].key = base[t].key => s = t

\* Trust on first use: the identity stored for a peer is never replaced by a
\* different one, although save_identity would (signal_storage.rs:449): only
\* when the application deletes it, or starts over, is another accepted.
IdentityPinned ==
    [][\A p, q \in Parties :
          pinned[p][q] # 0 => pinned'[p][q] \in {0, pinned[p][q]}]_vars

\* "The bundle contains all necessary public keys for peers to establish a
\* session with this instance" (lib.rs:256): a first message that has not been
\* read can be, as long as the instance has not been replaced.
FirstMessagesReadable ==
    \A m \in network :
        LET p == base[m.session].to IN
        m.first /\ m \notin returned /\ Busy(p, "idle")
        /\ base[m.session].toInstall = install[p] =>
              \/ base[m.session].key \in oneTime[p]
              \/ m.session \in DOMAIN record[p][m.from].states

\* The sessions without the installations that have them.
Agreed ==
    [s \in DOMAIN base |-> [by |-> base[s].by, to |-> base[s].to, key |-> base[s].key]]

\* A message as the applications know it: not whether it carried keys along.
Plain(msgs) ==
    {[session |-> m.session, from |-> m.from, number |-> m.number] : m \in msgs}

Promise == INSTANCE Channel WITH
    Keys    <- (1 .. MaxMinted) \X (1 .. MaxMinted),
    Numbers <- 1 .. MaxSent,
    agreed  <- Agreed,
    joined  <- accepted,
    sent    <- Plain(network),
    read    <- Plain(returned)

\* The applications see a channel that sends and hands out each message once, and joins
\* one session per one-time key, although every call writes in several statements
\* of which each may be the last, and a peer may replay what it likes
\* (signal_storage.rs:254, 449 and 700).
SessionsImplementChannel == Promise!Spec
=============================================================================
