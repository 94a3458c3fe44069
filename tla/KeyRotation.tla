---------------------------- MODULE KeyRotation ----------------------------
(***************************************************************************)
(* Custody of the local keys of one Lotl database: first-run               *)
(* initialisation (Lotl::new), perform_key_maintenance, consume_pre_key,   *)
(* the publication of bundles and the consumption of one-time pre-keys by  *)
(* arriving pre-key messages.                                              *)
(*                                                                         *)
(* Every SQL statement commits on its own (the code opens no transaction), *)
(* so a call is a sequence of steps, one per statement that writes, and a  *)
(* crash or a failing statement can fall between any two of them.  A read  *)
(* that fails is passed up as an error, or swallowed: reading MAX(id) then *)
(* finds an empty table, and reading a count finds 0, and the call goes on. *)
(* The clock is read anew by each step, and may move between two of them.  *)
(***************************************************************************)
EXTENDS PreKeyTable

CONSTANTS
    MinPreKeyCount,   \* MIN_PRE_KEY_COUNT, key_rotation.rs:14
    ReplenishCount,   \* REPLENISH_COUNT, key_rotation.rs:16
    Builds,           \* the values of checked: TRUE debug, FALSE release
    FaultKinds,       \* the faults that may happen, a subset of AllFaults
    Starts,           \* the times at which a behaviour may begin
    Ticks,            \* the amounts by which the clock advances
    MaxNow,           \* bound: the last time of a behaviour
    MaxFaults,        \* bound: the number of faults
    MaxUsed           \* bound: the number of pre-keys consumed

Kinds == {"signed", "kyber"}

\* A crash; a statement whose error is passed up; the clock set back; the
\* identity cleared by the application; and three swallowed errors: reading
\* the identity in new(), reading a MAX(id), reading a count.
AllFaults == {"crash", "error", "clockback", "clear", "noIdentity", "noMax",
              "noCount"}

ASSUME CountsAssumption ==
    /\ MinPreKeyCount \in Nat
    /\ ReplenishCount \in Nat \ {0}
    /\ MinPreKeyCount <= ReplenishCount

ASSUME ClockAssumption ==
    /\ MaxNow \in Nat
    /\ MaxNow < TwoTo64
    /\ Starts \subseteq 0 .. MaxNow
    /\ Ticks \subseteq Nat

ASSUME FaultAssumption ==
    /\ Builds \subseteq BOOLEAN
    /\ FaultKinds \subseteq AllFaults
    /\ MaxFaults \in Nat
    /\ MaxUsed \in Nat

VARIABLES
    now,         \* the system clock, in milliseconds
    identity,    \* the row of local_identity: 0 for none, else which key pair
    registration, \* its registration id: the initial 0, or assigned at random
    preKeys,     \* table pre_keys: id -> which key material
    keys,        \* tables signed_pre_keys and kyber_pre_keys: id -> record
    pc,          \* the next step of the call in progress; "ready", "closed"
    call,        \* the call in progress; at "ready", how the last one ended
    todo,        \* local expired_ids of the clean-up loop: ids left to visit
    batch,       \* local new_pre_keys of replenish: ids left to save
    checked,     \* whether the build checks u64 arithmetic; never changes
    generation,  \* history: the number of identities generated
    minted,      \* history: the number of one-time pre-keys generated
    published,   \* history: the one-time pre-keys put into some bundle
    used,        \* history: the one-time pre-keys removed from the store
    faultCount,  \* history: the number of faults so far
    happened     \* history: the kinds of faults so far

stored  == <<identity, registration, preKeys, keys>>
locals  == <<pc, call, todo, batch>>
history == <<checked, generation, minted, published, used>>
faults  == <<faultCount, happened>>
vars    == <<now, stored, locals, history, faults>>

KeyRecord(t, signer) == [ts |-> t, signer |-> signer]

BundleReady ==
    /\ identity # 0
    /\ DOMAIN preKeys # {}
    /\ \A k \in Kinds : DOMAIN keys[k] # {}

InCall == pc \notin {"ready", "closed"}

Init ==
    /\ now \in Starts
    /\ identity = 0
    /\ registration = "initial"
    /\ preKeys = EmptyTable
    /\ keys = [k \in Kinds |-> EmptyTable]
    /\ pc = "closed"
    /\ call = "none"
    /\ todo = {}
    /\ batch = {}
    /\ checked \in Builds
    /\ generation = 0
    /\ minted = 0
    /\ published = {}
    /\ used = {}
    /\ faultCount = 0
    /\ happened = {}

Tick ==
    /\ \E d \in Ticks : now + d <= MaxNow /\ now' = now + d
    /\ UNCHANGED <<stored, locals, history, faults>>

-----------------------------------------------------------------------------
(* Leaving a step.                                                         *)

\* The call goes on with step p.
GoTo(p) ==
    /\ pc' = p
    /\ UNCHANGED call

\* The call returns Ok.
Return ==
    /\ pc' = "ready"
    /\ call' = "none"

\* The call returns Err or panics: the locals go, and a failed new() returns
\* no handle.
Abort ==
    /\ pc' = IF call = "new" THEN "closed" ELSE "ready"
    /\ call' = "failed"
    /\ todo' = {}
    /\ batch' = {}

\* A fault of this kind happens.
Fault(kind) ==
    /\ kind \in FaultKinds
    /\ faultCount < MaxFaults
    /\ faultCount' = faultCount + 1
    /\ happened' = happened \cup {kind}

\* A read ends right, or its error is swallowed.
Reads(right, kind) ==
    \/ right /\ UNCHANGED faults
    \/ ~ right /\ Fault(kind)

-----------------------------------------------------------------------------
(* Lotl::new.                                                              *)

\* Not the code: every open generates an identity.
OpenAfresh ==
    /\ pc = "closed"
    /\ generation < 2
    /\ generation' = generation + 1
    /\ identity' = generation + 1
    /\ pc' = "setRegistration"
    /\ call' = "new"
    /\ UNCHANGED <<now, registration, preKeys, keys, todo, batch, checked,
                   minted, published, used, faults>>

\* ensure_identity_initialized finds an identity and does nothing more, or
\* stores a new key pair over which the rest of the first run proceeds: when
\* there is none, and when reading the one that is there fails.
Open ==
    /\ pc = "closed"
    /\ \/ /\ identity # 0
          /\ Return
          /\ UNCHANGED <<identity, generation, faults>>
       \/ /\ \/ identity = 0 /\ UNCHANGED faults
             \/ identity # 0 /\ Fault("noIdentity")
          /\ generation' = generation + 1
          /\ identity' = generation + 1
          /\ pc' = "setRegistration"
          /\ call' = "new"
    /\ UNCHANGED <<now, registration, preKeys, keys, todo, batch, checked,
                   minted, published, used>>

SetRegistrationId ==
    /\ pc = "setRegistration"
    /\ registration' = "assigned"
    /\ GoTo("saveSigned")
    /\ UNCHANGED <<now, identity, preKeys, keys, todo, batch, history, faults>>

\* The first signed pre-key always has id 1.
SaveFirstSigned ==
    /\ pc = "saveSigned"
    /\ keys' = [keys EXCEPT !["signed"] = Put(@, 1, KeyRecord(now, identity))]
    /\ GoTo("saveKyber")
    /\ UNCHANGED <<now, identity, registration, preKeys, todo, batch, history,
                   faults>>

\* The first Kyber pre-key always has id 1; replenish_pre_keys follows.
SaveFirstKyber ==
    /\ pc = "saveKyber"
    /\ keys' = [keys EXCEPT !["kyber"] = Put(@, 1, KeyRecord(now, identity))]
    /\ GoTo("generate")
    /\ UNCHANGED <<now, identity, registration, preKeys, todo, batch, history,
                   faults>>

-----------------------------------------------------------------------------
(* replenish_pre_keys.                                                     *)

\* Not the code: the ids continue from the number of stored pre-keys.
NextPreKeyIdByCount(seen) == Count(seen) + 1

\* Not the code: the ids start at the last one, or at 0 in an empty table.
NextPreKeyIdFromLast(seen) == CurrentId(seen)

NextPreKeyId(seen) == CurrentId(seen) + 1

\* When reading MAX(id) fails, the ids start at 1 again.
GeneratePreKeys ==
    /\ pc = "generate"
    /\ \E seen \in {preKeys, EmptyTable} :
          /\ Reads(seen = preKeys, "noMax")
          /\ batch' = NextPreKeyId(seen) .. (NextPreKeyId(seen) + ReplenishCount - 1)
    /\ GoTo("savePreKeys")
    /\ UNCHANGED <<now, stored, todo, history>>

\* One save_pre_key of the loop.
SavePreKey ==
    /\ pc = "savePreKeys"
    /\ batch # {}
    /\ LET id == FirstInScan(batch)
       IN  /\ preKeys' = Put(preKeys, id, minted + 1)
           /\ batch' = batch \ {id}
    /\ minted' = minted + 1
    /\ UNCHANGED <<now, identity, registration, keys, pc, call, todo, checked,
                   generation, published, used, faults>>

AfterReplenish ==
    IF call = "maintain" THEN GoTo("expireSigned") ELSE Return

PreKeysSaved ==
    /\ pc = "savePreKeys"
    /\ batch = {}
    /\ AfterReplenish
    /\ UNCHANGED <<now, stored, todo, batch, history, faults>>

-----------------------------------------------------------------------------
(* perform_key_maintenance.                                                *)

\* The identity key pair is read first; without one the call fails at once.
BeginMaintenance ==
    /\ pc = "ready"
    /\ \/ /\ identity # 0
          /\ pc' = "rotateSigned"
          /\ call' = "maintain"
          /\ UNCHANGED <<todo, batch>>
       \/ /\ identity = 0
          /\ Abort
    /\ UNCHANGED <<now, stored, history, faults>>

NextKeyId(seen) == CurrentId(seen) + 1

\* *_needs_rotation and rotate_*: a debug build panics where the age would be
\* negative. Each of the two reads MAX(id) for itself: an error makes the
\* current key look absent, so due, or the new key take id 1.
Rotate(k, next) ==
    \/ /\ checked /\ AgeUnderflows(keys[k], now)
       /\ Abort
       /\ UNCHANGED <<keys, faults>>
    \/ /\ ~ (checked /\ AgeUnderflows(keys[k], now))
       /\ ~ NeedsRotation(keys[k], now)
       /\ GoTo(next)
       /\ UNCHANGED <<keys, todo, batch, faults>>
    \/ \E seen, last \in {keys[k], EmptyTable} :
       /\ Reads(seen = keys[k] /\ last = keys[k], "noMax")
       /\ ~ (checked /\ AgeUnderflows(seen, now))
       /\ NeedsRotation(seen, now)
       /\ keys' = [keys EXCEPT ![k] =
                      Put(@, NextKeyId(last), KeyRecord(now, identity))]
       /\ GoTo(next)
       /\ UNCHANGED <<todo, batch>>

RotateSigned ==
    /\ pc = "rotateSigned"
    /\ Rotate("signed", "rotateKyber")
    /\ UNCHANGED <<now, identity, registration, preKeys, history>>

RotateKyber ==
    /\ pc = "rotateKyber"
    /\ Rotate("kyber", "refill")
    /\ UNCHANGED <<now, identity, registration, preKeys, history>>

\* Not the code: refill only when a bundle could not be built at all.
RefillWhenEmpty ==
    /\ pc = "refill"
    /\ IF DOMAIN preKeys = {} THEN GoTo("generate") ELSE AfterReplenish
    /\ UNCHANGED <<now, stored, todo, batch, history, faults>>

\* The refill test of perform_key_maintenance and of consume_pre_key; a count
\* that cannot be read is 0.
Refill ==
    /\ pc = "refill"
    /\ \E seen \in {preKeys, EmptyTable} :
          /\ Reads(seen = preKeys, "noCount")
          /\ IF Count(seen) < MinPreKeyCount THEN GoTo("generate")
                                             ELSE AfterReplenish
    /\ UNCHANGED <<now, stored, todo, batch, history>>

\* Not the code: clean-up starts only at the third key.
ExpireFromThird(k, drop, skip) ==
    \/ /\ Count(keys[k]) <= 2
       /\ skip
       /\ UNCHANGED <<todo, batch, faults>>
    \/ /\ Count(keys[k]) > 2
       /\ GoTo(drop)
       /\ todo' = OlderThan(keys[k], Cutoff(now))
       /\ UNCHANGED <<batch, faults>>

\* The first half of cleanup_expired_*: which ids have expired. Clean-up ends
\* here, with Ok, where at most one key is counted or counting fails.
Expire(k, drop, skip) ==
    \/ /\ checked /\ CutoffUnderflows(now)
       /\ Abort
       /\ UNCHANGED faults
    \/ /\ ~ (checked /\ CutoffUnderflows(now))
       /\ \E seen \in {keys[k], EmptyTable} :
             Reads(seen = keys[k], "noCount") /\ Count(seen) <= 1
       /\ skip
       /\ UNCHANGED <<todo, batch>>
    \/ /\ ~ (checked /\ CutoffUnderflows(now))
       /\ Count(keys[k]) > 1
       /\ GoTo(drop)
       /\ todo' = OlderThan(keys[k], Cutoff(now))
       /\ UNCHANGED <<batch, faults>>

\* Not the code: the loop forgets to look at the number of keys left.
DropUnguarded(k, done) ==
    \/ /\ todo # {}
       /\ LET id == FirstInScan(todo)
          IN  /\ keys' = [keys EXCEPT ![k] = Drop(@, id)]
              /\ todo' = todo \ {id}
       /\ UNCHANGED <<pc, call, faults>>
    \/ /\ todo = {}
       /\ done
       /\ UNCHANGED <<keys, todo, faults>>

\* The loop of cleanup_expired_*: one id, while more than one key is left; the
\* id is passed over where counting fails.
DropExpired(k, done) ==
    \/ /\ todo # {}
       /\ \E seen \in {keys[k], EmptyTable} :
             /\ Reads(seen = keys[k], "noCount")
             /\ keys' = IF Count(seen) > 1
                        THEN [keys EXCEPT ![k] = Drop(@, FirstInScan(todo))]
                        ELSE keys
       /\ todo' = todo \ {FirstInScan(todo)}
       /\ UNCHANGED <<pc, call>>
    \/ /\ todo = {}
       /\ done
       /\ UNCHANGED <<keys, todo, faults>>

AfterSigned == GoTo("expireKyber")

ExpireSigned ==
    /\ pc = "expireSigned"
    /\ Expire("signed", "dropSigned", AfterSigned)
    /\ UNCHANGED <<now, stored, history>>

DropSigned ==
    /\ pc = "dropSigned"
    /\ DropExpired("signed", AfterSigned)
    /\ UNCHANGED <<now, identity, registration, preKeys, batch, history>>

ExpireKyber ==
    /\ pc = "expireKyber"
    /\ Expire("kyber", "dropKyber", Return)
    /\ UNCHANGED <<now, stored, history>>

DropKyber ==
    /\ pc = "dropKyber"
    /\ DropExpired("kyber", Return)
    /\ UNCHANGED <<now, identity, registration, preKeys, batch, history>>

-----------------------------------------------------------------------------
(* The other operations of an open handle.                                 *)

\* generate_prekey_bundle: always the newest key of every table.
GenerateBundle ==
    /\ pc = "ready"
    /\ BundleReady
    /\ LET id == CurrentId(preKeys)
       IN  published' = published \cup {<<id, preKeys[id]>>}
    /\ UNCHANGED <<now, stored, locals, checked, generation, minted, used,
                   faults>>

\* A peer's first message under a published bundle: libsignal finds the
\* private key and removes it from the store.
DecryptPreKeyMessage ==
    /\ pc = "ready"
    /\ Cardinality(used) < MaxUsed
    /\ \E p \in published \ used :
          /\ p[1] \in DOMAIN preKeys
          /\ preKeys[p[1]] = p[2]
          /\ preKeys' = Drop(preKeys, p[1])
          /\ used' = used \cup {p}
    /\ UNCHANGED <<now, identity, registration, keys, locals, checked,
                   generation, minted, published, faults>>

\* consume_pre_key on an arbitrary id; the refill test follows.
ConsumePreKey ==
    /\ pc = "ready"
    /\ Cardinality(used) < MaxUsed
    /\ \E id \in 1 .. NextPreKeyId(preKeys) :
          /\ preKeys' = Drop(preKeys, id)
          /\ used' = used \cup {<<i, preKeys[i]>> : i \in {id} \cap DOMAIN preKeys}
    /\ pc' = "refill"
    /\ call' = "consume"
    /\ UNCHANGED <<now, identity, registration, keys, todo, batch, checked,
                   generation, minted, published, faults>>

Close ==
    /\ pc = "ready"
    /\ pc' = "closed"
    /\ call' = "none"
    /\ UNCHANGED <<now, stored, todo, batch, history, faults>>

-----------------------------------------------------------------------------
(* Faults.                                                                 *)

\* The process dies; every statement already executed has been committed. A
\* panic that poisons the lock of the connection (preparing a count fails)
\* leaves as little: the handle is of no more use.
Crash ==
    /\ Fault("crash")
    /\ pc # "closed"
    /\ pc' = "closed"
    /\ call' = "none"
    /\ todo' = {}
    /\ batch' = {}
    /\ UNCHANGED <<now, stored, history>>

\* The next statement of the call in progress fails and its error is passed up.
\* The refill test and the end of a loop execute no such statement, and an id
\* that clean-up passes over none either.
StatementFails ==
    /\ Fault("error")
    /\ InCall
    /\ pc # "refill"
    /\ pc = "savePreKeys" => batch # {}
    /\ pc = "dropSigned" => todo # {} /\ Count(keys["signed"]) > 1
    /\ pc = "dropKyber" => todo # {} /\ Count(keys["kyber"]) > 1
    /\ Abort
    /\ UNCHANGED <<now, stored, history>>

\* The system clock is set back.
ClockBack ==
    /\ Fault("clockback")
    /\ \E d \in Ticks : d <= now /\ now' = now - d
    /\ UNCHANGED <<stored, locals, history>>

\* The application calls clear_local_identity through storage_mut.
ClearLocalIdentity ==
    /\ Fault("clear")
    /\ pc = "ready"
    /\ identity # 0
    /\ identity' = 0
    /\ registration' = "initial"
    /\ UNCHANGED <<now, preKeys, keys, locals, history>>

-----------------------------------------------------------------------------

\* The steps of the calls that several statements make up, once begun.
Step ==
    \/ SetRegistrationId \/ SaveFirstSigned \/ SaveFirstKyber
    \/ GeneratePreKeys \/ SavePreKey \/ PreKeysSaved
    \/ RotateSigned \/ RotateKyber \/ Refill
    \/ ExpireSigned \/ DropSigned \/ ExpireKyber \/ DropKyber

Next ==
    \/ Tick \/ Step
    \/ Open \/ BeginMaintenance \/ GenerateBundle \/ DecryptPreKeyMessage
    \/ ConsumePreKey \/ Close
    \/ Crash \/ StatementFails \/ ClockBack \/ ClearLocalIdentity

Spec == Init /\ [][Next]_vars

\* A call once begun runs on; the application reopens the database when it is
\* closed, and calls perform_key_maintenance again and again.
Fairness ==
    /\ WF_vars(Step)
    /\ WF_vars(Open)
    /\ SF_vars(BeginMaintenance)

LiveSpec == Spec /\ Fairness

-----------------------------------------------------------------------------
(* Properties.                                                             *)

EnvironmentOK ==
    /\ now \in 0 .. MaxNow
    /\ checked \in Builds
    /\ faultCount \in 0 .. MaxFaults
    /\ happened \subseteq FaultKinds

\* The rows of the tables of signed and Kyber pre-keys.
KeyRows == [ts : 0 .. MaxNow, signer : 1 .. generation]

StoreOK ==
    /\ generation \in Nat
    /\ identity \in 0 .. generation
    /\ registration \in {"initial", "assigned"}
    /\ minted \in Nat
    /\ IsTable(preKeys, 1 .. minted)
    /\ keys = [k \in Kinds |-> keys[k]]
    /\ \A k \in Kinds : IsTable(keys[k], KeyRows)

HistoryOK ==
    /\ published \subseteq (Nat \ {0}) \X (1 .. minted)
    /\ used \subseteq (Nat \ {0}) \X (1 .. minted)

ControlOK ==
    /\ pc \in {"closed", "setRegistration", "saveSigned", "saveKyber",
              "generate", "savePreKeys", "ready", "rotateSigned",
              "rotateKyber", "refill", "expireSigned", "dropSigned",
              "expireKyber", "dropKyber"}
    /\ call \in {"none", "new", "maintain", "consume", "failed"}
    /\ todo \subseteq Nat \ {0}
    /\ batch \subseteq Nat \ {0}

TypeOK == EnvironmentOK /\ StoreOK /\ HistoryOK /\ ControlOK

\* None of these faults has happened.
Spared(kinds) == happened \cap kinds = {}

\* The faults after which a key may be younger than one with a lower id: the
\* clock went back, MAX(id) was not read, or the first run, begun again, saved
\* keys under id 1.
Disordering == {"clockback", "noMax", "clear", "noIdentity"}

\* The clean-up of key_rotation.rs:75-97 and 202-224 looks at the number of
\* keys, not at which of them is current: still, no step leaves a table of
\* signed or Kyber pre-keys empty once it has a key, with every fault, however
\* the clock moves and wherever a call is cut short.
StoreNeverEmptied ==
    [][\A k \in Kinds : DOMAIN keys[k] # {} => DOMAIN keys'[k] # {}]_vars

\* Unless a fault disorders the keys or a count is not read, no step deletes
\* the current (highest numbered) key of a table or overwrites a key that is
\* there: the guard on the count and the order of the scan protect the current
\* key even when the list of expired ids, made earlier in the call, names it
\* (key_rotation.rs:83-94, 210-221).
CurrentKeySurvives ==
    [][Spared(Disordering \cup {"noCount"})' =>
         \A k \in Kinds :
            /\ CurrentId(keys'[k]) >= CurrentId(keys[k])
            /\ \A id \in DOMAIN keys[k] \cap DOMAIN keys'[k] :
                  keys'[k][id] = keys[k][id]]_vars

\* Unless a fault disorders the keys, a key is superseded only when it is past
\* the grace period: the rotation interval is no shorter than the grace period
\* and both run from the key's creation (key_rotation.rs:68, 81), so whatever
\* was rotated out is at once due for deletion.
SupersededKeysExpired ==
    Spared(Disordering) =>
        \A k \in Kinds : \A id \in DOMAIN keys[k] :
            id < CurrentId(keys[k]) => PastGrace(keys[k][id].ts, now)

\* A one-time pre-key that was published in a bundle stays in the store with
\* the same material until it is used: the ids that replenish_pre_keys takes
\* from MAX(id) + 1 (key_rotation.rs:125) are freed and taken again as keys
\* are consumed, but never replace a key that is still there, as long as
\* reading MAX(id) has never failed (signal_storage.rs:739).
PublishedPreKeysUsable ==
    Spared({"noMax"}) =>
        \A p \in published :
            p \notin used => p[1] \in DOMAIN preKeys /\ preKeys[p[1]] = p[2]

\* Unless the application clears the identity or new() fails to read it
\* (lib.rs:157), every signed and Kyber pre-key in the store is signed by the
\* stored identity, across crashes, restarts and every other fault.
KeysSignedByIdentity ==
    Spared({"clear", "noIdentity"}) =>
        \A k \in Kinds : \A id \in DOMAIN keys[k] : keys[k][id].signer = identity

\* When perform_key_maintenance returns Ok, whatever faults there were, a
\* bundle can be built and there are at least MIN_PRE_KEY_COUNT one-time
\* pre-keys; and each table holds the current key and no other, unless a fault
\* has disordered the keys or a count was not read, when clean-up returns Ok
\* without cleaning up (key_rotation.rs:86, 91; signal_storage.rs:867).
MaintenanceResult ==
    [][call = "maintain" /\ call' = "none" /\ pc' = "ready" =>
          /\ BundleReady'
          /\ Count(preKeys') >= MinPreKeyCount
          /\ Spared(Disordering \cup {"noCount"})' =>
                \A k \in Kinds : Count(keys'[k]) = 1]_vars

\* A key is superseded only if it really is older than the rotation interval
\* (key_rotation.rs:50), by every step that reads its id without error: also
\* after other faults, except in a release build once the clock was set back,
\* where the age wraps around (a debug build panics).
RotationOnlyWhenOld ==
    [][UNCHANGED faults /\ (checked \/ Spared({"clockback"})) =>
         \A k \in Kinds :
            DOMAIN keys[k] # {} /\ CurrentId(keys'[k]) > CurrentId(keys[k]) =>
               now - keys[k][CurrentId(keys[k])].ts > RotationSecs * 1000]_vars

\* Once the first run has stored an identity, however it was cut short, the
\* later runs and maintenance lead to an open handle that can build a bundle,
\* unless the clock was set back (a debug build then panics on each call) or
\* the application cleared the identity of the open handle.
BundleEventuallyReady ==
    identity # 0 ~> \/ pc = "ready" /\ BundleReady
                    \/ ~ Spared({"clockback", "clear"})

\* The superseded keys of a table that clean-up is meant to erase.
Erasable(k) ==
    {id \in DOMAIN keys[k] :
        id < CurrentId(keys[k]) /\ PastGrace(keys[k][id].ts, now)}

\* A superseded private key does not stay in the store once it is past the
\* grace period: maintenance that is repeated erases it, however often it is
\* interrupted and although it may pass over ids that it fails to count, unless
\* the clock was set back or the application cleared the identity.
SupersededKeysErased ==
    \A k \in Kinds :
        Erasable(k) # {} ~> Erasable(k) = {} \/ ~ Spared({"clockback", "clear"})
=============================================================================
