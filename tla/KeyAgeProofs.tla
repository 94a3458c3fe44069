---------------------------- MODULE KeyAgeProofs ----------------------------
(***************************************************************************)
(* Theorems about the ages and the signatures of signed and Kyber          *)
(* pre-keys, and about what perform_key_maintenance achieves.              *)
(*                                                                         *)
(* A property that holds unless certain faults have happened is proved     *)
(* from an invariant under the same condition: what has happened stays so, *)
(* and so no step that keeps the condition is one of those faults.         *)
(***************************************************************************)
EXTENDS KeyRotationProofs

\* The rotation interval is no shorter than the grace period: in the code both
\* are seven days (key_rotation.rs:18-20).
IntervalsOrdered == RotationSecs >= GraceSecs

\* What KeysSignedByIdentity says while the identity was left alone and read.
SignedByIdentity ==
    \A k \in Kinds : \A id \in DOMAIN keys[k] : keys[k][id].signer = identity

\* What SupersededKeysExpired says while nothing disordered the keys.
SupersededPastGrace ==
    \A k \in Kinds : \A id \in DOMAIN keys[k] :
        id < CurrentId(keys[k]) => PastGrace(keys[k][id].ts, now)

\* The tables that the rest of the first run is about to fill are empty.
FirstRunTables ==
    /\ identity = 0 \/ pc \in {"setRegistration", "saveSigned"} =>
          \A k \in Kinds : DOMAIN keys[k] = {}
    /\ pc = "saveKyber" => DOMAIN keys["kyber"] = {}

\* When the clean-up loop is about to visit the current key, no other key is
\* left: those below it had expired with it, and are visited first.
CurrentVisitedLast ==
    \A k \in Kinds :
        /\ pc = IF k = "signed" THEN "dropSigned" ELSE "dropKyber"
        /\ CurrentId(keys[k]) \in todo
        => DOMAIN keys[k] \subseteq todo

\* While nothing cleared or hid the identity.
SignInv == BaseInv /\ SignedByIdentity /\ FirstRunTables

\* While nothing disordered the keys.
AgeInv == SignInv /\ NoKeyAhead /\ SupersededPastGrace

\* While every count was read, too.
VisitInv == AgeInv /\ CurrentVisitedLast

LEMMA SparedFacts ==
    /\ Spared(Disordering \cup {"noCount"}) =>
          Spared(Disordering) /\ Spared({"noCount"})
    /\ Spared(Disordering) =>
          /\ Spared({"clockback"})
          /\ Spared({"noMax"})
          /\ Spared({"clear", "noIdentity"})
    /\ Spared(Disordering \cup {"noCount"})' =>
          Spared(Disordering)' /\ Spared({"noCount"})'
    /\ Spared(Disordering)' =>
          /\ Spared({"clockback"})'
          /\ Spared({"noMax"})'
          /\ Spared({"clear", "noIdentity"})'
BY DEF Spared, Disordering

LEMMA FirstState == Init => VisitInv
<1> SUFFICES ASSUME Init PROVE VisitInv
  OBVIOUS
<1>1. \A k \in Kinds : DOMAIN keys[k] = {}
  BY EmptyTableFact DEF Init
<1>2. pc = "closed"
  BY DEF Init
<1>3. BaseInv
  BY BaseInit
<1>4. NoKeyAhead /\ SupersededPastGrace /\ SignedByIdentity
  BY <1>1 DEF NoKeyAhead, SupersededPastGrace, SignedByIdentity
<1>5. FirstRunTables
  BY <1>1 DEF FirstRunTables, Kinds
<1>6. CurrentVisitedLast
  BY <1>1 DEF CurrentVisitedLast
<1>7. QED
  BY <1>3, <1>4, <1>5, <1>6 DEF VisitInv, AgeInv, SignInv

\* Unless it is cleared or not read, the identity, once there, stays.
LEMMA IdentityFrame ==
    ASSUME [Next]_vars, Spared({"clear", "noIdentity"})'
    PROVE  \/ identity' = identity
           \/ Open /\ identity = 0 /\ pc' = "setRegistration"
<1>1. CASE Open
  BY <1>1 DEF Open, Fault, Spared
<1>2. CASE ControlStep
  BY <1>2 DEF ControlStep, SetRegistrationId, GeneratePreKeys, PreKeysSaved,
     Refill, BeginMaintenance, Close, Crash, StatementFails,
     ClearLocalIdentity, ExpireSigned, ExpireKyber, stored, Fault, Spared
<1>3. CASE \/ SaveFirstSigned \/ SaveFirstKyber \/ SavePreKey
           \/ RotateSigned \/ RotateKyber \/ DropSigned \/ DropKyber
  BY <1>3 DEF SaveFirstSigned, SaveFirstKyber, SavePreKey, RotateSigned,
     RotateKyber, DropSigned, DropKyber
<1>4. CASE \/ GenerateBundle \/ DecryptPreKeyMessage \/ ConsumePreKey
           \/ Tick \/ ClockBack \/ UNCHANGED vars
  BY <1>4 DEF GenerateBundle, DecryptPreKeyMessage, ConsumePreKey, Tick,
     ClockBack, vars, stored
<1>5. QED
  BY <1>1, <1>2, <1>3, <1>4 DEF Next, Step, ControlStep

-----------------------------------------------------------------------------
(* How control reaches the steps the invariant speaks of.                  *)

DropStep(k) == IF k = "signed" THEN "dropSigned" ELSE "dropKyber"

Lists(k) ==
    /\ pc' = DropStep(k)
    /\ todo' = OlderThan(keys[k], Cutoff(now))
    /\ UNCHANGED <<now, keys>>

Visits(k) ==
    /\ pc = DropStep(k)
    /\ pc' = pc
    /\ todo # {}
    /\ todo' = todo \ {FirstInScan(todo)}
    /\ \/ DropsOne(k)
       \/ keys' = keys /\ ~ (Count(keys[k]) > 1)
       \/ keys' = keys /\ ~ Spared({"noCount"})'

ControlFlow ==
    \/ UNCHANGED <<pc, todo>>
    \/ pc' \notin {"setRegistration", "saveSigned", "saveKyber", "dropSigned",
                  "dropKyber"}
    \/ Open /\ identity = 0 /\ pc' = "setRegistration"
    \/ SetRegistrationId
    \/ SaveFirstSigned
    \/ \E k \in Kinds : Lists(k)
    \/ \E k \in Kinds : Visits(k)

\* One visit of the loop of clean-up.
LEMMA VisitFact ==
    ASSUME NEW k \in Kinds, NEW done, DropExpired(k, done), todo # {}
    PROVE  /\ todo' = todo \ {FirstInScan(todo)}
           /\ UNCHANGED <<pc, call>>
           /\ \/ /\ Count(keys[k]) > 1
                 /\ keys' = [keys EXCEPT ![k] = Drop(keys[k], FirstInScan(todo))]
              \/ keys' = keys /\ ~ (Count(keys[k]) > 1)
              \/ keys' = keys /\ ~ Spared({"noCount"})'
<1>1. PICK seen \in {keys[k], EmptyTable} :
        /\ Reads(seen = keys[k], "noCount")
        /\ keys' = IF Count(seen) > 1
                   THEN [keys EXCEPT ![k] = Drop(@, FirstInScan(todo))]
                   ELSE keys
  BY DEF DropExpired
<1>2. todo' = todo \ {FirstInScan(todo)} /\ UNCHANGED <<pc, call>>
  BY DEF DropExpired
<1>3. CASE seen = keys[k]
  BY <1>1, <1>2, <1>3
<1>4. CASE seen # keys[k]
  <2>1. ~ Spared({"noCount"})'
    BY <1>1, <1>4 DEF Reads, Fault, Spared
  <2>2. ~ (Count(seen) > 1)
    BY <1>1, <1>4, CountedTable
  <2>3. QED
    BY <1>1, <1>2, <2>1, <2>2
<1>5. QED
  BY <1>3, <1>4

LEMMA ControlFlowFact ==
    ASSUME [Next]_vars, Spared({"clear", "noIdentity"})'
    PROVE  ControlFlow
<1> USE DEF ControlFlow, GoTo, Return, Abort
<1>1. CASE Open
  BY <1>1 DEF Open, Fault, Spared
<1>2. CASE SetRegistrationId \/ SaveFirstSigned \/ SaveFirstKyber
  BY <1>2 DEF SaveFirstKyber
<1>3. CASE GeneratePreKeys \/ SavePreKey \/ PreKeysSaved \/ Refill
  BY <1>3 DEF GeneratePreKeys, SavePreKey, PreKeysSaved, Refill, AfterReplenish
<1>4. CASE RotateSigned \/ RotateKyber
  BY <1>4 DEF RotateSigned, RotateKyber, Rotate
<1>5. CASE ExpireSigned
  BY <1>5 DEF ExpireSigned, Expire, AfterSigned, Lists, DropStep, stored, Kinds
<1>6. CASE ExpireKyber
  BY <1>6 DEF ExpireKyber, Expire, Lists, DropStep, stored, Kinds
<1>7. CASE DropSigned
  <2>1. CASE todo # {}
    BY <1>7, <2>1, VisitFact DEF DropSigned, Visits, DropsOne, DropStep, Kinds
  <2>2. QED
    BY <1>7, <2>1 DEF DropSigned, DropExpired, AfterSigned
<1>8. CASE DropKyber
  <2>1. CASE todo # {}
    BY <1>8, <2>1, VisitFact DEF DropKyber, Visits, DropsOne, DropStep, Kinds
  <2>2. QED
    BY <1>8, <2>1 DEF DropKyber, DropExpired
<1>9. CASE BeginMaintenance \/ Close \/ Crash \/ StatementFails
  BY <1>9 DEF BeginMaintenance, Close, Crash, StatementFails
<1>10. CASE \/ GenerateBundle \/ DecryptPreKeyMessage \/ ConsumePreKey
            \/ Tick \/ ClockBack \/ ClearLocalIdentity \/ UNCHANGED vars
  BY <1>10 DEF GenerateBundle, DecryptPreKeyMessage, ConsumePreKey, Tick,
     ClockBack, ClearLocalIdentity, locals, vars
<1>11. QED
  BY <1>1, <1>2, <1>3, <1>4, <1>5, <1>6, <1>7, <1>8, <1>9, <1>10
     DEF Next, Step

-----------------------------------------------------------------------------
(* Signatures.                                                             *)

\* What a step makes of the rows of a table: an old row, or one signed and
\* dated now.
LEMMA RowsAfter ==
    ASSUME BaseInv, NEW k \in Kinds,
           SavesFirst(k) \/ Supersedes(k) \/ DropsOne(k)
    PROVE  /\ UNCHANGED <<now, identity>>
           /\ \A j \in Kinds : j # k => keys'[j] = keys[j]
           /\ \A id \in DOMAIN keys'[k] :
                 \/ keys'[k][id] = KeyRecord(now, identity)
                 \/ id \in DOMAIN keys[k] /\ keys'[k][id] = keys[k][id]
<1>1. UNCHANGED <<now, identity>>
  BY DEF SavesFirst, Supersedes, DropsOne
<1>2. \A j \in Kinds : j # k => keys'[j] = keys[j]
  BY DEF SavesFirst, Supersedes, DropsOne, BaseInv, TypeOK, StoreOK
<1>3. CASE SavesFirst(k) \/ Supersedes(k)
  <2>1. PICK id : keys'[k] = Put(keys[k], id, KeyRecord(now, identity))
    BY <1>3 DEF SavesFirst, Supersedes, BaseInv, TypeOK, StoreOK
  <2>2. QED
    BY <1>1, <1>2, <2>1 DEF Put
<1>4. CASE DropsOne(k)
  <2>1. PICK id : keys'[k] = Drop(keys[k], id)
    BY <1>4 DEF DropsOne, BaseInv, TypeOK, StoreOK
  <2>2. QED
    BY <1>1, <1>2, <2>1 DEF Drop
<1>5. QED
  BY <1>3, <1>4

LEMMA SignedStep ==
    ASSUME SignInv, [Next]_vars, Spared({"clear", "noIdentity"})'
    PROVE  SignedByIdentity'
<1> USE DEF SignInv
<1>1. CASE keys' = keys
  BY <1>1, IdentityFrame DEF SignedByIdentity, FirstRunTables
<1>2. ASSUME NEW k \in Kinds, SavesFirst(k) \/ Supersedes(k) \/ DropsOne(k)
      PROVE  SignedByIdentity'
  <2>1. /\ identity' = identity
        /\ \A j \in Kinds : j # k => keys'[j] = keys[j]
        /\ \A id \in DOMAIN keys'[k] :
              \/ keys'[k][id] = KeyRecord(now, identity)
              \/ id \in DOMAIN keys[k] /\ keys'[k][id] = keys[k][id]
    BY <1>2, RowsAfter
  <2>2. \A id \in DOMAIN keys'[k] : keys'[k][id].signer = identity
    BY <2>1 DEF SignedByIdentity, KeyRecord
  <2>3. QED
    BY <2>1, <2>2 DEF SignedByIdentity
<1>3. QED
  BY <1>1, <1>2, KeysChange

LEMMA FirstRunStep ==
    ASSUME SignInv, [Next]_vars, Spared({"clear", "noIdentity"})'
    PROVE  FirstRunTables'
<1> USE DEF SignInv
<1>1. CASE keys' = keys /\ \A k \in Kinds : DOMAIN keys[k] = {}
  BY <1>1 DEF FirstRunTables, Kinds
<1>2. CASE keys' = keys /\ ~ \A k \in Kinds : DOMAIN keys[k] = {}
  <2>1. identity # 0 /\ pc \notin {"setRegistration", "saveSigned"}
    BY <1>2 DEF FirstRunTables
  <2>2. identity' # 0
    BY <2>1, IdentityFrame
  <2>3. pc' \notin {"setRegistration", "saveSigned"}
    BY <2>1, ControlFlowFact
       DEF ControlFlow, SetRegistrationId, SaveFirstSigned, GoTo, Lists,
           Visits, DropStep
  <2>4. pc' = "saveKyber" => pc = "saveKyber"
    BY <2>1, ControlFlowFact
       DEF ControlFlow, SetRegistrationId, SaveFirstSigned, GoTo, Lists,
           Visits, DropStep
  <2>5. QED
    BY <1>2, <2>2, <2>3, <2>4 DEF FirstRunTables
<1>3. ASSUME NEW k \in Kinds, SavesFirst(k) \/ Supersedes(k)
      PROVE  FirstRunTables'
  <2>1. /\ pc \in {"saveSigned", "saveKyber", "rotateSigned", "rotateKyber"}
        /\ pc' \in {"saveKyber", "generate", "rotateKyber", "refill"}
        /\ pc' = "saveKyber" => pc = "saveSigned" /\ k = "signed"
        /\ identity' = identity
    BY <1>3 DEF SavesFirst, Supersedes, Kinds
  <2>2. identity # 0
    BY <2>1 DEF BaseInv, IdentityHeld
  <2>3. pc' = "saveKyber" => keys'["kyber"] = keys["kyber"]
    BY <1>3, <2>1, RowsAfter DEF Kinds
  <2>4. QED
    BY <2>1, <2>2, <2>3 DEF FirstRunTables, Kinds
<1>4. ASSUME NEW k \in Kinds, DropsOne(k)
      PROVE  FirstRunTables'
  <2>1. /\ pc \in {"dropSigned", "dropKyber"}
        /\ UNCHANGED <<pc, identity>>
    BY <1>4 DEF DropsOne
  <2>2. \A j \in Kinds : DOMAIN keys'[j] \subseteq DOMAIN keys[j]
    <3>1. \A j \in Kinds : j # k => keys'[j] = keys[j]
      BY <1>4, RowsAfter
    <3>2. PICK id : keys'[k] = Drop(keys[k], id)
      BY <1>4 DEF DropsOne, BaseInv, TypeOK, StoreOK
    <3>3. QED
      BY <3>1, <3>2 DEF Drop
  <2>3. QED
    BY <2>1, <2>2 DEF FirstRunTables
<1>5. QED
  BY <1>1, <1>2, <1>3, <1>4, KeysChange

LEMMA SignStep ==
    ASSUME SignInv, [Next]_vars, Spared({"clear", "noIdentity"})'
    PROVE  SignInv'
BY BaseStep, SignedStep, FirstRunStep DEF SignInv

\* Unless the application clears the identity or new() fails to read it, every
\* signed and Kyber pre-key in the store is signed by the stored identity: after
\* every other fault, and however the clock moves.
THEOREM KeysSignedByIdentityHolds == Spec => []KeysSignedByIdentity
<1> DEFINE Inv == BaseInv /\ (Spared({"clear", "noIdentity"}) => SignInv)
<1>1. Init => Inv
  BY BaseInit, FirstState DEF VisitInv, AgeInv
<1>2. Inv /\ [Next]_vars => Inv'
  BY BaseStep, SignStep, SparedBefore
<1>3. Inv => KeysSignedByIdentity
  BY DEF SignInv, SignedByIdentity, KeysSignedByIdentity
<1>4. QED
  BY <1>1, <1>2, <1>3, PTL DEF Spec

-----------------------------------------------------------------------------
(* Ages.                                                                   *)

\* A superseded key is older than the cutoff, in whole seconds.
LEMMA SupersededIsListed ==
    ASSUME AgeInv, NEW k \in Kinds, NEW id \in DOMAIN keys[k],
           id < CurrentId(keys[k])
    PROVE  id \in OlderThan(keys[k], Cutoff(now))
<1> USE DEF AgeInv, SignInv
<1>1. /\ now \in Nat /\ id \in Nat /\ keys[k][id].ts \in Nat
      /\ GraceSecs \in Nat
  BY RowFact, IntervalsAssumption
<1>2. (now \div 1000) - (keys[k][id].ts \div 1000) > GraceSecs
  BY DEF SupersededPastGrace, PastGrace
<1>3. now \div 1000 \in Nat /\ keys[k][id].ts \div 1000 \in Nat
  BY <1>1
<1>4. GraceSecs * 1000 <= now
  <2>1. now \div 1000 > GraceSecs
    BY <1>1, <1>2, <1>3
  <2>2. QED
    BY <1>1, <2>1
<1>5. Cutoff(now) = now - GraceSecs * 1000
  BY <1>1, <1>4 DEF Cutoff, WrappingSub
<1>6. Cutoff(now) \div 1000 = (now \div 1000) - GraceSecs
  BY <1>1, <1>5
<1>7. keys[k][id].ts \div 1000 < Cutoff(now) \div 1000
  BY <1>1, <1>2, <1>3, <1>6
<1>8. QED
  BY <1>7 DEF OlderThan

LEMMA ListedCurrentFact ==
    ASSUME AgeInv, NEW k \in Kinds,
           CurrentId(keys[k]) \in OlderThan(keys[k], Cutoff(now))
    PROVE  DOMAIN keys[k] \subseteq OlderThan(keys[k], Cutoff(now))
<1>1. SUFFICES ASSUME NEW id \in DOMAIN keys[k], id # CurrentId(keys[k])
               PROVE  id \in OlderThan(keys[k], Cutoff(now))
  OBVIOUS
<1>2. IsTable(keys[k], KeyRows) /\ id \in Nat
  BY RowFact DEF AgeInv, SignInv
<1>3. id <= CurrentId(keys[k]) /\ CurrentId(keys[k]) \in Nat
  BY <1>2, CurrentIdFact
<1>4. id < CurrentId(keys[k])
  BY <1>1, <1>2, <1>3
<1>5. QED
  BY <1>4, SupersededIsListed

LEMMA DueWhenSuperseded ==
    ASSUME IntervalsOrdered, AgeInv, NEW k \in Kinds,
           NeedsRotation(keys[k], now), DOMAIN keys[k] # {}
    PROVE  PastGrace(keys[k][CurrentId(keys[k])].ts, now)
<1> DEFINE ts == keys[k][CurrentId(keys[k])].ts
<1> USE DEF AgeInv, SignInv
<1>1. CurrentId(keys[k]) \in DOMAIN keys[k] /\ now \in Nat
  BY RowFact, CurrentIdFact
<1>2. ts \in Nat /\ ts <= now
  BY <1>1, RowFact DEF NoKeyAhead
<1>3. (now - ts) \div 1000 > RotationSecs
  BY <1>1, <1>2 DEF NeedsRotation, WrappingSub
<1>4. QED
  BY <1>1, <1>2, <1>3, DueIsPastGrace DEF IntervalsOrdered

\* While MAX(id) is read, a key is saved above every id of its table, which is
\* empty or whose current key is due.
LEMMA NewestKeyFact ==
    ASSUME IntervalsOrdered, AgeInv, NEW k \in Kinds,
           SavesFirst(k) \/ Supersedes(k), Spared({"noMax"})'
    PROVE  /\ \E id \in Nat :
                 /\ id > CurrentId(keys[k])
                 /\ keys'[k] = Put(keys[k], id, KeyRecord(now, identity))
           /\ DOMAIN keys[k] # {} =>
                 PastGrace(keys[k][CurrentId(keys[k])].ts, now)
<1> USE DEF AgeInv, SignInv
<1>1. CASE SavesFirst(k)
  <2>1. DOMAIN keys[k] = {}
    BY <1>1 DEF SavesFirst, FirstRunTables, Kinds
  <2>2. CurrentId(keys[k]) = 0
    BY <2>1 DEF CurrentId
  <2>3. keys'[k] = Put(keys[k], 1, KeyRecord(now, identity))
    BY <1>1 DEF SavesFirst, BaseInv, TypeOK, StoreOK
  <2>4. QED
    BY <2>1, <2>2, <2>3
<1>2. CASE Supersedes(k)
  <2>1. PICK seen \in {keys[k], EmptyTable}, last \in {keys[k], EmptyTable} :
          /\ Reads(seen = keys[k] /\ last = keys[k], "noMax")
          /\ NeedsRotation(seen, now)
          /\ keys' = [keys EXCEPT ![k] =
                         Put(keys[k], NextKeyId(last), KeyRecord(now, identity))]
    BY <1>2 DEF Supersedes
  <2>2. seen = keys[k] /\ last = keys[k]
    BY <2>1 DEF Reads, Fault, Spared
  <2>3. keys'[k] = Put(keys[k], NextKeyId(keys[k]), KeyRecord(now, identity))
    BY <2>1, <2>2 DEF BaseInv, TypeOK, StoreOK
  <2>4. NextKeyId(keys[k]) \in Nat /\ NextKeyId(keys[k]) > CurrentId(keys[k])
    BY RowFact, CurrentIdFact DEF NextKeyId
  <2>5. DOMAIN keys[k] # {} => PastGrace(keys[k][CurrentId(keys[k])].ts, now)
    BY <2>1, <2>2, DueWhenSuperseded
  <2>6. QED
    BY <2>3, <2>4, <2>5
<1>3. QED
  BY <1>1, <1>2

\* A key saved above every id of its table becomes the current one.
LEMMA NewestIsCurrent ==
    ASSUME BaseInv, NEW k \in Kinds, identity # 0, NEW id \in Nat,
           id > CurrentId(keys[k])
    PROVE  CurrentId(Put(keys[k], id, KeyRecord(now, identity))) = id
BY RowFact, KeyRecordFact, CurrentIdOfPut

LEMMA SupersededStep ==
    ASSUME IntervalsOrdered, AgeInv, [Next]_vars, Spared(Disordering)'
    PROVE  SupersededPastGrace'
<1> USE DEF AgeInv, SignInv
<1>1. SUFFICES ASSUME NEW k \in Kinds, NEW x \in DOMAIN keys'[k],
                      x < CurrentId(keys'[k])
               PROVE  PastGrace(keys'[k][x].ts, now')
  BY DEF SupersededPastGrace
<1>2. now \in Nat /\ now' \in Nat /\ now <= now'
  <2>1. now \in Nat /\ now' \in Nat
    BY BaseStep, ClockAssumption DEF BaseInv, TypeOK, EnvironmentOK
  <2>2. QED
    BY <2>1, ClockFrame, SparedFacts
<1>3. /\ IsTable(keys[k], KeyRows)
      /\ CurrentId(keys[k]) \in Nat
      /\ \A y \in DOMAIN keys[k] : y \in Nat /\ y <= CurrentId(keys[k])
      /\ DOMAIN keys[k] # {} => CurrentId(keys[k]) \in DOMAIN keys[k]
  BY RowFact, CurrentIdFact
<1>4. SUFFICES ASSUME TRUE
               PROVE  /\ x \in DOMAIN keys[k]
                      /\ keys'[k][x] = keys[k][x]
                      /\ PastGrace(keys[k][x].ts, now)
  BY <1>2, RowFact, PastGraceLasts
<1>5. CASE keys'[k] = keys[k]
  BY <1>1, <1>5 DEF SupersededPastGrace
<1>6. CASE SavesFirst(k) \/ Supersedes(k)
  <2>1. PICK id \in Nat :
          /\ id > CurrentId(keys[k])
          /\ keys'[k] = Put(keys[k], id, KeyRecord(now, identity))
    BY <1>6, NewestKeyFact, SparedFacts
  <2>2. DOMAIN keys[k] # {} => PastGrace(keys[k][CurrentId(keys[k])].ts, now)
    BY <1>6, NewestKeyFact, SparedFacts
  <2>3. CurrentId(keys'[k]) = id
    <3>1. identity # 0
      BY <1>6 DEF SavesFirst, Supersedes, BaseInv, IdentityHeld, Kinds
    <3>2. QED
      BY <2>1, <3>1, NewestIsCurrent
  <2>4. x \in DOMAIN keys[k] /\ keys'[k][x] = keys[k][x]
    BY <1>1, <2>1, <2>3 DEF Put
  <2>5. x = CurrentId(keys[k]) \/ x < CurrentId(keys[k])
    BY <1>3, <2>4
  <2>6. QED
    BY <2>2, <2>4, <2>5 DEF SupersededPastGrace
<1>7. CASE DropsOne(k)
  <2>1. PICK id : keys'[k] = Drop(keys[k], id)
    BY <1>7 DEF DropsOne, BaseInv, TypeOK, StoreOK
  <2>2. /\ IsTable(keys'[k], KeyRows)
        /\ DOMAIN keys'[k] = DOMAIN keys[k] \ {id}
        /\ \A y \in DOMAIN keys[k] \ {id} : keys'[k][y] = keys[k][y]
    BY <1>3, <2>1, DropFact
  <2>3. CurrentId(keys'[k]) \in DOMAIN keys[k]
    BY <1>1, <2>2, CurrentIdFact
  <2>4. x \in Nat /\ CurrentId(keys'[k]) \in Nat
        /\ CurrentId(keys'[k]) <= CurrentId(keys[k])
    BY <1>1, <1>3, <2>2, <2>3
  <2>5. x < CurrentId(keys[k])
    BY <1>1, <1>3, <2>4
  <2>6. QED
    BY <1>1, <2>2, <2>5 DEF SupersededPastGrace
<1>8. QED
  <2>1. ASSUME NEW j \in Kinds, SavesFirst(j) \/ Supersedes(j) \/ DropsOne(j),
               j # k
        PROVE  keys'[k] = keys[k]
    BY <2>1, RowsAfter
  <2>2. QED
    BY <1>5, <1>6, <1>7, <2>1, KeysChange

LEMMA AgeStep ==
    ASSUME IntervalsOrdered, AgeInv, [Next]_vars, Spared(Disordering)'
    PROVE  AgeInv'
<1>1. SignInv'
  BY SignStep, SparedFacts DEF AgeInv
<1>2. NoKeyAhead'
  BY NoKeyAheadStep, SparedFacts DEF AgeInv, SignInv
<1>3. QED
  BY <1>1, <1>2, SupersededStep DEF AgeInv

\* Unless a fault disorders the keys, a superseded signed or Kyber pre-key is
\* past the grace period from the step that supersedes it, so the maintenance
\* call that rotates a key out is free to delete it (key_rotation.rs:68, 81,
\* 195, 208).
THEOREM SupersededKeysExpiredHolds ==
    ASSUME IntervalsOrdered
    PROVE  Spec => []SupersededKeysExpired
<1> DEFINE Inv == BaseInv /\ (Spared(Disordering) => AgeInv)
<1>1. Init => Inv
  BY BaseInit, FirstState DEF VisitInv
<1>2. Inv /\ [Next]_vars => Inv'
  BY BaseStep, AgeStep, SparedBefore
<1>3. Inv => SupersededKeysExpired
  BY DEF AgeInv, SupersededPastGrace, SupersededKeysExpired
<1>4. QED
  BY <1>1, <1>2, <1>3, PTL DEF Spec

-----------------------------------------------------------------------------
(* The current key.                                                        *)

\* The visited id is not the current one: the scan is in ascending order, and
\* when the current key is next no other is left to make the count exceed one.
LEMMA VisitedNotCurrent ==
    ASSUME VisitInv, NEW k \in Kinds, DropsOne(k)
    PROVE  FirstInScan(todo) # CurrentId(keys[k])
<1> DEFINE f == FirstInScan(todo)
<1> USE DEF VisitInv, AgeInv, SignInv
<1>1. SUFFICES ASSUME f = CurrentId(keys[k]) PROVE FALSE
  OBVIOUS
<1>2. todo \in SUBSET Nat /\ todo # {}
  BY DEF DropsOne, BaseInv, TypeOK, ControlOK
<1>3. f \in todo /\ \A n \in todo : f <= n
  BY <1>2, FirstInScanFact
<1>4. DOMAIN keys[k] \subseteq todo
  BY <1>1, <1>3 DEF CurrentVisitedLast, DropsOne
<1>5. IsTable(keys[k], KeyRows) /\ Count(keys[k]) > 1
  BY RowFact DEF DropsOne
<1>6. PICK x \in DOMAIN keys[k] : x # f
  BY <1>5, CountAboveOne
<1>7. x <= CurrentId(keys[k]) /\ x \in Nat
  BY <1>5, CurrentIdFact
<1>8. f <= x /\ f \in Nat
  BY <1>2, <1>3, <1>4
<1>9. QED
  BY <1>1, <1>6, <1>7, <1>8

LEMMA DropsOneFact ==
    ASSUME VisitInv, NEW k \in Kinds, DropsOne(k)
    PROVE  /\ \A j \in Kinds : j # k => keys'[j] = keys[j]
           /\ DOMAIN keys'[k] = DOMAIN keys[k] \ {FirstInScan(todo)}
           /\ \A x \in DOMAIN keys'[k] : keys'[k][x] = keys[k][x]
           /\ CurrentId(keys'[k]) = CurrentId(keys[k])
<1> DEFINE f == FirstInScan(todo)
<1>1. IsTable(keys[k], KeyRows)
  BY RowFact DEF VisitInv, AgeInv, SignInv
<1>2. keys'[k] = Drop(keys[k], f) /\ \A j \in Kinds : j # k => keys'[j] = keys[j]
  BY DEF DropsOne, VisitInv, AgeInv, SignInv, BaseInv, TypeOK, StoreOK
<1>3. /\ DOMAIN Drop(keys[k], f) = DOMAIN keys[k] \ {f}
      /\ \A x \in DOMAIN keys[k] \ {f} : Drop(keys[k], f)[x] = keys[k][x]
  BY DEF Drop
<1>4. CurrentId(Drop(keys[k], f)) = CurrentId(keys[k])
  <2>1. f # CurrentId(keys[k])
    BY VisitedNotCurrent
  <2>2. QED
    BY <1>1, <2>1, CurrentIdOfDrop
<1>5. QED
  BY <1>2, <1>3, <1>4

\* A table changes in clean-up only by a visit.
LEMMA TableAtRest ==
    ASSUME BaseInv, [Next]_vars, UNCHANGED <<pc, todo>>, NEW k \in Kinds,
           pc' = DropStep(k)
    PROVE  keys' = keys
<1>1. \A j \in Kinds : ~ (SavesFirst(j) \/ Supersedes(j))
  BY DEF SavesFirst, Supersedes, DropStep, Kinds
<1>2. \A j \in Kinds : ~ DropsOne(j)
  <2>1. SUFFICES ASSUME NEW j \in Kinds, DropsOne(j) PROVE FALSE
    OBVIOUS
  <2>2. todo # {} /\ todo = todo \ {FirstInScan(todo)}
    BY <2>1 DEF DropsOne
  <2>3. FirstInScan(todo) \in todo
    BY <2>2, FirstInScanFact DEF BaseInv, TypeOK, ControlOK
  <2>4. QED
    BY <2>2, <2>3
<1>3. QED
  BY <1>1, <1>2, KeysChange

LEMMA VisitedLastStep ==
    ASSUME IntervalsOrdered, VisitInv, [Next]_vars,
           Spared(Disordering \cup {"noCount"})'
    PROVE  CurrentVisitedLast'
<1> USE DEF VisitInv, AgeInv, SignInv
<1>1. SUFFICES ASSUME NEW k \in Kinds, pc' = DropStep(k),
                      CurrentId(keys'[k]) \in todo'
               PROVE  DOMAIN keys'[k] \subseteq todo'
  BY DEF CurrentVisitedLast, DropStep
<1>2. CASE UNCHANGED <<pc, todo>>
  <2>1. keys'[k] = keys[k]
    BY <1>1, <1>2, TableAtRest
  <2>2. QED
    BY <1>1, <1>2, <2>1 DEF CurrentVisitedLast, DropStep
<1>3. CASE \E j \in Kinds : Lists(j)
  <2>1. Lists(k)
    BY <1>1, <1>3 DEF Lists, DropStep, Kinds
  <2>2. QED
    BY <1>1, <2>1, ListedCurrentFact DEF Lists
<1>4. CASE \E j \in Kinds : Visits(j)
  <2>1. Visits(k)
    BY <1>1, <1>4 DEF Visits, DropStep, Kinds
  <2>2. todo' = todo \ {FirstInScan(todo)} /\ pc = DropStep(k)
    BY <2>1 DEF Visits
  <2>3. CASE DropsOne(k)
    <3>1. /\ DOMAIN keys'[k] = DOMAIN keys[k] \ {FirstInScan(todo)}
          /\ CurrentId(keys'[k]) = CurrentId(keys[k])
      BY <2>3, DropsOneFact
    <3>2. DOMAIN keys[k] \subseteq todo
      BY <1>1, <2>2, <3>1 DEF CurrentVisitedLast, DropStep
    <3>3. QED
      BY <2>2, <3>1, <3>2
  <2>4. CASE keys' = keys /\ ~ (Count(keys[k]) > 1)
    <3>1. \A x \in DOMAIN keys[k] : x = CurrentId(keys[k])
      BY <2>4, RowFact, CountAtMostOne
    <3>2. QED
      BY <1>1, <2>4, <3>1
  <2>5. QED
    BY <2>1, <2>3, <2>4, SparedFacts DEF Visits, Spared
<1>5. QED
  BY <1>1, <1>2, <1>3, <1>4, ControlFlowFact, SparedFacts
     DEF ControlFlow, DropStep, SetRegistrationId, SaveFirstSigned, GoTo

LEMMA VisitStep ==
    ASSUME IntervalsOrdered, VisitInv, [Next]_vars,
           Spared(Disordering \cup {"noCount"})'
    PROVE  VisitInv'
BY AgeStep, VisitedLastStep, SparedFacts DEF VisitInv

LEMMA CurrentSurvivesStep ==
    ASSUME IntervalsOrdered, VisitInv, [Next]_vars, NEW k \in Kinds,
           Spared(Disordering \cup {"noCount"})'
    PROVE  /\ CurrentId(keys'[k]) >= CurrentId(keys[k])
           /\ \A id \in DOMAIN keys[k] \cap DOMAIN keys'[k] :
                 keys'[k][id] = keys[k][id]
<1> USE DEF VisitInv, AgeInv, SignInv
<1>1. /\ IsTable(keys[k], KeyRows) /\ CurrentId(keys[k]) \in Nat
      /\ \A x \in DOMAIN keys[k] : x \in Nat /\ x <= CurrentId(keys[k])
  BY RowFact, CurrentIdFact
<1>2. CASE keys'[k] = keys[k]
  BY <1>1, <1>2
<1>3. CASE DropsOne(k)
  BY <1>1, <1>3, DropsOneFact
<1>4. CASE SavesFirst(k) \/ Supersedes(k)
  <2>1. PICK id \in Nat : /\ id > CurrentId(keys[k])
                          /\ keys'[k] = Put(keys[k], id, KeyRecord(now, identity))
    BY <1>4, NewestKeyFact, SparedFacts
  <2>2. CurrentId(keys'[k]) = id
    <3>1. identity # 0
      BY <1>4 DEF SavesFirst, Supersedes, BaseInv, IdentityHeld, Kinds
    <3>2. QED
      BY <2>1, <3>1, NewestIsCurrent
  <2>3. \A x \in DOMAIN keys[k] : x # id => keys'[k][x] = keys[k][x]
    BY <2>1 DEF Put
  <2>4. QED
    BY <1>1, <2>1, <2>2, <2>3
<1>5. QED
  <2>1. ASSUME NEW j \in Kinds, SavesFirst(j) \/ Supersedes(j) \/ DropsOne(j),
               j # k
        PROVE  keys'[k] = keys[k]
    BY <2>1, RowsAfter
  <2>2. QED
    BY <1>2, <1>3, <1>4, <2>1, KeysChange

\* Unless a fault disorders the keys or a count is not read, no step deletes the
\* current key of a table or overwrites a key: the count guard of the clean-up
\* loop and the order of its scan are enough, wherever a call is cut short.
THEOREM CurrentKeySurvivesHolds ==
    ASSUME IntervalsOrdered
    PROVE  Spec => CurrentKeySurvives
<1> DEFINE Inv == BaseInv /\ (Spared(Disordering \cup {"noCount"}) => VisitInv)
<1>1. Init => Inv
  BY BaseInit, FirstState
<1>2. Inv /\ [Next]_vars => Inv'
  BY BaseStep, VisitStep, SparedBefore
<1>3. Inv /\ [Next]_vars =>
        [Spared(Disordering \cup {"noCount"})' =>
           \A k \in Kinds :
              /\ CurrentId(keys'[k]) >= CurrentId(keys[k])
              /\ \A id \in DOMAIN keys[k] \cap DOMAIN keys'[k] :
                    keys'[k][id] = keys[k][id]]_vars
  BY CurrentSurvivesStep, SparedBefore
<1>4. QED
  BY <1>1, <1>2, <1>3, PTL DEF Spec, CurrentKeySurvives

-----------------------------------------------------------------------------
(* What perform_key_maintenance achieves when it returns Ok.               *)

CleanUpSteps == {"expireSigned", "dropSigned", "expireKyber", "dropKyber"}

LaterSteps == {"refill", "generate", "savePreKeys"} \cup CleanUpSteps

OnlyCurrent(k) == \A id \in DOMAIN keys[k] : id = CurrentId(keys[k])

\* A table has a key from the step on that looked whether it needs one.
MaintenanceUnderway ==
    call = "maintain" =>
        /\ identity # 0
        /\ pc \in {"rotateSigned", "rotateKyber"} \cup LaterSteps
        /\ pc # "rotateSigned" => DOMAIN keys["signed"] # {}
        /\ pc \in LaterSteps => DOMAIN keys["kyber"] # {}

\* Clean-up follows the refill.
CleanUpUnderway ==
    pc \in CleanUpSteps => call = "maintain" /\ Count(preKeys) >= MinPreKeyCount

\* The keys saved and those still to be saved are enough.
RefillSuffices ==
    pc = "savePreKeys" => Cardinality(DOMAIN preKeys \cup batch) >= MinPreKeyCount

\* Every superseded key is on the list of those to visit.
SupersededListed ==
    \A k \in Kinds : pc = DropStep(k) =>
        \A id \in DOMAIN keys[k] \ todo : id = CurrentId(keys[k])

SignedCleaned == pc \in {"expireKyber", "dropKyber"} => OnlyCurrent("signed")

\* After any faults.
MaintenanceInv ==
    /\ BaseInv
    /\ MaintenanceUnderway
    /\ CleanUpUnderway
    /\ RefillSuffices

\* While nothing disordered the keys and every count was read.
CleanUpInv == VisitInv /\ SupersededListed /\ SignedCleaned

\* How a call of perform_key_maintenance is entered and goes on.
LEMMA MaintenanceFlow ==
    ASSUME [Next]_vars, MaintenanceUnderway, call' = "maintain"
    PROVE  \/ UNCHANGED <<pc, call>>
           \/ identity # 0 /\ pc' = "rotateSigned"
           \/ call = "maintain" /\ RotateSigned /\ pc' = "rotateKyber"
           \/ call = "maintain" /\ RotateKyber /\ pc' = "refill"
           \/ /\ call = "maintain"
              /\ pc \notin {"rotateSigned", "rotateKyber"}
              /\ pc' \in LaterSteps
<1> USE DEF GoTo, Return, Abort, LaterSteps, CleanUpSteps
<1>1. CASE Open \/ SetRegistrationId \/ SaveFirstSigned \/ SaveFirstKyber
  BY <1>1 DEF Open, SetRegistrationId, SaveFirstSigned, SaveFirstKyber,
     MaintenanceUnderway
<1>2. CASE GeneratePreKeys \/ SavePreKey \/ PreKeysSaved \/ Refill
  BY <1>2 DEF GeneratePreKeys, SavePreKey, PreKeysSaved, Refill, AfterReplenish
<1>3. CASE RotateSigned \/ RotateKyber
  BY <1>3 DEF RotateSigned, RotateKyber, Rotate
<1>4. CASE ExpireSigned \/ ExpireKyber
  BY <1>4 DEF ExpireSigned, ExpireKyber, Expire, AfterSigned
<1>5. CASE DropSigned \/ DropKyber
  BY <1>5 DEF DropSigned, DropKyber, DropExpired, AfterSigned
<1>6. CASE BeginMaintenance \/ Close \/ Crash \/ StatementFails
  BY <1>6 DEF BeginMaintenance, Close, Crash, StatementFails
<1>7. CASE \/ GenerateBundle \/ DecryptPreKeyMessage \/ ConsumePreKey
           \/ Tick \/ ClockBack \/ ClearLocalIdentity \/ UNCHANGED vars
  BY <1>7 DEF GenerateBundle, DecryptPreKeyMessage, ConsumePreKey, Tick,
     ClockBack, ClearLocalIdentity, locals, vars
<1>8. QED
  BY <1>1, <1>2, <1>3, <1>4, <1>5, <1>6, <1>7 DEF Next, Step

\* Rotation leaves a key in the table it looks at.
LEMMA RotateLeavesKey ==
    ASSUME BaseInv, NEW k \in Kinds, NEW next, Rotate(k, next), pc' = next,
           next \notin {"ready", "closed"}
    PROVE  DOMAIN keys'[k] # {}
<1>1. ASSUME NEW last,
             keys' = [keys EXCEPT ![k] =
                        Put(keys[k], NextKeyId(last), KeyRecord(now, identity))]
      PROVE  DOMAIN keys'[k] # {}
  <2>1. keys'[k] = Put(keys[k], NextKeyId(last), KeyRecord(now, identity))
    BY <1>1 DEF BaseInv, TypeOK, StoreOK
  <2>2. QED
    BY <2>1 DEF Put
<1>2. CASE keys' = keys /\ ~ NeedsRotation(keys[k], now)
  BY <1>2 DEF NeedsRotation
<1>3. QED
  BY <1>1, <1>2 DEF Rotate, Abort

\* Only clear_local_identity takes the identity away.
LEMMA IdentityStays ==
    ASSUME BaseInv, [Next]_vars, identity # 0, ~ ClearLocalIdentity
    PROVE  identity' # 0
<1>1. CASE Open
  BY <1>1 DEF Open, BaseInv, TypeOK, StoreOK
<1>2. CASE ControlStep
  BY <1>2 DEF ControlStep, SetRegistrationId, GeneratePreKeys, PreKeysSaved,
     Refill, BeginMaintenance, Close, Crash, StatementFails, ExpireSigned,
     ExpireKyber, stored
<1>3. CASE \/ SaveFirstSigned \/ SaveFirstKyber \/ SavePreKey
           \/ RotateSigned \/ RotateKyber \/ DropSigned \/ DropKyber
  BY <1>3 DEF SaveFirstSigned, SaveFirstKyber, SavePreKey, RotateSigned,
     RotateKyber, DropSigned, DropKyber
<1>4. CASE \/ GenerateBundle \/ DecryptPreKeyMessage \/ ConsumePreKey
           \/ Tick \/ ClockBack \/ UNCHANGED vars
  BY <1>4 DEF GenerateBundle, DecryptPreKeyMessage, ConsumePreKey, Tick,
     ClockBack, vars, stored
<1>5. QED
  BY <1>1, <1>2, <1>3, <1>4 DEF Next, Step, ControlStep

LEMMA UnderwayStep ==
    ASSUME MaintenanceInv, [Next]_vars
    PROVE  MaintenanceUnderway'
<1> USE DEF MaintenanceInv
<1>1. SUFFICES ASSUME call' = "maintain"
               PROVE  /\ identity' # 0
                      /\ pc' \in {"rotateSigned", "rotateKyber"} \cup LaterSteps
                      /\ pc' # "rotateSigned" => DOMAIN keys'["signed"] # {}
                      /\ pc' \in LaterSteps => DOMAIN keys'["kyber"] # {}
  BY DEF MaintenanceUnderway
<1>2. \A k \in Kinds : DOMAIN keys[k] # {} => DOMAIN keys'[k] # {}
  BY NeverEmptiedStep
<1>3. "signed" \in Kinds /\ "kyber" \in Kinds
  BY DEF Kinds
<1>4. identity # 0 => identity' # 0
  <2>1. ~ ClearLocalIdentity
    BY <1>1 DEF ClearLocalIdentity, locals, MaintenanceUnderway, LaterSteps,
       CleanUpSteps
  <2>2. QED
    BY <2>1, IdentityStays
<1>5. CASE UNCHANGED <<pc, call>>
  BY <1>1, <1>2, <1>3, <1>4, <1>5 DEF MaintenanceUnderway
<1>6. CASE identity # 0 /\ pc' = "rotateSigned"
  BY <1>4, <1>6 DEF LaterSteps, CleanUpSteps
<1>7. CASE call = "maintain" /\ RotateSigned /\ pc' = "rotateKyber"
  <2>1. DOMAIN keys'["signed"] # {}
    BY <1>3, <1>7, RotateLeavesKey DEF RotateSigned
  <2>2. identity' # 0
    BY <1>4, <1>7 DEF MaintenanceUnderway
  <2>3. QED
    BY <1>7, <2>1, <2>2 DEF LaterSteps, CleanUpSteps
<1>8. CASE call = "maintain" /\ RotateKyber /\ pc' = "refill"
  <2>1. DOMAIN keys'["kyber"] # {}
    BY <1>3, <1>8, RotateLeavesKey DEF RotateKyber
  <2>2. identity' # 0 /\ DOMAIN keys'["signed"] # {}
    BY <1>2, <1>3, <1>4, <1>8 DEF MaintenanceUnderway, RotateKyber
  <2>3. QED
    BY <1>8, <2>1, <2>2 DEF LaterSteps
<1>9. CASE /\ call = "maintain"
           /\ pc \notin {"rotateSigned", "rotateKyber"}
           /\ pc' \in LaterSteps
  BY <1>2, <1>3, <1>4, <1>9 DEF MaintenanceUnderway
<1>10. QED
  BY <1>1, <1>5, <1>6, <1>7, <1>8, <1>9, MaintenanceFlow

\* One-time pre-keys change only between calls and in the loop that saves them.
LEMMA PreKeysFrame ==
    ASSUME [Next]_vars
    PROVE  preKeys' = preKeys \/ SavePreKey \/ pc = "ready"
<1>1. CASE ControlStep
  BY <1>1, ControlFrame
<1>2. CASE \/ Open \/ SaveFirstSigned \/ SaveFirstKyber \/ RotateSigned
           \/ RotateKyber \/ DropSigned \/ DropKyber
  BY <1>2 DEF Open, SaveFirstSigned, SaveFirstKyber, RotateSigned, RotateKyber,
     DropSigned, DropKyber
<1>3. CASE DecryptPreKeyMessage \/ ConsumePreKey
  BY <1>3 DEF DecryptPreKeyMessage, ConsumePreKey
<1>4. CASE GenerateBundle \/ Tick \/ ClockBack \/ UNCHANGED vars
  BY <1>4 DEF GenerateBundle, Tick, ClockBack, stored, vars
<1>5. QED
  BY <1>1, <1>2, <1>3, <1>4 DEF Next, Step, ControlStep

\* How clean-up is reached: from the refill test that found enough keys, from
\* the loop that saved the last one, or from the step of clean-up before it.
LEMMA CleanUpFlow ==
    ASSUME [Next]_vars, pc' \in CleanUpSteps
    PROVE  \/ pc \in CleanUpSteps /\ call' = call
           \/ /\ call = "maintain" /\ call' = call /\ preKeys' = preKeys
              /\ Refill \/ PreKeysSaved
<1> USE DEF GoTo, Return, Abort, CleanUpSteps
<1>1. CASE Open \/ SetRegistrationId \/ SaveFirstSigned \/ SaveFirstKyber
  BY <1>1 DEF Open, SetRegistrationId, SaveFirstSigned, SaveFirstKyber
<1>2. CASE GeneratePreKeys \/ SavePreKey \/ PreKeysSaved \/ Refill
  BY <1>2 DEF GeneratePreKeys, SavePreKey, PreKeysSaved, Refill, AfterReplenish,
     stored
<1>3. CASE RotateSigned \/ RotateKyber
  BY <1>3 DEF RotateSigned, RotateKyber, Rotate
<1>4. CASE ExpireSigned \/ ExpireKyber
  BY <1>4 DEF ExpireSigned, ExpireKyber, Expire, AfterSigned
<1>5. CASE DropSigned \/ DropKyber
  BY <1>5 DEF DropSigned, DropKyber, DropExpired, AfterSigned
<1>6. CASE BeginMaintenance \/ Close \/ Crash \/ StatementFails
  BY <1>6 DEF BeginMaintenance, Close, Crash, StatementFails
<1>7. CASE \/ GenerateBundle \/ DecryptPreKeyMessage \/ ConsumePreKey
           \/ Tick \/ ClockBack \/ ClearLocalIdentity \/ UNCHANGED vars
  BY <1>7 DEF GenerateBundle, DecryptPreKeyMessage, ConsumePreKey, Tick,
     ClockBack, ClearLocalIdentity, locals, vars
<1>8. QED
  BY <1>1, <1>2, <1>3, <1>4, <1>5, <1>6, <1>7 DEF Next, Step

LEMMA CleanUpStep ==
    ASSUME MaintenanceInv, [Next]_vars
    PROVE  CleanUpUnderway'
<1> USE DEF MaintenanceInv
<1>1. SUFFICES ASSUME pc' \in CleanUpSteps
               PROVE  call' = "maintain" /\ Count(preKeys') >= MinPreKeyCount
  BY DEF CleanUpUnderway
<1>2. CASE pc \in CleanUpSteps /\ call' = call
  <2>1. preKeys' = preKeys
    BY <1>2, PreKeysFrame DEF CleanUpSteps, SavePreKey
  <2>2. QED
    BY <1>2, <2>1 DEF CleanUpUnderway
<1>3. CASE call = "maintain" /\ call' = call /\ preKeys' = preKeys /\ Refill
  <2>1. PICK seen \in {preKeys, EmptyTable} : ~ (Count(seen) < MinPreKeyCount)
    BY <1>1, <1>3 DEF Refill, GoTo, CleanUpSteps
  <2>2. Count(preKeys) \in Nat /\ MinPreKeyCount \in Nat
    BY FS_CardinalityType, CountsAssumption
       DEF Count, BaseInv, TypeOK, StoreOK, IsTable
  <2>3. CASE seen = preKeys
    BY <1>3, <2>1, <2>2, <2>3
  <2>4. CASE seen = EmptyTable
    <3>1. Count(EmptyTable) = 0
      BY FS_EmptySet, EmptyTableFact DEF Count
    <3>2. QED
      BY <1>3, <2>1, <2>2, <2>4, <3>1
  <2>5. QED
    BY <2>3, <2>4
<1>4. CASE call = "maintain" /\ call' = call /\ preKeys' = preKeys /\ PreKeysSaved
  <2>1. Cardinality(DOMAIN preKeys \cup batch) >= MinPreKeyCount /\ batch = {}
    BY <1>4 DEF PreKeysSaved, RefillSuffices
  <2>2. DOMAIN preKeys \cup batch = DOMAIN preKeys
    BY <2>1
  <2>3. QED
    BY <1>4, <2>1, <2>2 DEF Count
<1>5. QED
  BY <1>1, <1>2, <1>3, <1>4, CleanUpFlow

LEMMA RefillStep ==
    ASSUME MaintenanceInv, [Next]_vars
    PROVE  RefillSuffices'
<1> USE DEF MaintenanceInv
<1>1. SUFFICES ASSUME pc' = "savePreKeys"
               PROVE  Cardinality(DOMAIN preKeys' \cup batch') >= MinPreKeyCount
  BY DEF RefillSuffices
<1>2. CASE GeneratePreKeys
  <2>1. PICK n \in Nat :
          batch' = n .. (n + ReplenishCount - 1) /\ preKeys' = preKeys
    <3>1. \A seen \in {preKeys, EmptyTable} : NextPreKeyId(seen) \in Nat
      BY CurrentIdFact, EmptyTableFact
         DEF NextPreKeyId, BaseInv, TypeOK, StoreOK
    <3>2. QED
      BY <1>2, <3>1 DEF GeneratePreKeys, stored
  <2> DEFINE last == n + ReplenishCount - 1
  <2>2. last \in Nat /\ ReplenishCount \in Nat
    BY CountsAssumption
  <2>3. /\ IsFiniteSet(n .. last)
        /\ Cardinality(n .. last) = ReplenishCount
    <3>1. /\ IsFiniteSet(n .. last)
          /\ Cardinality(n .. last) = IF n > last THEN 0 ELSE last - n + 1
      BY <2>2, FS_Interval
    <3>2. QED
      BY <2>2, <3>1, CountsAssumption
  <2>4. IsFiniteSet(DOMAIN preKeys)
    BY DEF BaseInv, TypeOK, StoreOK, IsTable
  <2>5. IsFiniteSet(DOMAIN preKeys \cup batch')
    BY <2>1, <2>3, <2>4, FS_Union
  <2>6. /\ Cardinality(batch') <= Cardinality(DOMAIN preKeys \cup batch')
        /\ Cardinality(DOMAIN preKeys \cup batch') \in Nat
    BY <2>5, FS_Subset, FS_CardinalityType
  <2>7. QED
    BY <2>1, <2>2, <2>3, <2>6, CountsAssumption
<1>3. CASE SavePreKey
  <2> DEFINE id == FirstInScan(batch)
  <2>1. id \in batch
    BY <1>3, FirstInScanFact
       DEF SavePreKey, BaseInv, TypeOK, ControlOK
  <2>2. DOMAIN preKeys' = DOMAIN preKeys \cup {id} /\ batch' = batch \ {id}
    BY <1>3 DEF SavePreKey, Put
  <2>3. DOMAIN preKeys' \cup batch' = DOMAIN preKeys \cup batch
    BY <2>1, <2>2
  <2>4. QED
    BY <1>3, <2>3 DEF SavePreKey, RefillSuffices
<1>4. CASE ~ GeneratePreKeys /\ ~ SavePreKey
  <2>1. UNCHANGED <<pc, batch>>
    <3> USE DEF GoTo, Return, Abort
    <3>1. CASE Open \/ SetRegistrationId \/ SaveFirstSigned \/ SaveFirstKyber
      BY <1>1, <3>1 DEF Open, SetRegistrationId, SaveFirstSigned, SaveFirstKyber
    <3>2. CASE PreKeysSaved \/ Refill
      BY <1>1, <3>2 DEF PreKeysSaved, Refill, AfterReplenish
    <3>3. CASE RotateSigned \/ RotateKyber
      BY <1>1, <3>3 DEF RotateSigned, RotateKyber, Rotate
    <3>4. CASE ExpireSigned \/ ExpireKyber
      BY <1>1, <3>4 DEF ExpireSigned, ExpireKyber, Expire, AfterSigned
    <3>5. CASE DropSigned \/ DropKyber
      BY <1>1, <3>5 DEF DropSigned, DropKyber, DropExpired, AfterSigned
    <3>6. CASE BeginMaintenance \/ Close \/ Crash \/ StatementFails
      BY <1>1, <3>6 DEF BeginMaintenance, Close, Crash, StatementFails
    <3>7. CASE \/ GenerateBundle \/ DecryptPreKeyMessage \/ ConsumePreKey
               \/ Tick \/ ClockBack \/ ClearLocalIdentity \/ UNCHANGED vars
      BY <1>1, <3>7 DEF GenerateBundle, DecryptPreKeyMessage, ConsumePreKey,
         Tick, ClockBack, ClearLocalIdentity, locals, vars
    <3>8. QED
      BY <1>4, <3>1, <3>2, <3>3, <3>4, <3>5, <3>6, <3>7 DEF Next, Step
  <2>2. preKeys' = preKeys
    BY <1>1, <1>4, <2>1, PreKeysFrame
  <2>3. QED
    BY <1>1, <2>1, <2>2 DEF RefillSuffices
<1>5. QED
  BY <1>2, <1>3, <1>4

LEMMA ListedStep ==
    ASSUME CleanUpInv, [Next]_vars, Spared(Disordering \cup {"noCount"})'
    PROVE  SupersededListed'
<1> USE DEF CleanUpInv, VisitInv, AgeInv, SignInv
<1>1. SUFFICES ASSUME NEW k \in Kinds, pc' = DropStep(k),
                      NEW id \in DOMAIN keys'[k] \ todo'
               PROVE  id = CurrentId(keys'[k])
  BY DEF SupersededListed, DropStep
<1>2. CASE UNCHANGED <<pc, todo>>
  BY <1>1, <1>2, TableAtRest DEF SupersededListed
<1>3. CASE \E j \in Kinds : Lists(j)
  <2>1. Lists(k)
    BY <1>1, <1>3 DEF Lists, DropStep, Kinds
  <2>2. keys' = keys /\ todo' = OlderThan(keys[k], Cutoff(now))
    BY <2>1 DEF Lists
  <2>3. IsTable(keys[k], KeyRows)
    BY RowFact
  <2>4. id \in Nat /\ id <= CurrentId(keys[k]) /\ CurrentId(keys[k]) \in Nat
    BY <1>1, <2>2, <2>3, CurrentIdFact
  <2>5. ~ (id < CurrentId(keys[k]))
    BY <1>1, <2>2, SupersededIsListed
  <2>6. QED
    BY <2>2, <2>4, <2>5
<1>4. CASE \E j \in Kinds : Visits(j)
  <2>1. Visits(k)
    BY <1>1, <1>4 DEF Visits, DropStep, Kinds
  <2>2. CASE DropsOne(k)
    <3>1. /\ DOMAIN keys'[k] = DOMAIN keys[k] \ {FirstInScan(todo)}
          /\ CurrentId(keys'[k]) = CurrentId(keys[k])
      BY <2>2, DropsOneFact
    <3>2. pc = DropStep(k) /\ todo' = todo \ {FirstInScan(todo)}
      BY <2>1 DEF Visits
    <3>3. QED
      BY <1>1, <3>1, <3>2 DEF SupersededListed
  <2>3. CASE keys' = keys /\ ~ (Count(keys[k]) > 1)
    BY <1>1, <2>3, RowFact, CountAtMostOne
  <2>4. QED
    BY <2>1, <2>2, <2>3, SparedFacts DEF Visits
<1>5. QED
  BY <1>1, <1>2, <1>3, <1>4, ControlFlowFact, SparedFacts
     DEF ControlFlow, DropStep, SetRegistrationId, SaveFirstSigned, GoTo

LEMMA KeyCountFact ==
    ASSUME BaseInv, NEW k \in Kinds
    PROVE  Count(keys[k]) \in Nat
BY RowFact, FS_CardinalityType DEF IsTable, Count

\* When clean-up is through with a table, only the current key is left.
LEMMA CleanedFact ==
    ASSUME CleanUpInv, NEW k \in Kinds,
           \/ ~ (Count(keys[k]) > 1)
           \/ pc = DropStep(k) /\ todo = {}
    PROVE  OnlyCurrent(k)
<1>1. CASE ~ (Count(keys[k]) > 1)
  BY <1>1, RowFact, CountAtMostOne
     DEF CleanUpInv, VisitInv, AgeInv, SignInv, OnlyCurrent
<1>2. CASE pc = DropStep(k) /\ todo = {}
  BY <1>2 DEF CleanUpInv, SupersededListed, OnlyCurrent
<1>3. QED
  BY <1>1, <1>2

\* How clean-up gets to the Kyber pre-keys.
LEMMA KyberCleanUpFlow ==
    ASSUME BaseInv, [Next]_vars, Spared({"noCount"})',
           pc' \in {"expireKyber", "dropKyber"}
    PROVE  \/ pc \in {"expireKyber", "dropKyber"}
           \/ ExpireSigned /\ ~ (Count(keys["signed"]) > 1)
           \/ DropSigned /\ todo = {}
<1> USE DEF GoTo, Return, Abort
<1>1. CASE Open \/ SetRegistrationId \/ SaveFirstSigned \/ SaveFirstKyber
  BY <1>1 DEF Open, SetRegistrationId, SaveFirstSigned, SaveFirstKyber
<1>2. CASE GeneratePreKeys \/ SavePreKey \/ PreKeysSaved \/ Refill
  BY <1>2 DEF GeneratePreKeys, SavePreKey, PreKeysSaved, Refill, AfterReplenish
<1>3. CASE RotateSigned \/ RotateKyber
  BY <1>3 DEF RotateSigned, RotateKyber, Rotate
<1>4. CASE ExpireSigned
  <2>1. Count(keys["signed"]) <= 1 \/ pc' = "dropSigned" \/ Abort
    BY <1>4 DEF ExpireSigned, Expire, Reads, Fault, Spared
  <2>2. Count(keys["signed"]) \in Nat
    BY KeyCountFact DEF Kinds
  <2>3. QED
    BY <1>4, <2>1, <2>2
<1>5. CASE ExpireKyber \/ DropKyber
  BY <1>5 DEF ExpireKyber, DropKyber
<1>6. CASE DropSigned
  BY <1>6 DEF DropSigned, DropExpired
<1>7. CASE BeginMaintenance \/ Close \/ Crash \/ StatementFails
  BY <1>7 DEF BeginMaintenance, Close, Crash, StatementFails
<1>8. CASE \/ GenerateBundle \/ DecryptPreKeyMessage \/ ConsumePreKey
           \/ Tick \/ ClockBack \/ ClearLocalIdentity \/ UNCHANGED vars
  BY <1>8 DEF GenerateBundle, DecryptPreKeyMessage, ConsumePreKey, Tick,
     ClockBack, ClearLocalIdentity, locals, vars
<1>9. QED
  BY <1>1, <1>2, <1>3, <1>4, <1>5, <1>6, <1>7, <1>8 DEF Next, Step

LEMMA SignedCleanedStep ==
    ASSUME CleanUpInv, [Next]_vars, Spared({"noCount"})'
    PROVE  SignedCleaned'
<1> USE DEF CleanUpInv, VisitInv, AgeInv, SignInv
<1>1. SUFFICES ASSUME pc' \in {"expireKyber", "dropKyber"}
               PROVE  \A id \in DOMAIN keys'["signed"] :
                         id = CurrentId(keys'["signed"])
  BY DEF SignedCleaned, OnlyCurrent
<1>2. CASE pc \in {"expireKyber", "dropKyber"}
  <2>1. keys'["signed"] = keys["signed"]
    <3>1. \A j \in Kinds : SavesFirst(j) \/ Supersedes(j) \/ DropsOne(j) =>
             keys'["signed"] = keys["signed"]
      BY <1>2 DEF SavesFirst, Supersedes, DropsOne, Kinds, BaseInv, TypeOK,
         StoreOK
    <3>2. QED
      BY <3>1, KeysChange
  <2>2. QED
    BY <1>2, <2>1 DEF SignedCleaned, OnlyCurrent
<1>3. CASE ExpireSigned /\ ~ (Count(keys["signed"]) > 1)
  <2>1. keys' = keys
    BY <1>3 DEF ExpireSigned, stored
  <2>2. OnlyCurrent("signed")
    BY <1>3, CleanedFact DEF Kinds
  <2>3. QED
    BY <2>1, <2>2 DEF OnlyCurrent
<1>4. CASE DropSigned /\ todo = {}
  <2>1. keys' = keys /\ pc = DropStep("signed")
    BY <1>4 DEF DropSigned, DropExpired, DropStep
  <2>2. OnlyCurrent("signed")
    BY <1>4, <2>1, CleanedFact DEF Kinds
  <2>3. QED
    BY <2>1, <2>2 DEF OnlyCurrent
<1>5. QED
  BY <1>1, <1>2, <1>3, <1>4, KyberCleanUpFlow

LEMMA MaintenanceStep ==
    ASSUME MaintenanceInv, [Next]_vars
    PROVE  MaintenanceInv'
BY BaseStep, UnderwayStep, CleanUpStep, RefillStep DEF MaintenanceInv

LEMMA CleanUpInvStep ==
    ASSUME IntervalsOrdered, CleanUpInv, [Next]_vars,
           Spared(Disordering \cup {"noCount"})'
    PROVE  CleanUpInv'
<1>1. VisitInv'
  BY VisitStep DEF CleanUpInv
<1>2. SupersededListed' /\ SignedCleaned'
  BY ListedStep, SignedCleanedStep, SparedFacts
<1>3. QED
  BY <1>1, <1>2 DEF CleanUpInv

\* A call of perform_key_maintenance returns Ok at the end of clean-up only.
LEMMA MaintenanceReturns ==
    ASSUME BaseInv, MaintenanceUnderway, [Next]_vars,
           call = "maintain", call' = "none", pc' = "ready"
    PROVE  /\ pc \in {"expireKyber", "dropKyber"}
           /\ UNCHANGED stored
           /\ \/ ~ (Count(keys["kyber"]) > 1)
              \/ pc = DropStep("kyber") /\ todo = {}
              \/ ~ Spared({"noCount"})'
<1> USE DEF GoTo, Return, Abort
<1>1. CASE Open \/ SetRegistrationId \/ SaveFirstSigned \/ SaveFirstKyber
  BY <1>1 DEF Open, SetRegistrationId, SaveFirstSigned, SaveFirstKyber,
     MaintenanceUnderway, LaterSteps, CleanUpSteps
<1>2. CASE GeneratePreKeys \/ SavePreKey \/ PreKeysSaved \/ Refill
  BY <1>2 DEF GeneratePreKeys, SavePreKey, PreKeysSaved, Refill, AfterReplenish
<1>3. CASE RotateSigned \/ RotateKyber
  BY <1>3 DEF RotateSigned, RotateKyber, Rotate
<1>4. CASE ExpireSigned \/ DropSigned
  BY <1>4 DEF ExpireSigned, Expire, DropSigned, DropExpired, AfterSigned
<1>5. CASE ExpireKyber
  <2>1. \/ Count(keys["kyber"]) <= 1 \/ pc' = "dropKyber" \/ Abort
        \/ ~ Spared({"noCount"})'
    BY <1>5 DEF ExpireKyber, Expire, Reads, Fault, Spared
  <2>2. Count(keys["kyber"]) \in Nat
    BY KeyCountFact DEF Kinds
  <2>3. QED
    BY <1>5, <2>1, <2>2 DEF ExpireKyber
<1>6. CASE DropKyber
  BY <1>6 DEF DropKyber, DropExpired, DropStep, stored
<1>7. CASE BeginMaintenance \/ Close \/ Crash \/ StatementFails
  BY <1>7 DEF BeginMaintenance, Close, Crash, StatementFails,
     MaintenanceUnderway, LaterSteps, CleanUpSteps
<1>8. CASE \/ GenerateBundle \/ DecryptPreKeyMessage \/ ConsumePreKey
           \/ Tick \/ ClockBack \/ ClearLocalIdentity \/ UNCHANGED vars
  BY <1>8 DEF GenerateBundle, DecryptPreKeyMessage, ConsumePreKey, Tick,
     ClockBack, ClearLocalIdentity, locals, vars
<1>9. QED
  BY <1>1, <1>2, <1>3, <1>4, <1>5, <1>6, <1>7, <1>8 DEF Next, Step

LEMMA OneKeyLeft ==
    ASSUME NEW k \in Kinds, OnlyCurrent(k), DOMAIN keys[k] # {}
    PROVE  Count(keys[k]) = 1
<1>1. DOMAIN keys[k] = {CurrentId(keys[k])}
  BY DEF OnlyCurrent
<1>2. Cardinality({CurrentId(keys[k])}) = 1
  BY FS_Singleton
<1>3. QED
  BY <1>1, <1>2 DEF Count

\* What holds when it returns Ok, after any faults.
LEMMA ReadyStep ==
    ASSUME MinPreKeyCount # 0, MaintenanceInv, [Next]_vars,
           call = "maintain", call' = "none", pc' = "ready"
    PROVE  BundleReady' /\ Count(preKeys') >= MinPreKeyCount
<1> USE DEF MaintenanceInv
<1>1. pc \in {"expireKyber", "dropKyber"} /\ UNCHANGED stored
  BY MaintenanceReturns
<1>2. identity # 0 /\ \A k \in Kinds : DOMAIN keys[k] # {}
  BY <1>1 DEF MaintenanceUnderway, LaterSteps, CleanUpSteps, Kinds
<1>3. Count(preKeys) >= MinPreKeyCount
  BY <1>1 DEF CleanUpUnderway, CleanUpSteps
<1>4. DOMAIN preKeys # {}
  BY <1>3, FS_EmptySet, CountsAssumption DEF Count
<1>5. QED
  BY <1>1, <1>2, <1>3, <1>4 DEF BundleReady, stored

LEMMA CleanedStep ==
    ASSUME MaintenanceInv, CleanUpInv, [Next]_vars, Spared({"noCount"})',
           call = "maintain", call' = "none", pc' = "ready"
    PROVE  \A k \in Kinds : Count(keys'[k]) = 1
<1>1. /\ pc \in {"expireKyber", "dropKyber"}
      /\ UNCHANGED stored
      /\ \/ ~ (Count(keys["kyber"]) > 1)
         \/ pc = DropStep("kyber") /\ todo = {}
  BY MaintenanceReturns DEF MaintenanceInv
<1>2. \A k \in Kinds : DOMAIN keys[k] # {}
  BY <1>1 DEF MaintenanceInv, MaintenanceUnderway, LaterSteps, CleanUpSteps, Kinds
<1>3. \A k \in Kinds : OnlyCurrent(k)
  BY <1>1, CleanedFact DEF CleanUpInv, SignedCleaned, Kinds
<1>4. QED
  BY <1>1, <1>2, <1>3, OneKeyLeft DEF stored

\* When perform_key_maintenance returns Ok, after any faults, a bundle can be
\* built and there are MIN_PRE_KEY_COUNT one-time pre-keys (lib.rs:557); and
\* each table holds its current key alone, unless a fault has disordered the
\* keys or a count was not read. MIN_PRE_KEY_COUNT is not 0
\* (key_rotation.rs:14).
THEOREM MaintenanceResultHolds ==
    ASSUME IntervalsOrdered, MinPreKeyCount # 0
    PROVE  Spec => MaintenanceResult
<1> DEFINE Inv == /\ MaintenanceInv
                  /\ Spared(Disordering \cup {"noCount"}) => CleanUpInv
<1>1. Init => Inv
  <2> SUFFICES ASSUME Init PROVE Inv
    OBVIOUS
  <2>1. BaseInv /\ VisitInv
    BY BaseInit, FirstState
  <2>2. pc = "closed" /\ call = "none"
    BY DEF Init
  <2>3. QED
    BY <2>1, <2>2 DEF MaintenanceInv, CleanUpInv, MaintenanceUnderway,
       CleanUpUnderway, RefillSuffices, SupersededListed, SignedCleaned,
       CleanUpSteps, DropStep
<1>2. Inv /\ [Next]_vars => Inv'
  BY MaintenanceStep, CleanUpInvStep, SparedBefore
<1>3. Inv /\ [Next]_vars =>
        [call = "maintain" /\ call' = "none" /\ pc' = "ready" =>
            /\ BundleReady'
            /\ Count(preKeys') >= MinPreKeyCount
            /\ Spared(Disordering \cup {"noCount"})' =>
                  \A k \in Kinds : Count(keys'[k]) = 1]_vars
  BY ReadyStep, CleanedStep, SparedBefore, SparedFacts
<1>4. QED
  BY <1>1, <1>2, <1>3, PTL DEF Spec, MaintenanceResult
=============================================================================
