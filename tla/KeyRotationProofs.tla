------------------------- MODULE KeyRotationProofs -------------------------
(***************************************************************************)
(* Theorems about KeyRotation, for every value of its constants.           *)
(***************************************************************************)
EXTENDS KeyRotation, PreKeyTableProofs

\* The steps that sign with the identity key pair have one.
IdentityHeld ==
    pc \in {"setRegistration", "saveSigned", "saveKyber", "rotateSigned",
            "rotateKyber"} => identity # 0

BaseInv == TypeOK /\ IdentityHeld

-----------------------------------------------------------------------------
(* Type correctness.                                                       *)

LEMMA BaseInit == Init => BaseInv
<1> SUFFICES ASSUME Init PROVE BaseInv
  OBVIOUS
<1>1. StoreOK
  <2>1. /\ IsTable(preKeys, 1 .. minted)
        /\ \A k \in Kinds : IsTable(keys[k], KeyRows)
    <3>1. IsTable(EmptyTable, 1 .. minted) /\ IsTable(EmptyTable, KeyRows)
      BY EmptyTableFact
    <3>2. preKeys = EmptyTable /\ \A k \in Kinds : keys[k] = EmptyTable
      BY DEF Init
    <3>3. QED
      BY <3>1, <3>2
  <2>2. keys = [k \in Kinds |-> keys[k]]
    BY DEF Init
  <2>3. QED
    BY <2>1, <2>2 DEF Init, StoreOK
<1>2. EnvironmentOK
  BY ClockAssumption, FaultAssumption DEF Init, EnvironmentOK
<1>3. HistoryOK /\ ControlOK /\ IdentityHeld
  BY DEF Init, HistoryOK, ControlOK, IdentityHeld
<1>4. QED
  BY <1>1, <1>2, <1>3 DEF BaseInv, TypeOK

\* The steps that leave the tables alone.
ControlStep ==
    \/ SetRegistrationId \/ GeneratePreKeys \/ PreKeysSaved \/ Refill
    \/ BeginMaintenance \/ Close \/ Crash \/ StatementFails
    \/ ClearLocalIdentity \/ ExpireSigned \/ ExpireKyber

LEMMA ControlFrame ==
    ASSUME ControlStep
    PROVE  /\ UNCHANGED <<now, preKeys, keys, history>>
           /\ identity' = identity \/ identity' = 0
           /\ registration' \in {registration, "initial", "assigned"}
           /\ UNCHANGED faults \/ \E kind \in FaultKinds : Fault(kind)
<1> USE DEF stored, locals, history, Fault, faults, Reads
<1>1. CASE SetRegistrationId
  BY <1>1 DEF SetRegistrationId
<1>2. CASE GeneratePreKeys
  BY <1>2 DEF GeneratePreKeys
<1>3. CASE PreKeysSaved
  BY <1>3 DEF PreKeysSaved
<1>4. CASE Refill
  BY <1>4 DEF Refill
<1>5. CASE BeginMaintenance
  BY <1>5 DEF BeginMaintenance
<1>6. CASE Close
  BY <1>6 DEF Close
<1>7. CASE Crash
  BY <1>7 DEF Crash
<1>8. CASE StatementFails
  BY <1>8 DEF StatementFails
<1>9. CASE ClearLocalIdentity
  BY <1>9 DEF ClearLocalIdentity
<1>10. CASE ExpireSigned
  BY <1>10 DEF ExpireSigned, Expire
<1>11. CASE ExpireKyber
  BY <1>11 DEF ExpireKyber, Expire
<1>12. QED
  BY <1>1, <1>2, <1>3, <1>4, <1>5, <1>6, <1>7, <1>8, <1>9, <1>10, <1>11 DEF ControlStep

\* A step that leaves clock and build alone keeps the bounds on the faults.
LEMMA FaultKeepsBounds ==
    ASSUME EnvironmentOK, UNCHANGED <<now, checked>>,
           UNCHANGED faults \/ \E kind \in FaultKinds : Fault(kind)
    PROVE  EnvironmentOK'
BY FaultAssumption DEF EnvironmentOK, faults, Fault

LEMMA ControlKeepsBase ==
    ASSUME BaseInv, ControlStep
    PROVE  BaseInv'
<1> USE DEF BaseInv, TypeOK
<1>1. StoreOK'
  <2>1. KeyRows' = KeyRows
    BY ControlFrame DEF KeyRows, history
  <2>2. QED
    BY <2>1, ControlFrame DEF StoreOK, history
<1>2. HistoryOK'
  BY ControlFrame DEF HistoryOK, history
<1>3. EnvironmentOK'
  BY ControlFrame, FaultKeepsBounds DEF EnvironmentOK, history
<1>4. ControlOK' /\ IdentityHeld'
  <2> USE DEF ControlOK, IdentityHeld, locals
  <2>1. CASE SetRegistrationId
    BY <2>1 DEF SetRegistrationId, GoTo
  <2>2. CASE GeneratePreKeys
    <3>1. \A seen \in {preKeys, EmptyTable} : NextPreKeyId(seen) \in Nat \ {0}
      BY CurrentIdFact, EmptyTableFact DEF NextPreKeyId, StoreOK
    <3>2. batch' \subseteq Nat \ {0}
      BY <2>2, <3>1, CountsAssumption DEF GeneratePreKeys
    <3>3. QED
      BY <2>2, <3>2 DEF GeneratePreKeys, GoTo
  <2>3. CASE PreKeysSaved
    BY <2>3 DEF PreKeysSaved, AfterReplenish, GoTo, Return
  <2>4. CASE Refill
    BY <2>4 DEF Refill, AfterReplenish, GoTo, Return
  <2>5. CASE BeginMaintenance
    BY <2>5 DEF BeginMaintenance, Abort, stored
  <2>6. CASE Close
    BY <2>6 DEF Close
  <2>7. CASE Crash
    BY <2>7 DEF Crash
  <2>8. CASE StatementFails
    BY <2>8 DEF StatementFails, Abort
  <2>9. CASE ClearLocalIdentity
    BY <2>9 DEF ClearLocalIdentity
  <2>10. CASE ExpireSigned
    <3>1. OlderThan(keys["signed"], Cutoff(now)) \subseteq Nat \ {0}
      BY CurrentIdFact DEF OlderThan, Kinds, StoreOK
    <3>2. QED
      BY <2>10, <3>1 DEF ExpireSigned, Expire, AfterSigned, GoTo, Abort
  <2>11. CASE ExpireKyber
    <3>1. OlderThan(keys["kyber"], Cutoff(now)) \subseteq Nat \ {0}
      BY CurrentIdFact DEF OlderThan, Kinds, StoreOK
    <3>2. QED
      BY <2>11, <3>1 DEF ExpireKyber, Expire, Return, GoTo, Abort
  <2>12. QED
    BY <2>1, <2>2, <2>3, <2>4, <2>5, <2>6, <2>7, <2>8, <2>9, <2>10, <2>11
       DEF ControlStep
<1>5. QED
  BY <1>1, <1>2, <1>3, <1>4

\* A key saved at time now under the stored identity is a row of its table.
LEMMA KeyRecordFact ==
    ASSUME BaseInv, identity # 0
    PROVE  KeyRecord(now, identity) \in KeyRows
BY DEF BaseInv, TypeOK, EnvironmentOK, StoreOK, KeyRecord, KeyRows

\* A step that changes only one table of signed or Kyber pre-keys.
LEMMA KeysStep ==
    ASSUME BaseInv, NEW k \in Kinds, NEW tab, IsTable(tab, KeyRows),
           keys' = [keys EXCEPT ![k] = tab],
           UNCHANGED <<identity, registration, preKeys, generation, minted>>
    PROVE  StoreOK'
<1>1. KeyRows' = KeyRows
  BY DEF KeyRows
<1>2. /\ keys' = [j \in Kinds |-> keys'[j]]
      /\ \A j \in Kinds : IsTable(keys'[j], KeyRows)
  BY DEF BaseInv, TypeOK, StoreOK
<1>3. QED
  BY <1>1, <1>2 DEF BaseInv, TypeOK, StoreOK

LEMMA SaveFirstKeepsBase ==
    ASSUME BaseInv, SaveFirstSigned \/ SaveFirstKyber
    PROVE  BaseInv'
<1> USE DEF BaseInv, TypeOK
<1>1. PICK k \in Kinds :
        keys' = [keys EXCEPT ![k] = Put(keys[k], 1, KeyRecord(now, identity))]
  BY DEF SaveFirstSigned, SaveFirstKyber, Kinds
<1>2. identity # 0
  BY DEF SaveFirstSigned, SaveFirstKyber, IdentityHeld
<1>3. IsTable(Put(keys[k], 1, KeyRecord(now, identity)), KeyRows)
  <2>1. IsTable(keys[k], KeyRows) /\ 1 \in Nat \ {0}
    BY DEF StoreOK
  <2>2. KeyRecord(now, identity) \in KeyRows
    BY <1>2, KeyRecordFact
  <2>3. QED
    BY <2>1, <2>2, PutFact
<1>4. UNCHANGED <<now, identity, registration, preKeys, todo, batch, checked,
                  generation, minted, published, used, faults>>
  BY DEF SaveFirstSigned, SaveFirstKyber, history
<1>5. StoreOK'
  BY <1>1, <1>3, <1>4, KeysStep
<1>6. EnvironmentOK' /\ HistoryOK'
  BY <1>4 DEF EnvironmentOK, HistoryOK, faults
<1>7. ControlOK' /\ IdentityHeld'
  BY <1>2, <1>4 DEF SaveFirstSigned, SaveFirstKyber, GoTo, ControlOK, IdentityHeld
<1>8. QED
  BY <1>5, <1>6, <1>7

LEMMA RotateKeepsBase ==
    ASSUME BaseInv, RotateSigned \/ RotateKyber
    PROVE  BaseInv'
<1> USE DEF BaseInv, TypeOK
<1>1. PICK k \in Kinds, next \in {"rotateKyber", "refill"} : Rotate(k, next)
  BY DEF RotateSigned, RotateKyber, Kinds
<1>2. identity # 0
  BY DEF RotateSigned, RotateKyber, IdentityHeld
<1>3. UNCHANGED <<now, identity, registration, preKeys, checked, generation,
                  minted, published, used>>
  BY DEF RotateSigned, RotateKyber, history
<1>4. StoreOK'
  <2>1. CASE keys' = keys
    <3>1. KeyRows' = KeyRows
      BY <1>3 DEF KeyRows
    <3>2. QED
      BY <1>3, <2>1, <3>1 DEF StoreOK
  <2>2. ASSUME NEW last \in {keys[k], EmptyTable},
               keys' = [keys EXCEPT ![k] =
                          Put(keys[k], NextKeyId(last), KeyRecord(now, identity))]
        PROVE  StoreOK'
    <3>1. NextKeyId(last) \in Nat \ {0}
      BY CurrentIdFact, EmptyTableFact DEF NextKeyId, StoreOK
    <3>2. IsTable(Put(keys[k], NextKeyId(last), KeyRecord(now, identity)), KeyRows)
      BY <1>2, <3>1, KeyRecordFact, PutFact DEF StoreOK
    <3>3. QED
      BY <1>3, <2>2, <3>2, KeysStep
  <2>3. QED
    BY <1>1, <2>1, <2>2 DEF Rotate
<1>5. EnvironmentOK' /\ HistoryOK'
  <2>1. UNCHANGED faults \/ \E kind \in FaultKinds : Fault(kind)
    BY <1>1 DEF Rotate, Reads, Fault
  <2>2. EnvironmentOK'
    BY <1>3, <2>1, FaultKeepsBounds
  <2>3. QED
    BY <1>3, <2>2 DEF HistoryOK
<1>6. ControlOK' /\ IdentityHeld'
  BY <1>1, <1>2, <1>3 DEF Rotate, GoTo, Abort, ControlOK, IdentityHeld
<1>7. QED
  BY <1>4, <1>5, <1>6

LEMMA DropKeepsBase ==
    ASSUME BaseInv, DropSigned \/ DropKyber
    PROVE  BaseInv'
<1> USE DEF BaseInv, TypeOK
<1>1. PICK k \in Kinds :
        \/ keys' = keys
        \/ \E id : keys' = [keys EXCEPT ![k] = Drop(keys[k], id)]
  BY DEF DropSigned, DropKyber, DropExpired, Kinds
<1>2. UNCHANGED <<now, identity, registration, preKeys, batch, checked,
                  generation, minted, published, used>>
  BY DEF DropSigned, DropKyber, history
<1>3. StoreOK'
  <2>1. CASE keys' = keys
    <3>1. KeyRows' = KeyRows
      BY <1>2 DEF KeyRows
    <3>2. QED
      BY <1>2, <2>1, <3>1 DEF StoreOK
  <2>2. ASSUME NEW id, keys' = [keys EXCEPT ![k] = Drop(keys[k], id)]
        PROVE  StoreOK'
    <3>1. IsTable(Drop(keys[k], id), KeyRows)
      BY DropFact DEF StoreOK
    <3>2. QED
      BY <1>2, <2>2, <3>1, KeysStep
  <2>3. QED
    BY <1>1, <2>1, <2>2
<1>4. EnvironmentOK' /\ HistoryOK'
  <2>1. UNCHANGED faults \/ \E kind \in FaultKinds : Fault(kind)
    BY DEF DropSigned, DropKyber, DropExpired, Reads, Fault
  <2>2. EnvironmentOK'
    BY <1>2, <2>1, FaultKeepsBounds
  <2>3. QED
    BY <1>2, <2>2 DEF HistoryOK
<1>5. ControlOK' /\ IdentityHeld'
  BY <1>2 DEF DropSigned, DropKyber, DropExpired, AfterSigned, GoTo, Return,
              ControlOK, IdentityHeld
<1>6. QED
  BY <1>3, <1>4, <1>5

LEMMA OpenKeepsBase ==
    ASSUME BaseInv, Open
    PROVE  BaseInv'
<1> USE DEF BaseInv, TypeOK
<1>1. /\ UNCHANGED <<now, registration, preKeys, keys, todo, batch, checked,
                     minted, published, used>>
      /\ generation' \in Nat
      /\ generation <= generation'
      /\ identity' \in 0 .. generation'
  BY DEF Open, StoreOK
<1>2. StoreOK'
  <2>1. KeyRows \subseteq KeyRows'
    BY <1>1 DEF KeyRows, StoreOK
  <2>2. \A k \in Kinds : IsTable(keys[k], KeyRows')
    BY <2>1, WiderRows DEF StoreOK
  <2>3. QED
    BY <1>1, <2>2 DEF StoreOK
<1>3. EnvironmentOK' /\ HistoryOK'
  <2>1. UNCHANGED faults \/ \E kind \in FaultKinds : Fault(kind)
    BY DEF Open, Fault
  <2>2. EnvironmentOK'
    BY <1>1, <2>1, FaultKeepsBounds
  <2>3. QED
    BY <1>1, <2>2 DEF HistoryOK
<1>4. ControlOK' /\ IdentityHeld'
  BY <1>1 DEF Open, Return, ControlOK, IdentityHeld, StoreOK
<1>5. QED
  BY <1>2, <1>3, <1>4

LEMMA SavePreKeyKeepsBase ==
    ASSUME BaseInv, SavePreKey
    PROVE  BaseInv'
<1> USE DEF BaseInv, TypeOK
<1> DEFINE id == FirstInScan(batch)
<1>1. id \in Nat \ {0}
  BY FirstInScanFact DEF SavePreKey, ControlOK
<1>2. /\ preKeys' = Put(preKeys, id, minted + 1)
      /\ batch' = batch \ {id}
      /\ minted' = minted + 1
      /\ UNCHANGED <<now, identity, registration, keys, pc, call, todo,
                     checked, generation, published, used, faults>>
  BY DEF SavePreKey
<1>3. StoreOK'
  <2>1. IsTable(preKeys, 1 .. (minted + 1))
    <3>1. 1 .. minted \subseteq 1 .. (minted + 1)
      BY DEF StoreOK
    <3>2. QED
      BY <3>1, WiderRows DEF StoreOK
  <2>2. minted + 1 \in 1 .. (minted + 1)
    BY DEF StoreOK
  <2>3. IsTable(Put(preKeys, id, minted + 1), 1 .. (minted + 1))
    BY <1>1, <2>1, <2>2, PutFact
  <2>4. KeyRows' = KeyRows
    BY <1>2 DEF KeyRows
  <2>5. QED
    BY <1>2, <2>3, <2>4 DEF StoreOK
<1>4. EnvironmentOK' /\ ControlOK' /\ IdentityHeld'
  BY <1>2 DEF EnvironmentOK, ControlOK, IdentityHeld, faults
<1>5. HistoryOK'
  <2>1. 1 .. minted \subseteq 1 .. minted'
    BY <1>2 DEF StoreOK
  <2>2. QED
    BY <1>2, <2>1 DEF HistoryOK
<1>6. QED
  BY <1>3, <1>4, <1>5

\* Publication and consumption of one-time pre-keys.
LEMMA PreKeyUseKeepsBase ==
    ASSUME BaseInv, GenerateBundle \/ DecryptPreKeyMessage \/ ConsumePreKey
    PROVE  BaseInv'
<1> USE DEF BaseInv, TypeOK
<1>1. UNCHANGED <<now, identity, registration, keys, todo, batch, checked,
                  generation, minted, faults>>
  BY DEF GenerateBundle, DecryptPreKeyMessage, ConsumePreKey, stored, locals
<1>2. preKeys' = preKeys \/ \E id : preKeys' = Drop(preKeys, id)
  BY DEF GenerateBundle, DecryptPreKeyMessage, ConsumePreKey, stored
<1>3. StoreOK'
  <2>1. IsTable(preKeys', 1 .. minted)
    <3>1. IsTable(preKeys, 1 .. minted)
      BY DEF StoreOK
    <3>2. \A id : IsTable(Drop(preKeys, id), 1 .. minted)
      BY <3>1, DropFact
    <3>3. QED
      BY <1>2, <3>1, <3>2
  <2>2. KeyRows' = KeyRows
    BY <1>1 DEF KeyRows
  <2>3. QED
    BY <1>1, <2>1, <2>2 DEF StoreOK
<1>4. HistoryOK'
  <2>1. \A id \in DOMAIN preKeys :
          <<id, preKeys[id]>> \in (Nat \ {0}) \X (1 .. minted)
    BY DEF StoreOK, IsTable
  <2>2. CASE GenerateBundle
    <3>1. CurrentId(preKeys) \in DOMAIN preKeys
      BY <2>2, CurrentIdFact DEF GenerateBundle, BundleReady, StoreOK
    <3>2. QED
      BY <1>1, <2>1, <2>2, <3>1 DEF GenerateBundle, HistoryOK
  <2>3. CASE DecryptPreKeyMessage
    <3>1. PICK p \in published : used' = used \cup {p} /\ UNCHANGED published
      BY <2>3 DEF DecryptPreKeyMessage
    <3>2. QED
      BY <1>1, <3>1 DEF HistoryOK
  <2>4. CASE ConsumePreKey
    BY <1>1, <2>1, <2>4 DEF ConsumePreKey, HistoryOK
  <2>5. QED
    BY <2>2, <2>3, <2>4
<1>5. EnvironmentOK' /\ ControlOK' /\ IdentityHeld'
  BY <1>1 DEF GenerateBundle, DecryptPreKeyMessage, ConsumePreKey, locals,
              EnvironmentOK, ControlOK, IdentityHeld, faults
<1>6. QED
  BY <1>3, <1>4, <1>5

LEMMA ClockKeepsBase ==
    ASSUME BaseInv, Tick \/ ClockBack \/ UNCHANGED vars
    PROVE  BaseInv'
<1> USE DEF BaseInv, TypeOK
<1>1. UNCHANGED <<stored, locals, history>>
  BY DEF Tick, ClockBack, vars
<1>2. EnvironmentOK'
  BY ClockAssumption, FaultAssumption
     DEF Tick, ClockBack, vars, Fault, EnvironmentOK, faults, history
<1>3. StoreOK'
  <2>1. KeyRows' = KeyRows
    BY <1>1 DEF KeyRows, history
  <2>2. QED
    BY <1>1, <2>1 DEF StoreOK, stored, history
<1>4. HistoryOK' /\ ControlOK' /\ IdentityHeld'
  BY <1>1 DEF HistoryOK, ControlOK, IdentityHeld, stored, locals, history
<1>5. QED
  BY <1>2, <1>3, <1>4

LEMMA BaseStep == BaseInv /\ [Next]_vars => BaseInv'
<1> SUFFICES ASSUME BaseInv, [Next]_vars PROVE BaseInv'
  OBVIOUS
<1>1. CASE ControlStep
  BY <1>1, ControlKeepsBase
<1>2. CASE SaveFirstSigned \/ SaveFirstKyber
  BY <1>2, SaveFirstKeepsBase
<1>3. CASE RotateSigned \/ RotateKyber
  BY <1>3, RotateKeepsBase
<1>4. CASE DropSigned \/ DropKyber
  BY <1>4, DropKeepsBase
<1>5. CASE Open
  BY <1>5, OpenKeepsBase
<1>6. CASE SavePreKey
  BY <1>6, SavePreKeyKeepsBase
<1>7. CASE GenerateBundle \/ DecryptPreKeyMessage \/ ConsumePreKey
  BY <1>7, PreKeyUseKeepsBase
<1>8. CASE Tick \/ ClockBack \/ UNCHANGED vars
  BY <1>8, ClockKeepsBase
<1>9. QED
  BY <1>1, <1>2, <1>3, <1>4, <1>5, <1>6, <1>7, <1>8
     DEF Next, Step, ControlStep

LEMMA BaseHolds == Spec => []BaseInv
BY BaseInit, BaseStep, PTL DEF Spec

\* The database, the locals of a call and the history keep their types, with
\* every fault and every movement of the clock.
THEOREM TypeCorrect == Spec => []TypeOK
<1>1. BaseInv => TypeOK
  BY DEF BaseInv
<1>2. QED
  BY <1>1, BaseHolds, PTL

-----------------------------------------------------------------------------
(* What a step can do to the tables of signed and Kyber pre-keys.          *)

SavesFirst(k) ==
    /\ pc = IF k = "signed" THEN "saveSigned" ELSE "saveKyber"
    /\ pc' = IF k = "signed" THEN "saveKyber" ELSE "generate"
    /\ UNCHANGED <<now, identity>>
    /\ keys' = [keys EXCEPT ![k] = Put(keys[k], 1, KeyRecord(now, identity))]

Supersedes(k) ==
    /\ pc = IF k = "signed" THEN "rotateSigned" ELSE "rotateKyber"
    /\ pc' = IF k = "signed" THEN "rotateKyber" ELSE "refill"
    /\ UNCHANGED <<now, identity>>
    /\ \E seen, last \in {keys[k], EmptyTable} :
          /\ Reads(seen = keys[k] /\ last = keys[k], "noMax")
          /\ ~ (checked /\ AgeUnderflows(seen, now))
          /\ NeedsRotation(seen, now)
          /\ keys' = [keys EXCEPT ![k] =
                         Put(keys[k], NextKeyId(last), KeyRecord(now, identity))]

DropsOne(k) ==
    /\ pc = IF k = "signed" THEN "dropSigned" ELSE "dropKyber"
    /\ todo # {}
    /\ pc' = pc
    /\ todo' = todo \ {FirstInScan(todo)}
    /\ UNCHANGED <<now, identity>>
    /\ Count(keys[k]) > 1
    /\ keys' = [keys EXCEPT ![k] = Drop(keys[k], FirstInScan(todo))]

\* A table of which more than one key is counted was read.
LEMMA CountedTable ==
    ASSUME NEW tab, NEW seen \in {tab, EmptyTable}, Count(seen) > 1
    PROVE  seen = tab
BY FS_EmptySet DEF Count, EmptyTable

\* What the loop of clean-up does with the table.
LEMMA DropExpiredFact ==
    ASSUME NEW k \in Kinds, NEW done, DropExpired(k, done)
    PROVE  \/ keys' = keys
           \/ /\ todo # {}
              /\ Count(keys[k]) > 1
              /\ keys' = [keys EXCEPT ![k] = Drop(keys[k], FirstInScan(todo))]
              /\ todo' = todo \ {FirstInScan(todo)}
              /\ UNCHANGED <<pc, call>>
BY CountedTable DEF DropExpired

LEMMA KeysChange ==
    ASSUME [Next]_vars
    PROVE  \/ keys' = keys
           \/ \E k \in Kinds : SavesFirst(k) \/ Supersedes(k) \/ DropsOne(k)
<1>1. CASE ControlStep
  BY <1>1, ControlFrame
<1>2. CASE SaveFirstSigned
  BY <1>2 DEF SaveFirstSigned, SavesFirst, GoTo, Kinds
<1>3. CASE SaveFirstKyber
  BY <1>3 DEF SaveFirstKyber, SavesFirst, GoTo, Kinds
<1>4. CASE RotateSigned
  BY <1>4 DEF RotateSigned, Rotate, Supersedes, GoTo, Kinds
<1>5. CASE RotateKyber
  BY <1>5 DEF RotateKyber, Rotate, Supersedes, GoTo, Kinds
<1>6. CASE DropSigned
  BY <1>6, DropExpiredFact DEF DropSigned, DropsOne, Kinds
<1>7. CASE DropKyber
  BY <1>7, DropExpiredFact DEF DropKyber, DropsOne, Kinds
<1>8. CASE \/ Open \/ SavePreKey \/ DecryptPreKeyMessage \/ ConsumePreKey
  BY <1>8 DEF Open, SavePreKey, DecryptPreKeyMessage, ConsumePreKey
<1>9. CASE GenerateBundle \/ Tick \/ ClockBack \/ UNCHANGED vars
  BY <1>9 DEF GenerateBundle, Tick, ClockBack, stored, vars
<1>10. QED
  BY <1>1, <1>2, <1>3, <1>4, <1>5, <1>6, <1>7, <1>8, <1>9
     DEF Next, Step, ControlStep

LEMMA FaultsFrame ==
    ASSUME [Next]_vars
    PROVE  UNCHANGED faults \/ \E kind \in FaultKinds : Fault(kind)
<1> USE DEF Reads, Fault
<1>1. CASE ControlStep
  BY <1>1, ControlFrame
<1>2. CASE SaveFirstSigned \/ SaveFirstKyber \/ SavePreKey \/ Open
  BY <1>2 DEF SaveFirstSigned, SaveFirstKyber, SavePreKey, Open
<1>3. CASE RotateSigned \/ RotateKyber
  BY <1>3 DEF RotateSigned, RotateKyber, Rotate
<1>4. CASE DropSigned \/ DropKyber
  BY <1>4 DEF DropSigned, DropKyber, DropExpired
<1>5. CASE GenerateBundle \/ DecryptPreKeyMessage \/ ConsumePreKey
  BY <1>5 DEF GenerateBundle, DecryptPreKeyMessage, ConsumePreKey
<1>6. CASE Tick \/ ClockBack \/ UNCHANGED vars
  BY <1>6 DEF Tick, ClockBack, vars
<1>7. QED
  BY <1>1, <1>2, <1>3, <1>4, <1>5, <1>6 DEF Next, Step, ControlStep

\* What has happened stays so.
LEMMA SparedBefore ==
    ASSUME [Next]_vars, NEW kinds, Spared(kinds)'
    PROVE  Spared(kinds)
BY FaultsFrame DEF Spared, Fault, faults

LEMMA NeverEmptiedStep ==
    ASSUME BaseInv, [Next]_vars, NEW k \in Kinds, DOMAIN keys[k] # {}
    PROVE  DOMAIN keys'[k] # {}
<1> USE DEF BaseInv, TypeOK
<1>1. CASE keys' = keys
  BY <1>1
<1>2. ASSUME NEW j \in Kinds, SavesFirst(j) \/ Supersedes(j) \/ DropsOne(j)
      PROVE  DOMAIN keys'[k] # {}
  <2>1. CASE j # k
    <3>1. keys'[k] = keys[k]
      BY <1>2, <2>1 DEF SavesFirst, Supersedes, DropsOne, StoreOK
    <3>2. QED
      BY <3>1
  <2>2. CASE j = k /\ (SavesFirst(k) \/ Supersedes(k))
    <3>1. PICK id, row : keys'[k] = Put(keys[k], id, row)
      BY <2>2 DEF SavesFirst, Supersedes, StoreOK
    <3>2. QED
      BY <3>1 DEF Put
  <2>3. CASE j = k /\ DropsOne(k)
    <3>1. PICK id : keys'[k] = Drop(keys[k], id)
      BY <2>3 DEF DropsOne, StoreOK
    <3>2. PICK x \in DOMAIN keys[k] : x # id
      <4>1. IsTable(keys[k], KeyRows) /\ Count(keys[k]) > 1
        BY <2>3 DEF DropsOne, StoreOK
      <4>2. QED
        BY <4>1, CountAboveOne
    <3>3. QED
      BY <3>1, <3>2 DEF Drop
  <2>4. QED
    BY <1>2, <2>1, <2>2, <2>3
<1>3. QED
  BY <1>1, <1>2, KeysChange

\* A table of signed or Kyber pre-keys that holds a key never becomes empty,
\* with every fault and every movement of the clock: the guard on the count
\* (key_rotation.rs:91, 218) is enough.
THEOREM StoreNeverEmptiedHolds == Spec => StoreNeverEmptied
<1>1. BaseInv /\ [Next]_vars =>
        [\A k \in Kinds : DOMAIN keys[k] # {} => DOMAIN keys'[k] # {}]_vars
  BY NeverEmptiedStep
<1>2. QED
  BY <1>1, BaseHolds, PTL DEF Spec, StoreNeverEmptied

\* Only rotation raises the highest id of a table that holds a key: the first
\* run saves under id 1, and clean-up only takes rows away.
LEMMA OnlyRotationRaises ==
    ASSUME BaseInv, [Next]_vars, NEW k \in Kinds, DOMAIN keys[k] # {},
           CurrentId(keys'[k]) > CurrentId(keys[k])
    PROVE  Supersedes(k)
<1>1. IsTable(keys[k], KeyRows) /\ IsTable(keys'[k], KeyRows')
  BY BaseStep DEF BaseInv, TypeOK, StoreOK
<1>2. /\ CurrentId(keys[k]) \in Nat \ {0}
      /\ \A x \in DOMAIN keys[k] : x \in Nat /\ x <= CurrentId(keys[k])
  BY <1>1, CurrentIdFact
<1>3. CurrentId(keys'[k]) \in Nat
      /\ (DOMAIN keys'[k] # {} => CurrentId(keys'[k]) \in DOMAIN keys'[k])
  BY <1>1, CurrentIdFact
<1>4. DOMAIN keys'[k] # {}
  BY NeverEmptiedStep
<1>5. ~ (DOMAIN keys'[k] \subseteq DOMAIN keys[k] \cup {1})
  <2>1. SUFFICES ASSUME DOMAIN keys'[k] \subseteq DOMAIN keys[k] \cup {1}
                 PROVE  CurrentId(keys'[k]) <= CurrentId(keys[k])
    BY <1>2, <1>3
  <2>2. CurrentId(keys'[k]) \in DOMAIN keys[k] \/ CurrentId(keys'[k]) = 1
    BY <1>3, <1>4, <2>1
  <2>3. QED
    BY <1>2, <2>2
<1>6. CASE keys' = keys
  BY <1>5, <1>6
<1>7. ASSUME NEW j \in Kinds, SavesFirst(j) \/ Supersedes(j) \/ DropsOne(j)
      PROVE  Supersedes(k)
  <2>1. CASE j # k
    <3>1. keys'[k] = keys[k]
      BY <1>7, <2>1 DEF SavesFirst, Supersedes, DropsOne, BaseInv, TypeOK, StoreOK
    <3>2. QED
      BY <1>5, <3>1
  <2>2. CASE SavesFirst(k)
    <3>1. keys'[k] = Put(keys[k], 1, KeyRecord(now, identity))
      BY <2>2 DEF SavesFirst, BaseInv, TypeOK, StoreOK
    <3>2. DOMAIN keys'[k] = DOMAIN keys[k] \cup {1}
      BY <3>1 DEF Put
    <3>3. QED
      BY <1>5, <3>2
  <2>3. CASE DropsOne(k)
    <3>1. PICK id : keys'[k] = Drop(keys[k], id)
      BY <2>3 DEF DropsOne, BaseInv, TypeOK, StoreOK
    <3>2. DOMAIN keys'[k] \subseteq DOMAIN keys[k]
      BY <3>1 DEF Drop
    <3>3. QED
      BY <1>5, <3>2
  <2>4. QED
    BY <1>7, <2>1, <2>2, <2>3
<1>8. QED
  BY <1>6, <1>7, KeysChange

-----------------------------------------------------------------------------
(* Clocks and ages.                                                        *)

LEMMA RowFact ==
    ASSUME BaseInv, NEW k \in Kinds
    PROVE  /\ IsTable(keys[k], KeyRows)
           /\ now \in Nat
           /\ \A id \in DOMAIN keys[k] : id \in Nat /\ keys[k][id].ts \in Nat
<1>1. IsTable(keys[k], KeyRows) /\ now \in Nat
  BY ClockAssumption DEF BaseInv, TypeOK, StoreOK, EnvironmentOK
<1>2. \A id \in DOMAIN keys[k] : id \in Nat /\ keys[k][id] \in KeyRows
  BY <1>1 DEF IsTable
<1>3. QED
  BY <1>1, <1>2, ClockAssumption DEF KeyRows

\* Unless the clock is set back, time passes only when nothing else happens.
LEMMA ClockFrame ==
    ASSUME BaseInv, [Next]_vars, Spared({"clockback"})'
    PROVE  \/ now' = now
           \/ now <= now' /\ UNCHANGED <<stored, locals>>
<1>1. CASE Tick
  BY <1>1, ClockAssumption
     DEF Tick, BaseInv, TypeOK, EnvironmentOK
<1>2. CASE ControlStep
  BY <1>2, ControlFrame
<1>3. CASE \/ SaveFirstSigned \/ SaveFirstKyber \/ SavePreKey
           \/ RotateSigned \/ RotateKyber \/ DropSigned \/ DropKyber
  BY <1>3 DEF SaveFirstSigned, SaveFirstKyber, SavePreKey, RotateSigned,
     RotateKyber, DropSigned, DropKyber
<1>4. CASE \/ GenerateBundle \/ DecryptPreKeyMessage \/ ConsumePreKey
           \/ Open \/ ClockBack \/ UNCHANGED vars
  BY <1>4 DEF GenerateBundle, DecryptPreKeyMessage, ConsumePreKey, Open,
     ClockBack, vars, Fault, Spared
<1>5. QED
  BY <1>1, <1>2, <1>3, <1>4 DEF Next, Step, ControlStep

\* No key is younger than the clock.
NoKeyAhead == \A k \in Kinds : \A id \in DOMAIN keys[k] : keys[k][id].ts <= now

ClockInv == BaseInv /\ (Spared({"clockback"}) => NoKeyAhead)

LEMMA NoKeyAheadStep ==
    ASSUME BaseInv, NoKeyAhead, [Next]_vars, Spared({"clockback"})'
    PROVE  NoKeyAhead'
<1>1. now \in Nat /\ now' \in Nat /\ now <= now'
  <2>1. now \in Nat /\ now' \in Nat
    BY BaseStep, ClockAssumption DEF BaseInv, TypeOK, EnvironmentOK
  <2>2. QED
    BY <2>1, ClockFrame
<1>2. CASE keys' = keys
  BY <1>1, <1>2, RowFact DEF NoKeyAhead
<1>3. ASSUME NEW k \in Kinds, SavesFirst(k) \/ Supersedes(k) \/ DropsOne(k)
      PROVE  NoKeyAhead'
  <2>1. now' = now
    BY <1>3 DEF SavesFirst, Supersedes, DropsOne
  <2>2. \A j \in Kinds : j # k => keys'[j] = keys[j]
    BY <1>3 DEF SavesFirst, Supersedes, DropsOne, BaseInv, TypeOK, StoreOK
  <2>3. \A id \in DOMAIN keys'[k] : \/ keys'[k][id] = KeyRecord(now, identity)
                                    \/ id \in DOMAIN keys[k]
                                       /\ keys'[k][id] = keys[k][id]
    <3>1. CASE SavesFirst(k) \/ Supersedes(k)
      <4>1. PICK id : keys'[k] = Put(keys[k], id, KeyRecord(now, identity))
        BY <3>1 DEF SavesFirst, Supersedes, BaseInv, TypeOK, StoreOK
      <4>2. QED
        BY <4>1 DEF Put
    <3>2. CASE DropsOne(k)
      <4>1. PICK id : keys'[k] = Drop(keys[k], id)
        BY <3>2 DEF DropsOne, BaseInv, TypeOK, StoreOK
      <4>2. QED
        BY <4>1 DEF Drop
    <3>3. QED
      BY <1>3, <3>1, <3>2
  <2>4. \A id \in DOMAIN keys'[k] : keys'[k][id].ts <= now
    BY <1>1, <2>3 DEF NoKeyAhead, KeyRecord
  <2>5. QED
    BY <2>1, <2>2, <2>4 DEF NoKeyAhead
<1>4. QED
  BY <1>2, <1>3, KeysChange

LEMMA ClockHolds == Spec => []ClockInv
<1>1. Init => ClockInv
  <2> SUFFICES ASSUME Init PROVE ClockInv
    OBVIOUS
  <2>1. \A k \in Kinds : DOMAIN keys[k] = {}
    BY EmptyTableFact DEF Init
  <2>2. QED
    BY <2>1, BaseInit DEF ClockInv, NoKeyAhead
<1>2. ClockInv /\ [Next]_vars => ClockInv'
  <2> SUFFICES ASSUME ClockInv, [Next]_vars PROVE ClockInv'
    OBVIOUS
  <2>1. BaseInv'
    BY BaseStep DEF ClockInv
  <2>2. Spared({"clockback"})' => NoKeyAhead'
    BY SparedBefore, NoKeyAheadStep DEF ClockInv
  <2>3. QED
    BY <2>1, <2>2 DEF ClockInv
<1>3. QED
  BY <1>1, <1>2, PTL DEF Spec

\* The age that a checked subtraction finds above the interval is the real one.
LEMMA DueIsOld ==
    ASSUME BaseInv, NEW k \in Kinds, DOMAIN keys[k] # {},
           ~ AgeUnderflows(keys[k], now), NeedsRotation(keys[k], now)
    PROVE  now - keys[k][CurrentId(keys[k])].ts > RotationSecs * 1000
<1> DEFINE ts == keys[k][CurrentId(keys[k])].ts
<1>1. now \in Nat /\ RotationSecs \in Nat
  BY ClockAssumption, IntervalsAssumption DEF BaseInv, TypeOK, EnvironmentOK
<1>2. ts \in Nat
  <2>1. IsTable(keys[k], KeyRows)
    BY DEF BaseInv, TypeOK, StoreOK
  <2>2. CurrentId(keys[k]) \in DOMAIN keys[k]
    BY <2>1, CurrentIdFact
  <2>3. keys[k][CurrentId(keys[k])] \in KeyRows
    BY <2>1, <2>2 DEF IsTable
  <2>4. QED
    BY <2>3, ClockAssumption DEF KeyRows
<1>3. now >= ts
  BY <1>1, <1>2 DEF AgeUnderflows
<1>4. (now - ts) \div 1000 > RotationSecs
  BY <1>3 DEF NeedsRotation, WrappingSub
<1>5. QED
  <2> HIDE DEF ts
  <2>1. \A n, r \in Nat : n \div 1000 > r => n > r * 1000
    OBVIOUS
  <2>2. now - ts \in Nat
    BY <1>1, <1>2, <1>3
  <2>3. now - ts > RotationSecs * 1000
    BY <1>1, <1>4, <2>1, <2>2
  <2>4. QED
    BY <2>3 DEF ts

\* A step during which no fault happens supersedes a key only if it really is
\* older than the rotation interval (key_rotation.rs:50): in a debug build after
\* any faults, in a release build unless the clock was set back. (The step that
\* fails to read MAX(id) supersedes a key of any age.)
THEOREM RotationOnlyWhenOldHolds == Spec => RotationOnlyWhenOld
<1>1. ASSUME ClockInv, [Next]_vars, UNCHANGED faults,
             checked \/ Spared({"clockback"}),
             NEW k \in Kinds, DOMAIN keys[k] # {},
             CurrentId(keys'[k]) > CurrentId(keys[k])
      PROVE  now - keys[k][CurrentId(keys[k])].ts > RotationSecs * 1000
  <2>1. BaseInv
    BY <1>1 DEF ClockInv
  <2>2. Supersedes(k)
    BY <1>1, <2>1, OnlyRotationRaises
  <2>3. \A right \in BOOLEAN : Reads(right, "noMax") => right
    BY <1>1, <2>1 DEF Reads, Fault, faults, BaseInv, TypeOK, EnvironmentOK
  <2>4. ~ (checked /\ AgeUnderflows(keys[k], now)) /\ NeedsRotation(keys[k], now)
    BY <2>2, <2>3 DEF Supersedes
  <2>5. ~ AgeUnderflows(keys[k], now)
    <3>1. CASE checked
      BY <2>4, <3>1
    <3>2. CASE NoKeyAhead
      <4>1. CurrentId(keys[k]) \in DOMAIN keys[k]
        BY <1>1, <2>1, RowFact, CurrentIdFact
      <4>2. QED
        BY <2>1, <3>2, <4>1, RowFact DEF NoKeyAhead, AgeUnderflows
    <3>3. QED
      BY <1>1, <3>1, <3>2 DEF ClockInv
  <2>6. QED
    BY <1>1, <2>1, <2>4, <2>5, DueIsOld
<1>2. ClockInv /\ [Next]_vars =>
        [UNCHANGED faults /\ (checked \/ Spared({"clockback"})) =>
           \A k \in Kinds :
              DOMAIN keys[k] # {} /\ CurrentId(keys'[k]) > CurrentId(keys[k]) =>
                 now - keys[k][CurrentId(keys[k])].ts > RotationSecs * 1000]_vars
  BY <1>1
<1>3. QED
  BY <1>2, ClockHolds, PTL DEF Spec, RotationOnlyWhenOld

-----------------------------------------------------------------------------
(* One-time pre-keys.                                                      *)

\* The ids still to be saved are free: the loop of replenish_pre_keys takes
\* ids above all those in the table, and nothing else adds rows meanwhile.
BatchIsFree == batch \cap DOMAIN preKeys = {}

\* What PublishedPreKeysUsable says while every MAX(id) was read.
PublishedHeld ==
    \A p \in published :
        p \notin used => p[1] \in DOMAIN preKeys /\ preKeys[p[1]] = p[2]

PreKeyInv == BaseInv /\ (Spared({"noMax"}) => BatchIsFree /\ PublishedHeld)

LEMMA PreKeyStep ==
    ASSUME BaseInv, BatchIsFree, PublishedHeld, [Next]_vars, Spared({"noMax"})'
    PROVE  BatchIsFree' /\ PublishedHeld'
<1>1. BaseInv'
  BY BaseStep
<1>2. /\ minted \in Nat
      /\ IsTable(preKeys, 1 .. minted)
      /\ batch \subseteq Nat \ {0}
      /\ published \subseteq (Nat \ {0}) \X (1 .. minted)
  BY DEF BaseInv, TypeOK, StoreOK, ControlOK, HistoryOK
<1>3. CASE GeneratePreKeys
  <2> DEFINE n == NextPreKeyId(preKeys)
  <2>1. n \in Nat /\ \A id \in DOMAIN preKeys : id < n
    BY <1>2, CurrentIdFact DEF NextPreKeyId
  <2>2. BatchIsFree'
    <3>1. batch' = n .. (n + ReplenishCount - 1) /\ preKeys' = preKeys
      BY <1>3 DEF GeneratePreKeys, stored, Reads, Fault, Spared
    <3>2. QED
      BY <1>2, <2>1, <3>1, CountsAssumption DEF BatchIsFree
  <2>3. PublishedHeld'
    BY <1>3 DEF GeneratePreKeys, stored, history, PublishedHeld
  <2>4. QED
    BY <1>1, <2>2, <2>3
<1>4. CASE SavePreKey
  <2> DEFINE id == FirstInScan(batch)
  <2>1. id \in batch
    BY <1>2, <1>4, FirstInScanFact DEF SavePreKey
  <2>2. preKeys' = Put(preKeys, id, minted + 1) /\ batch' = batch \ {id}
    BY <1>4 DEF SavePreKey
  <2>3. /\ DOMAIN preKeys' = DOMAIN preKeys \cup {id}
        /\ \A x \in DOMAIN preKeys \ {id} : preKeys'[x] = preKeys[x]
    BY <2>2 DEF Put
  <2>4. id \notin DOMAIN preKeys
    BY <2>1 DEF BatchIsFree
  <2>5. BatchIsFree'
    BY <2>2, <2>3 DEF BatchIsFree
  <2>6. PublishedHeld'
    BY <1>4, <2>3, <2>4 DEF SavePreKey, PublishedHeld
  <2>7. QED
    BY <1>1, <2>5, <2>6
<1>5. CASE GenerateBundle
  <2>1. CurrentId(preKeys) \in DOMAIN preKeys
    BY <1>2, <1>5, CurrentIdFact DEF GenerateBundle, BundleReady
  <2>2. QED
    BY <1>1, <1>5, <2>1 DEF GenerateBundle, BatchIsFree,
       PublishedHeld, stored, locals
<1>6. CASE DecryptPreKeyMessage
  <2>1. PICK p \in published :
          /\ preKeys[p[1]] = p[2]
          /\ preKeys' = Drop(preKeys, p[1])
          /\ used' = used \cup {p}
    BY <1>6 DEF DecryptPreKeyMessage
  <2>2. UNCHANGED <<published, batch>>
    BY <1>6 DEF DecryptPreKeyMessage, locals
  <2>3. BatchIsFree'
    BY <2>1, <2>2 DEF Drop, BatchIsFree
  <2>4. PublishedHeld'
    <3>1. SUFFICES ASSUME NEW q \in published, q \notin used, q # p
                   PROVE  q[1] \in DOMAIN preKeys' /\ preKeys'[q[1]] = q[2]
      BY <2>1, <2>2 DEF PublishedHeld
    <3>2. q[1] \in DOMAIN preKeys /\ preKeys[q[1]] = q[2]
      BY <3>1 DEF PublishedHeld
    <3>3. q[1] # p[1]
      BY <1>2, <2>1, <3>1, <3>2
    <3>4. QED
      BY <2>1, <3>2, <3>3 DEF Drop
  <2>5. QED
    BY <1>1, <2>3, <2>4
<1>7. CASE ConsumePreKey
  <2>1. PICK id \in 1 .. NextPreKeyId(preKeys) :
          /\ preKeys' = Drop(preKeys, id)
          /\ used' = used \cup
                       {<<i, preKeys[i]>> : i \in {id} \cap DOMAIN preKeys}
    BY <1>7 DEF ConsumePreKey
  <2>2. UNCHANGED <<published, batch>>
    BY <1>7 DEF ConsumePreKey
  <2>3. BatchIsFree'
    BY <2>1, <2>2 DEF Drop, BatchIsFree
  <2>4. PublishedHeld'
    <3>1. SUFFICES ASSUME NEW q \in published, q \notin used'
                   PROVE  q[1] \in DOMAIN preKeys' /\ preKeys'[q[1]] = q[2]
      BY <2>2 DEF PublishedHeld
    <3>2. q[1] \in DOMAIN preKeys /\ preKeys[q[1]] = q[2] /\ q = <<q[1], q[2]>>
      BY <1>2, <2>1, <3>1 DEF PublishedHeld
    <3>3. q[1] # id
      BY <2>1, <3>1, <3>2
    <3>4. QED
      BY <2>1, <3>2, <3>3 DEF Drop
  <2>5. QED
    BY <1>1, <2>3, <2>4
<1>8. CASE \/ ControlStep /\ ~ GeneratePreKeys
           \/ Open \/ SaveFirstSigned \/ SaveFirstKyber
           \/ RotateSigned \/ RotateKyber \/ DropSigned \/ DropKyber
           \/ Tick \/ ClockBack \/ UNCHANGED vars
  <2>1. /\ UNCHANGED <<preKeys, published, used>>
        /\ batch' = batch \/ batch' = {}
    <3> USE DEF stored, locals, history, GoTo, Abort, Return
    <3>1. CASE ControlStep /\ ~ GeneratePreKeys
      <4>1. UNCHANGED <<preKeys, published, used>>
        BY <3>1, ControlFrame
      <4>2. batch' = batch \/ batch' = {}
        BY <3>1 DEF ControlStep, SetRegistrationId, PreKeysSaved, Refill,
           BeginMaintenance, Close, Crash, StatementFails, ClearLocalIdentity,
           ExpireSigned, ExpireKyber, Expire
      <4>3. QED
        BY <4>1, <4>2
    <3>2. CASE Open \/ SaveFirstSigned \/ SaveFirstKyber
      BY <3>2 DEF Open, SaveFirstSigned, SaveFirstKyber
    <3>3. CASE RotateSigned \/ RotateKyber
      BY <3>3 DEF RotateSigned, RotateKyber, Rotate
    <3>4. CASE DropSigned \/ DropKyber
      BY <3>4 DEF DropSigned, DropKyber
    <3>5. CASE Tick \/ ClockBack \/ UNCHANGED vars
      BY <3>5 DEF Tick, ClockBack, vars
    <3>6. QED
      BY <1>8, <3>1, <3>2, <3>3, <3>4, <3>5
  <2>2. BatchIsFree' /\ PublishedHeld'
    BY <2>1 DEF BatchIsFree, PublishedHeld
  <2>3. QED
    BY <1>1, <2>2
<1>9. QED
  BY <1>3, <1>4, <1>5, <1>6, <1>7, <1>8 DEF Next, Step, ControlStep

\* A published one-time pre-key stays in the store, with the same material,
\* until it is used, after every fault but a failed read of MAX(id) (which
\* makes replenish_pre_keys start at id 1 again): however ids are freed and
\* reused, and wherever a replenishment is cut short.
THEOREM PublishedPreKeysUsableHolds == Spec => []PublishedPreKeysUsable
<1>1. Init => PreKeyInv
  BY BaseInit DEF Init, PreKeyInv, BatchIsFree, PublishedHeld
<1>2. PreKeyInv /\ [Next]_vars => PreKeyInv'
  BY BaseStep, PreKeyStep, SparedBefore DEF PreKeyInv
<1>3. PreKeyInv => PublishedPreKeysUsable
  BY DEF PreKeyInv, PublishedHeld, PublishedPreKeysUsable
<1>4. QED
  BY <1>1, <1>2, <1>3, PTL DEF Spec
=============================================================================
