--------------------------- MODULE DbKeyFileProofs ---------------------------
(***************************************************************************)
(* Proofs about the key file: types, and that an undisturbed database can  *)
(* be opened with the key in its file, for any number of processes.        *)
(***************************************************************************)
EXTENDS DbKeyFile, TLAPS

\* The state is well typed, for any processes and bounds.
THEOREM TypeCorrect == Spec => []TypeOK
<1> USE BoundsAssumption
<1>1. Init => TypeOK
  <2> SUFFICES ASSUME Init PROVE TypeOK
    OBVIOUS
  <2>1. lastKey \in 0 .. MaxKeys /\ faults \in 0 .. MaxFaults
    BY DEF Init, BoundsAssumption
  <2>2. disturbed \in BOOLEAN
    BY Zenon DEF Init
  <2>3. pc \in [Processes -> {"idle", "create", "write", "unlock", "open"}]
    BY DEF Init
  <2>4. QED
    BY <2>1, <2>2, <2>3 DEF Init, TypeOK
<1>2. TypeOK /\ [Next]_vars => TypeOK'
  <2> SUFFICES ASSUME TypeOK, [Next]_vars PROVE TypeOK'
    OBVIOUS
  <2> USE DEF TypeOK, Keys, Go
  <2>1. ASSUME NEW p \in Processes, RetrieveKey(p) PROVE TypeOK'
    BY <2>1 DEF RetrieveKey
  <2>2. ASSUME NEW p \in Processes, GenerateKey(p) PROVE TypeOK'
    <3>1. (disturbed \in BOOLEAN)'
      BY <2>2, Zenon DEF GenerateKey
    <3>2. QED
      BY <2>2, <3>1 DEF GenerateKey
  <2>3. ASSUME NEW p \in Processes, CreateKeyFile(p) PROVE TypeOK'
    BY <2>3 DEF CreateKeyFile, Short
  <2>4. ASSUME NEW p \in Processes, WriteKey(p) PROVE TypeOK'
    BY <2>4 DEF WriteKey
  <2>5. ASSUME NEW p \in Processes, Unlock(p) PROVE TypeOK'
    BY <2>5 DEF Unlock
  <2>6. ASSUME NEW p \in Processes, Close(p) PROVE TypeOK'
    BY <2>6 DEF Close
  <2>7. ASSUME NEW p \in Processes, CutShort(p) PROVE TypeOK'
    BY <2>7 DEF CutShort
  <2>8. ASSUME UNCHANGED vars PROVE TypeOK'
    BY <2>8 DEF vars
  <2>9. QED
    BY <2>1, <2>2, <2>3, <2>4, <2>5, <2>6, <2>7, <2>8 DEF Next
<1>3. QED
  BY <1>1, <1>2, PTL DEF Spec

-----------------------------------------------------------------------------

\* While nothing has disturbed it: one process at most has a key to store, and then
\* there is none in the file and the database is empty; whoever got past storing
\* has the key in the file, and the database has that key or none.
Making(p) == pc[p] \in {"create", "write"}

KeyInv ==
    ~ disturbed =>
       /\ \A p, q \in Processes : Making(p) /\ Making(q) => p = q
       /\ \A p \in Processes : Making(p) => keyFile \notin Keys
       /\ \A p \in Processes : pc[p] = "unlock" => keyFile = key[p]
       /\ database # 0 => keyFile = database

\* A database that was written opens with the key in its key file, whatever was
\* cut short, unless a key was generated beside another one.
THEOREM KeyFileOpensDatabaseHolds == Spec => []KeyFileOpensDatabase
<1> USE BoundsAssumption
<1>1. Init => KeyInv
  BY DEF Init, KeyInv, Making
<1>2. TypeOK /\ KeyInv /\ [Next]_vars => KeyInv'
  <2> SUFFICES ASSUME TypeOK, KeyInv, [Next]_vars, ~ disturbed' PROVE KeyInv'
    BY DEF KeyInv
  <2> USE DEF KeyInv, Making, Keys, Go
  <2>1. ASSUME NEW p \in Processes, RetrieveKey(p) PROVE KeyInv'
    BY <2>1 DEF RetrieveKey, TypeOK
  <2>2. ASSUME NEW p \in Processes, GenerateKey(p) PROVE KeyInv'
    <3>1. keyFile \notin Keys /\ ~ KeyComing(p) /\ ~ disturbed
      BY <2>2, Zenon DEF GenerateKey
    <3>2. \A q \in Processes \ {p} : ~ Making(q)
      BY <3>1 DEF KeyComing
    <3>3. database = 0
      BY <3>1 DEF TypeOK
    <3>4. keyFile \notin Keys'
      BY <2>2, <3>1 DEF GenerateKey, TypeOK, NoFile, Short
    <3>5. \A q \in Processes : pc[q] # "unlock"
      BY <3>1 DEF TypeOK
    <3>6. pc' = [pc EXCEPT ![p] = "create"] /\ UNCHANGED <<keyFile, database>>
      BY <2>2 DEF GenerateKey
    <3>7. QED
      BY <3>2, <3>3, <3>4, <3>5, <3>6 DEF TypeOK
  <2>3. ASSUME NEW p \in Processes, CreateKeyFile(p) PROVE KeyInv'
    BY <2>3 DEF CreateKeyFile, TypeOK, Short
  <2>4. ASSUME NEW p \in Processes, WriteKey(p) PROVE KeyInv'
    BY <2>4 DEF WriteKey, TypeOK
  <2>5. ASSUME NEW p \in Processes, Unlock(p) PROVE KeyInv'
    BY <2>5 DEF Unlock, TypeOK
  <2>6. ASSUME NEW p \in Processes, Close(p) PROVE KeyInv'
    BY <2>6 DEF Close, TypeOK
  <2>7. ASSUME NEW p \in Processes, CutShort(p) PROVE KeyInv'
    BY <2>7 DEF CutShort, TypeOK
  <2>8. ASSUME UNCHANGED vars PROVE KeyInv'
    BY <2>8 DEF vars
  <2>9. QED
    BY <2>1, <2>2, <2>3, <2>4, <2>5, <2>6, <2>7, <2>8 DEF Next
<1>3. KeyInv => KeyFileOpensDatabase
  BY DEF KeyInv, KeyFileOpensDatabase
<1>4. QED
  BY <1>1, <1>2, <1>3, TypeCorrect, PTL DEF Spec
=============================================================================
