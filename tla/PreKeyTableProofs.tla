------------------------- MODULE PreKeyTableProofs -------------------------
(***************************************************************************)
(* Facts about tables of keys: what MAX(id) and the scan order return,     *)
(* what inserting and deleting a row preserve, and how the age tests of    *)
(* key_rotation.rs relate.                                                 *)
(***************************************************************************)
EXTENDS PreKeyTable, FiniteSetTheorems, WellFoundedInduction, TLAPS

\* A non-empty set of naturals has a least element.
LEMMA LeastElement ==
    ASSUME NEW S \in SUBSET Nat, S # {}
    PROVE  \E m \in S : \A n \in S : m <= n
<1> DEFINE Less == {ss \in Nat \X Nat : ss[1] < ss[2]}
<1>1. IsWellFoundedOn(Less, Nat)
  BY NatLessThanWellFounded DEF OpToRel
<1>2. PICK m \in S : \A n \in S : ~ (<<n, m>> \in Less)
  BY <1>1, WFMin
<1>3. \A n \in S : ~ (n < m)
  BY <1>2
<1>4. QED
  BY <1>3

\* The scan visits the least id first.
LEMMA FirstInScanFact ==
    ASSUME NEW ids \in SUBSET Nat, ids # {}
    PROVE  /\ FirstInScan(ids) \in ids
           /\ \A n \in ids : FirstInScan(ids) <= n
BY LeastElement DEF FirstInScan, Min

\* A finite set of naturals has an upper bound.
LEMMA FiniteIsBounded ==
    ASSUME NEW S \in SUBSET Nat, IsFiniteSet(S)
    PROVE  \E b \in Nat : \A n \in S : n <= b
<1> DEFINE Bounded(U) == \E b \in Nat : \A n \in U : n <= b
           Bad == {U \in FiniteSubsetsOf(Nat) : ~ Bounded(U)}
<1>1. SUFFICES ASSUME Bad # {} PROVE FALSE
  BY DEF FiniteSubsetsOf
<1>2. PICK U \in Bad : \A V \in Bad : ~ (<<V, U>> \in StrictSubsetOrdering(Nat))
  BY <1>1, FS_StrictSubsetOrderingWellFounded, WFMin
<1>3. PICK x \in U : TRUE
  <2>1. CASE U = {}
    BY <2>1, <1>2
  <2>2. QED
    BY <2>1
<1>4. x \in Nat /\ IsFiniteSet(U) /\ U \subseteq Nat
  BY <1>2, <1>3 DEF FiniteSubsetsOf
<1>5. U \ {x} \in FiniteSubsetsOf(Nat)
  BY <1>4, FS_RemoveElement DEF FiniteSubsetsOf
<1>6. <<U \ {x}, U>> \in StrictSubsetOrdering(Nat)
  BY <1>3, <1>4 DEF StrictSubsetOrdering
<1>7. PICK b \in Nat : \A n \in U \ {x} : n <= b
  <2>1. Bounded(U \ {x})
    <3> HIDE DEF Bounded
    <3>1. U \ {x} \notin Bad
      BY <1>2, <1>6
    <3>2. QED
      BY <1>5, <3>1
  <2>2. QED
    BY <2>1
<1>8. \A n \in U : n <= b + x
  BY <1>4, <1>7
<1>9. Bounded(U)
  BY <1>4, <1>8
<1>10. QED
  BY <1>2, <1>9

\* MAX(id) of a non-empty table is one of its ids, and no id exceeds it.
LEMMA MaxFact ==
    ASSUME NEW S \in SUBSET Nat, IsFiniteSet(S), S # {}
    PROVE  /\ Max(S) \in S
           /\ \A n \in S : n <= Max(S)
<1> DEFINE B == {b \in Nat : \A n \in S : n <= b}
<1>1. B # {} /\ B \in SUBSET Nat
  BY FiniteIsBounded
<1>2. PICK m \in B : \A b \in B : m <= b
  BY <1>1, LeastElement
<1>3. m \in S
  <2>1. SUFFICES ASSUME m \notin S PROVE FALSE
    OBVIOUS
  <2>2. \A n \in S : n < m
    BY <1>2, <2>1
  <2>3. m - 1 \in B
    <3>1. PICK n \in S : n < m
      BY <2>2
    <3>2. QED
      BY <1>2, <2>2, <3>1
  <2>4. QED
    BY <1>2, <2>3
<1>4. \E x \in S : \A y \in S : x >= y
  BY <1>2, <1>3
<1>5. QED
  BY <1>4 DEF Max

-----------------------------------------------------------------------------

LEMMA CurrentIdFact ==
    ASSUME NEW Row, NEW tab, IsTable(tab, Row)
    PROVE  /\ CurrentId(tab) \in Nat
           /\ \A id \in DOMAIN tab : id \in Nat \ {0} /\ id <= CurrentId(tab)
           /\ DOMAIN tab = {} => CurrentId(tab) = 0
           /\ DOMAIN tab # {} => CurrentId(tab) \in DOMAIN tab
<1>1. DOMAIN tab \in SUBSET Nat /\ IsFiniteSet(DOMAIN tab) /\ 0 \notin DOMAIN tab
  BY DEF IsTable
<1>2. CASE DOMAIN tab = {}
  BY <1>2 DEF CurrentId
<1>3. CASE DOMAIN tab # {}
  <2>1. CurrentId(tab) = Max(DOMAIN tab)
    BY <1>3 DEF CurrentId
  <2>2. QED
    BY <1>1, <1>3, <2>1, MaxFact
<1>4. QED
  BY <1>2, <1>3

LEMMA EmptyTableFact ==
    ASSUME NEW Row
    PROVE  IsTable(EmptyTable, Row) /\ DOMAIN EmptyTable = {}
BY FS_EmptySet DEF IsTable, EmptyTable

\* INSERT OR REPLACE adds its row and keeps the others.
LEMMA PutFact ==
    ASSUME NEW Row, NEW tab, IsTable(tab, Row),
           NEW id \in Nat \ {0}, NEW row \in Row
    PROVE  /\ IsTable(Put(tab, id, row), Row)
           /\ DOMAIN Put(tab, id, row) = DOMAIN tab \cup {id}
           /\ Put(tab, id, row)[id] = row
           /\ \A x \in DOMAIN tab \ {id} : Put(tab, id, row)[x] = tab[x]
<1>1. IsFiniteSet(DOMAIN tab \cup {id})
  BY FS_AddElement DEF IsTable
<1>2. QED
  BY <1>1 DEF IsTable, Put

\* DELETE of one id keeps the other rows.
LEMMA DropFact ==
    ASSUME NEW Row, NEW tab, IsTable(tab, Row), NEW id
    PROVE  /\ IsTable(Drop(tab, id), Row)
           /\ DOMAIN Drop(tab, id) = DOMAIN tab \ {id}
           /\ \A x \in DOMAIN tab \ {id} : Drop(tab, id)[x] = tab[x]
<1>1. IsFiniteSet(DOMAIN tab \ {id})
  BY FS_RemoveElement DEF IsTable
<1>2. QED
  BY <1>1 DEF IsTable, Drop

LEMMA WiderRows ==
    ASSUME NEW Row, NEW Wider, Row \subseteq Wider, NEW tab, IsTable(tab, Row)
    PROVE  IsTable(tab, Wider)
BY DEF IsTable

\* A row inserted above every id is the current one.
LEMMA CurrentIdOfPut ==
    ASSUME NEW Row, NEW tab, IsTable(tab, Row),
           NEW id \in Nat, NEW row \in Row, id > CurrentId(tab)
    PROVE  CurrentId(Put(tab, id, row)) = id
<1>1. id \in Nat \ {0}
  BY CurrentIdFact
<1>2. /\ IsTable(Put(tab, id, row), Row)
      /\ DOMAIN Put(tab, id, row) = DOMAIN tab \cup {id}
  BY <1>1, PutFact
<1>3. /\ CurrentId(Put(tab, id, row)) \in DOMAIN tab \cup {id}
      /\ id <= CurrentId(Put(tab, id, row))
  BY <1>1, <1>2, CurrentIdFact
<1>4. QED
  BY <1>3, CurrentIdFact

\* Deleting any row but the current one leaves the current one.
LEMMA CurrentIdOfDrop ==
    ASSUME NEW Row, NEW tab, IsTable(tab, Row), NEW id, id # CurrentId(tab)
    PROVE  CurrentId(Drop(tab, id)) = CurrentId(tab)
<1>1. /\ IsTable(Drop(tab, id), Row)
      /\ DOMAIN Drop(tab, id) = DOMAIN tab \ {id}
  BY DropFact
<1>2. CASE DOMAIN tab = {}
  <2>1. DOMAIN Drop(tab, id) = {}
    BY <1>1, <1>2
  <2>2. QED
    BY <1>1, <1>2, <2>1, CurrentIdFact
<1>3. CASE DOMAIN tab # {}
  <2>1. CurrentId(tab) \in DOMAIN tab \ {id}
    BY <1>3, CurrentIdFact
  <2>2. /\ CurrentId(Drop(tab, id)) \in DOMAIN tab
        /\ CurrentId(tab) <= CurrentId(Drop(tab, id))
    BY <1>1, <2>1, CurrentIdFact
  <2>3. QED
    BY <2>1, <2>2, CurrentIdFact
<1>4. QED
  BY <1>2, <1>3

\* Two rows or more: some row other than any given one.
LEMMA CountAboveOne ==
    ASSUME NEW Row, NEW tab, IsTable(tab, Row), Count(tab) > 1, NEW id
    PROVE  \E x \in DOMAIN tab : x # id
<1>1. SUFFICES ASSUME DOMAIN tab \subseteq {id} PROVE FALSE
  OBVIOUS
<1>2. IsFiniteSet({id}) /\ Cardinality({id}) = 1
  BY FS_Singleton
<1>3. Cardinality(DOMAIN tab) <= 1
  BY <1>1, <1>2, FS_Subset
<1>4. Cardinality(DOMAIN tab) \in Nat
  BY FS_CardinalityType DEF IsTable
<1>5. QED
  BY <1>3, <1>4 DEF Count

\* One row at most: it is the current one.
LEMMA CountAtMostOne ==
    ASSUME NEW Row, NEW tab, IsTable(tab, Row), ~ (Count(tab) > 1)
    PROVE  \A x \in DOMAIN tab : x = CurrentId(tab)
<1>1. SUFFICES ASSUME NEW x \in DOMAIN tab, x # CurrentId(tab) PROVE FALSE
  OBVIOUS
<1>2. IsFiniteSet(DOMAIN tab) /\ Cardinality(DOMAIN tab) \in Nat
  BY FS_CardinalityType DEF IsTable
<1>3. CurrentId(tab) \in DOMAIN tab
  BY <1>1, CurrentIdFact
<1>4. Cardinality(DOMAIN tab) # 0
  BY <1>1, <1>2, FS_EmptySet
<1>5. Cardinality(DOMAIN tab) = 1
  BY <1>2, <1>4 DEF Count
<1>6. \E y : DOMAIN tab = {y}
  BY <1>2, <1>5, FS_Singleton
<1>7. QED
  BY <1>1, <1>3, <1>6

-----------------------------------------------------------------------------

\* A key that is due for rotation is past the grace period, when the rotation
\* interval is no shorter than the grace period.
LEMMA DueIsPastGrace ==
    ASSUME RotationSecs >= GraceSecs, NEW ts \in Nat, NEW t \in Nat, ts <= t,
           (t - ts) \div 1000 > RotationSecs
    PROVE  PastGrace(ts, t)
<1>1. RotationSecs \in Nat /\ GraceSecs \in Nat
  BY IntervalsAssumption
<1>2. (t \div 1000) - (ts \div 1000) >= (t - ts) \div 1000
  OBVIOUS
<1>3. QED
  BY <1>1, <1>2 DEF PastGrace

\* Once past the grace period, always so.
LEMMA PastGraceLasts ==
    ASSUME NEW ts \in Nat, NEW t \in Nat, NEW u \in Nat, t <= u,
           PastGrace(ts, t)
    PROVE  PastGrace(ts, u)
<1>1. GraceSecs \in Nat
  BY IntervalsAssumption
<1>2. t \div 1000 <= u \div 1000
  OBVIOUS
<1>3. QED
  BY <1>1, <1>2 DEF PastGrace
=============================================================================
