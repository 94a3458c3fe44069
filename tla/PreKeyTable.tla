---------------------------- MODULE PreKeyTable ----------------------------
(***************************************************************************)
(* The rows of the SQLite tables signed_pre_keys, kyber_pre_keys and       *)
(* pre_keys, and the age arithmetic of key_rotation.rs over them.          *)
(*                                                                         *)
(* Times are milliseconds since the epoch, as in the libsignal records;    *)
(* the column created_at keeps whole seconds, and the 7 day intervals are  *)
(* given in seconds.                                                       *)
(***************************************************************************)
EXTENDS Tables, FiniteSetsExt

CONSTANTS
    TwoTo64,        \* the modulus of the code's u64 clock arithmetic
    RotationSecs,   \* ROTATION_INTERVAL_SECS, key_rotation.rs:18
    GraceSecs       \* GRACE_PERIOD_SECS, key_rotation.rs:20

ASSUME IntervalsAssumption ==
    /\ RotationSecs \in Nat
    /\ GraceSecs \in Nat
    /\ TwoTo64 \in Nat
    /\ GraceSecs * 1000 < TwoTo64

\* SELECT MAX(id): the callers turn the NULL of an empty table into id 0.
CurrentId(tab) == IF DOMAIN tab = {} THEN 0 ELSE Max(DOMAIN tab)

\* SELECT without ORDER BY scans an integer-keyed table in id order.
FirstInScan(ids) == Min(ids)

\* Subtraction of two u64 values in a build without overflow checks.
WrappingSub(a, b) == IF a >= b THEN a - b ELSE (a - b) + TwoTo64

\* The subtraction of signed_ / kyber_pre_key_needs_rotation goes below zero.
AgeUnderflows(tab, t) == DOMAIN tab # {} /\ t < tab[CurrentId(tab)].ts

\* Not the code: an age equal to the interval is enough.
NeedsRotationAtInterval(tab, t) ==
    DOMAIN tab # {} =>
        WrappingSub(t, tab[CurrentId(tab)].ts) \div 1000 >= RotationSecs

\* Not the code: an empty table needs no rotation.
NeedsRotationUnlessEmpty(tab, t) ==
    /\ DOMAIN tab # {}
    /\ WrappingSub(t, tab[CurrentId(tab)].ts) \div 1000 > RotationSecs

\* signed_ / kyber_pre_key_needs_rotation: without a key, or with one too old.
NeedsRotation(tab, t) ==
    DOMAIN tab # {} =>
        WrappingSub(t, tab[CurrentId(tab)].ts) \div 1000 > RotationSecs

\* The subtraction that computes the cutoff goes below zero.
CutoffUnderflows(t) == t < GraceSecs * 1000

Cutoff(t) == WrappingSub(t, GraceSecs * 1000)

\* SELECT id ... WHERE created_at < cutoff, both in whole seconds.
OlderThan(tab, cutoff) ==
    {id \in DOMAIN tab : tab[id].ts \div 1000 < cutoff \div 1000}

\* More whole seconds than the grace period lie between ts and t.
PastGrace(ts, t) == (t \div 1000) - (ts \div 1000) > GraceSecs
=============================================================================
