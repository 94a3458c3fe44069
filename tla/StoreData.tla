----------------------------- MODULE StoreData -----------------------------
(***************************************************************************)
(* What the storage back ends keep: protocol addresses, session records,   *)
(* identity keys, the local identity, one-time pre-keys, and the signed    *)
(* and Kyber pre-keys, of which only the time of the record matters here.  *)
(*                                                                         *)
(* A name is the sequence of its parts between colons, because the         *)
(* in-memory back end joins the name and the device number with a colon.   *)
(***************************************************************************)
EXTENDS Tables, Sequences

CONSTANTS
    Parts,            \* pieces of text without a colon
    Names,            \* names of protocol addresses
    Devices,          \* device numbers, as text: they hold no colon
    SessionRecords,   \* serialised sessions
    IdentityKeys,     \* public identity keys of peers
    KeyPairs,         \* local identity key pairs
    RegistrationIds,  \* registration ids, u32
    Unset,            \* the None of the local identity
    KeyIds,           \* ids of one-time, signed and Kyber pre-keys
    PreKeyPairs,      \* key pairs of one-time pre-keys
    Times             \* times of signed and Kyber records, in milliseconds

ASSUME AddressAssumption ==
    /\ Names \subseteq Seq(Parts)
    /\ Devices \subseteq Parts

ASSUME LocalAssumption ==
    /\ RegistrationIds \subseteq Nat
    /\ Unset \notin Nat
    /\ Unset \notin KeyPairs

ASSUME KeyAssumption ==
    /\ KeyIds \subseteq Nat \ {0}
    /\ Times \subseteq Nat

Addresses == Names \X Devices

\* The tables whose keys are in Keys and whose rows are in Rows.
TablesOf(Keys, Rows) == UNION {[K -> Rows] : K \in SUBSET Keys}

\* Option<row>: the row under this key, if there is one.
Get(tab, key) == {tab[x] : x \in DOMAIN tab \cap {key}}

\* Option<id>: the highest id, if there is one.
MaxId(tab) == {id \in DOMAIN tab : \A x \in DOMAIN tab : x <= id}
=============================================================================
