SPECIFICATION Spec
CONSTANTS
    Parts = {"alice", "1"}
    Names <- MCNames
    Devices = {"1"}
    SessionRecords = {s1}
    IdentityKeys = {k1, k2}
    KeyPairs = {p1}
    RegistrationIds = {7}
    Unset = unset
    KeyIds = {1, 2, 3}
    PreKeyPairs = {q1}
    Times = {1000, 1900, 2500}
    Versions = {1, 2}
    NoRow = noRow
    EmptyBlob = emptyBlob
    MaxSchemas = 2
    Cutoffs = {1500, 1900, 2600}
    MaxRows = 3
INVARIANTS
    TypeOK
    SameAnswers
    ExpiredWithinSecond
    CleanupKeepsKey
PROPERTIES
    MemoryImplementsTraits
    SqliteImplementsTraits
    SchemaVersionKept
    FrozenOnceClosed
