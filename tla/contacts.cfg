SPECIFICATION Spec
CONSTANTS
    Handles = {h1, h2}
    IdentityKeys = {k1, k2}
    Salt = salt
    Prefix = prefix
    Aliases = {al}
    NoAlias = noAlias
    Pubkeys = {p1, p2}
    Builds = {"on", "off"}
    MaxNow = 1
    MaxFaults = 1
INVARIANTS
    TypeOK
    OneOwnerPerPubkey
    DependentsHaveContact
PROPERTIES
    MappingLostOnlyInRace
    ReAddKeepsDependents
    AddTakesEffect
