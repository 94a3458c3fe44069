SPECIFICATION Spec
CONSTANTS
    Handles = {h1}
    IdentityKeys = {k1}
    Salt = salt
    Prefix = prefix
    Aliases = {al}
    NoAlias = noAlias
    Pubkeys = {p1}
    Builds = {"on"}
    MaxNow = 1
    MaxFaults = 0
PROPERTIES
    AliasUpdatedOnlyIfProvided
