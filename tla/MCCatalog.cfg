CONSTANTS
    Codes = {k1, k2}
    Seed = {k1}
    Prices = {13, 50}
    Markups = {115}
    FallShort <- MCFallShort
    Syncs = {s1, s2}
    Readers = {r1}
    MaxChanges = 1
    NoList = NoList
    Faults = {"vault", "db", "redis"}
SPECIFICATION FairSpec
INVARIANTS
    TypeOK
    NeverWithdrawn
    PricedByMarkup
PROPERTIES
    SyncMirrorsOffer
    CacheCatchesUp
