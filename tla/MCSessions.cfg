CONSTANTS
    t1 = t1
    p1 = p1
    p2 = p2
    Tabs = {t1, t2}
    Pages = {p1, p2, p3}
    TabOf <- MCTabOf
    Tokens = {k1, k2, k3}
    NoToken = NoToken
    User = User
    Faults = {"db", "net", "ttl", "again"}
SPECIFICATION FairSpec
INVARIANTS
    TypeOK
    LiveIsHeld
PROPERTIES
    NoSpuriousSignOut
    EveryRequestReturns
