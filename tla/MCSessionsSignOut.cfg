CONSTANTS
    t1 = t1
    p1 = p1
    p2 = p2
    Tabs = {t1}
    Pages = {p1, p2}
    TabOf <- MCTabOf
    Tokens = {k1, k2, k3}
    NoToken = NoToken
    User = User
    Faults = {}
SPECIFICATION FairSpec
PROPERTIES
    SignOutRevokes
