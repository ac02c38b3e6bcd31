CONSTANTS
    Users = {u1}
    Topups = {t1}
    Refs = {t1}
    Amounts = {2}
    MinTopup = 2
    MaxTopup = 3
    Deliveries = {d1, d2}
    Faults = {"db"}
CHECK_DEADLOCK FALSE
SPECIFICATION FairSpec
PROPERTIES
    ReceivedIsCredited
