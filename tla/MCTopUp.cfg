CONSTANTS
    Users = {u1, u2}
    Topups = {t1}
    Refs = {t1}
    Amounts = {1, 2, 4}
    MinTopup = 2
    MaxTopup = 3
    Deliveries = {d1, d2}
    Faults = {"db", "ack", "provider", "ctx", "dup", "async", "crash"}
SYMMETRY Symmetric
CHECK_DEADLOCK FALSE
SPECIFICATION Spec
INVARIANTS
    TypeOK
    FlagMatchesLedger
    StripeAckIsRecorded
    OneApplierPerEvent
PROPERTIES
    KeepsFundingContract
