CONSTANTS
    Users = {u1, u2}
    Requests = {r1, r2}
    Deposit = deposit
    Refs = {r1, r2, deposit}
    Amounts = {0, 3}
    Plans = {p1}
    Quantities = {1, 2}
    Prices = {0, 1}
    Minima = {2}
    MaxSyncs = 1
    Faults = {"db", "ack", "refused", "lost", "ctx", "crash"}
SYMMETRY Symmetric
CHECK_DEADLOCK FALSE
SPECIFICATION Spec
INVARIANTS
    TypeOK
    NonNegative
    LedgerChain
    ServiceIsPaid
    StatusTruth
    ReplyTruth
    QuoteIsCharged
PROPERTIES
    KeepsPurchaseContract
