CONSTANTS
    Users = {u1}
    Requests = {r1}
    Topups = {t1}
    Deposit = deposit
    Refs = {r1, t1, deposit}
    Amounts = {0}
    TopupAmounts = {3}
    Plans = {p1}
    Quantities = {2}
    Prices = {1}
    Minima = {2}
    MaxSyncs = 0
    Faults = {"refused", "lost"}
    MinTopup = 2
    MaxTopup = 3
    Deliveries = {d1, d2}
    TopupFaults = {"dup", "provider"}
CHECK_DEADLOCK FALSE
SPECIFICATION BillingFairSpec
INVARIANTS
    EveryCentAccounted
PROPERTIES
    MoneySettles
