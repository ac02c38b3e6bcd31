CONSTANTS
    Users = {u1}
    Requests = {r1}
    Deposit = deposit
    Refs = {r1, deposit}
    Amounts = {0, 3}
    Plans = {p1}
    Quantities = {2}
    Prices = {1}
    Minima = {2}
    MaxSyncs = 0
    Faults = {"ctx"}
CHECK_DEADLOCK FALSE
SPECIFICATION Spec
INVARIANTS
    FailureIsRefunded
