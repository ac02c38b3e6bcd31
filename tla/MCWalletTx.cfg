CONSTANTS
    Users = {u1, u2}
    Refs = {p1}
    Amounts = {1, 2}
    Txs = {t1, t2, t3}
    NoTx = NoTx
SPECIFICATION Spec
INVARIANTS
    TypeOK
    TopupOnce
PROPERTIES
    RefinesWallet
    EveryCallReturns
