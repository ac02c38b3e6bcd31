---------------------------- MODULE Billing_proofs ----------------------------
(***************************************************************************)
(* Safety of POST /orders for any number of requests, customers, plans and *)
(* prices and for every set of faults: types, the wallet, what an order's  *)
(* status and the client's answer say about money and service, that what   *)
(* is charged is what was quoted, and that OrderFlow implements Purchase.  *)
(* Then Billing: orders and top-ups on the same wallets keep all this, and *)
(* the books balance.  Last, what holds while the store answers.           *)
(*                                                                         *)
(* The inductive invariant of the orders is Sound, one line per step of    *)
(* the handler: it says which of the handler's effects have happened when  *)
(* the handler is at that step.  It refers to each request's own rows      *)
(* only, so a step of one request cannot disturb it for another (lemma     *)
(* Others), and a row for a payment disturbs none (lemma PaymentRows).     *)
(***************************************************************************)
EXTENDS Billing, Wallet_proofs, FiniteSetTheorems

-----------------------------------------------------------------------------
(* OrderFlow by itself                                                       *)

BeforeCharge == {"start", "create", "debit", "cancel"}
AfterCharge == {"mark", "provision", "refund", "fail", "save", "activate"}

\* The handler q, its order row o, and whether VaultProxies serves the order,
\* its credentials are stored, the wallet was charged and refunded for it.
Sound(q, o, serviced, stored, charged, refunded) ==
    /\ o.user = q.user
    /\ o.status # "none" => o.total = q.total
    /\ q.pc \in {"start", "create"} => o.status = "none"
    /\ q.pc \in {"debit", "cancel"} => o.status = "pending"
    /\ q.pc \in AfterCharge => o.status \in {"pending", "provisioning"} /\ charged
    /\ q.pc \in BeforeCharge => ~charged
    /\ q.pc \in {"mark", "provision"} => ~serviced
    /\ q.pc \in {"save", "activate"} => serviced
    /\ q.pc \in {"mark", "provision", "refund", "save", "activate"} => ~refunded
    /\ q.pc \in {"mark", "provision", "refund", "fail", "save"} => ~stored
    /\ q.pc # "done" => q.reply = "none"
    /\ serviced => charged
    /\ stored => serviced /\ ~refunded
    /\ refunded => charged /\ o.status \in {"pending", "provisioning", "failed"}
    /\ charged => o.status \in {"pending", "provisioning", "active", "failed"}
    /\ o.status \in {"provisioning", "failed", "active"} => charged
    /\ o.status = "active" => serviced /\ ~refunded
    /\ o.status = "failed" => ~stored
    /\ o.ref <=> o.status = "active"
    /\ q.reply = "400" => o.status = "none"
    /\ q.reply = "402" => ~charged /\ o.status \in {"pending", "cancelled"}
    /\ q.reply = "201" => charged /\ ~refunded /\ serviced
    /\ q.reply = "502" => charged /\ ~stored
    /\ q.reply = "500" => ~serviced

SoundFor(r) == Sound(req[r], orders[r], r \in services, r \in proxies, Charged(r), Refunded(r))

AllSound == \A r \in Requests : SoundFor(r)

Inv == TypeOK /\ NonNegative /\ LedgerChain /\ AllSound

\* The rows of every other request are left alone.
LEMMA Others ==
    ASSUME NEW r \in Requests, NEW s \in Requests \ {r}, SoundFor(s),
           req'[s] = req[s], orders'[s] = orders[s],
           s \in services' <=> s \in services,
           s \in proxies' <=> s \in proxies,
           Charged(s)' <=> Charged(s),
           Refunded(s)' <=> Refunded(s)
    PROVE  SoundFor(s)'
BY DEF SoundFor, Sound

\* A step that moves no money changes no order's charge and refund.
LEMMA NoMove ==
    ASSUME UNCHANGED walletVars, NEW r \in Requests, orders'[r].user = orders[r].user
    PROVE  (Charged(r)' <=> Charged(r)) /\ (Refunded(r)' <=> Refunded(r))
BY DEF walletVars, Charged, Refunded, HasEntry, IsEntry

LEMMA WalletStays ==
    ASSUME Inv, UNCHANGED walletVars
    PROVE  WalletTypeOK' /\ NonNegative' /\ LedgerChain'
BY WalletUnchanged DEF Inv, TypeOK

-----------------------------------------------------------------------------
LEMMA InitInv == Init => Inv
<1> SUFFICES ASSUME Init PROVE Inv
    OBVIOUS
<1> USE OrderFlowAssumption, AmountsAssumption
<1>1. balance \in [Users -> Nat]
    BY DEF Init
<1>2. \A u \in Users : Len(ledger[u]) \in {0, 1}
    BY DEF Init
<1>3. WalletTypeOK
    <2>1. ASSUME NEW u \in Users PROVE ledger[u] \in Seq(Entry)
        <3>1. CASE balance[u] = 0
            BY <3>1 DEF Init
        <3>2. CASE balance[u] # 0
            <4> DEFINE e == [kind |-> "topup", amount |-> balance[u],
                             after |-> balance[u], reference |-> Deposit]
            <4>1. e \in Entry
                BY <1>1 DEF Entry, Kinds
            <4>2. ledger[u] = << e >>
                BY <3>2 DEF Init
            <4> QED BY <4>1, <4>2
        <3> QED BY <3>1, <3>2
    <2>2. ledger = [u \in Users |-> ledger[u]]
        BY DEF Init
    <2> QED BY <1>1, <2>1, <2>2 DEF WalletTypeOK
<1>4. NonNegative /\ LedgerChain
    BY <1>1 DEF Init, NonNegative, LedgerChain, BalanceBefore
<1>5. req \in [Requests -> Request]
    <2> DEFINE New == [pc : {"start"}, user : Users, total : {0},
                       live : {TRUE}, reply : {"none"}]
    <2>1. ASSUME NEW q \in New PROVE q \in Request
        <3>1. q = [pc |-> q.pc, user |-> q.user, total |-> q.total,
                   live |-> q.live, reply |-> q.reply]
            OBVIOUS
        <3>2. /\ q.pc \in {"start"} /\ q.user \in Users /\ q.total \in {0}
              /\ q.live \in {TRUE} /\ q.reply \in {"none"}
            OBVIOUS
        <3>3. q.live \in BOOLEAN
            BY <3>2, Zenon
        <3>4. q.pc \in Steps /\ q.total \in Nat /\ q.reply \in Replies
            BY <3>2 DEF Steps, Replies
        <3> HIDE DEF New
        <3> QED BY <3>1, <3>2, <3>3, <3>4 DEF Request
    <2>2. req \in [Requests -> New]
        BY DEF Init
    <2> HIDE DEF New
    <2> QED BY <2>1, <2>2
<1>6. orders \in [Requests -> Order]
    BY <1>5 DEF Init, Order, Statuses, Request
<1>7. TypeOK
    BY <1>3, <1>5, <1>6 DEF Init, TypeOK
<1>8. ASSUME NEW r \in Requests PROVE SoundFor(r)
    <2>1. \A u \in Users : \A i \in 1 .. Len(ledger[u]) : ledger[u][i].reference = Deposit
        BY DEF Init
    <2>2. orders[r].user \in Users
        BY <1>6 DEF Order
    <2>3. ~Charged(r) /\ ~Refunded(r)
        BY <2>1, <2>2 DEF Charged, Refunded, HasEntry, IsEntry
    <2> QED BY <2>3 DEF Init, SoundFor, Sound, AfterCharge, BeforeCharge
<1> QED BY <1>4, <1>7, <1>8 DEF Inv, AllSound

\* What every step of request r has to establish: its own rows are sound
\* again, and it has left the others' alone.
LEMMA OneRequest ==
    ASSUME Inv, NEW r \in Requests,
           TypeOK', NonNegative', LedgerChain',
           SoundFor(r)',
           \A s \in Requests \ {r} :
              /\ req'[s] = req[s] /\ orders'[s] = orders[s]
              /\ (s \in services' <=> s \in services) /\ (s \in proxies' <=> s \in proxies)
              /\ (Charged(s)' <=> Charged(s)) /\ (Refunded(s)' <=> Refunded(s))
    PROVE  Inv'
<1>1. \A s \in Requests \ {r} : SoundFor(s)'
    BY Others DEF Inv, AllSound
<1> QED BY <1>1 DEF Inv, AllSound

\* A step of request r that moves no money.
LEMMA QuietStep ==
    ASSUME Inv, NEW r \in Requests, UNCHANGED walletVars, TypeOK',
           orders'[r].user = orders[r].user,
           \A s \in Requests \ {r} :
              /\ req'[s] = req[s] /\ orders'[s] = orders[s]
              /\ (s \in services' <=> s \in services) /\ (s \in proxies' <=> s \in proxies),
           Sound(req'[r], orders'[r], r \in services', r \in proxies', Charged(r), Refunded(r))
    PROVE  Inv'
<1>1. NonNegative' /\ LedgerChain'
    BY WalletStays
<1>2. \A s \in Requests : (Charged(s)' <=> Charged(s)) /\ (Refunded(s)' <=> Refunded(s))
    BY NoMove
<1>3. SoundFor(r)'
    BY <1>2 DEF SoundFor, Sound
<1> QED BY <1>1, <1>2, <1>3, OneRequest

LEMMA CreateOrderInv ==
    ASSUME Inv, NEW r \in Requests, CreateOrder(r)
    PROVE  Inv'
<1>1. req[r] \in Request /\ orders[r] \in Order /\ At(r, "create") /\ SoundFor(r)
    BY DEF Inv, TypeOK, AllSound, CreateOrder
<1>2. /\ req' = [req EXCEPT ![r].pc = "debit"]
         \/ req' = [req EXCEPT ![r].pc = "done", ![r].reply = "500"]
      /\ \/ orders' = [orders EXCEPT ![r].status = "pending", ![r].total = req[r].total]
         \/ orders' = orders /\ req' = [req EXCEPT ![r].pc = "done", ![r].reply = "500"]
    BY DEF CreateOrder, Goto, Answer, Committed
<1>3. req' \in [Requests -> Request]
    BY <1>1, <1>2 DEF Inv, TypeOK, Request, Steps, Replies
<1>4. orders' \in [Requests -> Order]
    BY <1>1, <1>2 DEF Inv, TypeOK, Order, Statuses, Request
<1>5. TypeOK'
    BY <1>3, <1>4 DEF Inv, TypeOK, WalletTypeOK, CreateOrder
<1>6. Sound(req'[r], orders'[r], r \in services', r \in proxies', Charged(r), Refunded(r))
    BY <1>1, <1>2 DEF Inv, TypeOK, CreateOrder, SoundFor, Sound, BeforeCharge, AfterCharge, At, Order, Request
<1> QED BY <1>1, <1>2, <1>5, <1>6, QuietStep DEF Inv, TypeOK, CreateOrder, walletVars

LEMMA CancelOrderInv ==
    ASSUME Inv, NEW r \in Requests, CancelOrder(r)
    PROVE  Inv'
<1>1. req[r] \in Request /\ orders[r] \in Order /\ req[r].pc = "cancel" /\ SoundFor(r)
    BY DEF Inv, TypeOK, AllSound, CancelOrder, At
<1>2. req' = [req EXCEPT ![r].pc = "done", ![r].reply = "402"]
    BY DEF CancelOrder, Goto, Answer
<1>3. orders' = [orders EXCEPT ![r].status = "cancelled"] \/ orders' = orders
    BY DEF CancelOrder, SetStatus, Committed
<1>4. req' \in [Requests -> Request]
    BY <1>1, <1>2 DEF Inv, TypeOK, Request, Steps, Replies
<1>5. orders' \in [Requests -> Order]
    BY <1>1, <1>3 DEF Inv, TypeOK, Order, Statuses
<1>6. TypeOK'
    BY <1>4, <1>5 DEF Inv, TypeOK, WalletTypeOK, CancelOrder
<1>7. Sound(req'[r], orders'[r], r \in services', r \in proxies', Charged(r), Refunded(r))
    BY <1>1, <1>2, <1>3
       DEF Inv, TypeOK, CancelOrder, SoundFor, Sound, BeforeCharge, AfterCharge, Order, Request
<1>8. /\ orders'[r].user = orders[r].user
      /\ \A s \in Requests \ {r} : req'[s] = req[s] /\ orders'[s] = orders[s]
    BY <1>2, <1>3 DEF Inv, TypeOK, Order
<1>9. UNCHANGED <<walletVars, services, proxies>>
    BY DEF CancelOrder, walletVars
<1> QED BY <1>6, <1>7, <1>8, <1>9, QuietStep

LEMMA MarkProvisioningInv ==
    ASSUME Inv, NEW r \in Requests, MarkProvisioning(r)
    PROVE  Inv'
<1>1. req[r] \in Request /\ orders[r] \in Order /\ req[r].pc = "mark" /\ SoundFor(r)
    BY DEF Inv, TypeOK, AllSound, MarkProvisioning, At
<1>2. req' = [req EXCEPT ![r].pc = "provision"]
    BY DEF MarkProvisioning, Goto, Answer
<1>3. orders' = [orders EXCEPT ![r].status = "provisioning"] \/ orders' = orders
    BY DEF MarkProvisioning, SetStatus, Committed
<1>4. req' \in [Requests -> Request]
    BY <1>1, <1>2 DEF Inv, TypeOK, Request, Steps, Replies
<1>5. orders' \in [Requests -> Order]
    BY <1>1, <1>3 DEF Inv, TypeOK, Order, Statuses
<1>6. TypeOK'
    BY <1>4, <1>5 DEF Inv, TypeOK, WalletTypeOK, MarkProvisioning
<1>7. Sound(req'[r], orders'[r], r \in services', r \in proxies', Charged(r), Refunded(r))
    BY <1>1, <1>2, <1>3
       DEF Inv, TypeOK, MarkProvisioning, SoundFor, Sound, BeforeCharge, AfterCharge, Order, Request
<1>8. /\ orders'[r].user = orders[r].user
      /\ \A s \in Requests \ {r} : req'[s] = req[s] /\ orders'[s] = orders[s]
    BY <1>2, <1>3 DEF Inv, TypeOK, Order
<1>9. UNCHANGED <<walletVars, services, proxies>>
    BY DEF MarkProvisioning, walletVars
<1> QED BY <1>6, <1>7, <1>8, <1>9, QuietStep

LEMMA MarkFailedInv ==
    ASSUME Inv, NEW r \in Requests, MarkFailed(r)
    PROVE  Inv'
<1>1. req[r] \in Request /\ orders[r] \in Order /\ req[r].pc = "fail" /\ SoundFor(r)
    BY DEF Inv, TypeOK, AllSound, MarkFailed, At
<1>2. req' = [req EXCEPT ![r].pc = "done", ![r].reply = "502"]
    BY DEF MarkFailed, Goto, Answer
<1>3. orders' = [orders EXCEPT ![r].status = "failed"] \/ orders' = orders
    BY DEF MarkFailed, SetStatus, Committed
<1>4. req' \in [Requests -> Request]
    BY <1>1, <1>2 DEF Inv, TypeOK, Request, Steps, Replies
<1>5. orders' \in [Requests -> Order]
    BY <1>1, <1>3 DEF Inv, TypeOK, Order, Statuses
<1>6. TypeOK'
    BY <1>4, <1>5 DEF Inv, TypeOK, WalletTypeOK, MarkFailed
<1>7. Sound(req'[r], orders'[r], r \in services', r \in proxies', Charged(r), Refunded(r))
    BY <1>1, <1>2, <1>3
       DEF Inv, TypeOK, MarkFailed, SoundFor, Sound, BeforeCharge, AfterCharge, Order, Request
<1>8. /\ orders'[r].user = orders[r].user
      /\ \A s \in Requests \ {r} : req'[s] = req[s] /\ orders'[s] = orders[s]
    BY <1>2, <1>3 DEF Inv, TypeOK, Order
<1>9. UNCHANGED <<walletVars, services, proxies>>
    BY DEF MarkFailed, walletVars
<1> QED BY <1>6, <1>7, <1>8, <1>9, QuietStep

LEMMA ActivateInv ==
    ASSUME Inv, NEW r \in Requests, Activate(r)
    PROVE  Inv'
<1>1. req[r] \in Request /\ orders[r] \in Order /\ req[r].pc = "activate" /\ SoundFor(r)
    BY DEF Inv, TypeOK, AllSound, Activate, At
<1>2. req' = [req EXCEPT ![r].pc = "done", ![r].reply = "201"]
    BY DEF Activate, Goto, Answer
<1>3. orders' = [orders EXCEPT ![r].status = "active", ![r].ref = TRUE] \/ orders' = orders
    BY DEF Activate, SetStatus, Committed
<1>4. req' \in [Requests -> Request]
    BY <1>1, <1>2 DEF Inv, TypeOK, Request, Steps, Replies
<1>5. orders' \in [Requests -> Order]
    BY <1>1, <1>3 DEF Inv, TypeOK, Order, Statuses
<1>6. TypeOK'
    BY <1>4, <1>5 DEF Inv, TypeOK, WalletTypeOK, Activate
<1>7. Sound(req'[r], orders'[r], r \in services', r \in proxies', Charged(r), Refunded(r))
    BY <1>1, <1>2, <1>3
       DEF Inv, TypeOK, Activate, SoundFor, Sound, BeforeCharge, AfterCharge, Order, Request
<1>8. /\ orders'[r].user = orders[r].user
      /\ \A s \in Requests \ {r} : req'[s] = req[s] /\ orders'[s] = orders[s]
    BY <1>2, <1>3 DEF Inv, TypeOK, Order
<1>9. UNCHANGED <<walletVars, services, proxies>>
    BY DEF Activate, walletVars
<1> QED BY <1>6, <1>7, <1>8, <1>9, QuietStep

LEMMA ReadPlanInv ==
    ASSUME Inv, NEW r \in Requests, ReadPlan(r)
    PROVE  Inv'
<1>1. req[r] \in Request /\ orders[r] \in Order /\ req[r].pc = "start" /\ SoundFor(r)
    BY DEF Inv, TypeOK, AllSound, ReadPlan, At
<1>2. \/ \E p \in Plans, q \in Quantities :
            req' = [req EXCEPT ![r].pc = "create", ![r].total = plans[p].price * q]
      \/ req' = [req EXCEPT ![r].pc = "done", ![r].reply = "400"]
    BY DEF ReadPlan, Answer
<1>3. \A p \in Plans, q \in Quantities : plans[p].price * q \in Nat
    <2>1. \A p \in Plans : plans[p].price \in Nat
        BY OrderFlowAssumption DEF Inv, TypeOK, Plan
    <2>2. \A a, b \in Nat : a * b \in Nat
        OBVIOUS
    <2> QED BY <2>1, <2>2, OrderFlowAssumption
<1>4. PICK total \in Nat :
         \/ req' = [req EXCEPT ![r].pc = "create", ![r].total = total]
         \/ req' = [req EXCEPT ![r].pc = "done", ![r].reply = "400"]
    BY <1>2, <1>3
<1>5. req' \in [Requests -> Request]
    BY <1>1, <1>4 DEF Inv, TypeOK, Request, Steps, Replies
<1>6. TypeOK'
    BY <1>5 DEF Inv, TypeOK, WalletTypeOK, ReadPlan
<1>7. Sound(req'[r], orders'[r], r \in services', r \in proxies', Charged(r), Refunded(r))
    BY <1>1, <1>4
       DEF Inv, TypeOK, ReadPlan, SoundFor, Sound, BeforeCharge, AfterCharge, Order, Request
<1> QED BY <1>4, <1>6, <1>7, QuietStep DEF Inv, TypeOK, ReadPlan, walletVars

LEMMA ProvisionInv ==
    ASSUME Inv, NEW r \in Requests, Provision(r)
    PROVE  Inv'
<1>1. req[r] \in Request /\ orders[r] \in Order /\ req[r].pc = "provision" /\ SoundFor(r)
    BY DEF Inv, TypeOK, AllSound, Provision, At
<1>2. \/ req' = [req EXCEPT ![r].pc = "save"] /\ services' = services \cup {r}
      \/ req' = [req EXCEPT ![r].pc = "refund"] /\ services' \in {services, services \cup {r}}
    BY DEF Provision, Goto
<1>3. req' \in [Requests -> Request]
    BY <1>1, <1>2 DEF Inv, TypeOK, Request, Steps
<1>4. TypeOK'
    BY <1>2, <1>3 DEF Inv, TypeOK, WalletTypeOK, Provision
<1>5. Sound(req'[r], orders'[r], r \in services', r \in proxies', Charged(r), Refunded(r))
    BY <1>1, <1>2
       DEF Inv, TypeOK, Provision, SoundFor, Sound, BeforeCharge, AfterCharge, Order, Request
<1> QED BY <1>2, <1>4, <1>5, QuietStep DEF Inv, TypeOK, Provision, walletVars

LEMMA SaveProxyInv ==
    ASSUME Inv, NEW r \in Requests, SaveProxy(r)
    PROVE  Inv'
<1>1. req[r] \in Request /\ orders[r] \in Order /\ req[r].pc = "save" /\ SoundFor(r)
    BY DEF Inv, TypeOK, AllSound, SaveProxy, At
<1>2. req' = [req EXCEPT ![r].pc = "activate"] /\ proxies' \in {proxies, proxies \cup {r}}
    BY DEF SaveProxy, Goto
<1>3. req' \in [Requests -> Request]
    BY <1>1, <1>2 DEF Inv, TypeOK, Request, Steps
<1>4. TypeOK'
    BY <1>2, <1>3 DEF Inv, TypeOK, WalletTypeOK, SaveProxy
<1>5. Sound(req'[r], orders'[r], r \in services', r \in proxies', Charged(r), Refunded(r))
    BY <1>1, <1>2
       DEF Inv, TypeOK, SaveProxy, SoundFor, Sound, BeforeCharge, AfterCharge, Order, Request
<1> QED BY <1>2, <1>4, <1>5, QuietStep DEF Inv, TypeOK, SaveProxy, walletVars

LEMMA EndContextInv ==
    ASSUME Inv, NEW r \in Requests, EndContext(r)
    PROVE  Inv'
<1>1. req[r] \in Request /\ orders[r] \in Order /\ SoundFor(r)
    BY DEF Inv, TypeOK, AllSound
<1>2. req' = [req EXCEPT ![r].live = FALSE]
    BY DEF EndContext
<1>3. req' \in [Requests -> Request]
    BY <1>1, <1>2 DEF Inv, TypeOK, Request
<1>4. TypeOK'
    BY <1>2, <1>3 DEF Inv, TypeOK, WalletTypeOK, EndContext
<1>5. Sound(req'[r], orders'[r], r \in services', r \in proxies', Charged(r), Refunded(r))
    BY <1>1, <1>2
       DEF Inv, TypeOK, EndContext, SoundFor, Sound, BeforeCharge, AfterCharge, Order, Request
<1> QED BY <1>2, <1>4, <1>5, QuietStep DEF Inv, TypeOK, EndContext, walletVars

\* The charge commits: this order, and no other, gets its debit row.
LEMMA DebitStep ==
    ASSUME Inv, NEW r \in Requests, req[r].pc = "debit",
           Debit(req[r].user, req[r].total, r)
    PROVE  /\ WalletTypeOK' /\ NonNegative' /\ LedgerChain'
           /\ \A s \in Requests : orders'[s].user = orders[s].user =>
                 /\ Charged(s)' <=> Charged(s) \/ s = r
                 /\ Refunded(s)' <=> Refunded(s)
<1>1. /\ req[r].user \in Users /\ req[r].total \in Int /\ r \in Refs
      /\ orders[r].user = req[r].user
      /\ \A s \in Requests : orders[s].user \in Users
    BY OrderFlowAssumption DEF Inv, TypeOK, AllSound, SoundFor, Sound, Request, Order
<1>2. WalletTypeOK' /\ NonNegative' /\ LedgerChain'
    BY <1>1, DebitKeeps DEF Inv, TypeOK
<1>3. Move(req[r].user, "debit", -req[r].total, r) /\ "debit" \in Kinds /\ -req[r].total \in Int
    BY <1>1 DEF Debit, Kinds
<1>4. \A v \in Users, k \in Kinds, p \in Refs :
         HasEntry(v, k, p)' <=> HasEntry(v, k, p) \/ (v = req[r].user /\ k = "debit" /\ p = r)
    BY <1>1, <1>3, MoveEntries DEF Inv, TypeOK
<1>5. ASSUME NEW s \in Requests, orders'[s].user = orders[s].user
      PROVE  (Charged(s)' <=> Charged(s) \/ s = r) /\ (Refunded(s)' <=> Refunded(s))
    <2>1. s \in Refs /\ orders[s].user \in Users /\ {"debit", "refund"} \subseteq Kinds
        BY <1>1, OrderFlowAssumption DEF Kinds
    <2> QED BY <1>1, <1>4, <1>5, <2>1 DEF Charged, Refunded
<1> QED BY <1>2, <1>5

\* The refund commits: this order, and no other, gets its refund row.
LEMMA RefundStep ==
    ASSUME Inv, NEW r \in Requests,
           Credit(req[r].user, "refund", req[r].total, r)
    PROVE  /\ WalletTypeOK' /\ NonNegative' /\ LedgerChain'
           /\ \A s \in Requests : orders'[s].user = orders[s].user =>
                 /\ Charged(s)' <=> Charged(s)
                 /\ Refunded(s)' <=> Refunded(s) \/ s = r
<1>1. /\ req[r].user \in Users /\ req[r].total \in Int /\ r \in Refs
      /\ orders[r].user = req[r].user
      /\ \A s \in Requests : orders[s].user \in Users
      /\ {"debit", "refund"} \subseteq Kinds
    BY OrderFlowAssumption DEF Inv, TypeOK, AllSound, SoundFor, Sound, Request, Order, Kinds
<1>2. WalletTypeOK' /\ NonNegative' /\ LedgerChain'
    BY <1>1, CreditKeeps DEF Inv, TypeOK
<1>3. Move(req[r].user, "refund", req[r].total, r)
    BY DEF Credit
<1>4. \A v \in Users, k \in Kinds, p \in Refs :
         HasEntry(v, k, p)' <=> HasEntry(v, k, p) \/ (v = req[r].user /\ k = "refund" /\ p = r)
    BY <1>1, <1>3, MoveEntries DEF Inv, TypeOK
<1>5. ASSUME NEW s \in Requests, orders'[s].user = orders[s].user
      PROVE  (Charged(s)' <=> Charged(s)) /\ (Refunded(s)' <=> Refunded(s) \/ s = r)
    <2>1. s \in Refs /\ orders[s].user \in Users
        BY <1>1, OrderFlowAssumption
    <2> QED BY <1>1, <1>4, <1>5, <2>1 DEF Charged, Refunded
<1> QED BY <1>2, <1>5

LEMMA ChargeWalletInv ==
    ASSUME Inv, NEW r \in Requests, ChargeWallet(r)
    PROVE  Inv'
<1>1. req[r] \in Request /\ orders[r] \in Order /\ req[r].pc = "debit" /\ SoundFor(r)
    BY DEF Inv, TypeOK, AllSound, ChargeWallet, At
<1>2. UNCHANGED <<plans, orders, proxies, services, syncs>>
    BY DEF ChargeWallet
<1>3. \/ /\ Debit(req[r].user, req[r].total, r)
         /\ \/ req' = [req EXCEPT ![r].pc = "mark"]
            \/ req' = [req EXCEPT ![r].pc = "done", ![r].reply = "500"]
      \/ /\ UNCHANGED walletVars
         /\ \/ req' = [req EXCEPT ![r].pc = "cancel"]
            \/ req' = [req EXCEPT ![r].pc = "done", ![r].reply = "500"]
    BY DEF ChargeWallet, Goto, Answer
<1>4. req' \in [Requests -> Request]
    BY <1>1, <1>3 DEF Inv, TypeOK, Request, Steps, Replies
<1>5. \A s \in Requests \ {r} : req'[s] = req[s]
    BY <1>3 DEF Inv, TypeOK
<1>6. CASE UNCHANGED walletVars
    <2>1. TypeOK'
        BY <1>2, <1>4, <1>6 DEF Inv, TypeOK, WalletTypeOK, walletVars
    <2>2. \/ req' = [req EXCEPT ![r].pc = "cancel"]
          \/ req' = [req EXCEPT ![r].pc = "done", ![r].reply = "500"]
        <3>1. ~Debit(req[r].user, req[r].total, r)
            BY <1>1, <1>6 DEF Debit, Move, walletVars, Inv, TypeOK, WalletTypeOK, Request
        <3> QED BY <1>3, <3>1
    <2>3. Sound(req'[r], orders'[r], r \in services', r \in proxies', Charged(r), Refunded(r))
        BY <1>1, <1>2, <2>2
           DEF Inv, TypeOK, SoundFor, Sound, BeforeCharge, AfterCharge, Order, Request
    <2> QED BY <1>2, <1>5, <1>6, <2>1, <2>3, QuietStep
<1>7. CASE Debit(req[r].user, req[r].total, r)
    <2>1. /\ WalletTypeOK' /\ NonNegative' /\ LedgerChain'
          /\ \A s \in Requests : (Charged(s)' <=> Charged(s) \/ s = r)
                                /\ (Refunded(s)' <=> Refunded(s))
        BY <1>1, <1>2, <1>7, DebitStep
    <2>2. TypeOK'
        BY <1>2, <1>4, <2>1 DEF Inv, TypeOK
    <2>3. \/ req' = [req EXCEPT ![r].pc = "mark"]
          \/ req' = [req EXCEPT ![r].pc = "done", ![r].reply = "500"]
        <3>1. ~UNCHANGED walletVars
            BY <1>1, <1>7 DEF Debit, Move, walletVars, Inv, TypeOK, WalletTypeOK, Request
        <3> QED BY <1>3, <3>1
    <2>4. SoundFor(r)'
        BY <1>1, <1>2, <2>1, <2>3
           DEF Inv, TypeOK, SoundFor, Sound, BeforeCharge, AfterCharge, Order, Request
    <2> QED BY <1>2, <1>5, <2>1, <2>2, <2>4, OneRequest
<1> QED BY <1>3, <1>6, <1>7

LEMMA RefundInv ==
    ASSUME Inv, NEW r \in Requests, Refund(r)
    PROVE  Inv'
<1>1. req[r] \in Request /\ orders[r] \in Order /\ req[r].pc = "refund" /\ SoundFor(r)
    BY DEF Inv, TypeOK, AllSound, Refund, At
<1>2. /\ UNCHANGED <<plans, orders, proxies, services, syncs>>
      /\ req' = [req EXCEPT ![r].pc = "fail"]
    BY DEF Refund, Goto
<1>3. Credit(req[r].user, "refund", req[r].total, r) \/ UNCHANGED walletVars
    BY DEF Refund
<1>4. req' \in [Requests -> Request] /\ \A s \in Requests \ {r} : req'[s] = req[s]
    BY <1>1, <1>2 DEF Inv, TypeOK, Request, Steps
<1>5. CASE UNCHANGED walletVars
    <2>1. TypeOK'
        BY <1>2, <1>4, <1>5 DEF Inv, TypeOK, WalletTypeOK, walletVars
    <2>2. Sound(req'[r], orders'[r], r \in services', r \in proxies', Charged(r), Refunded(r))
        BY <1>1, <1>2
           DEF Inv, TypeOK, SoundFor, Sound, BeforeCharge, AfterCharge, Order, Request
    <2> QED BY <1>2, <1>4, <1>5, <2>1, <2>2, QuietStep
<1>6. CASE Credit(req[r].user, "refund", req[r].total, r)
    <2>1. /\ WalletTypeOK' /\ NonNegative' /\ LedgerChain'
          /\ \A s \in Requests : (Charged(s)' <=> Charged(s))
                                /\ (Refunded(s)' <=> Refunded(s) \/ s = r)
        BY <1>2, <1>6, RefundStep
    <2>2. TypeOK'
        BY <1>2, <1>4, <2>1 DEF Inv, TypeOK
    <2>3. SoundFor(r)'
        BY <1>1, <1>2, <2>1
           DEF Inv, TypeOK, SoundFor, Sound, BeforeCharge, AfterCharge, Order, Request
    <2> QED BY <1>2, <1>4, <2>1, <2>2, <2>3, OneRequest
<1> QED BY <1>3, <1>5, <1>6

LEMMA SyncPlanInv ==
    ASSUME Inv, NEW p \in Plans, SyncPlan(p)
    PROVE  Inv'
<1>1. UNCHANGED <<balance, ledger, orders, proxies, services, req>>
    BY DEF SyncPlan
<1>2. plans' \in [Plans -> Plan] /\ syncs' \in 0 .. MaxSyncs
    BY OrderFlowAssumption DEF SyncPlan, Inv, TypeOK
<1>3. TypeOK' /\ NonNegative' /\ LedgerChain'
    BY <1>1, <1>2, WalletStays DEF Inv, TypeOK, walletVars
<1>4. AllSound'
    BY <1>1 DEF Inv, AllSound, SoundFor, Charged, Refunded, HasEntry, IsEntry
<1> QED BY <1>3, <1>4 DEF Inv

LEMMA RestartInv ==
    ASSUME Inv, Restart
    PROVE  Inv'
<1>1. UNCHANGED <<balance, ledger, plans, orders, proxies, services, syncs>>
    BY DEF Restart
<1>2. \A r \in Requests :
         req[r] \in Request /\ req'[r] \in {[req[r] EXCEPT !.pc = "dead"], req[r]}
    BY DEF Restart, Inv, TypeOK
<1>3. \A r \in Requests : req'[r] \in Request
    BY <1>2 DEF Request, Steps
<1>4. req' \in [Requests -> Request]
    BY <1>3 DEF Restart
<1>5. TypeOK' /\ NonNegative' /\ LedgerChain'
    BY <1>1, <1>4, WalletStays DEF Inv, TypeOK, walletVars
<1>6. ASSUME NEW r \in Requests PROVE SoundFor(r)'
    <2>1. SoundFor(r) /\ (Charged(r)' <=> Charged(r)) /\ (Refunded(r)' <=> Refunded(r))
        BY <1>1 DEF Inv, AllSound, Charged, Refunded, HasEntry, IsEntry
    <2>2. CASE req'[r] = req[r]
        BY <1>1, <2>1, <2>2 DEF SoundFor, Sound
    <2>3. CASE req[r].pc \in Running /\ req'[r] = [req[r] EXCEPT !.pc = "dead"]
        <3>1. req'[r].pc = "dead" /\ req'[r].user = req[r].user
              /\ req'[r].total = req[r].total /\ req'[r].reply = req[r].reply
            BY <1>2, <2>3 DEF Request
        <3> QED BY <1>1, <2>1, <2>3, <3>1
                DEF SoundFor, Sound, BeforeCharge, AfterCharge, Running, Steps
    <2> QED BY <2>2, <2>3 DEF Restart
<1> QED BY <1>5, <1>6 DEF Inv, AllSound

-----------------------------------------------------------------------------
LEMMA NextInv == Inv /\ [Next]_vars => Inv'
<1> SUFFICES ASSUME Inv, [Next]_vars PROVE Inv'
    OBVIOUS
<1>1. ASSUME NEW r \in Requests, ReadPlan(r) \/ Handler(r) \/ EndContext(r)
      PROVE  Inv'
    BY <1>1, ReadPlanInv, CreateOrderInv, ChargeWalletInv, CancelOrderInv, MarkProvisioningInv,
       ProvisionInv, RefundInv, MarkFailedInv, SaveProxyInv, ActivateInv, EndContextInv
       DEF Handler
<1>2. CASE \E p \in Plans : SyncPlan(p)
    BY <1>2, SyncPlanInv
<1>3. CASE Restart
    BY <1>3, RestartInv
<1>4. CASE UNCHANGED vars
    BY <1>4 DEF vars, Inv, TypeOK, WalletTypeOK, NonNegative, LedgerChain, BalanceBefore,
                AllSound, SoundFor, Charged, Refunded, HasEntry, IsEntry
<1> QED BY <1>1, <1>2, <1>3, <1>4 DEF Next

\* The inductive invariant holds in every reachable state.
THEOREM Invariance == Spec => []Inv
BY InitInv, NextInv, PTL DEF Spec

\* Every variable of OrderFlow keeps its type.
THEOREM TypeCorrect == Spec => []TypeOK
<1>1. Inv => TypeOK
    BY DEF Inv
<1> QED BY <1>1, Invariance, PTL

\* No number of concurrent orders overdraws a wallet: the conditional UPDATE
\* of store.Debit is enough.
THEOREM NeverOverdrawn == Spec => []NonNegative
<1>1. Inv => NonNegative
    BY DEF Inv
<1> QED BY <1>1, Invariance, PTL

\* The ledger always explains the balance, whatever fails or restarts.
THEOREM LedgerExplains == Spec => []LedgerChain
<1>1. Inv => LedgerChain
    BY DEF Inv
<1> QED BY <1>1, Invariance, PTL

\* No order is served that was not charged first.
THEOREM ServedIsCharged == Spec => []ServiceIsPaid
<1>1. Inv => ServiceIsPaid
    BY DEF Inv, TypeOK, AllSound, SoundFor, Sound, ServiceIsPaid
<1> QED BY <1>1, Invariance, PTL

\* What orders.status says about money, service and credentials is true.
THEOREM StatusIsTrue == Spec => []StatusTruth
<1>1. Inv => StatusTruth
    BY DEF Inv, AllSound, SoundFor, Sound, StatusTruth
<1> QED BY <1>1, Invariance, PTL

\* What the answer to POST /orders says is true.
THEOREM ReplyIsTrue == Spec => []ReplyTruth
<1>1. Inv => ReplyTruth
    BY DEF Inv, AllSound, SoundFor, Sound, ReplyTruth
<1> QED BY <1>1, Invariance, PTL
-----------------------------------------------------------------------------
(* The quote.  A row of an order is its debit or its refund, in the ledger   *)
(* of its customer, and carries the total of the order row.                  *)

QuotedRow(u, row, r) ==
    /\ orders[r].user = u
    /\ row.kind \in {"debit", "refund"}
    /\ row.amount = IF row.kind = "refund" THEN orders[r].total ELSE -orders[r].total

Quoted ==
    \A u \in Users, r \in Requests : \A i \in 1 .. Len(ledger[u]) :
        ledger[u][i].reference = r => QuotedRow(u, ledger[u][i], r)

\* An order that is not charged has no row at all.
LEMMA NoRow ==
    ASSUME Inv, Quoted, NEW r \in Requests, ~Charged(r), NEW u \in Users,
           NEW i \in 1 .. Len(ledger[u])
    PROVE  ledger[u][i].reference # r
<1> SUFFICES ASSUME ledger[u][i].reference = r PROVE FALSE
    OBVIOUS
<1>1. QuotedRow(u, ledger[u][i], r)
    BY DEF Quoted
<1>2. Charged(r) \/ Refunded(r)
    BY <1>1 DEF QuotedRow, Charged, Refunded, HasEntry, IsEntry
<1>3. Refunded(r) => Charged(r)
    BY DEF Inv, AllSound, SoundFor, Sound
<1> QED BY <1>2, <1>3

\* A move for a request whose order row has the total it knows.
LEMMA QuotedMove ==
    ASSUME Inv, Quoted, NEW r \in Requests, orders[r].status # "none", UNCHANGED orders,
           NEW kind \in {"debit", "refund"}, NEW amount \in Int,
           amount = (IF kind = "refund" THEN req[r].total ELSE -req[r].total),
           Move(req[r].user, kind, amount, r)
    PROVE  Quoted'
<1>1. /\ req[r].user \in Users /\ r \in Refs /\ WalletTypeOK /\ kind \in Kinds
      /\ orders[r].user = req[r].user /\ orders[r].total = req[r].total
    BY OrderFlowAssumption DEF Inv, TypeOK, AllSound, SoundFor, Sound, Request, Kinds
<1>2. PICK v \in Users : v = req[r].user
    BY <1>1
<1>3. OneMoreRow(v, kind, amount, r)
    BY <1>1, <1>2, MoveLedger
<1>4. PICK n \in Nat : n = Len(ledger[v])
    BY <1>3 DEF OneMoreRow
<1>5. /\ Len(ledger'[v]) = n + 1
      /\ \A i \in 1 .. n : ledger'[v][i] = ledger[v][i]
      /\ ledger'[v][n + 1].kind = kind /\ ledger'[v][n + 1].amount = amount
      /\ ledger'[v][n + 1].reference = r
      /\ \A u \in Users \ {v} : ledger'[u] = ledger[u]
    BY <1>3, <1>4 DEF OneMoreRow
<1>6. SUFFICES ASSUME NEW u \in Users, NEW s \in Requests, NEW i \in 1 .. Len(ledger'[u]),
                      ledger'[u][i].reference = s
               PROVE  /\ orders[s].user = u
                      /\ ledger'[u][i].kind \in {"debit", "refund"}
                      /\ ledger'[u][i].amount = IF ledger'[u][i].kind = "refund"
                                                  THEN orders[s].total ELSE -orders[s].total
    BY DEF Quoted, QuotedRow
<1>7. CASE u # v \/ i \in 1 .. n
    <2>1. i \in 1 .. Len(ledger[u]) /\ ledger'[u][i] = ledger[u][i]
        BY <1>4, <1>5, <1>6, <1>7
    <2>2. QuotedRow(u, ledger[u][i], s)
        BY <1>6, <2>1 DEF Quoted
    <2> QED BY <2>1, <2>2 DEF QuotedRow
<1>8. CASE u = v /\ i = n + 1
    BY <1>1, <1>2, <1>5, <1>6, <1>8
<1> QED BY <1>5, <1>6, <1>7, <1>8

\* A step that moves no money, and changes only totals of orders not charged.
LEMMA QuotedStays ==
    ASSUME Inv, Quoted, UNCHANGED ledger,
           \A r \in Requests : /\ orders'[r].user = orders[r].user
                               /\ orders'[r].total = orders[r].total \/ ~Charged(r)
    PROVE  Quoted'
<1> SUFFICES ASSUME NEW u \in Users, NEW r \in Requests, NEW i \in 1 .. Len(ledger[u]),
                    ledger[u][i].reference = r
             PROVE  /\ orders'[r].user = u
                    /\ ledger[u][i].kind \in {"debit", "refund"}
                    /\ ledger[u][i].amount = IF ledger[u][i].kind = "refund"
                                               THEN orders'[r].total ELSE -orders'[r].total
    BY DEF Quoted, QuotedRow
<1>1. QuotedRow(u, ledger[u][i], r)
    BY DEF Quoted
<1>2. orders'[r].total = orders[r].total
    BY NoRow
<1> QED BY <1>1, <1>2 DEF QuotedRow

\* What a step may do to an order row without moving money: a new status, or
\* the insert, which sets the total of an order that is not charged.
LEMMA QuietOrders ==
    ASSUME Inv, NEW r \in Requests,
           \/ CreateOrder(r) \/ CancelOrder(r) \/ MarkProvisioning(r) \/ MarkFailed(r) \/ Activate(r)
    PROVE  /\ UNCHANGED walletVars
           /\ \A s \in Requests : /\ orders'[s].user = orders[s].user
                                  /\ orders'[s].total = orders[s].total \/ ~Charged(s)
<1>1. orders \in [Requests -> Order] /\ UNCHANGED walletVars
    BY DEF Inv, TypeOK, CreateOrder, CancelOrder, MarkProvisioning, MarkFailed, Activate, walletVars
<1>2. CASE CreateOrder(r)
    <2>1. ~Charged(r)
        BY <1>2 DEF CreateOrder, At, Inv, AllSound, SoundFor, Sound, BeforeCharge
    <2>2. orders' = orders \/ orders' = [orders EXCEPT ![r].status = "pending",
                                                       ![r].total = req[r].total]
        BY <1>2 DEF CreateOrder
    <2> QED BY <1>1, <2>1, <2>2 DEF Order
<1>3. CASE CancelOrder(r) \/ MarkProvisioning(r) \/ MarkFailed(r) \/ Activate(r)
    <2>1. \/ orders' = orders
          \/ \E status : orders' = [orders EXCEPT ![r].status = status]
          \/ orders' = [orders EXCEPT ![r].status = "active", ![r].ref = TRUE]
        BY <1>3 DEF CancelOrder, MarkProvisioning, MarkFailed, Activate, SetStatus
    <2> QED BY <1>1, <2>1 DEF Order
<1> QED BY <1>1, <1>2, <1>3

LEMMA QuotedNext ==
    ASSUME Inv, Quoted, [Next]_vars
    PROVE  Quoted'
<1>1. ASSUME NEW r \in Requests, ChargeWallet(r)
      PROVE  Quoted'
    <2>1. /\ UNCHANGED orders /\ orders[r].status = "pending"
          /\ Debit(req[r].user, req[r].total, r) \/ UNCHANGED walletVars
        BY <1>1 DEF ChargeWallet, At, Inv, AllSound, SoundFor, Sound
    <2>2. CASE UNCHANGED walletVars
        BY <2>1, <2>2, QuotedStays DEF walletVars
    <2>3. CASE Debit(req[r].user, req[r].total, r)
        <3>1. req[r].total \in Int
            BY DEF Inv, TypeOK, Request
        <3>2. Move(req[r].user, "debit", -req[r].total, r)
            BY <2>3 DEF Debit
        <3> QED BY <2>1, <3>1, <3>2, QuotedMove
    <2> QED BY <2>1, <2>2, <2>3
<1>2. ASSUME NEW r \in Requests, Refund(r)
      PROVE  Quoted'
    <2>1. /\ UNCHANGED orders /\ orders[r].status # "none"
          /\ Credit(req[r].user, "refund", req[r].total, r) \/ UNCHANGED walletVars
        BY <1>2 DEF Refund, At, Inv, AllSound, SoundFor, Sound, AfterCharge
    <2>2. CASE UNCHANGED walletVars
        BY <2>1, <2>2, QuotedStays DEF walletVars
    <2>3. CASE Credit(req[r].user, "refund", req[r].total, r)
        <3>1. req[r].total \in Int
            BY DEF Inv, TypeOK, Request
        <3>2. Move(req[r].user, "refund", req[r].total, r)
            BY <2>3 DEF Credit
        <3> QED BY <2>1, <3>1, <3>2, QuotedMove
    <2> QED BY <2>1, <2>2, <2>3
<1>3. ASSUME NEW r \in Requests,
             \/ CreateOrder(r) \/ CancelOrder(r) \/ MarkProvisioning(r) \/ MarkFailed(r) \/ Activate(r)
      PROVE  Quoted'
    BY <1>3, QuietOrders, QuotedStays DEF walletVars
<1>4. CASE UNCHANGED <<ledger, orders>>
    BY <1>4, QuotedStays
<1>5. \/ UNCHANGED <<ledger, orders>>
      \/ \E r \in Requests : \/ ChargeWallet(r) \/ Refund(r) \/ CreateOrder(r) \/ CancelOrder(r)
                             \/ MarkProvisioning(r) \/ MarkFailed(r) \/ Activate(r)
    BY DEF Next, Handler, ReadPlan, Provision, SaveProxy, EndContext, SyncPlan, Restart, vars
<1> QED BY <1>1, <1>2, <1>3, <1>4, <1>5

LEMMA QuoteFollows == Inv /\ Quoted => QuoteIsCharged
<1> SUFFICES ASSUME Inv, Quoted, NEW u \in Users, NEW r \in Requests,
                    NEW i \in 1 .. Len(ledger[u]), ledger[u][i].reference = r
             PROVE  /\ orders[r].user = u
                    /\ ledger[u][i].amount =
                         (IF ledger[u][i].kind = "refund" THEN 1 ELSE -1) * orders[r].total
    BY DEF QuoteIsCharged
<1>1. QuotedRow(u, ledger[u][i], r)
    BY DEF Quoted
<1>2. orders[r].total \in Int
    BY DEF Inv, TypeOK, Order
<1>3. 1 * orders[r].total = orders[r].total /\ (-1) * orders[r].total = -orders[r].total
    BY <1>2
<1> QED BY <1>1, <1>3 DEF QuotedRow

\* What is taken for an order, and given back, is what its row says, to the
\* cent, although the price may change between any two steps.
THEOREM ChargedAsQuoted == Spec => []QuoteIsCharged
<1>1. Init => Quoted
    BY OrderFlowAssumption DEF Init, Quoted
<1>2. Inv /\ Quoted /\ [Next]_vars => Quoted'
    BY QuotedNext
<1> QED BY <1>1, <1>2, QuoteFollows, Invariance, PTL DEF Spec

-----------------------------------------------------------------------------
(* OrderFlow implements Purchase.  Payer, Paid and Phase are the refinement  *)
(* mapping of Contract.                                                      *)

PaidFor(r) == IF Charged(r) /\ ~Refunded(r) THEN orders[r].total ELSE 0

PhaseOf(r) ==
    CASE Refunded(r) /\ Fulfilled(r)  -> "both"
      [] Refunded(r) /\ ~Fulfilled(r) -> "refunded"
      [] ~Refunded(r) /\ Fulfilled(r) -> "fulfilled"
      [] ~Refunded(r) /\ ~Fulfilled(r) /\ Charged(r) -> "charged"
      [] OTHER -> "open"

Payer == [r \in Requests |-> orders[r].user]
Paid  == [r \in Requests |-> PaidFor(r)]
Phase == [r \in Requests |-> PhaseOf(r)]

\* No order is both fulfilled and refunded: the four phases are told apart.
LEMMA Phases ==
    ASSUME Inv, NEW r \in Requests
    PROVE  PhaseOf(r) = IF Refunded(r) THEN "refunded" ELSE IF Fulfilled(r) THEN "fulfilled"
                        ELSE IF Charged(r) THEN "charged" ELSE "open"
<1>1. Fulfilled(r) => ~Refunded(r)
    BY DEF Inv, AllSound, SoundFor, Sound, Fulfilled
<1> QED BY <1>1 DEF PhaseOf

\* A step that moves no money and fulfils nothing.
LEMMA PurchaseRests ==
    ASSUME Inv, Inv', UNCHANGED walletVars,
           \A r \in Requests : /\ orders'[r].user = orders[r].user
                               /\ orders'[r].total = orders[r].total \/ ~Charged(r)
                               /\ Fulfilled(r)' <=> Fulfilled(r)
    PROVE  UNCHANGED <<balance, Payer, Paid, Phase>>
<1>1. ASSUME NEW r \in Requests PROVE (Charged(r)' <=> Charged(r)) /\ (Refunded(r)' <=> Refunded(r))
    BY NoMove
<1>2. ASSUME NEW r \in Requests PROVE PaidFor(r)' = PaidFor(r)
    BY <1>1 DEF PaidFor
<1>3. ASSUME NEW r \in Requests PROVE PhaseOf(r)' = PhaseOf(r)
    BY <1>1 DEF PhaseOf
<1> QED BY <1>2, <1>3 DEF Payer, Paid, Phase, walletVars

\* The step after which an order is charged, fulfilled or refunded.
IsCharge(r) ==
    /\ PhaseOf(r) = "open"
    /\ Phase' = [Phase EXCEPT ![r] = "charged"]
    /\ orders[r].total \in 1 .. balance[Payer[r]]
    /\ Paid' = [Paid EXCEPT ![r] = orders[r].total]
    /\ balance' = [balance EXCEPT ![Payer[r]] = @ - orders[r].total]
    /\ Payer' = Payer

IsFulfilment(r) ==
    /\ PhaseOf(r) = "charged"
    /\ Phase' = [Phase EXCEPT ![r] = "fulfilled"]
    /\ UNCHANGED <<balance, Payer, Paid>>

IsRefund(r) ==
    /\ PhaseOf(r) = "charged"
    /\ Phase' = [Phase EXCEPT ![r] = "refunded"]
    /\ balance' = [balance EXCEPT ![Payer[r]] = @ + Paid[r]]
    /\ Paid' = [Paid EXCEPT ![r] = 0]
    /\ Payer' = Payer

LEMMA ChargeIsCharge ==
    ASSUME Inv, Inv', NEW r \in Requests, ChargeWallet(r)
    PROVE  UNCHANGED <<balance, Payer, Paid, Phase>> \/ IsCharge(r)
<1>1. /\ UNCHANGED <<orders, proxies>> /\ req[r].pc = "debit" /\ SoundFor(r)
      /\ orders[r] \in Order /\ req[r] \in Request
      /\ Debit(req[r].user, req[r].total, r) \/ UNCHANGED walletVars
    BY DEF ChargeWallet, At, Inv, TypeOK, AllSound
<1>2. \A s \in Requests : Fulfilled(s)' <=> Fulfilled(s)
    BY <1>1 DEF Fulfilled
<1>3. CASE UNCHANGED walletVars
    BY <1>1, <1>2, <1>3, PurchaseRests
<1>4. CASE Debit(req[r].user, req[r].total, r)
    <2>1. /\ ~Charged(r) /\ ~Refunded(r) /\ ~Fulfilled(r)
          /\ req[r].user = orders[r].user /\ req[r].total = orders[r].total
        BY <1>1 DEF SoundFor, Sound, BeforeCharge, Fulfilled
    <2>2. \A s \in Requests : /\ Charged(s)' <=> Charged(s) \/ s = r
                              /\ Refunded(s)' <=> Refunded(s)
        BY <1>1, <1>4, DebitStep
    <2>3. PhaseOf(r) = "open" /\ PhaseOf(r)' = "charged" /\ PaidFor(r)' = orders[r].total
        BY <1>1, <1>2, <2>1, <2>2 DEF PhaseOf, PaidFor
    <2>4. ASSUME NEW s \in Requests \ {r}
          PROVE  PhaseOf(s)' = PhaseOf(s) /\ PaidFor(s)' = PaidFor(s)
        BY <1>1, <1>2, <2>2 DEF PhaseOf, PaidFor
    <2>5. /\ Phase' = [Phase EXCEPT ![r] = "charged"]
          /\ Paid' = [Paid EXCEPT ![r] = orders[r].total]
          /\ Payer' = Payer
        BY <1>1, <2>3, <2>4 DEF Phase, Paid, Payer
    <2>6. /\ orders[r].total \in 1 .. balance[Payer[r]]
          /\ balance' = [balance EXCEPT ![Payer[r]] = @ - orders[r].total]
        <3>1. PICK u \in Users : u = orders[r].user /\ u = Payer[r]
            BY <1>1 DEF Order, Payer
        <3>2. PICK total \in Nat : total = orders[r].total
            BY <1>1 DEF Order
        <3>3. balance \in [Users -> Int]
            BY DEF Inv, TypeOK, WalletTypeOK
        <3>4. /\ total > 0 /\ balance[u] >= total
              /\ balance' = [balance EXCEPT ![u] = @ + -total]
            BY <1>4, <2>1, <3>1, <3>2 DEF Debit, Covers, Move
        <3>5. balance' = [balance EXCEPT ![u] = @ - total]
            BY <3>3, <3>4
        <3>6. total \in 1 .. balance[u]
            BY <3>3, <3>4
        <3> QED BY <3>1, <3>2, <3>5, <3>6, Zenon
    <2> QED BY <2>3, <2>5, <2>6 DEF IsCharge
<1> QED BY <1>1, <1>3, <1>4

LEMMA RefundIsRefund ==
    ASSUME Inv, Inv', NEW r \in Requests, Refund(r)
    PROVE  UNCHANGED <<balance, Payer, Paid, Phase>> \/ IsRefund(r)
<1>1. /\ UNCHANGED <<orders, proxies>> /\ req[r].pc = "refund" /\ SoundFor(r)
      /\ orders[r] \in Order /\ req[r] \in Request
      /\ Credit(req[r].user, "refund", req[r].total, r) \/ UNCHANGED walletVars
    BY DEF Refund, At, Inv, TypeOK, AllSound
<1>2. \A s \in Requests : Fulfilled(s)' <=> Fulfilled(s)
    BY <1>1 DEF Fulfilled
<1>3. CASE UNCHANGED walletVars
    BY <1>1, <1>2, <1>3, PurchaseRests
<1>4. CASE Credit(req[r].user, "refund", req[r].total, r)
    <2>1. /\ Charged(r) /\ ~Refunded(r) /\ ~Fulfilled(r)
          /\ req[r].user = orders[r].user /\ req[r].total = orders[r].total
        BY <1>1 DEF SoundFor, Sound, AfterCharge, Fulfilled
    <2>2. \A s \in Requests : /\ Charged(s)' <=> Charged(s)
                              /\ Refunded(s)' <=> Refunded(s) \/ s = r
        BY <1>1, <1>4, RefundStep
    <2>3. PhaseOf(r) = "charged" /\ PhaseOf(r)' = "refunded" /\ PaidFor(r)' = 0
        BY <1>1, <1>2, <2>1, <2>2 DEF PhaseOf, PaidFor
    <2>4. ASSUME NEW s \in Requests \ {r}
          PROVE  PhaseOf(s)' = PhaseOf(s) /\ PaidFor(s)' = PaidFor(s)
        BY <1>1, <1>2, <2>2 DEF PhaseOf, PaidFor
    <2>5. /\ Phase' = [Phase EXCEPT ![r] = "refunded"]
          /\ Paid' = [Paid EXCEPT ![r] = 0]
          /\ Payer' = Payer
        BY <1>1, <2>3, <2>4 DEF Phase, Paid, Payer
    <2>6. balance' = [balance EXCEPT ![Payer[r]] = @ + Paid[r]]
        BY <1>4, <2>1 DEF Credit, Move, Payer, Paid, PaidFor
    <2> QED BY <2>3, <2>5, <2>6 DEF IsRefund
<1> QED BY <1>1, <1>3, <1>4

\* The credentials are stored, or the order is shown as active.
LEMMA DeliveryIsFulfilment ==
    ASSUME Inv, Inv', NEW r \in Requests, SaveProxy(r) \/ Activate(r)
    PROVE  UNCHANGED <<balance, Payer, Paid, Phase>> \/ IsFulfilment(r)
<1>1. /\ UNCHANGED walletVars /\ SoundFor(r) /\ SoundFor(r)' /\ req[r].pc \in {"save", "activate"}
      /\ orders \in [Requests -> Order]
    BY DEF SaveProxy, Activate, At, walletVars, Inv, TypeOK, AllSound
<1>2. /\ \/ orders' = orders
         \/ orders' = [orders EXCEPT ![r].status = "active", ![r].ref = TRUE]
      /\ proxies' = proxies \/ proxies' = proxies \cup {r}
    BY DEF SaveProxy, Activate, SetStatus
<1>3. \A s \in Requests : orders'[s].user = orders[s].user /\ orders'[s].total = orders[s].total
    BY <1>1, <1>2 DEF Order
<1>4. /\ \A s \in Requests \ {r} : Fulfilled(s)' <=> Fulfilled(s)
      /\ Fulfilled(r) => Fulfilled(r)'
    BY <1>1, <1>2 DEF Fulfilled, Order
<1>5. CASE Fulfilled(r)' <=> Fulfilled(r)
    BY <1>1, <1>3, <1>4, <1>5, PurchaseRests
<1>6. CASE Fulfilled(r)' /\ ~Fulfilled(r)
    <2>1. \A s \in Requests : (Charged(s)' <=> Charged(s)) /\ (Refunded(s)' <=> Refunded(s))
        BY <1>1, <1>3, NoMove
    <2>2. Charged(r) /\ ~Refunded(r)
        BY <1>1 DEF SoundFor, Sound, AfterCharge
    <2>3. PhaseOf(r) = "charged" /\ PhaseOf(r)' = "fulfilled"
        BY <1>6, <2>1, <2>2 DEF PhaseOf
    <2>4. \A s \in Requests \ {r} : PhaseOf(s)' = PhaseOf(s)
        BY <1>4, <2>1 DEF PhaseOf
    <2>5. Phase' = [Phase EXCEPT ![r] = "fulfilled"]
        BY <2>3, <2>4 DEF Phase
    <2>6. \A s \in Requests : PaidFor(s)' = PaidFor(s)
        BY <1>3, <2>1 DEF PaidFor
    <2>7. UNCHANGED <<balance, Payer, Paid>>
        BY <1>1, <1>3, <2>6 DEF Payer, Paid, walletVars
    <2> QED BY <2>3, <2>5, <2>7 DEF IsFulfilment
<1> QED BY <1>4, <1>5, <1>6

LEMMA StepIsPurchase ==
    ASSUME Inv, Inv', [Next]_vars
    PROVE  \/ UNCHANGED <<balance, Payer, Paid, Phase>>
           \/ \E r \in Requests : IsCharge(r) \/ IsFulfilment(r) \/ IsRefund(r)
<1>1. ASSUME NEW r \in Requests,
             CreateOrder(r) \/ CancelOrder(r) \/ MarkProvisioning(r) \/ MarkFailed(r)
      PROVE  UNCHANGED <<balance, Payer, Paid, Phase>>
    <2>1. /\ orders \in [Requests -> Order] /\ orders[r].status # "active" /\ UNCHANGED proxies
        BY <1>1 DEF CreateOrder, CancelOrder, MarkProvisioning, MarkFailed, At, Inv, TypeOK,
                    AllSound, SoundFor, Sound, AfterCharge
    <2>2. orders'[r].status # "active" /\ \A s \in Requests \ {r} : orders'[s] = orders[s]
        BY <1>1, <2>1 DEF CreateOrder, CancelOrder, MarkProvisioning, MarkFailed, SetStatus, Order
    <2>3. \A s \in Requests : Fulfilled(s)' <=> Fulfilled(s)
        BY <2>1, <2>2 DEF Fulfilled
    <2>4. /\ UNCHANGED walletVars
          /\ \A s \in Requests : /\ orders'[s].user = orders[s].user
                                 /\ orders'[s].total = orders[s].total \/ ~Charged(s)
        BY <1>1, QuietOrders
    <2> QED BY <2>3, <2>4, PurchaseRests
<1>2. CASE UNCHANGED <<balance, ledger, orders, proxies>>
    BY <1>2, PurchaseRests DEF walletVars, Fulfilled
<1>3. \/ UNCHANGED <<balance, ledger, orders, proxies>>
      \/ \E r \in Requests :
            \/ ChargeWallet(r) \/ Refund(r) \/ SaveProxy(r) \/ Activate(r)
            \/ CreateOrder(r) \/ CancelOrder(r) \/ MarkProvisioning(r) \/ MarkFailed(r)
    BY DEF Next, Handler, ReadPlan, Provision, EndContext, SyncPlan, Restart, vars
<1> QED BY <1>1, <1>2, <1>3, ChargeIsCharge, RefundIsRefund, DeliveryIsFulfilment

\* OrderFlow keeps the promise of Purchase, for any number of requests,
\* customers and plans: an order is charged at most once and within the
\* balance, and then fulfilled, or refunded in full, but never both.
THEOREM PurchaseKept == Spec => KeepsPurchaseContract
<1>1. Init => Contract!Init
    <2> SUFFICES ASSUME Init PROVE Contract!Init
        OBVIOUS
    <2>1. Inv
        BY InitInv
    <2>2. ASSUME NEW r \in Requests PROVE ~Charged(r) /\ ~Refunded(r) /\ ~Fulfilled(r)
        <3>1. req[r].pc = "start" /\ proxies = {} /\ orders[r].status = "none"
            BY DEF Init
        <3> QED BY <2>1, <3>1 DEF Inv, AllSound, SoundFor, Sound, BeforeCharge, Fulfilled
    <2>3. Paid = [r \in Requests |-> 0] /\ Phase = [r \in Requests |-> "open"]
        BY <2>2 DEF Paid, Phase, PaidFor, PhaseOf
    <2>4. balance \in [Users -> Nat] /\ Payer \in [Requests -> Users]
        BY <2>1, AmountsAssumption DEF Init, Inv, TypeOK, Order, Payer
    <2> QED BY <2>3, <2>4 DEF Contract!Init, Payer, Paid, Phase, PaidFor, PhaseOf
<1>2. ASSUME Inv, Inv', [Next]_vars
      PROVE  [Contract!Next]_<<balance, Payer, Paid, Phase>>
    <2>1. ASSUME NEW r \in Requests, IsCharge(r) PROVE Contract!Charge(r)
        <3>1. \A s \in Requests : PaidFor(s)' \in Nat
            BY <1>2 DEF PaidFor, Inv, TypeOK, Order
        <3>2. Paid' \in [Requests -> Nat]
            BY <3>1 DEF Paid
        <3>3. Paid'[r] = orders[r].total
            BY <2>1 DEF IsCharge, Paid
        <3> QED BY <2>1, <3>2, <3>3
                DEF IsCharge, Contract!Charge, Payer, Paid, Phase, PaidFor, PhaseOf
    <2>2. ASSUME NEW r \in Requests, IsFulfilment(r) PROVE Contract!Fulfil(r)
        BY <2>2 DEF IsFulfilment, Contract!Fulfil, Payer, Paid, Phase, PaidFor, PhaseOf
    <2>3. ASSUME NEW r \in Requests, IsRefund(r) PROVE Contract!Refund(r)
        BY <2>3 DEF IsRefund, Contract!Refund, Payer, Paid, Phase, PaidFor, PhaseOf
    <2> QED BY <1>2, <2>1, <2>2, <2>3, StepIsPurchase DEF Contract!Next
<1> QED BY <1>1, <1>2, Invariance, PTL
        DEF Spec, KeepsPurchaseContract, Contract!Spec, Contract!purchaseVars,
            Payer, Paid, Phase, PaidFor, PhaseOf

-----------------------------------------------------------------------------
(* Sums of a function over a finite set: of two functions that differ in one *)
(* place the sums differ by as much.                                         *)

\* Of a set of sets that is not empty one has the fewest elements.
LEMMA Smallest ==
    ASSUME NEW S, IsFiniteSet(S), NEW B \in SUBSET (SUBSET S), B # {}
    PROVE  \E T \in B : \A R \in B : Cardinality(T) <= Cardinality(R)
<1>1. \A T \in SUBSET S : Cardinality(T) \in Nat
    BY FS_Subset, FS_CardinalityType
<1> DEFINE N == {Cardinality(T) : T \in B}
<1>2. N \subseteq Nat /\ N # {}
    BY <1>1
<1>3. PICK n \in N : \A m \in N : ~(<<m, n>> \in OpToRel(<, Nat))
    <2> HIDE DEF N
    <2> QED BY <1>2, WFMin, NatLessThanWellFounded
<1>4. OpToRel(<, Nat) = {ss \in Nat \X Nat : ss[1] < ss[2]}
    BY Zenon DEF OpToRel
<1>5. ASSUME NEW m \in N PROVE n <= m
    <2>1. m \in Nat /\ n \in Nat
        BY <1>2
    <2>2. <<m, n>> \in Nat \X Nat
        BY <2>1
    <2>3. ~(<<m, n>>[1] < <<m, n>>[2])
        BY <1>3, <1>4, <2>2, Zenon
    <2> QED BY <2>1, <2>3
<1> QED BY <1>5

\* The element the sum of T begins with.
Pick(T) == CHOOSE x \in T : TRUE

\* g is the sum of f over every subset of S.
Sums(g, f, S) ==
    g = [T \in SUBSET S |-> IF T = {} THEN 0 ELSE f[Pick(T)] + g[T \ {Pick(T)}]]

LEMMA PickRest ==
    ASSUME NEW S, IsFiniteSet(S), NEW T \in SUBSET S, T # {}
    PROVE  /\ Pick(T) \in T
           /\ T \ {Pick(T)} \in SUBSET S
           /\ Cardinality(T) \in Nat /\ Cardinality(T \ {Pick(T)}) \in Nat
           /\ Cardinality(T \ {Pick(T)}) < Cardinality(T)
<1>1. Pick(T) \in T
    BY DEF Pick
<1>2. IsFiniteSet(T) /\ Cardinality(T) \in Nat
    BY FS_Subset, FS_CardinalityType
<1>3. /\ IsFiniteSet(T \ {Pick(T)})
      /\ Cardinality(T \ {Pick(T)}) = Cardinality(T) - 1
      /\ Cardinality(T \ {Pick(T)}) \in Nat
    BY <1>1, <1>2, FS_RemoveElement, FS_CardinalityType
<1> QED BY <1>1, <1>2, <1>3

\* g sums f over the subsets of S with at most n elements.
UpTo(g, f, S, n) ==
    /\ g \in [SUBSET S -> Int]
    /\ \A T \in SUBSET S : Cardinality(T) <= n =>
          g[T] = IF T = {} THEN 0 ELSE f[Pick(T)] + g[T \ {Pick(T)}]

LEMMA NextSize ==
    ASSUME NEW S, IsFiniteSet(S), NEW f \in [S -> Int],
           NEW n \in Nat, NEW g, UpTo(g, f, S, n)
    PROVE  \E h : UpTo(h, f, S, n + 1)
<1> DEFINE h == [T \in SUBSET S |-> IF T = {} THEN 0 ELSE f[Pick(T)] + g[T \ {Pick(T)}]]
<1>1. h \in [SUBSET S -> Int]
    <2>1. ASSUME NEW T \in SUBSET S, T # {}
          PROVE  f[Pick(T)] \in Int /\ g[T \ {Pick(T)}] \in Int
        BY <2>1, PickRest DEF UpTo
    <2> QED BY <2>1
<1>2. ASSUME NEW T \in SUBSET S, Cardinality(T) <= n + 1, T # {}
      PROVE  h[T] = f[Pick(T)] + h[T \ {Pick(T)}]
    <2> DEFINE R == T \ {Pick(T)}
    <2>1. R \in SUBSET S /\ Cardinality(R) <= n
        BY <1>2, PickRest
    <2>2. h[R] = g[R]
        BY <2>1 DEF UpTo
    <2> QED BY <1>2, <2>2
<1>3. UpTo(h, f, S, n + 1)
    <2>1. h[{}] = 0
        OBVIOUS
    <2> HIDE DEF h
    <2> QED BY <1>1, <1>2, <2>1 DEF UpTo
<1> HIDE DEF h
<1> QED BY <1>3

LEMMA AnySize ==
    ASSUME NEW S, IsFiniteSet(S), NEW f \in [S -> Int], NEW n \in Nat
    PROVE  \E g : UpTo(g, f, S, n)
<1> DEFINE B == {m \in Nat : ~\E g : UpTo(g, f, S, m)}
<1>1. SUFFICES ASSUME B # {} PROVE FALSE
    OBVIOUS
<1>2. B \subseteq Nat
    OBVIOUS
<1>3. PICK b \in B : \A m \in B : ~(<<m, b>> \in OpToRel(<, Nat))
    BY <1>1, <1>2, WFMin, NatLessThanWellFounded
<1>4. OpToRel(<, Nat) = {ss \in Nat \X Nat : ss[1] < ss[2]}
    BY Zenon DEF OpToRel
<1>5. b \in Nat /\ b # 0
    <2>1. UpTo([T \in SUBSET S |-> 0], f, S, 0)
        <3>1. \A T \in SUBSET S : Cardinality(T) <= 0 => T = {}
            BY FS_EmptySet, FS_Subset, FS_CardinalityType
        <3> QED BY <3>1 DEF UpTo
    <2>2. 0 \notin B
        BY <2>1
    <2> QED BY <2>2
<1>6. b - 1 \in Nat /\ b - 1 < b
    BY <1>5
<1>7. b - 1 \notin B
    <2>1. <<b - 1, b>> \in Nat \X Nat /\ <<b - 1, b>>[1] < <<b - 1, b>>[2]
        BY <1>5, <1>6
    <2> QED BY <1>3, <1>4, <2>1, Zenon
<1>8. PICK g : UpTo(g, f, S, b - 1)
    BY <1>6, <1>7
<1>9. \E h : UpTo(h, f, S, (b - 1) + 1)
    BY <1>6, <1>8, NextSize
<1>10. (b - 1) + 1 = b
    BY <1>5
<1> QED BY <1>9, <1>10

\* There is a sum of f over every subset of a finite set, and SumFunction is it.
LEMMA SumExists ==
    ASSUME NEW S, IsFiniteSet(S), NEW f \in [S -> Int]
    PROVE  \E g : Sums(g, f, S)
<1>1. Cardinality(S) \in Nat
    BY FS_CardinalityType
<1>2. PICK g : UpTo(g, f, S, Cardinality(S))
    BY <1>1, AnySize
<1>3. \A T \in SUBSET S : Cardinality(T) <= Cardinality(S)
    BY FS_Subset
<1> QED BY <1>2, <1>3 DEF UpTo, Sums

LEMMA SumFunctionIs ==
    ASSUME NEW S, IsFiniteSet(S), NEW f \in [S -> Int]
    PROVE  \E g : Sums(g, f, S) /\ SumFunction(f) = g[S]
<1> DEFINE g == CHOOSE h : h = [T \in SUBSET S |-> IF T = {} THEN 0
                               ELSE f[CHOOSE x \in T : TRUE] + h[T \ {CHOOSE x \in T : TRUE}]]
<1>1. \E h : h = [T \in SUBSET S |-> IF T = {} THEN 0
                               ELSE f[CHOOSE x \in T : TRUE] + h[T \ {CHOOSE x \in T : TRUE}]]
    <2>1. \E h : Sums(h, f, S)
        BY SumExists
    <2> QED BY <2>1, Zenon DEF Sums, Pick
<1>2. Sums(g, f, S)
    BY <1>1, Zenon DEF Sums, Pick
<1>3. SumFunction(f) = g[S]
    <2>1. DOMAIN f = S
        OBVIOUS
    <2>2. SumFunction(f) = SumFunctionOnSet(f, S)
        BY <2>1, Zenon DEF SumFunction
    <2> QED BY <2>2, Zenon DEF SumFunctionOnSet, FoldFunctionOnSet, MapThenFoldSet
<1> QED BY <1>2, <1>3

\* Two functions that agree but for x: so do their sums, but for the
\* difference at x.
AgreeBut(e, f, S, x) == \A y \in S \ {x} : e[y] = f[y]

LEMMA SumsDiffer ==
    ASSUME NEW S, IsFiniteSet(S), NEW f \in [S -> Int], NEW e \in [S -> Int],
           NEW x \in S, AgreeBut(e, f, S, x),
           NEW g, Sums(g, f, S), NEW h, Sums(h, e, S)
    PROVE  g[S] \in Int /\ h[S] = g[S] + (e[x] - f[x])
<1> DEFINE Good(T) == g[T] \in Int /\ h[T] = g[T] + (IF x \in T THEN e[x] - f[x] ELSE 0)
<1> DEFINE B == {T \in SUBSET S : ~Good(T)}
<1>1. ASSUME B # {} PROVE FALSE
    <2>1. PICK T \in B : \A R \in B : Cardinality(T) <= Cardinality(R)
        <3>1. B \in SUBSET (SUBSET S)
            OBVIOUS
        <3> HIDE DEF B
        <3> QED BY <1>1, <3>1, Smallest
    <2>2. T \in SUBSET S /\ ~Good(T)
        OBVIOUS
    <2>3. T # {}
        <3>1. g[{}] = 0 /\ h[{}] = 0
            BY DEF Sums
        <3>2. Good({})
            BY <3>1
        <3> HIDE DEF Good
        <3> QED BY <2>2, <3>2
    <2> DEFINE y == Pick(T)
               R == T \ {y}
    <2>4. /\ y \in T /\ y \in S
          /\ R \in SUBSET S /\ Cardinality(R) < Cardinality(T)
          /\ Cardinality(R) \in Nat /\ Cardinality(T) \in Nat
        BY <2>2, <2>3, PickRest
    <2>5. g[T] = f[y] + g[R] /\ h[T] = e[y] + h[R]
        BY <2>2, <2>3 DEF Sums
    <2>6. Good(R)
        <3>1. ~(Cardinality(T) <= Cardinality(R))
            BY <2>4
        <3> HIDE DEF Good, R
        <3> QED BY <2>1, <2>4, <3>1
    <2>7. f[y] \in Int /\ e[y] \in Int /\ f[x] \in Int /\ e[x] \in Int
        BY <2>4
    <2>8. (x \in T <=> x = y \/ x \in R) /\ y \notin R
        BY <2>4
    <2>9. y # x => e[y] = f[y]
        BY <2>4 DEF AgreeBut
    <2> HIDE DEF y, R
    <2>10. Good(T)
        <3>1. CASE y = x
            BY <2>5, <2>6, <2>7, <2>8, <3>1
        <3>2. CASE y # x
            BY <2>5, <2>6, <2>7, <2>8, <2>9, <3>2
        <3> QED BY <3>1, <3>2
    <2> QED BY <2>2, <2>10
<1>2. S \in SUBSET S
    OBVIOUS
<1> QED BY <1>1, <1>2

\* Changing one value of a function changes its sum by as much.
LEMMA SumChanges ==
    ASSUME NEW S, IsFiniteSet(S), NEW f \in [S -> Int], NEW e \in [S -> Int],
           NEW x \in S, \A y \in S \ {x} : e[y] = f[y]
    PROVE  SumFunction(f) \in Int /\ SumFunction(e) = SumFunction(f) + (e[x] - f[x])
<1>1. PICK g : Sums(g, f, S) /\ SumFunction(f) = g[S]
    BY SumFunctionIs
<1>2. PICK h : Sums(h, e, S) /\ SumFunction(e) = h[S]
    BY SumFunctionIs
<1>3. AgreeBut(e, f, S, x)
    BY DEF AgreeBut
<1> QED BY <1>1, <1>2, <1>3, SumsDiffer

LEMMA SumTyped ==
    ASSUME NEW S, IsFiniteSet(S), NEW f \in [S -> Int]
    PROVE  SumFunction(f) \in Int
<1>1. PICK g : Sums(g, f, S) /\ SumFunction(f) = g[S]
    BY SumFunctionIs
<1>2. CASE S = {}
    BY <1>1, <1>2 DEF Sums
<1>3. CASE S # {}
    BY <1>3, SumChanges
<1> QED BY <1>2, <1>3

\* A sum of zeros.
LEMMA SumOfZeros ==
    ASSUME NEW S, IsFiniteSet(S)
    PROVE  SumFunction([x \in S |-> 0]) = 0
<1> DEFINE f == [x \in S |-> 0]
<1>1. f \in [S -> Int] /\ \A x \in S : f[x] = 0
    OBVIOUS
<1> HIDE DEF f
<1>2. PICK g : Sums(g, f, S) /\ SumFunction(f) = g[S]
    BY <1>1, SumFunctionIs
<1> DEFINE B == {T \in SUBSET S : g[T] # 0}
<1>3. ASSUME B # {} PROVE FALSE
    <2>1. PICK T \in B : \A R \in B : Cardinality(T) <= Cardinality(R)
        <3>1. B \in SUBSET (SUBSET S)
            OBVIOUS
        <3> HIDE DEF B
        <3> QED BY <1>3, <3>1, Smallest
    <2>2. T \in SUBSET S /\ g[T] # 0
        OBVIOUS
    <2>3. T # {}
        BY <1>2, <2>2 DEF Sums
    <2> DEFINE R == T \ {Pick(T)}
    <2>4. /\ Pick(T) \in S
          /\ R \in SUBSET S /\ Cardinality(R) < Cardinality(T)
          /\ Cardinality(R) \in Nat /\ Cardinality(T) \in Nat
        BY <2>2, <2>3, PickRest
    <2>5. g[T] = f[Pick(T)] + g[R]
        BY <1>2, <2>2, <2>3 DEF Sums
    <2>6. g[R] = 0
        <3>1. ~(Cardinality(T) <= Cardinality(R))
            BY <2>4
        <3> HIDE DEF R
        <3> QED BY <2>1, <2>4, <3>1
    <2> HIDE DEF R
    <2> QED BY <1>1, <2>2, <2>4, <2>5, <2>6
<1>4. S \in SUBSET S
    OBVIOUS
<1>5. g[S] = 0
    BY <1>3, <1>4
<1> QED BY <1>2, <1>5 DEF f

-----------------------------------------------------------------------------
(* Billing                                                                   *)

TopUpProofs == INSTANCE TopUp_proofs WITH Amounts <- TopupAmounts, Faults <- TopupFaults

\* The money a step of OrderFlow moves: none, a charge or a refund.
ChargeOf(r) ==
    /\ req[r].pc = "debit" /\ ~Charged(r) /\ ~Refunded(r)
    /\ Debit(req[r].user, req[r].total, r)
    /\ orders[r].user = req[r].user /\ orders[r].total = req[r].total
    /\ UNCHANGED orders

RefundOf(r) ==
    /\ Charged(r) /\ ~Refunded(r)
    /\ Credit(req[r].user, "refund", req[r].total, r)
    /\ orders[r].user = req[r].user /\ orders[r].total = req[r].total
    /\ UNCHANGED orders

NothingMoved ==
    /\ UNCHANGED walletVars
    /\ \A r \in Requests : /\ orders'[r].user = orders[r].user
                           /\ orders'[r].total = orders[r].total \/ ~Charged(r)

LEMMA OrderMoves ==
    ASSUME Inv, [Next]_vars
    PROVE  NothingMoved \/ \E r \in Requests : ChargeOf(r) \/ RefundOf(r)
<1>1. ASSUME NEW r \in Requests, ChargeWallet(r)
      PROVE  NothingMoved \/ ChargeOf(r)
    <2>1. /\ req[r].pc = "debit"
          /\ UNCHANGED orders /\ orders[r].user = req[r].user /\ orders[r].total = req[r].total
          /\ ~Charged(r) /\ ~Refunded(r)
          /\ Debit(req[r].user, req[r].total, r) \/ UNCHANGED walletVars
        BY <1>1 DEF ChargeWallet, At, Inv, AllSound, SoundFor, Sound, BeforeCharge
    <2> QED BY <2>1 DEF NothingMoved, ChargeOf
<1>2. ASSUME NEW r \in Requests, Refund(r)
      PROVE  NothingMoved \/ RefundOf(r)
    <2>1. /\ UNCHANGED orders /\ orders[r].user = req[r].user /\ orders[r].total = req[r].total
          /\ Charged(r) /\ ~Refunded(r)
          /\ Credit(req[r].user, "refund", req[r].total, r) \/ UNCHANGED walletVars
        BY <1>2 DEF Refund, At, Inv, AllSound, SoundFor, Sound, AfterCharge
    <2> QED BY <2>1 DEF NothingMoved, RefundOf
<1>3. ASSUME NEW r \in Requests,
             \/ CreateOrder(r) \/ CancelOrder(r) \/ MarkProvisioning(r) \/ MarkFailed(r) \/ Activate(r)
      PROVE  NothingMoved
    BY <1>3, QuietOrders DEF NothingMoved
<1>4. CASE UNCHANGED <<walletVars, orders>>
    BY <1>4 DEF NothingMoved
<1>5. \/ UNCHANGED <<walletVars, orders>>
      \/ \E r \in Requests : \/ ChargeWallet(r) \/ Refund(r) \/ CreateOrder(r) \/ CancelOrder(r)
                             \/ MarkProvisioning(r) \/ MarkFailed(r) \/ Activate(r)
    BY DEF Next, Handler, ReadPlan, Provision, SaveProxy, EndContext, SyncPlan, Restart, vars, walletVars
<1> QED BY <1>1, <1>2, <1>3, <1>4, <1>5

\* A row for a payment disturbs no order.
LEMMA PaymentRows ==
    ASSUME Inv, Quoted, UNCHANGED orderVars,
           NEW u \in Users, NEW amount \in Int, NEW ref \in Refs \ Requests,
           Move(u, "topup", amount, ref), NonNegative'
    PROVE  Inv' /\ Quoted'
<1>1. WalletTypeOK /\ LedgerChain /\ "topup" \in Kinds
    BY DEF Inv, TypeOK, Kinds
<1>2. WalletTypeOK' /\ LedgerChain'
    BY <1>1, MoveType, MoveChain
<1>3. ASSUME NEW r \in Requests PROVE SoundFor(r)'
    <2>1. orders[r].user \in Users /\ r \in Refs /\ SoundFor(r)
        BY OrderFlowAssumption DEF Inv, TypeOK, Order, AllSound
    <2>2. \A v \in Users, k \in Kinds : HasEntry(v, k, r)' <=> HasEntry(v, k, r)
        BY <1>1, MoveEntries
    <2>3. (Charged(r)' <=> Charged(r)) /\ (Refunded(r)' <=> Refunded(r))
        BY <2>1, <2>2 DEF orderVars, Charged, Refunded, Kinds
    <2> QED BY <2>1, <2>3 DEF orderVars, SoundFor, Sound
<1>4. TypeOK'
    BY <1>2 DEF Inv, TypeOK, orderVars
<1>5. Quoted'
    <2>1. OneMoreRow(u, "topup", amount, ref)
        BY <1>1, MoveLedger
    <2>2. PICK n \in Nat : n = Len(ledger[u])
        BY <2>1 DEF OneMoreRow
    <2>3. /\ Len(ledger'[u]) = n + 1
          /\ \A i \in 1 .. n : ledger'[u][i] = ledger[u][i]
          /\ ledger'[u][n + 1].reference = ref
          /\ \A v \in Users \ {u} : ledger'[v] = ledger[v]
        BY <2>1, <2>2 DEF OneMoreRow
    <2>4. SUFFICES ASSUME NEW v \in Users, NEW r \in Requests, NEW i \in 1 .. Len(ledger'[v]),
                          ledger'[v][i].reference = r
                   PROVE  QuotedRow(v, ledger'[v][i], r)
        BY DEF Quoted, QuotedRow, orderVars
    <2>5. ~(v = u /\ i = n + 1)
        BY <2>3, <2>4
    <2>6. i \in 1 .. Len(ledger[v]) /\ ledger'[v][i] = ledger[v][i]
        BY <2>2, <2>3, <2>5
    <2> QED BY <2>4, <2>6 DEF Quoted
<1> QED BY <1>2, <1>3, <1>4, <1>5 DEF Inv, AllSound

\* TopUp is instantiated twice, with its model and with its proofs: their
\* initial states and their steps are the same.
LEMMA SameInit == TopUps!Init => TopUpProofs!Init
BY Zenon DEF TopUps!Init, TopUpProofs!Init, TopUps!WalletInit, TopUpProofs!WalletInit, TopUps!Providers, TopUpProofs!Providers, TopUps!Idle, TopUpProofs!Idle

LEMMA SameNext == TopUps!Next => TopUpProofs!Next
<1>1. \A t \in Topups : TopUps!StartTopup(t) => TopUpProofs!StartTopup(t)
    BY Zenon DEF TopUps!StartTopup, TopUpProofs!StartTopup, TopUps!AtTopup,
           TopUpProofs!AtTopup, TopUps!AnswerTopup, TopUpProofs!AnswerTopup,
           TopUps!StoreOutcomes, TopUpProofs!StoreOutcomes, TopUps!GotoTopup,
           TopUpProofs!GotoTopup, TopUps!storeVars, TopUpProofs!storeVars,
           TopUps!providerVars, TopUpProofs!providerVars
<1>2. \A t \in Topups : TopUps!OpenPage(t) => TopUpProofs!OpenPage(t)
    BY Zenon DEF TopUps!OpenPage, TopUpProofs!OpenPage, TopUps!AtTopup, TopUpProofs!AtTopup,
           TopUps!GotoTopup, TopUpProofs!GotoTopup, TopUps!AnswerTopup,
           TopUpProofs!AnswerTopup, TopUps!storeVars, TopUpProofs!storeVars
<1>3. \A t \in Topups : TopUps!RecordPayment(t) => TopUpProofs!RecordPayment(t)
    BY Zenon DEF TopUps!RecordPayment, TopUpProofs!RecordPayment, TopUps!AtTopup,
           TopUpProofs!AtTopup, TopUps!StoreOutcomes, TopUpProofs!StoreOutcomes,
           TopUps!Committed, TopUpProofs!Committed, TopUps!AnswerTopup,
           TopUpProofs!AnswerTopup, TopUps!GotoTopup, TopUpProofs!GotoTopup,
           TopUps!walletVars, TopUpProofs!walletVars, TopUps!providerVars,
           TopUpProofs!providerVars
<1>4. \A t \in Topups : TopUps!EndTopupContext(t) => TopUpProofs!EndTopupContext(t)
    BY Zenon DEF TopUps!EndTopupContext, TopUpProofs!EndTopupContext, TopUps!storeVars,
           TopUpProofs!storeVars, TopUps!providerVars, TopUpProofs!providerVars
<1>5. \A t \in Topups : TopUps!Announce(t) => TopUpProofs!Announce(t)
    BY Zenon DEF TopUps!Announce, TopUpProofs!Announce, TopUps!FirstEvents,
           TopUpProofs!FirstEvents, TopUps!Follows, TopUpProofs!Follows, TopUps!storeVars,
           TopUpProofs!storeVars
<1>6. \A d \in Deliveries : TopUps!MarkWebhookSeen(d) => TopUpProofs!MarkWebhookSeen(d)
    BY Zenon DEF TopUps!MarkWebhookSeen, TopUpProofs!MarkWebhookSeen, TopUps!StoreOutcomes,
           TopUpProofs!StoreOutcomes, TopUps!Committed, TopUpProofs!Committed,
           TopUps!AnswerHook, TopUpProofs!AnswerHook, TopUps!FromStripe,
           TopUpProofs!FromStripe, TopUps!Idle, TopUpProofs!Idle, TopUps!walletVars,
           TopUpProofs!walletVars
<1>7. \A d \in Deliveries : TopUps!ApplyCredit(d) => TopUpProofs!ApplyCredit(d)
    BY Zenon DEF TopUps!ApplyCredit, TopUpProofs!ApplyCredit, TopUps!Credits,
           TopUpProofs!Credits, TopUps!StoreOutcomes, TopUpProofs!StoreOutcomes,
           TopUps!Committed, TopUpProofs!Committed, TopUps!MarkPaymentPaidAndCredit,
           TopUpProofs!MarkPaymentPaidAndCredit, TopUps!Credit, TopUpProofs!Credit,
           TopUps!Move, TopUpProofs!Move, TopUps!AnswerHook, TopUpProofs!AnswerHook,
           TopUps!Idle, TopUpProofs!Idle, TopUps!walletVars, TopUpProofs!walletVars
<1>8. \A d \in Deliveries : TopUps!ApplyOther(d) => TopUpProofs!ApplyOther(d)
    BY Zenon DEF TopUps!ApplyOther, TopUpProofs!ApplyOther, TopUps!Credits,
           TopUpProofs!Credits, TopUps!StoreOutcomes, TopUpProofs!StoreOutcomes,
           TopUps!Committed, TopUpProofs!Committed, TopUps!FromStripe,
           TopUpProofs!FromStripe, TopUps!StoredStatus, TopUpProofs!StoredStatus,
           TopUps!AnswerHook, TopUpProofs!AnswerHook, TopUps!Idle, TopUpProofs!Idle,
           TopUps!walletVars, TopUpProofs!walletVars
<1>9. \A d \in Deliveries : TopUps!EndHookContext(d) => TopUpProofs!EndHookContext(d)
    BY Zenon DEF TopUps!EndHookContext, TopUpProofs!EndHookContext, TopUps!storeVars,
           TopUpProofs!storeVars, TopUps!providerVars, TopUpProofs!providerVars
<1>10. TopUps!Restart => TopUpProofs!Restart
    BY Zenon DEF TopUps!Restart, TopUpProofs!Restart, TopUps!Idle, TopUpProofs!Idle,
           TopUps!storeVars, TopUpProofs!storeVars, TopUps!providerVars,
           TopUpProofs!providerVars
<1>11. \A d \in Deliveries, e \in emitted : TopUps!Deliver(d, e) => TopUpProofs!Deliver(d, e)
    BY Zenon DEF TopUps!Deliver, TopUpProofs!Deliver, TopUps!storeVars, TopUpProofs!storeVars, TopUps!providerVars, TopUpProofs!providerVars
<1> QED BY <1>1, <1>2, <1>3, <1>4, <1>5, <1>6, <1>7, <1>8, <1>9, <1>10, <1>11 DEF TopUps!Next, TopUpProofs!Next, TopUps!HookStep, TopUpProofs!HookStep

LEMMA TopupAssumptions == TopUpProofs!AmountsAssumption /\ TopUpProofs!TopUpAssumption
BY BillingAssumption DEF TopUps!AmountsAssumption, TopUps!TopUpAssumption,
                         TopUpProofs!AmountsAssumption, TopUpProofs!TopUpAssumption

\* Both halves of Billing, and that the books balance.
BillingInv == Inv /\ Quoted /\ TopUpProofs!Inv /\ EveryCentAccounted

\* What the sums need of both halves.
LEMMA Cents ==
    ASSUME Inv, TopUpProofs!Inv
    PROVE  /\ balance \in [Users -> Int]
           /\ \A r \in Requests : orders[r].user \in Users /\ orders[r].total \in Int
           /\ \A t \in Topups : topup[t].user \in Users /\ topup[t].amount \in Int
           /\ \A u \in Users : /\ [r \in Requests |-> SpentOn(u, r)] \in [Requests -> Int]
                               /\ [t \in Topups |-> PaidInBy(u, t)] \in [Topups -> Int]
<1>1. balance \in [Users -> Int]
    BY DEF Inv, TypeOK, WalletTypeOK
<1>2. \A r \in Requests : orders[r].user \in Users /\ orders[r].total \in Int
    BY DEF Inv, TypeOK, Order
<1>3. \A t \in Topups : topup[t].user \in Users /\ topup[t].amount \in Int
    <2>1. topup \in [Topups -> TopUpProofs!TopupRequest]
        BY DEF TopUpProofs!Inv, TopUpProofs!TypeOK
    <2>2. TopupAmounts \subseteq Nat
        BY BillingAssumption DEF TopUps!AmountsAssumption
    <2>3. \A t \in Topups : topup[t].user \in Users /\ topup[t].amount \in TopupAmounts
        BY <2>1 DEF TopUpProofs!TopupRequest
    <2>4. \A x \in TopupAmounts : x \in Int
        BY <2>2
    <2> QED BY <2>3, <2>4, Zenon
<1> QED BY <1>1, <1>2, <1>3 DEF SpentOn, PaidInBy

\* A step that changes what was spent on one order changes the sum by that.
LEMMA SpentChanges ==
    ASSUME Inv, TopUpProofs!Inv, Inv', TopUpProofs!Inv', NEW u \in Users, NEW r \in Requests,
           \A s \in Requests \ {r} : SpentOn(u, s)' = SpentOn(u, s)
    PROVE  /\ Spent(u) \in Int
           /\ Spent(u)' = Spent(u) + (SpentOn(u, r)' - SpentOn(u, r))
<1> DEFINE f == [s \in Requests |-> SpentOn(u, s)]
           e == [s \in Requests |-> SpentOn(u, s)']
<1>1. f \in [Requests -> Int]
    BY Cents
<1>2. e \in [Requests -> Int]
    BY DEF Inv, TypeOK, Order, SpentOn
<1>3. f[r] = SpentOn(u, r) /\ e[r] = SpentOn(u, r)' /\ \A s \in Requests \ {r} : e[s] = f[s]
    OBVIOUS
<1>4. Spent(u) = SumFunction(f) /\ Spent(u)' = SumFunction(e)
    BY DEF Spent
<1>5. IsFiniteSet(Requests)
    BY BillingAssumption
<1> HIDE DEF f, e
<1>6. SumFunction(f) \in Int /\ SumFunction(e) = SumFunction(f) + (e[r] - f[r])
    BY <1>1, <1>2, <1>3, <1>5, SumChanges
<1> QED BY <1>3, <1>4, <1>6

LEMMA PaidInChanges ==
    ASSUME Inv, TopUpProofs!Inv, Inv', TopUpProofs!Inv', NEW u \in Users, NEW t \in Topups,
           \A s \in Topups \ {t} : PaidInBy(u, s)' = PaidInBy(u, s)
    PROVE  /\ PaidIn(u) \in Int
           /\ PaidIn(u)' = PaidIn(u) + (PaidInBy(u, t)' - PaidInBy(u, t))
<1> DEFINE f == [s \in Topups |-> PaidInBy(u, s)]
           e == [s \in Topups |-> PaidInBy(u, s)']
<1>1. f \in [Topups -> Int]
    BY Cents
<1>2. e \in [Topups -> Int]
    <2>1. topup' \in [Topups -> TopUpProofs!TopupRequest]
        BY DEF TopUpProofs!Inv, TopUpProofs!TypeOK, TopUpProofs!TopupRequest
    <2>2. TopupAmounts \subseteq Nat
        BY BillingAssumption DEF TopUps!AmountsAssumption
    <2>3. \A s \in Topups : topup'[s].amount \in TopupAmounts
        BY <2>1 DEF TopUpProofs!TopupRequest
    <2>4. \A s \in Topups : topup'[s].amount \in Int
        BY <2>2, <2>3
    <2> QED BY <2>4 DEF PaidInBy
<1>3. f[t] = PaidInBy(u, t) /\ e[t] = PaidInBy(u, t)' /\ \A s \in Topups \ {t} : e[s] = f[s]
    OBVIOUS
<1>4. PaidIn(u) = SumFunction(f) /\ PaidIn(u)' = SumFunction(e)
    BY DEF PaidIn
<1>5. IsFiniteSet(Topups)
    BY BillingAssumption
<1> HIDE DEF f, e
<1>6. SumFunction(f) \in Int /\ SumFunction(e) = SumFunction(f) + (e[t] - f[t])
    BY <1>1, <1>2, <1>3, <1>5, SumChanges
<1> QED BY <1>3, <1>4, <1>6

LEMMA SpentStays ==
    ASSUME NEW u \in Users, \A r \in Requests : SpentOn(u, r)' = SpentOn(u, r)
    PROVE  Spent(u)' = Spent(u)
<1>1. [r \in Requests |-> SpentOn(u, r)'] = [r \in Requests |-> SpentOn(u, r)]
    OBVIOUS
<1> QED BY <1>1 DEF Spent

LEMMA PaidInStays ==
    ASSUME NEW u \in Users, \A t \in Topups : PaidInBy(u, t)' = PaidInBy(u, t)
    PROVE  PaidIn(u)' = PaidIn(u)
<1>1. [t \in Topups |-> PaidInBy(u, t)'] = [t \in Topups |-> PaidInBy(u, t)]
    OBVIOUS
<1> QED BY <1>1 DEF PaidIn

LEMMA SumsTyped ==
    ASSUME Inv, TopUpProofs!Inv, NEW u \in Users
    PROVE  PaidIn(u) \in Int /\ Spent(u) \in Int
<1>1. ASSUME NEW S, IsFiniteSet(S), NEW f \in [S -> Int]
      PROVE  SumFunction(f) \in Int
    BY <1>1, SumTyped
<1> QED BY <1>1, Cents, BillingAssumption DEF PaidIn, Spent

\* The moves of one instance of the wallet are those of the other.
LEMMA SameMoves ==
    /\ \A t \in Topups : TopUpProofs!Credited(t) =>
          /\ ~payments[t].credited
          /\ Credit(topup[t].user, "topup", topup[t].amount, t)
          /\ payments'[t].credited
          /\ \A s \in Topups \ {t} : payments'[s].credited = payments[s].credited
    /\ TopUpProofs!NothingCredited =>
          /\ UNCHANGED walletVars
          /\ \A t \in Topups : payments'[t].credited = payments[t].credited
BY Zenon DEF TopUpProofs!Credited, TopUpProofs!Credit, TopUpProofs!Move, Credit, Move,
             TopUpProofs!NothingCredited, TopUpProofs!walletVars, walletVars

LEMMA SameWallet ==
    /\ TopUpProofs!NonNegative <=> NonNegative
    /\ TopUpProofs!NonNegative' <=> NonNegative'
BY DEF TopUpProofs!NonNegative, NonNegative

\* A step of an order keeps the books.
LEMMA ChargeBooked ==
    ASSUME BillingInv, Inv', TopUpProofs!Inv', NEW r \in Requests, ChargeOf(r), UNCHANGED topupVars
    PROVE  EveryCentAccounted'
<1>1. /\ \A u \in Users, t \in Topups : PaidInBy(u, t)' = PaidInBy(u, t)
    BY DEF topupVars, PaidInBy
<1>2. \A s \in Requests : (Charged(s)' <=> Charged(s) \/ s = r) /\ (Refunded(s)' <=> Refunded(s))
    BY DebitStep DEF ChargeOf, BillingInv
<1>3. \A u \in Users : balance'[u] = balance[u] - (IF u = orders[r].user THEN orders[r].total ELSE 0)
    <2>1. /\ orders[r].user \in Users /\ orders[r].total \in Int /\ balance \in [Users -> Int]
          /\ balance' = [balance EXCEPT ![orders[r].user] = @ + (-orders[r].total)]
        BY Cents DEF BillingInv, ChargeOf, Debit, Move
    <2> QED BY <2>1
<1>4. SUFFICES ASSUME NEW u \in Users PROVE balance'[u] = PaidIn(u)' - Spent(u)'
    BY DEF EveryCentAccounted
<1>5. \A s \in Requests \ {r} : SpentOn(u, s)' = SpentOn(u, s)
    BY <1>2 DEF SpentOn, ChargeOf
<1>6. /\ SpentOn(u, r) = 0
      /\ SpentOn(u, r)' = IF u = orders[r].user THEN orders[r].total ELSE 0
    BY <1>2 DEF SpentOn, ChargeOf
<1>7. Spent(u) \in Int /\ Spent(u)' = Spent(u) + (SpentOn(u, r)' - SpentOn(u, r))
    BY <1>5, SpentChanges DEF BillingInv
<1>8. PaidIn(u)' = PaidIn(u) /\ PaidIn(u) \in Int
    BY <1>1, PaidInStays, SumsTyped DEF BillingInv
<1>9. balance[u] = PaidIn(u) - Spent(u) /\ orders[r].total \in Int /\ balance[u] \in Int
    BY Cents DEF BillingInv, EveryCentAccounted
<1> QED BY <1>3, <1>6, <1>7, <1>8, <1>9

LEMMA RefundBooked ==
    ASSUME BillingInv, Inv', TopUpProofs!Inv', NEW r \in Requests, RefundOf(r), UNCHANGED topupVars
    PROVE  EveryCentAccounted'
<1>1. /\ \A u \in Users, t \in Topups : PaidInBy(u, t)' = PaidInBy(u, t)
    BY DEF topupVars, PaidInBy
<1>2. \A s \in Requests : (Charged(s)' <=> Charged(s)) /\ (Refunded(s)' <=> Refunded(s) \/ s = r)
    BY RefundStep DEF RefundOf, BillingInv
<1>3. \A u \in Users : balance'[u] = balance[u] + (IF u = orders[r].user THEN orders[r].total ELSE 0)
    BY Cents DEF BillingInv, RefundOf, Credit, Move
<1>4. SUFFICES ASSUME NEW u \in Users PROVE balance'[u] = PaidIn(u)' - Spent(u)'
    BY DEF EveryCentAccounted
<1>5. \A s \in Requests \ {r} : SpentOn(u, s)' = SpentOn(u, s)
    BY <1>2 DEF SpentOn, RefundOf
<1>6. /\ SpentOn(u, r) = IF u = orders[r].user THEN orders[r].total ELSE 0
      /\ SpentOn(u, r)' = 0
    BY <1>2 DEF SpentOn, RefundOf
<1>7. Spent(u) \in Int /\ Spent(u)' = Spent(u) + (SpentOn(u, r)' - SpentOn(u, r))
    BY <1>5, SpentChanges DEF BillingInv
<1>8. PaidIn(u)' = PaidIn(u) /\ PaidIn(u) \in Int
    BY <1>1, PaidInStays, SumsTyped DEF BillingInv
<1>9. balance[u] = PaidIn(u) - Spent(u) /\ orders[r].total \in Int /\ balance[u] \in Int
    BY Cents DEF BillingInv, EveryCentAccounted
<1> QED BY <1>3, <1>6, <1>7, <1>8, <1>9

\* An order's total changes only while it is not charged.
LEMMA NothingBooked ==
    ASSUME BillingInv, NothingMoved, UNCHANGED topupVars
    PROVE  EveryCentAccounted'
<1>1. \A u \in Users, t \in Topups : PaidInBy(u, t)' = PaidInBy(u, t)
    BY DEF topupVars, PaidInBy
<1>2. \A r \in Requests : (Charged(r)' <=> Charged(r)) /\ (Refunded(r)' <=> Refunded(r))
    BY NoMove DEF NothingMoved
<1>3. \A u \in Users, r \in Requests : SpentOn(u, r)' = SpentOn(u, r)
    BY <1>2 DEF NothingMoved, SpentOn
<1>4. balance' = balance
    BY DEF NothingMoved, walletVars
<1> QED BY <1>1, <1>3, <1>4, PaidInStays, SpentStays DEF BillingInv, EveryCentAccounted

\* A payment's credit is booked once, to its owner.
LEMMA CreditBooked ==
    ASSUME BillingInv, Inv', TopUpProofs!Inv', NEW t \in Topups,
           ~payments[t].credited, payments'[t].credited,
           Credit(topup[t].user, "topup", topup[t].amount, t),
           \A s \in Topups \ {t} : payments'[s].credited = payments[s].credited,
           \A s \in Topups : topup'[s].user = topup[s].user /\ topup'[s].amount = topup[s].amount,
           UNCHANGED orderVars
    PROVE  EveryCentAccounted'
<1>1. /\ Move(topup[t].user, "topup", topup[t].amount, t)
      /\ topup[t].user \in Users /\ topup[t].amount \in Int
      /\ t \in Refs /\ "topup" \in Kinds /\ WalletTypeOK
    BY Cents, BillingAssumption DEF Credit, BillingInv, Inv, TypeOK, Kinds, TopUps!TopUpAssumption
<1>2. \A v \in Users, k \in Kinds, p \in Refs :
         HasEntry(v, k, p)' <=> HasEntry(v, k, p) \/ (v = topup[t].user /\ k = "topup" /\ p = t)
    BY <1>1, MoveEntries
<1>3. \A r \in Requests : (Charged(r)' <=> Charged(r)) /\ (Refunded(r)' <=> Refunded(r))
    <2>1. \A r \in Requests : orders[r].user \in Users /\ r \in Refs
        BY Cents, OrderFlowAssumption DEF BillingInv
    <2> QED BY <1>2, <2>1 DEF orderVars, Charged, Refunded, Kinds
<1>4. \A u \in Users, r \in Requests : SpentOn(u, r)' = SpentOn(u, r)
    BY <1>3 DEF SpentOn, orderVars
<1>5. \A u \in Users : balance'[u] = balance[u] + (IF u = topup[t].user THEN topup[t].amount ELSE 0)
    BY <1>1 DEF Move, WalletTypeOK
<1>6. SUFFICES ASSUME NEW u \in Users PROVE balance'[u] = PaidIn(u)' - Spent(u)'
    BY DEF EveryCentAccounted
<1>7. /\ \A s \in Topups \ {t} : PaidInBy(u, s)' = PaidInBy(u, s)
      /\ PaidInBy(u, t) = 0
      /\ PaidInBy(u, t)' = IF u = topup[t].user THEN topup[t].amount ELSE 0
    BY DEF PaidInBy
<1>8. PaidIn(u) \in Int /\ PaidIn(u)' = PaidIn(u) + (PaidInBy(u, t)' - PaidInBy(u, t))
    BY <1>7, PaidInChanges DEF BillingInv
<1>9. Spent(u)' = Spent(u) /\ Spent(u) \in Int
    BY <1>4, SpentStays, SumsTyped DEF BillingInv
<1>10. balance[u] = PaidIn(u) - Spent(u) /\ balance[u] \in Int
    BY Cents DEF BillingInv, EveryCentAccounted
<1> QED BY <1>1, <1>5, <1>7, <1>8, <1>9, <1>10

LEMMA NoCreditBooked ==
    ASSUME BillingInv, UNCHANGED walletVars, UNCHANGED orderVars,
           \A t \in Topups : payments'[t].credited = payments[t].credited,
           \A t \in Topups : topup'[t].user = topup[t].user /\ topup'[t].amount = topup[t].amount
    PROVE  EveryCentAccounted'
<1>1. \A u \in Users, t \in Topups : PaidInBy(u, t)' = PaidInBy(u, t)
    BY DEF PaidInBy
<1>2. \A r \in Requests : (Charged(r)' <=> Charged(r)) /\ (Refunded(r)' <=> Refunded(r))
    BY NoMove DEF orderVars
<1>3. \A u \in Users, r \in Requests : SpentOn(u, r)' = SpentOn(u, r)
    BY <1>2 DEF orderVars, SpentOn
<1>4. balance' = balance
    BY DEF walletVars
<1> QED BY <1>1, <1>3, <1>4, PaidInStays, SpentStays DEF BillingInv, EveryCentAccounted

-----------------------------------------------------------------------------
LEMMA BillingInitInv == BillingInit => BillingInv
<1> SUFFICES ASSUME BillingInit PROVE BillingInv
    OBVIOUS
<1>1. Inv /\ Quoted
    <2>1. Quoted
        BY OrderFlowAssumption DEF BillingInit, Init, Quoted
    <2> QED BY <2>1, InitInv DEF BillingInit
<1>2. TopUpProofs!Inv
    BY SameInit, TopupAssumptions, TopUpProofs!InitInv DEF BillingInit
<1>3. /\ \A u \in Users : balance[u] = 0 /\ ledger[u] = << >>
      /\ \A t \in Topups : payments[t].credited = FALSE
    BY DEF BillingInit, TopUps!Init, TopUps!WalletInit
<1>4. ASSUME NEW u \in Users PROVE balance[u] = PaidIn(u) - Spent(u)
    <2>1. \A r \in Requests : ~Charged(r)
        <3>1. \A r \in Requests : orders[r].user \in Users
            BY <1>1, <1>2, Cents
        <3> QED BY <1>3, <3>1 DEF Charged, HasEntry
    <2>2. [r \in Requests |-> SpentOn(u, r)] = [r \in Requests |-> 0]
        BY <2>1 DEF SpentOn
    <2>3. [t \in Topups |-> PaidInBy(u, t)] = [t \in Topups |-> 0]
        BY <1>3 DEF PaidInBy
    <2>4. PaidIn(u) = 0 /\ Spent(u) = 0
        BY <2>2, <2>3, SumOfZeros, BillingAssumption DEF PaidIn, Spent
    <2> QED BY <1>3, <2>4
<1> QED BY <1>1, <1>2, <1>4 DEF BillingInv, EveryCentAccounted

LEMMA OrderStepInv ==
    ASSUME BillingInv, [Next]_vars, UNCHANGED topupVars
    PROVE  BillingInv'
<1>1. Inv' /\ Quoted'
    BY NextInv, QuotedNext DEF BillingInv
<1>2. NothingMoved \/ \E r \in Requests : ChargeOf(r) \/ RefundOf(r)
    BY OrderMoves DEF BillingInv
<1>3. TopUpProofs!NonNegative'
    BY <1>1, SameWallet DEF Inv
<1>4. CASE NothingMoved
    <2>1. TopUpProofs!Inv'
        <3>1. UNCHANGED TopUpProofs!vars
            BY <1>4 DEF NothingMoved, walletVars, topupVars, TopUpProofs!vars
        <3> QED BY <3>1, TopupAssumptions, TopUpProofs!NextInv DEF BillingInv
    <2> QED BY <1>1, <1>4, <2>1, NothingBooked DEF BillingInv
<1>5. ASSUME NEW r \in Requests, ChargeOf(r) PROVE BillingInv'
    <2>1. /\ req[r].user \in Users /\ r \in Refs /\ -req[r].total \in Int
          /\ Move(req[r].user, "debit", -req[r].total, r)
        BY <1>5, OrderFlowAssumption DEF BillingInv, Inv, TypeOK, Request, ChargeOf, Debit
    <2>2. TopUpProofs!Move(req[r].user, "debit", -req[r].total, r)
        BY <2>1 DEF Move, TopUpProofs!Move
    <2>3. TopUpProofs!Inv'
        BY <1>3, <2>1, <2>2, TopupAssumptions, TopUpProofs!OtherRows DEF BillingInv, topupVars
    <2> QED BY <1>1, <1>5, <2>3, ChargeBooked DEF BillingInv
<1>6. ASSUME NEW r \in Requests, RefundOf(r) PROVE BillingInv'
    <2>1. /\ req[r].user \in Users /\ r \in Refs /\ req[r].total \in Int
          /\ Move(req[r].user, "refund", req[r].total, r)
        BY <1>6, OrderFlowAssumption DEF BillingInv, Inv, TypeOK, Request, RefundOf, Credit
    <2>2. TopUpProofs!Move(req[r].user, "refund", req[r].total, r)
        BY <2>1 DEF Move, TopUpProofs!Move
    <2>3. TopUpProofs!Inv'
        BY <1>3, <2>1, <2>2, TopupAssumptions, TopUpProofs!OtherRows DEF BillingInv, topupVars
    <2> QED BY <1>1, <1>6, <2>3, RefundBooked DEF BillingInv
<1> QED BY <1>2, <1>4, <1>5, <1>6

LEMMA TopupStepInv ==
    ASSUME BillingInv, TopUps!Next, UNCHANGED orderVars
    PROVE  BillingInv'
<1>1. TopUpProofs!Next
    BY SameNext
<1>2. TopUpProofs!Inv'
    BY <1>1, TopupAssumptions, TopUpProofs!NextInv DEF BillingInv
<1>3. TopUpProofs!NothingCredited \/ \E t \in Topups : TopUpProofs!Credited(t)
    BY <1>1, TopupAssumptions, TopUpProofs!TopupMoves DEF BillingInv
<1>4. NonNegative'
    BY <1>2, SameWallet DEF TopUpProofs!Inv
<1>5. \A t \in Topups : topup'[t].user = topup[t].user /\ topup'[t].amount = topup[t].amount
    <2>1. TopUpProofs!Owner' = TopUpProofs!Owner /\ TopUpProofs!Asked' = TopUpProofs!Asked
        BY <1>1, TopupAssumptions, TopUpProofs!TermsStay DEF BillingInv
    <2> QED BY <2>1 DEF TopUpProofs!Owner, TopUpProofs!Asked
<1>6. CASE TopUpProofs!NothingCredited
    <2>1. UNCHANGED walletVars /\ \A t \in Topups : payments'[t].credited = payments[t].credited
        BY <1>6, SameMoves
    <2>2. UNCHANGED vars
        BY <2>1 DEF walletVars, orderVars, vars
    <2>3. Inv' /\ Quoted'
        BY <2>2, NextInv, QuotedNext DEF BillingInv
    <2> QED BY <1>2, <1>5, <2>1, <2>3, NoCreditBooked DEF BillingInv
<1>7. ASSUME NEW t \in Topups, TopUpProofs!Credited(t) PROVE BillingInv'
    <2>1. /\ ~payments[t].credited
          /\ Credit(topup[t].user, "topup", topup[t].amount, t)
          /\ payments'[t].credited
          /\ \A s \in Topups \ {t} : payments'[s].credited = payments[s].credited
        BY <1>7, SameMoves
    <2>2. /\ topup[t].user \in Users /\ topup[t].amount \in Int /\ t \in Refs \ Requests
          /\ Move(topup[t].user, "topup", topup[t].amount, t)
        BY <2>1, Cents, BillingAssumption DEF BillingInv, Credit, TopUps!TopUpAssumption
    <2>3. Inv' /\ Quoted'
        BY <1>4, <2>2, PaymentRows DEF BillingInv
    <2> QED BY <1>2, <1>5, <2>1, <2>3, CreditBooked DEF BillingInv
<1> QED BY <1>3, <1>6, <1>7

\* Orders and top-ups that share their wallets keep both inductive invariants,
\* and the books balance, in every reachable state.
THEOREM BillingInvariance == BillingSpec => []BillingInv
<1>1. BillingInv /\ [BillingNext]_billingVars => BillingInv'
    <2> SUFFICES ASSUME BillingInv, [BillingNext]_billingVars PROVE BillingInv'
        OBVIOUS
    <2>1. CASE Next /\ UNCHANGED topupVars
        BY <2>1, OrderStepInv
    <2>2. CASE TopUps!Next /\ UNCHANGED orderVars
        BY <2>2, TopupStepInv
    <2>3. CASE UNCHANGED billingVars
        <3>1. [Next]_vars /\ UNCHANGED topupVars
            BY <2>3 DEF billingVars
        <3> QED BY <3>1, OrderStepInv
    <2> QED BY <2>1, <2>2, <2>3 DEF BillingNext
<1> QED BY <1>1, BillingInitInv, PTL DEF BillingSpec

\* The balance is what was paid in less what was spent, for any number of
\* customers, orders and payments and for every set of faults.
THEOREM BooksBalance == BillingSpec => []EveryCentAccounted
<1>1. BillingInv => EveryCentAccounted
    BY DEF BillingInv
<1> QED BY <1>1, BillingInvariance, PTL

\* What OrderFlow and TopUp promise of the wallet, the orders and the payments
\* by themselves they also promise together.
THEOREM TogetherAsAlone ==
    BillingSpec => [](/\ NonNegative /\ LedgerChain
                      /\ ServiceIsPaid /\ StatusTruth /\ ReplyTruth /\ QuoteIsCharged
                      /\ TopUps!FlagMatchesLedger /\ TopUps!OneApplierPerEvent
                      /\ TopUps!StripeAckIsRecorded)
<1>1. Inv => NonNegative /\ LedgerChain
    BY DEF Inv
<1>2. Inv => ServiceIsPaid /\ StatusTruth /\ ReplyTruth
    <2> SUFFICES ASSUME Inv PROVE ServiceIsPaid /\ StatusTruth /\ ReplyTruth
        OBVIOUS
    <2>1. ServiceIsPaid
        BY DEF Inv, TypeOK, AllSound, SoundFor, Sound, ServiceIsPaid
    <2>2. StatusTruth
        BY DEF Inv, AllSound, SoundFor, Sound, StatusTruth
    <2>3. ReplyTruth
        BY DEF Inv, AllSound, SoundFor, Sound, ReplyTruth
    <2> QED BY <2>1, <2>2, <2>3
<1>3. TopUpProofs!Inv => TopUps!FlagMatchesLedger
    BY DEF TopUpProofs!Inv, TopUpProofs!AllSound, TopUpProofs!SoundFor, TopUpProofs!Sound,
           TopUpProofs!Booked, TopUpProofs!OneRow, TopUpProofs!HasEntry, TopUpProofs!IsEntry,
           TopUps!FlagMatchesLedger, TopUps!HasEntry, TopUps!IsEntry
<1>4. TopUpProofs!Inv => TopUps!OneApplierPerEvent
    BY DEF TopUpProofs!Inv, TopUpProofs!OneApplierPerEvent, TopUps!OneApplierPerEvent
<1>5. TopUpProofs!Inv => TopUps!StripeAckIsRecorded
    BY DEF TopUpProofs!Inv, TopUpProofs!StripeAckIsRecorded, TopUps!StripeAckIsRecorded,
           TopUpProofs!FromStripe, TopUps!FromStripe
<1> QED BY <1>1, <1>2, <1>3, <1>4, <1>5, QuoteFollows, BillingInvariance, PTL DEF BillingInv

-----------------------------------------------------------------------------
\* Seen from users and ledger_entries alone, orders and top-ups do nothing but
\* what Wallet lets any caller do: so what WalletTx shows of the transactions
\* that Wallet stands for holds of the handlers' charges, refunds and credits.
Atomic == INSTANCE Wallet WITH Amounts <- Nat

LEMMA IsWalletMove ==
    ASSUME NEW u \in Users, NEW amount \in Int, NEW ref \in Refs
    PROVE  /\ Debit(u, amount, ref) => Atomic!WalletNext
           /\ Credit(u, "refund", amount, ref) => Atomic!WalletNext
           /\ Credit(u, "topup", amount, ref) => Atomic!WalletNext
<1>1. Debit(u, amount, ref) => amount \in Nat /\ Atomic!Debit(u, amount, ref)
    BY DEF Debit, Covers, Move, Atomic!Debit, Atomic!Covers, Atomic!Move
<1>2. \A kind : Credit(u, kind, amount, ref) => amount \in Nat /\ Atomic!Credit(u, kind, amount, ref)
    BY DEF Credit, Move, Atomic!Credit, Atomic!Move
<1> QED BY <1>1, <1>2 DEF Atomic!WalletNext

THEOREM HandlersUseTheWallet == BillingSpec => Atomic!WalletSpec
<1>1. BillingInit => Atomic!WalletInit
    BY DEF BillingInit, TopUps!Init, TopUps!WalletInit, Atomic!WalletInit
<1>2. BillingInv /\ [BillingNext]_billingVars => [Atomic!WalletNext]_(Atomic!walletVars)
    <2> SUFFICES ASSUME BillingInv, [BillingNext]_billingVars
                 PROVE  [Atomic!WalletNext]_(Atomic!walletVars)
        OBVIOUS
    <2>1. ASSUME [Next]_vars PROVE [Atomic!WalletNext]_(Atomic!walletVars)
        <3>1. NothingMoved \/ \E r \in Requests : ChargeOf(r) \/ RefundOf(r)
            BY <2>1, OrderMoves DEF BillingInv
        <3>2. CASE NothingMoved
            BY <3>2 DEF NothingMoved, walletVars, Atomic!walletVars
        <3>3. ASSUME NEW r \in Requests, ChargeOf(r) \/ RefundOf(r)
              PROVE  Atomic!WalletNext
            <4>1. req[r].user \in Users /\ req[r].total \in Int /\ r \in Refs
                BY OrderFlowAssumption DEF BillingInv, Inv, TypeOK, Request
            <4> QED BY <3>3, <4>1, IsWalletMove DEF ChargeOf, RefundOf
        <3> QED BY <3>1, <3>2, <3>3
    <2>2. ASSUME TopUps!Next PROVE [Atomic!WalletNext]_(Atomic!walletVars)
        <3>1. TopUpProofs!NothingCredited \/ \E t \in Topups : TopUpProofs!Credited(t)
            BY <2>2, SameNext, TopupAssumptions, TopUpProofs!TopupMoves DEF BillingInv
        <3>2. CASE TopUpProofs!NothingCredited
            BY <3>2, SameMoves DEF walletVars, Atomic!walletVars
        <3>3. ASSUME NEW t \in Topups, TopUpProofs!Credited(t)
              PROVE  Atomic!WalletNext
            <4>1. topup[t].user \in Users /\ topup[t].amount \in Int /\ t \in Refs
                BY Cents, BillingAssumption DEF BillingInv, TopUps!TopUpAssumption
            <4> QED BY <3>3, <4>1, SameMoves, IsWalletMove
        <3> QED BY <3>1, <3>2, <3>3
    <2>3. CASE UNCHANGED billingVars
        BY <2>3 DEF billingVars, vars, Atomic!walletVars
    <2> QED BY <2>1, <2>2, <2>3 DEF BillingNext
<1> QED BY <1>1, <1>2, BillingInvariance, PTL DEF BillingSpec, Atomic!WalletSpec

-----------------------------------------------------------------------------
(* Orders when the store answers: which faults can break the promise of a    *)
(* refund, and the part of ChargeSettles that a step can break.              *)

\* What is booked stays booked.
LEMMA RowsAreKept ==
    ASSUME Inv, [Next]_vars, NEW r \in Requests
    PROVE  /\ Charged(r) => Charged(r)'
           /\ Refunded(r) => Refunded(r)'
<1>1. CASE NothingMoved
    BY <1>1, NoMove DEF NothingMoved
<1>2. ASSUME NEW s \in Requests, ChargeOf(s) PROVE (Charged(r) => Charged(r)') /\ (Refunded(r) => Refunded(r)')
    BY <1>2, DebitStep DEF ChargeOf
<1>3. ASSUME NEW s \in Requests, RefundOf(s) PROVE (Charged(r) => Charged(r)') /\ (Refunded(r) => Refunded(r)')
    BY <1>3, RefundStep DEF RefundOf
<1> QED BY <1>1, <1>2, <1>3, OrderMoves

\* The handler of a request whose context lasts, and that has refunded what it
\* calls failed.
RefundDone(r) ==
    /\ req[r].live
    /\ req[r].pc = "fail" \/ req[r].reply = "502" => Refunded(r)

\* The steps that neither refund nor answer 502.
LEMMA OtherSteps ==
    ASSUME Inv, NEW r \in Requests,
           \/ ReadPlan(r) \/ CreateOrder(r) \/ ChargeWallet(r) \/ CancelOrder(r)
           \/ MarkProvisioning(r) \/ Provision(r) \/ SaveProxy(r) \/ Activate(r)
    PROVE  /\ \A s \in Requests \ {r} : req'[s] = req[s]
           /\ req'[r].live = req[r].live /\ req'[r].pc # "fail" /\ req'[r].reply # "502"
<1>1. \/ \E pc \in Steps \ {"fail"} : Goto(r, pc)
      \/ \E total : req' = [req EXCEPT ![r].pc = "create", ![r].total = total]
      \/ \E reply \in Replies \ {"502"} : Answer(r, reply)
    <2>1. CASE ReadPlan(r)
        BY <2>1 DEF ReadPlan, Replies
    <2>2. CASE CreateOrder(r)
        BY <2>2 DEF CreateOrder, Steps, Replies
    <2>3. CASE ChargeWallet(r)
        BY <2>3 DEF ChargeWallet, Steps, Replies
    <2>4. CASE CancelOrder(r)
        BY <2>4 DEF CancelOrder, Replies
    <2>5. CASE MarkProvisioning(r)
        BY <2>5 DEF MarkProvisioning, Steps
    <2>6. CASE Provision(r)
        BY <2>6 DEF Provision, Steps
    <2>7. CASE SaveProxy(r)
        BY <2>7 DEF SaveProxy, Steps
    <2>8. CASE Activate(r)
        BY <2>8 DEF Activate, Replies
    <2> QED BY <2>1, <2>2, <2>3, <2>4, <2>5, <2>6, <2>7, <2>8
<1>2. req[r].reply = "none"
    BY DEF Inv, AllSound, SoundFor, Sound, ReadPlan, CreateOrder, ChargeWallet, CancelOrder,
           MarkProvisioning, Provision, SaveProxy, Activate, At
<1> QED BY <1>1, <1>2 DEF Goto, Answer, Inv, TypeOK, Request, Steps

LEMMA RefundDoneNext ==
    ASSUME Inv, [Next]_vars, "db" \notin Faults, "ctx" \notin Faults,
           \A r \in Requests : RefundDone(r)
    PROVE  (\A r \in Requests : RefundDone(r))'
<1> SUFFICES ASSUME NEW s \in Requests PROVE RefundDone(s)'
    OBVIOUS
<1>0. RefundDone(s) /\ (Refunded(s) => Refunded(s)')
    BY RowsAreKept
<1>1. ASSUME NEW r \in Requests,
             \/ ReadPlan(r) \/ CreateOrder(r) \/ ChargeWallet(r) \/ CancelOrder(r)
             \/ MarkProvisioning(r) \/ Provision(r) \/ SaveProxy(r) \/ Activate(r)
      PROVE  RefundDone(s)'
    BY <1>0, <1>1, OtherSteps DEF RefundDone
<1>2. ASSUME NEW r \in Requests, Refund(r) PROVE RefundDone(s)'
    <2>1. req' = [req EXCEPT ![r].pc = "fail"] /\ req[r].live /\ UNCHANGED orders
        BY <1>2 DEF Refund, Goto, RefundDone
    <2>2. Credit(req[r].user, "refund", req[r].total, r)
        BY <1>2, <2>1 DEF Refund, StoreOutcomes, Committed
    <2>3. Refunded(r)'
        BY <2>1, <2>2, RefundStep
    <2>4. req[r].reply = "none" /\ req \in [Requests -> Request]
        BY <1>2 DEF Inv, TypeOK, AllSound, SoundFor, Sound, Refund, At
    <2> QED BY <1>0, <2>1, <2>3, <2>4 DEF RefundDone, Request
<1>3. ASSUME NEW r \in Requests, MarkFailed(r) PROVE RefundDone(s)'
    <2>1. req' = [req EXCEPT ![r].pc = "done", ![r].reply = "502"] /\ req[r].pc = "fail"
        BY <1>3 DEF MarkFailed, Answer, At
    <2>2. Refunded(r)'
        BY <2>1, RowsAreKept DEF RefundDone
    <2>3. req \in [Requests -> Request]
        BY DEF Inv, TypeOK
    <2> QED BY <1>0, <2>1, <2>2, <2>3 DEF RefundDone, Request
<1>4. CASE Restart
    BY <1>0, <1>4 DEF Restart, RefundDone, Inv, TypeOK, Request
<1>5. CASE UNCHANGED req
    BY <1>0, <1>5 DEF RefundDone
<1>6. \/ Restart \/ UNCHANGED req
      \/ \E r \in Requests : \/ ReadPlan(r) \/ CreateOrder(r) \/ ChargeWallet(r) \/ CancelOrder(r)
                             \/ MarkProvisioning(r) \/ Provision(r) \/ SaveProxy(r) \/ Activate(r)
                             \/ Refund(r) \/ MarkFailed(r)
    BY DEF Next, Handler, EndContext, SyncPlan, vars
<1> QED BY <1>1, <1>2, <1>3, <1>4, <1>5, <1>6

\* The promise of order_handlers.go:79 holds as long as the store answers and
\* the request's context lasts, even if acknowledgements are lost, VaultProxies
\* fails or the server restarts: those two faults are all that run
\* orders_refund_lost can owe its counterexample to.
THEOREM RefundNeedsStoreAndContext ==
    ASSUME "db" \notin Faults, "ctx" \notin Faults
    PROVE  Spec => []FailureIsRefunded
<1> DEFINE AllDone == \A r \in Requests : RefundDone(r)
<1>1. Init => AllDone
    BY DEF Init, RefundDone
<1>2. Inv /\ AllDone /\ [Next]_vars => AllDone'
    BY RefundDoneNext
<1>3. AllDone => FailureIsRefunded
    BY DEF RefundDone, FailureIsRefunded
<1> HIDE DEF AllDone
<1> QED BY <1>1, <1>2, <1>3, Invariance, PTL DEF Spec

\* A store call succeeds and a handler is not cut short.
StoreAnswers == {"db", "ack", "ctx", "crash"} \cap Faults = {}

InHand(r) ==
    /\ req[r].live
    /\ Charged(r) => \/ Fulfilled(r) \/ Refunded(r)
                     \/ req[r].pc \in {"mark", "provision", "refund", "save", "activate"}

\* A step of request r leaves the order of every other request as it is.
LEMMA OthersRest ==
    ASSUME Inv, NEW r \in Requests, ReadPlan(r) \/ Handler(r), NEW s \in Requests \ {r}
    PROVE  /\ req'[s] = req[s] /\ orders'[s] = orders[s] /\ (s \in proxies' <=> s \in proxies)
           /\ Charged(s)' <=> Charged(s)
           /\ Refunded(s)' <=> Refunded(s)
<1>1. req'[s] = req[s]
    <2>1. \/ \E pc : Goto(r, pc)
          \/ \E total : req' = [req EXCEPT ![r].pc = "create", ![r].total = total]
          \/ \E reply : Answer(r, reply)
        <3>1. CASE ReadPlan(r)
            BY <3>1 DEF ReadPlan
        <3>2. CASE CreateOrder(r) \/ ChargeWallet(r) \/ CancelOrder(r)
            BY <3>2 DEF CreateOrder, ChargeWallet, CancelOrder
        <3>3. CASE MarkProvisioning(r) \/ Provision(r) \/ Refund(r)
            BY <3>3 DEF MarkProvisioning, Provision, Refund
        <3>4. CASE MarkFailed(r) \/ SaveProxy(r) \/ Activate(r)
            BY <3>4 DEF MarkFailed, SaveProxy, Activate
        <3> QED BY <3>1, <3>2, <3>3, <3>4 DEF Handler
    <2> QED BY <2>1 DEF Goto, Answer, Inv, TypeOK
<1>2. orders'[s] = orders[s] /\ (s \in proxies' <=> s \in proxies)
    <2>1. \/ orders' = orders
          \/ orders' = [orders EXCEPT ![r].status = "pending", ![r].total = req[r].total]
          \/ \E status : SetStatus(r, status)
          \/ orders' = [orders EXCEPT ![r].status = "active", ![r].ref = TRUE]
        BY DEF ReadPlan, Handler, CreateOrder, ChargeWallet, CancelOrder, MarkProvisioning, Provision,
               Refund, MarkFailed, SaveProxy, Activate
    <2>2. proxies' = proxies \/ proxies' = proxies \cup {r}
        BY DEF ReadPlan, Handler, CreateOrder, ChargeWallet, CancelOrder, MarkProvisioning, Provision,
               Refund, MarkFailed, SaveProxy, Activate
    <2> QED BY <2>1, <2>2 DEF SetStatus, Inv, TypeOK
<1>3. \/ UNCHANGED walletVars
      \/ req[r].pc = "debit" /\ Debit(req[r].user, req[r].total, r)
      \/ Credit(req[r].user, "refund", req[r].total, r)
    BY DEF ReadPlan, Handler, CreateOrder, ChargeWallet, CancelOrder, MarkProvisioning, Provision,
           Refund, MarkFailed, SaveProxy, Activate, walletVars, At
<1> QED BY <1>1, <1>2, <1>3, NoMove, DebitStep, RefundStep

AllInHand == \A r \in Requests : InHand(r)

LEMMA InHandNext ==
    ASSUME Inv, Inv', [Next]_vars, StoreAnswers, \A r \in Requests : InHand(r)
    PROVE  (\A r \in Requests : InHand(r))'
<1> SUFFICES ASSUME NEW s \in Requests PROVE InHand(s)'
    OBVIOUS
<1>0. /\ InHand(s) /\ SoundFor(s) /\ StoreOutcomes(s) = {"ok"} /\ req \in [Requests -> Request]
      /\ (Charged(s) => Charged(s)') /\ (Refunded(s) => Refunded(s)')
    BY RowsAreKept DEF InHand, Inv, TypeOK, AllSound, StoreOutcomes, StoreAnswers
<1>1. ASSUME NEW r \in Requests \ {s}, ReadPlan(r) \/ Handler(r)
      PROVE  InHand(s)'
    BY <1>0, <1>1, OthersRest DEF InHand, Fulfilled
<1>2. CASE ReadPlan(s) \/ CreateOrder(s) \/ CancelOrder(s)
    <2>1. req[s].pc \in BeforeCharge /\ UNCHANGED walletVars
        BY <1>2 DEF ReadPlan, CreateOrder, CancelOrder, At, walletVars, BeforeCharge
    <2>2. orders'[s].user = orders[s].user
        BY <1>2, QuietOrders DEF ReadPlan
    <2>3. ~Charged(s)'
        BY <1>0, <2>1, <2>2, NoMove DEF SoundFor, Sound
    <2>4. req'[s].live = req[s].live
        BY <1>0, <1>2 DEF ReadPlan, CreateOrder, CancelOrder, Goto, Answer, Request
    <2> QED BY <1>0, <2>3, <2>4 DEF InHand
<1>3. CASE ChargeWallet(s)
    <2>1. req[s].pc = "debit" /\ UNCHANGED orders
        BY <1>3 DEF ChargeWallet, At
    <2>2. CASE Goto(s, "mark")
        BY <1>0, <2>2 DEF Goto, Request, InHand
    <2>3. CASE UNCHANGED walletVars /\ ~Charged(s) /\ (Goto(s, "cancel") \/ Answer(s, "500"))
        BY <1>0, <2>1, <2>3, NoMove DEF Goto, Answer, Request, InHand
    <2>4. ~Charged(s)
        BY <1>0, <2>1 DEF SoundFor, Sound, BeforeCharge
    <2> QED BY <1>0, <1>3, <2>2, <2>3, <2>4 DEF ChargeWallet
<1>4. CASE MarkProvisioning(s) \/ Provision(s)
    <2>1. \E pc \in {"provision", "save", "refund"} : Goto(s, pc)
        BY <1>4 DEF MarkProvisioning, Provision
    <2> QED BY <1>0, <2>1 DEF Goto, Request, InHand
<1>5. CASE Refund(s)
    <2>1. Credit(req[s].user, "refund", req[s].total, s) /\ Goto(s, "fail") /\ UNCHANGED orders
        BY <1>0, <1>5 DEF Refund, Committed
    <2> QED BY <1>0, <2>1, RefundStep DEF Goto, Request, InHand
<1>6. CASE MarkFailed(s)
    <2>1. req[s].pc = "fail" /\ Answer(s, "502")
        BY <1>6 DEF MarkFailed, At
    <2>2. Refunded(s)
        BY <1>0, <2>1 DEF SoundFor, Sound, InHand, Fulfilled, AfterCharge
    <2> QED BY <1>0, <2>1, <2>2 DEF Answer, Request, InHand
<1>7. CASE SaveProxy(s)
    <2>1. s \in proxies' /\ Goto(s, "activate")
        BY <1>0, <1>7 DEF SaveProxy, Committed
    <2> QED BY <1>0, <2>1 DEF Goto, Request, InHand, Fulfilled
<1>8. CASE Activate(s)
    <2>1. orders'[s].status = "active" /\ Answer(s, "201")
        BY <1>0, <1>8 DEF Activate, Committed, Inv, TypeOK, Order
    <2> QED BY <1>0, <2>1 DEF Answer, Request, InHand, Fulfilled
<1>9. CASE UNCHANGED <<balance, ledger, orders, proxies, req>>
    BY <1>0, <1>9 DEF InHand, Fulfilled, Charged, Refunded, HasEntry, IsEntry
<1>10. \/ UNCHANGED <<balance, ledger, orders, proxies, req>>
       \/ \E r \in Requests : ReadPlan(r) \/ Handler(r)
    BY DEF Next, EndContext, Restart, SyncPlan, vars, StoreAnswers
<1> QED BY <1>1, <1>2, <1>3, <1>4, <1>5, <1>6, <1>7, <1>8, <1>9, <1>10 DEF Handler

\* No order is left half done: while the store answers and the server runs,
\* an order that has been charged is fulfilled, refunded or still in the hands
\* of its handler, also when VaultProxies fails or its answer is lost.  All
\* ChargeSettles adds is that a handler runs on (handleCreateOrder, 57-117).
THEOREM ChargedIsInHand ==
    ASSUME StoreAnswers
    PROVE  Spec => []AllInHand
<1>1. Init => AllInHand
    <2> SUFFICES ASSUME Init, NEW r \in Requests PROVE InHand(r)
        BY DEF AllInHand
    <2>1. SoundFor(r) /\ req[r].pc = "start" /\ req[r].live
        BY InitInv DEF Init, Inv, AllSound
    <2> QED BY <2>1 DEF SoundFor, Sound, BeforeCharge, InHand
<1>2. Inv /\ Inv' /\ AllInHand /\ [Next]_vars => AllInHand'
    BY InHandNext DEF AllInHand
<1> QED BY <1>1, <1>2, Invariance, PTL DEF Spec

\* A top-up's step leaves every order in hand.
LEMMA TopupsLeaveInHand ==
    ASSUME BillingInv, TopUps!Next, UNCHANGED orderVars, NEW r \in Requests, InHand(r)
    PROVE  InHand(r)'
<1>1. TopUpProofs!NothingCredited \/ \E t \in Topups : TopUpProofs!Credited(t)
    BY SameNext, TopupAssumptions, TopUpProofs!TopupMoves DEF BillingInv
<1>2. orders'[r].user = orders[r].user
    BY DEF orderVars
<1>3. (Charged(r)' <=> Charged(r)) /\ (Refunded(r)' <=> Refunded(r))
    <2>1. CASE TopUpProofs!NothingCredited
        <3>1. UNCHANGED walletVars
            BY <2>1, SameMoves
        <3> QED BY <1>2, <3>1, NoMove
    <2>2. ASSUME NEW t \in Topups, TopUpProofs!Credited(t)
          PROVE  (Charged(r)' <=> Charged(r)) /\ (Refunded(r)' <=> Refunded(r))
        <3>1. /\ topup[t].user \in Users /\ topup[t].amount \in Int /\ t \in Refs
              /\ r \in Refs /\ t # r /\ orders[r].user \in Users
            BY Cents, BillingAssumption, OrderFlowAssumption DEF BillingInv, TopUps!TopUpAssumption
        <3>2. Move(topup[t].user, "topup", topup[t].amount, t)
            BY <2>2, SameMoves DEF Credit
        <3>3. WalletTypeOK /\ "topup" \in Kinds /\ "debit" \in Kinds /\ "refund" \in Kinds
            BY DEF BillingInv, Inv, TypeOK, Kinds
        <3>4. \A v \in Users, k \in Kinds : HasEntry(v, k, r)' <=> HasEntry(v, k, r)
            BY <3>1, <3>2, <3>3, MoveEntries
        <3> QED BY <3>1, <3>3, <3>4 DEF orderVars, Charged, Refunded
    <2> QED BY <1>1, <2>1, <2>2
<1> QED BY <1>3 DEF orderVars, InHand, Fulfilled

\* The part of MoneySettles that a step can break, with orders and top-ups on
\* the same wallets: while the store answers and the server runs, a charged
\* order is fulfilled, refunded or in the hands of its handler, and money that
\* the webhooks know of is credited or in the hands of theirs.
THEOREM MoneyIsInHand ==
    ASSUME StoreAnswers, TopUpProofs!StoreAnswers
    PROVE  BillingSpec => [](AllInHand /\ TopUpProofs!MoneyInHand)
<1>1. BillingInit => AllInHand /\ TopUpProofs!MoneyInHand
    <2> SUFFICES ASSUME BillingInit PROVE AllInHand /\ TopUpProofs!MoneyInHand
        OBVIOUS
    <2>1. ASSUME NEW r \in Requests PROVE InHand(r)
        BY InitInv DEF BillingInit, Init, Inv, AllSound, SoundFor, Sound, BeforeCharge, InHand
    <2>2. TopUpProofs!MoneyInHand
        BY DEF BillingInit, TopUps!Init, TopUps!Idle, TopUpProofs!MoneyInHand
    <2> QED BY <2>1, <2>2 DEF AllInHand
<1>2. BillingInv /\ BillingInv' /\ AllInHand /\ [BillingNext]_billingVars => AllInHand'
    <2> SUFFICES ASSUME BillingInv, BillingInv', AllInHand, [BillingNext]_billingVars
                 PROVE  AllInHand'
        OBVIOUS
    <2>1. CASE Next \/ UNCHANGED billingVars
        BY <2>1, InHandNext DEF BillingInv, billingVars, AllInHand
    <2>2. CASE TopUps!Next /\ UNCHANGED orderVars
        BY <2>2, TopupsLeaveInHand DEF AllInHand
    <2> QED BY <2>1, <2>2 DEF BillingNext
<1>3. BillingInv /\ BillingInv' /\ TopUpProofs!MoneyInHand /\ [BillingNext]_billingVars
         => TopUpProofs!MoneyInHand'
    <2> SUFFICES ASSUME BillingInv, BillingInv', TopUpProofs!MoneyInHand, [BillingNext]_billingVars
                 PROVE  TopUpProofs!MoneyInHand'
        OBVIOUS
    <2>1. CASE UNCHANGED topupVars
        BY <2>1 DEF topupVars, TopUpProofs!MoneyInHand, TopUpProofs!Applying, TopUpProofs!Credits
    <2>2. CASE TopUps!Next
        BY <2>2, SameNext, TopupAssumptions, TopUpProofs!MoneyInHandNext DEF BillingInv
    <2> QED BY <2>1, <2>2 DEF BillingNext, billingVars
<1> QED BY <1>1, <1>2, <1>3, BillingInvariance, PTL DEF BillingSpec
=============================================================================
