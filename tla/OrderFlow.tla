----------------------------- MODULE OrderFlow ------------------------------
(***************************************************************************)
(* POST /orders: handleCreateOrder (order_handlers.go), one step per call  *)
(* it makes to the store or to VaultProxies, for any number of requests at *)
(* once.  Nothing ties the steps together: each store call is a            *)
(* transaction of its own, so other requests, a catalogue sync, a fault or *)
(* a restart may come between any two of them.                             *)
(*                                                                         *)
(* Faults names what the environment may do wrong:                         *)
(*   "db"      a store call fails and leaves nothing behind                *)
(*   "ack"     a store call commits, but the handler sees an error         *)
(*   "refused" VaultProxies answers with an error and places no service    *)
(*   "lost"    VaultProxies places the service, but its answer is lost,    *)
(*             late, undecodable or without credentials                    *)
(*   "ctx"     the request's context ends early: the client hangs up or    *)
(*             the 30 s timeout of the router passes                       *)
(*   "crash"   the server stops and restarts, forgetting its requests      *)
(***************************************************************************)
EXTENDS Wallet

CONSTANTS
    Requests,       \* the POST /orders requests; the order a request inserts
                    \* is known by the request
    Deposit,        \* the reference of the top-up a wallet starts with
    Plans,          \* the rows of table plans
    Quantities,     \* the quantities a request may ask for
    Prices,         \* plans.retail_cents_unit
    Minima,         \* plans.min_quantity
    MaxSyncs,       \* bound on the writes of a catalogue sync
    Faults

ASSUME OrderFlowAssumption ==
    /\ Requests \cup {Deposit} \subseteq Refs
    /\ Deposit \notin Requests
    /\ Prices \subseteq Nat
    /\ Quantities \subseteq Nat \ {0}
    /\ Minima \subseteq Nat
    /\ MaxSyncs \in Nat
    /\ Faults \subseteq {"db", "ack", "refused", "lost", "ctx", "crash"}

VARIABLES
    plans,          \* table plans
    orders,         \* table orders, with "none" for an order not inserted
    proxies,        \* the orders that have their row in table proxies
    services,       \* VaultProxies: the orders it has placed a service for
    syncs,          \* writes of a catalogue sync so far
    req             \* the handler of each request: its step and its locals

vars == <<balance, ledger, plans, orders, proxies, services, syncs, req>>

Plan == [active : BOOLEAN, price : Prices, min : Minima]

Statuses == {"none", "pending", "provisioning", "active", "failed", "cancelled"}

\* ref says whether orders.vault_ref is set.
Order == [status : Statuses, user : Users, total : Nat, ref : BOOLEAN]

Steps == {"start", "create", "debit", "cancel", "mark", "provision", "refund",
          "fail", "save", "activate", "done", "dead"}

\* The steps at which a handler is running.
Running == Steps \ {"start", "done", "dead"}

Replies == {"none", "400", "500", "402", "502", "201"}

\* user comes from the access token, total from the plan read at "start";
\* live says the context has not ended.
Request == [pc : Steps, user : Users, total : Nat, live : BOOLEAN, reply : Replies]

TypeOK ==
    /\ WalletTypeOK
    /\ plans \in [Plans -> Plan]
    /\ orders \in [Requests -> Order]
    /\ proxies \subseteq Requests
    /\ services \subseteq Requests
    /\ syncs \in 0 .. MaxSyncs
    /\ req \in [Requests -> Request]

\* Each wallet holds what one top-up has put there, or nothing.
Init ==
    /\ balance \in [Users -> Amounts]
    /\ ledger = [u \in Users |->
                   IF balance[u] = 0 THEN << >>
                   ELSE << [kind |-> "topup", amount |-> balance[u],
                            after |-> balance[u], reference |-> Deposit] >>]
    /\ plans \in [Plans -> Plan]
    /\ req \in [Requests -> [pc : {"start"}, user : Users, total : {0},
                             live : {TRUE}, reply : {"none"}]]
    /\ orders = [r \in Requests |-> [status |-> "none", user |-> req[r].user,
                                     total |-> 0, ref |-> FALSE]]
    /\ proxies = {}
    /\ services = {}
    /\ syncs = 0

-----------------------------------------------------------------------------
\* A store call either commits or does not, and reports success or an error.
\* With a context that has ended it does nothing and reports an error.
StoreOutcomes(r) ==
    IF req[r].live
      THEN {"ok"} \cup (IF "db" \in Faults THEN {"error"} ELSE {})
                  \cup (IF "ack" \in Faults THEN {"unacked"} ELSE {})
      ELSE {"error"}

Committed(o) == o \in {"ok", "unacked"}

VaultOutcomes(r) ==
    IF req[r].live THEN {"ok"} \cup ({"refused", "lost"} \cap Faults) ELSE {"refused"}

At(r, pc) == req[r].pc = pc

Goto(r, pc) == req' = [req EXCEPT ![r].pc = pc]

Answer(r, code) == req' = [req EXCEPT ![r].pc = "done", ![r].reply = code]

SetStatus(r, status) == orders' = [orders EXCEPT ![r].status = status]

\* order_handlers.go:31-47: the plan is read once, the total is computed from
\* that reading.
ReadPlan(r) ==
    /\ At(r, "start")
    /\ \E p \in Plans, q \in Quantities, o \in StoreOutcomes(r) :
         IF o = "ok" /\ plans[p].active /\ q >= plans[p].min
           THEN req' = [req EXCEPT ![r].pc = "create", ![r].total = plans[p].price * q]
           ELSE Answer(r, "400")
    /\ UNCHANGED <<balance, ledger, plans, orders, proxies, services, syncs>>

\* Mutant: the order row is priced by a second reading of the plan.
CreateOrderReread(r) ==
    /\ At(r, "create")
    /\ \E p \in Plans, q \in Quantities :
         orders' = [orders EXCEPT ![r].status = "pending", ![r].total = plans[p].price * q]
    /\ Goto(r, "debit")
    /\ UNCHANGED <<balance, ledger, plans, proxies, services, syncs>>

\* order_handlers.go:49-55.
CreateOrder(r) ==
    /\ At(r, "create")
    /\ \E o \in StoreOutcomes(r) :
         /\ orders' = IF Committed(o)
                        THEN [orders EXCEPT ![r].status = "pending",
                                            ![r].total = req[r].total]
                        ELSE orders
         /\ IF o = "ok" THEN Goto(r, "debit") ELSE Answer(r, "500")
    /\ UNCHANGED <<balance, ledger, plans, proxies, services, syncs>>

\* Mutant: the error of Debit is not looked at.
ChargeWalletUnchecked(r) ==
    /\ At(r, "debit")
    /\ Debit(req[r].user, req[r].total, r) \/ UNCHANGED walletVars
    /\ Goto(r, "mark")
    /\ UNCHANGED <<plans, orders, proxies, services, syncs>>

\* Mutant: every error of Debit is taken for ErrInsufficientFunds.
ChargeWalletAny402(r) ==
    /\ At(r, "debit")
    /\ \E o \in StoreOutcomes(r) :
         /\ IF Committed(o) THEN Debit(req[r].user, req[r].total, r) ELSE UNCHANGED walletVars
         /\ Goto(r, IF o = "ok" THEN "mark" ELSE "cancel")
    /\ UNCHANGED <<plans, orders, proxies, services, syncs>>

\* order_handlers.go:57-67: the wallet is charged, or cannot cover the total,
\* or the charge fails.  A total of 0 is refused by Debit as an error.
ChargeWallet(r) ==
    LET u == req[r].user
        total == req[r].total
    IN
    /\ At(r, "debit")
    /\ \/ \E o \in StoreOutcomes(r) :
            /\ Committed(o)
            /\ Debit(u, total, r)
            /\ IF o = "ok" THEN Goto(r, "mark") ELSE Answer(r, "500")
       \/ /\ "ok" \in StoreOutcomes(r)
          /\ total > 0 /\ ~Covers(u, total)
          /\ Goto(r, "cancel")
          /\ UNCHANGED walletVars
       \/ /\ total = 0 \/ "error" \in StoreOutcomes(r)
          /\ Answer(r, "500")
          /\ UNCHANGED walletVars
    /\ UNCHANGED <<plans, orders, proxies, services, syncs>>

\* Mutant: a status the CHECK of table orders does not know.
CancelOrderTypo(r) ==
    /\ At(r, "cancel")
    /\ SetStatus(r, "canceled")
    /\ Answer(r, "402")
    /\ UNCHANGED <<balance, ledger, plans, proxies, services, syncs>>

\* order_handlers.go:60-61: the error of the update is ignored.
CancelOrder(r) ==
    /\ At(r, "cancel")
    /\ \E o \in StoreOutcomes(r) :
         IF Committed(o) THEN SetStatus(r, "cancelled") ELSE UNCHANGED orders
    /\ Answer(r, "402")
    /\ UNCHANGED <<balance, ledger, plans, proxies, services, syncs>>

\* order_handlers.go:70: the error of the update is ignored.
MarkProvisioning(r) ==
    /\ At(r, "mark")
    /\ \E o \in StoreOutcomes(r) :
         IF Committed(o) THEN SetStatus(r, "provisioning") ELSE UNCHANGED orders
    /\ Goto(r, "provision")
    /\ UNCHANGED <<balance, ledger, plans, proxies, services, syncs>>

\* order_handlers.go:71-78 and Live.Provision: no idempotency key, no retry.
Provision(r) ==
    /\ At(r, "provision")
    /\ \E o \in VaultOutcomes(r) :
         /\ services' = IF o = "refused" THEN services ELSE services \cup {r}
         /\ Goto(r, IF o = "ok" THEN "save" ELSE "refund")
    /\ UNCHANGED <<balance, ledger, plans, orders, proxies, syncs>>

\* order_handlers.go:79-81: the refund runs under the request's own context
\* and its error is ignored.
Refund(r) ==
    /\ At(r, "refund")
    /\ \E o \in StoreOutcomes(r) :
         IF Committed(o) THEN Credit(req[r].user, "refund", req[r].total, r)
                         ELSE UNCHANGED walletVars
    /\ Goto(r, "fail")
    /\ UNCHANGED <<plans, orders, proxies, services, syncs>>

\* Mutant: the return after the refund is missing.
MarkFailedFallThrough(r) ==
    /\ At(r, "fail")
    /\ SetStatus(r, "failed")
    /\ Goto(r, "save")
    /\ UNCHANGED <<balance, ledger, plans, proxies, services, syncs>>

\* order_handlers.go:82-84: the answer tells the client of a refund.
MarkFailed(r) ==
    /\ At(r, "fail")
    /\ \E o \in StoreOutcomes(r) :
         IF Committed(o) THEN SetStatus(r, "failed") ELSE UNCHANGED orders
    /\ Answer(r, "502")
    /\ UNCHANGED <<balance, ledger, plans, proxies, services, syncs>>

\* order_handlers.go:87-112: both clients of VaultProxies return exactly one
\* credential, so the loop runs once; an error skips the row.
SaveProxy(r) ==
    /\ At(r, "save")
    /\ \E o \in StoreOutcomes(r) :
         proxies' = IF Committed(o) THEN proxies \cup {r} ELSE proxies
    /\ Goto(r, "activate")
    /\ UNCHANGED <<balance, ledger, plans, orders, services, syncs>>

\* order_handlers.go:113-117: the error is ignored, the answer says active.
Activate(r) ==
    /\ At(r, "activate")
    /\ \E o \in StoreOutcomes(r) :
         orders' = IF Committed(o)
                     THEN [orders EXCEPT ![r].status = "active", ![r].ref = TRUE]
                     ELSE orders
    /\ Answer(r, "201")
    /\ UNCHANGED <<balance, ledger, plans, proxies, services, syncs>>

-----------------------------------------------------------------------------
\* The context of a running request ends (net/http, middleware.Timeout).
EndContext(r) ==
    /\ "ctx" \in Faults
    /\ req[r].pc \in Running
    /\ req[r].live
    /\ req' = [req EXCEPT ![r].live = FALSE]
    /\ UNCHANGED <<balance, ledger, plans, orders, proxies, services, syncs>>

\* The process ends with requests in flight: a crash, or the 20 s grace of
\* main.go passing.  The new process knows nothing of them.
Restart ==
    /\ "crash" \in Faults
    /\ \E r \in Requests : req[r].pc \in Running
    /\ req' = [r \in Requests |->
                 IF req[r].pc \in Running THEN [req[r] EXCEPT !.pc = "dead"] ELSE req[r]]
    /\ UNCHANGED <<balance, ledger, plans, orders, proxies, services, syncs>>

\* catalog.Sync writes a plan: UpsertPlan (a new price, active) or
\* DeactivatePlansNotIn.
SyncPlan(p) ==
    /\ syncs < MaxSyncs
    /\ syncs' = syncs + 1
    /\ \E new \in Plan :
         /\ new.active \/ new = [plans[p] EXCEPT !.active = FALSE]
         /\ plans' = [plans EXCEPT ![p] = new]
    /\ UNCHANGED <<balance, ledger, orders, proxies, services, req>>

\* The handler runs on: everything after the request has been accepted.
Handler(r) ==
    \/ CreateOrder(r) \/ ChargeWallet(r) \/ CancelOrder(r) \/ MarkProvisioning(r)
    \/ Provision(r) \/ Refund(r) \/ MarkFailed(r) \/ SaveProxy(r) \/ Activate(r)

Next ==
    \/ \E r \in Requests : ReadPlan(r) \/ Handler(r) \/ EndContext(r)
    \/ \E p \in Plans : SyncPlan(p)
    \/ Restart

Spec == Init /\ [][Next]_vars
-----------------------------------------------------------------------------
Charged(r)  == HasEntry(orders[r].user, "debit", r)
Refunded(r) == HasEntry(orders[r].user, "refund", r)

\* What counts as fulfilment: the credentials are stored, or the order is shown
\* as active, as it also is when storing them has failed (SaveProxy).
Fulfilled(r) == r \in proxies \/ orders[r].status = "active"

\* OrderFlow keeps the promise of Purchase: however requests interleave and
\* whatever fails, an order is charged at most once and within the balance,
\* and a charged order is fulfilled or refunded in full but never both, in
\* whichever order (handleCreateOrder over Credit, Debit and the orders and
\* proxies rows).  Purchase knows no phase "both".
Contract == INSTANCE Purchase WITH
    Orders <- Requests,
    funds  <- balance,
    payer  <- [r \in Requests |-> orders[r].user],
    paid   <- [r \in Requests |-> IF Charged(r) /\ ~Refunded(r) THEN orders[r].total ELSE 0],
    phase  <- [r \in Requests |->
                 CASE Refunded(r) /\ Fulfilled(r)  -> "both"
                   [] Refunded(r) /\ ~Fulfilled(r) -> "refunded"
                   [] ~Refunded(r) /\ Fulfilled(r) -> "fulfilled"
                   [] ~Refunded(r) /\ ~Fulfilled(r) /\ Charged(r) -> "charged"
                   [] OTHER -> "open"]

KeepsPurchaseContract == Contract!Spec

\* VaultProxies never serves an order the wallet was not charged for: the
\* service is ordered only after the debit has committed, and a failed or
\* unacknowledged debit ends the request (order_handlers.go:57-78).
ServiceIsPaid == \A r \in services : Charged(r)

\* What each orders.status lets a reader of the table conclude about the
\* money, the service and the credentials, in spite of ignored errors.
StatusTruth ==
    \A r \in Requests :
        LET status == orders[r].status IN
        /\ status \in {"none", "cancelled"} => ~Charged(r) /\ r \notin services
        /\ status = "pending" => ~orders[r].ref
        /\ status \in {"provisioning", "failed", "active"} => Charged(r)
        /\ status = "failed" => r \notin proxies
        /\ status = "active" => r \in services /\ ~Refunded(r) /\ orders[r].ref
        /\ Refunded(r) => status \in {"pending", "provisioning", "failed"}
        /\ r \in proxies => r \in services

\* What the HTTP answer lets the client conclude, once it has one.  A 500 may
\* hide a charge whose commit was not acknowledged, and a 502 a refund that
\* did not happen; no answer but 201 and 502 leaves a service behind.
ReplyTruth ==
    \A r \in Requests :
        LET reply == req[r].reply IN
        /\ reply = "400" => orders[r].status = "none"
        /\ reply = "402" => ~Charged(r) /\ orders[r].status \in {"pending", "cancelled"}
        /\ reply = "201" => Charged(r) /\ ~Refunded(r) /\ r \in services
        /\ reply = "502" => Charged(r) /\ r \notin proxies
        /\ reply \in {"400", "402", "500"} => r \notin services

\* The money a request was refused for is not its own earlier charge: the
\* charge and the quote agree to the cent although the price may change in
\* between (order_handlers.go:47, 50 and 58 use one reading of the plan).
QuoteIsCharged ==
    \A u \in Users, r \in Requests : \A i \in 1 .. Len(ledger[u]) :
        ledger[u][i].reference = r =>
            /\ orders[r].user = u
            /\ ledger[u][i].amount =
                 (IF ledger[u][i].kind = "refund" THEN 1 ELSE -1) * orders[r].total

\* No order is left half done while the server keeps running and the store
\* answers: what was charged is fulfilled or given back, also when
\* VaultProxies fails or its answer is lost.
ChargeSettles == \A r \in Requests : Charged(r) ~> Fulfilled(r) \/ Refunded(r)

\* The promise of order_handlers.go:79 and of docs/API.md:80: when the client
\* is told that provisioning failed, the wallet has been refunded.
FailureIsRefunded == \A r \in Requests : req[r].reply = "502" => Refunded(r)
=============================================================================
