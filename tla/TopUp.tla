------------------------------- MODULE TopUp --------------------------------
(***************************************************************************)
(* Wallet top-ups: POST /wallet/topup (handleTopup) and the two webhooks   *)
(* (handleStripeWebhook, handleNowPaymentsWebhook of billing_handlers.go), *)
(* one step per call they make to the store or to a payment provider.      *)
(*                                                                         *)
(* The providers are external, modelled from how the code uses them.  A    *)
(* provider announces every change of a payment by an event; it delivers   *)
(* an event again until it is answered 200, in any order and over several  *)
(* connections at once.                                                    *)
(*                                                                         *)
(* Faults names what the environment may do wrong:                         *)
(*   "db"       a store call fails and leaves nothing behind               *)
(*   "ack"      a store call commits, but the handler sees an error        *)
(*   "provider" a provider refuses to open a payment page                  *)
(*   "ctx"      a request's context ends early                             *)
(*   "dup"      a provider delivers an event it has an answer for again    *)
(*   "async"    a card payment completes unpaid and is paid days later     *)
(*   "crash"    the server stops and restarts, forgetting its requests     *)
(***************************************************************************)
EXTENDS Wallet

CONSTANTS
    Topups,         \* the POST /wallet/topup requests; also provider_ref
    Deliveries,     \* the connections on which webhooks arrive
    MinTopup,       \* Cfg.MinTopupCents
    MaxTopup,       \* the hard ceiling of handleTopup
    Faults

ASSUME TopUpAssumption ==
    /\ Topups \subseteq Refs
    /\ MinTopup \in Nat \ {0}
    /\ MaxTopup \in Nat
    /\ Faults \subseteq {"db", "ack", "provider", "ctx", "dup", "async", "crash"}

VARIABLES
    payments,       \* table payments, with status "none" for no row
    seen,           \* table webhook_events: (provider, event_id)
    topup,          \* the handler of each top-up request
    hook,           \* the webhook handler on each connection
    remote,         \* the provider's own state of each payment
    emitted,        \* the events a provider has announced
    acked           \* the events it has been answered 200 for

vars == <<balance, ledger, payments, seen, topup, hook, remote, emitted, acked>>

storeVars == <<balance, ledger, payments, seen>>
providerVars == <<remote, emitted, acked>>

\* The event types, and the statuses of an IPN, that the handlers tell apart.
StripeTypes == {"completed_paid", "completed_unpaid", "async_succeeded"}
NowStatuses == {"waiting", "confirming", "confirmed", "sending", "finished",
                "partially_paid", "failed", "expired", "refunded"}

\* event.ID for Stripe, order_id:payment_status for NOWPayments: either way
\* a top-up has at most one event of each type.
Event == [topup : Topups, type : StripeTypes \cup NowStatuses]

Providers == {"stripe", "nowpayments"}

PaymentStatuses == {"none", "pending", "confirming", "paid", "failed", "expired", "refunded"}

Payment == [status : PaymentStatuses, credited : BOOLEAN]

TopupRequest == [pc : {"start", "page", "record", "done", "dead"}, user : Users,
                 amount : Amounts, provider : Providers, live : BOOLEAN,
                 reply : {"none", "400", "500", "502", "200"}]

\* remote is "none" before the payment page exists, "open" while it waits for
\* the customer, afterwards the type of the latest event.
Remote == {"none", "open"} \cup StripeTypes \cup NowStatuses

TypeOK ==
    /\ WalletTypeOK
    /\ payments \in [Topups -> Payment]
    /\ seen \subseteq Event
    /\ topup \in [Topups -> TopupRequest]
    /\ DOMAIN hook = Deliveries
    /\ \A d \in Deliveries :
          /\ hook[d].pc \in {"idle", "mark", "apply"}
          /\ hook[d].pc # "idle" => hook[d].event \in Event /\ hook[d].live \in BOOLEAN
    /\ remote \in [Topups -> Remote]
    /\ emitted \subseteq Event
    /\ acked \subseteq emitted

Idle == [pc |-> "idle"]

Init ==
    /\ WalletInit
    /\ payments = [t \in Topups |-> [status |-> "none", credited |-> FALSE]]
    /\ seen = {}
    /\ topup \in [Topups -> [pc : {"start"}, user : Users, amount : Amounts,
                             provider : Providers, live : {TRUE}, reply : {"none"}]]
    /\ hook = [d \in Deliveries |-> Idle]
    /\ remote = [t \in Topups |-> "none"]
    /\ emitted = {}
    /\ acked = {}

\* A store call either commits or does not, and reports success or an error.
\* With a context that has ended it does nothing and reports an error.
StoreOutcomes(live) ==
    IF live THEN {"ok"} \cup (IF "db" \in Faults THEN {"error"} ELSE {})
                        \cup (IF "ack" \in Faults THEN {"unacked"} ELSE {})
            ELSE {"error"}

Committed(o) == o \in {"ok", "unacked"}

-----------------------------------------------------------------------------
(* POST /wallet/topup *)

AtTopup(t, pc) == topup[t].pc = pc
GotoTopup(t, pc) == topup' = [topup EXCEPT ![t].pc = pc]
AnswerTopup(t, code) == topup' = [topup EXCEPT ![t].pc = "done", ![t].reply = code]

\* billing_handlers.go:46-64: the limits on the amount, and the user's row.
\* Stripe's page is opened before the payment is recorded, NOWPayments' after.
StartTopup(t) ==
    /\ AtTopup(t, "start")
    /\ IF topup[t].amount < MinTopup \/ topup[t].amount > MaxTopup
         THEN AnswerTopup(t, "400")
         ELSE \/ /\ "ok" \in StoreOutcomes(topup[t].live)
                 /\ GotoTopup(t, IF topup[t].provider = "stripe" THEN "page" ELSE "record")
              \/ /\ "error" \in StoreOutcomes(topup[t].live)
                 /\ AnswerTopup(t, "500")
    /\ UNCHANGED <<storeVars, hook, providerVars>>

\* CreateCheckoutSession (73-78) or CreateInvoice (97-102).  The Stripe call
\* ignores the context, the NOWPayments call does not.
OpenPage(t) ==
    LET stripe == topup[t].provider = "stripe" IN
    /\ AtTopup(t, "page")
    /\ \/ /\ stripe \/ topup[t].live
          /\ remote' = [remote EXCEPT ![t] = "open"]
          /\ IF stripe THEN GotoTopup(t, "record") ELSE AnswerTopup(t, "200")
       \/ /\ "provider" \in Faults \/ (~stripe /\ ~topup[t].live)
          /\ AnswerTopup(t, "502")
          /\ UNCHANGED remote
    /\ UNCHANGED <<storeVars, hook, emitted, acked>>

\* CreatePayment (79-84, 92-96).
RecordPayment(t) ==
    /\ AtTopup(t, "record")
    /\ \E o \in StoreOutcomes(topup[t].live) :
         /\ payments' = IF Committed(o) THEN [payments EXCEPT ![t].status = "pending"]
                                        ELSE payments
         /\ IF o # "ok" THEN AnswerTopup(t, "500")
            ELSE IF topup[t].provider = "stripe" THEN AnswerTopup(t, "200")
            ELSE GotoTopup(t, "page")
    /\ UNCHANGED <<walletVars, seen, hook, providerVars>>

EndTopupContext(t) ==
    /\ "ctx" \in Faults
    /\ topup[t].pc \in {"page", "record"} /\ topup[t].live
    /\ topup' = [topup EXCEPT ![t].live = FALSE]
    /\ UNCHANGED <<storeVars, hook, providerVars>>

-----------------------------------------------------------------------------
(* The payment providers, external *)

\* How a payment goes on from a status.
Follows(status) ==
    CASE status = "completed_unpaid" -> {"async_succeeded"}
      [] status = "waiting"          -> {"confirming", "expired"}
      [] status = "confirming"       -> {"confirmed", "partially_paid", "failed"}
      [] status = "confirmed"        -> {"sending"}
      [] status = "sending"          -> {"finished"}
      [] status = "partially_paid"   -> {"refunded"}
      [] OTHER                       -> {}

\* The customer pays on the provider's page.  Its URL travels in the answer
\* to POST /wallet/topup and nowhere else.
FirstEvents(t) ==
    IF topup[t].provider = "nowpayments" THEN {"waiting"}
    ELSE {"completed_paid"} \cup (IF "async" \in Faults THEN {"completed_unpaid"} ELSE {})

Announce(t) ==
    /\ \E type \in (IF remote[t] = "open" THEN FirstEvents(t) ELSE Follows(remote[t])) :
         /\ remote' = [remote EXCEPT ![t] = type]
         /\ emitted' = emitted \cup {[topup |-> t, type |-> type]}
    /\ topup[t].reply = "200"
    /\ UNCHANGED <<storeVars, topup, hook, acked>>

\* The types and statuses that mean the money is there.
PaidTypes == {"completed_paid", "async_succeeded", "confirmed", "finished"}

Received(t) == \E e \in emitted : e.topup = t /\ e.type \in PaidTypes

Deliver(d, e) ==
    /\ hook[d].pc = "idle"
    /\ e \in emitted
    /\ e \in acked => "dup" \in Faults
    /\ hook' = [hook EXCEPT ![d] = [pc |-> "mark", event |-> e, live |-> TRUE]]
    /\ UNCHANGED <<storeVars, topup, providerVars>>

-----------------------------------------------------------------------------
(* The webhook handlers *)

\* The handler on d answers; a 200 ends the provider's deliveries.
AnswerHook(d, code) ==
    /\ hook' = [hook EXCEPT ![d] = Idle]
    /\ acked' = IF code = "200" THEN acked \cup {hook[d].event} ELSE acked

FromStripe(e) == topup[e.topup].provider = "stripe"

\* Mutant: a failed insert passes for a duplicate on both webhooks.
MarkWebhookSeenErrorIsDuplicate(d) ==
    LET e == hook[d].event IN
    /\ hook[d].pc = "mark"
    /\ \E o \in StoreOutcomes(hook[d].live) :
         /\ seen' = IF Committed(o) THEN seen \cup {e} ELSE seen
         /\ IF o = "ok" /\ e \notin seen
              THEN hook' = [hook EXCEPT ![d].pc = "apply"] /\ UNCHANGED acked
              ELSE AnswerHook(d, "200")
    /\ UNCHANGED <<walletVars, payments, topup, remote, emitted>>

\* Mutant: the number of inserted rows is not looked at.
MarkWebhookSeenAlwaysFirst(d) ==
    /\ hook[d].pc = "mark"
    /\ seen' = seen \cup {hook[d].event}
    /\ hook' = [hook EXCEPT ![d].pc = "apply"]
    /\ UNCHANGED <<walletVars, payments, topup, remote, emitted, acked>>

\* Mutant: the event key is the order id alone.
MarkWebhookSeenByOrder(d) ==
    LET e == hook[d].event IN
    /\ hook[d].pc = "mark"
    /\ seen' = seen \cup {e}
    /\ IF \A f \in seen : f.topup # e.topup
         THEN hook' = [hook EXCEPT ![d].pc = "apply"] /\ UNCHANGED acked
         ELSE AnswerHook(d, "200")
    /\ UNCHANGED <<walletVars, payments, topup, remote, emitted>>

\* MarkWebhookSeen, a transaction of its own.  An error is a 500 to Stripe
\* (122-124); to NOWPayments it passes for a duplicate and is a 200 (170-173).
MarkWebhookSeen(d) ==
    LET e == hook[d].event IN
    /\ hook[d].pc = "mark"
    /\ \E o \in StoreOutcomes(hook[d].live) :
         /\ seen' = IF Committed(o) THEN seen \cup {e} ELSE seen
         /\ IF o = "ok" /\ e \notin seen
              THEN /\ hook' = [hook EXCEPT ![d].pc = "apply"]
                   /\ UNCHANGED acked
              ELSE AnswerHook(d, IF o # "ok" /\ FromStripe(e) THEN "500" ELSE "200")
    /\ UNCHANGED <<walletVars, payments, topup, remote, emitted>>

\* Mutant: the credited flag is not looked at.
CreditAlways(t) ==
    /\ Credit(topup[t].user, "topup", topup[t].amount, t)
    /\ payments' = [payments EXCEPT ![t].status = "paid", ![t].credited = TRUE]

\* Mutant: only the status is written.
CreditWithoutFlag(t) ==
    /\ Credit(topup[t].user, "topup", topup[t].amount, t)
    /\ payments' = [payments EXCEPT ![t].status = "paid"]

\* MarkPaymentPaidAndCredit, committed: a no-op for a credited payment.
MarkPaymentPaidAndCredit(t) ==
    IF payments[t].credited
      THEN UNCHANGED <<walletVars, payments>>
      ELSE /\ Credit(topup[t].user, "topup", topup[t].amount, t)
           /\ payments' = [payments EXCEPT ![t].status = "paid", ![t].credited = TRUE]

\* What credits: a completed and paid session (131-146), a confirmed or
\* finished invoice (176-186).
Credits(e) == e.type \in {"completed_paid", "confirmed", "finished"}

\* The credit fails when the payment has no row, too (ErrNotFound).
ApplyCredit(d) ==
    LET t == hook[d].event.topup
        row == payments[t].status # "none"
    IN
    /\ hook[d].pc = "apply" /\ Credits(hook[d].event)
    /\ \E o \in StoreOutcomes(hook[d].live) :
         /\ IF Committed(o) /\ row THEN MarkPaymentPaidAndCredit(t)
                                   ELSE UNCHANGED <<walletVars, payments>>
         /\ AnswerHook(d, IF o = "ok" /\ row THEN "200" ELSE "500")
    /\ UNCHANGED <<seen, topup, remote, emitted>>

\* Mutant: the provider's word is stored as it is.
StoredStatusRaw(status) == status

\* The status NOWPayments' other statuses are stored as (178-191).
StoredStatus(status) ==
    IF status \in {"failed", "expired", "refunded"} THEN status ELSE "confirming"

\* UpdatePaymentStatus overwrites whatever status the row has; its error is
\* ignored.  Stripe's other events change nothing.
ApplyOther(d) ==
    LET e == hook[d].event
        row == payments[e.topup].status # "none"
    IN
    /\ hook[d].pc = "apply" /\ ~Credits(e)
    /\ \E o \in StoreOutcomes(hook[d].live) :
         payments' = IF Committed(o) /\ row /\ ~FromStripe(e)
                       THEN [payments EXCEPT ![e.topup].status = StoredStatus(e.type)]
                       ELSE payments
    /\ AnswerHook(d, "200")
    /\ UNCHANGED <<walletVars, seen, topup, remote, emitted>>

EndHookContext(d) ==
    /\ "ctx" \in Faults
    /\ hook[d].pc # "idle" /\ hook[d].live
    /\ hook' = [hook EXCEPT ![d].live = FALSE]
    /\ UNCHANGED <<storeVars, topup, providerVars>>

\* The process ends with requests in flight; nothing remembers them.
Restart ==
    /\ "crash" \in Faults
    /\ \/ \E d \in Deliveries : hook[d].pc # "idle"
       \/ \E t \in Topups : topup[t].pc \in {"page", "record"}
    /\ hook' = [d \in Deliveries |-> Idle]
    /\ topup' = [t \in Topups |->
                   IF topup[t].pc \in {"page", "record"} THEN [topup[t] EXCEPT !.pc = "dead"]
                                                         ELSE topup[t]]
    /\ UNCHANGED <<storeVars, providerVars>>

HookStep(d) == MarkWebhookSeen(d) \/ ApplyCredit(d) \/ ApplyOther(d)

Next ==
    \/ \E t \in Topups :
          StartTopup(t) \/ OpenPage(t) \/ RecordPayment(t) \/ EndTopupContext(t) \/ Announce(t)
    \/ \E d \in Deliveries : HookStep(d) \/ EndHookContext(d)
    \/ \E d \in Deliveries, e \in emitted : Deliver(d, e)
    \/ Restart

Spec == Init /\ [][Next]_vars

\* A provider delivers an event that says the money of t is there and that it
\* has no 200 for.
DeliverMoney(t) ==
    \E d \in Deliveries, e \in emitted \ acked :
        e.topup = t /\ e.type \in PaidTypes /\ Deliver(d, e)

\* A webhook handler runs on, and a provider does not give up on money that it
\* has received.  Customers owe nothing.
FairSpec ==
    /\ Spec
    /\ \A d \in Deliveries : WF_vars(HookStep(d))
    /\ \A t \in Topups : SF_vars(DeliverMoney(t))

-----------------------------------------------------------------------------
\* TopUp keeps the promise of Funding: a payment is recorded before its money
\* can arrive, and money that has arrived is credited at most once, to its
\* owner and to the cent, under duplicated, reordered and concurrent
\* deliveries, failures and restarts (billing_handlers.go:46-193).
Contract == INSTANCE Funding WITH
    funds  <- balance,
    owner  <- [t \in Topups |-> topup[t].user],
    amount <- [t \in Topups |-> topup[t].amount],
    stage  <- [t \in Topups |->
                 IF payments[t].credited THEN "credited"
                 ELSE IF Received(t) THEN "received"
                 ELSE IF payments[t].status # "none" THEN "recorded" ELSE "new"]

KeepsFundingContract == Contract!Spec

\* The credited flag, the status and the ledger tell the same story: a
\* payment is flagged exactly when the owner's ledger has its one top-up row,
\* and 'paid' is shown for no payment that was not credited
\* (MarkPaymentPaidAndCredit against UpdatePaymentStatus).
FlagMatchesLedger ==
    \A t \in Topups :
        /\ payments[t].credited <=> HasEntry(topup[t].user, "topup", t)
        /\ payments[t].status = "paid" => payments[t].credited
        /\ \A i, j \in 1 .. Len(ledger[topup[t].user]) :
              IsEntry(topup[t].user, i, "topup", t) /\ IsEntry(topup[t].user, j, "topup", t)
                => i = j

\* Stripe is never told to stop while its event is unknown: a 200 means the
\* event is in webhook_events, so a later delivery changes nothing (122-129).
StripeAckIsRecorded == \A e \in acked : FromStripe(e) => e \in seen

\* Two deliveries of one event never both get past the idempotency log: at
\* most one handler applies an event at any time (billing_handlers.go:122, 170).
OneApplierPerEvent ==
    \A c, d \in Deliveries :
        hook[c].pc = "apply" /\ hook[d].pc = "apply" /\ hook[c].event = hook[d].event => c = d

\* Money that has arrived reaches the wallet, when the store answers.
ReceivedIsCredited == \A t \in Topups : Received(t) ~> payments[t].credited

\* store_orders.go:145 says MarkPaymentPaidAndCredit "transitions a payment to
\* paid": so a finished invoice, all of whose events have been answered 200,
\* is shown to the customer, and counted by AdminStats, as paid.
FinishedIsPaid ==
    \A t \in Topups :
        LET events == {e \in emitted : e.topup = t} IN
        remote[t] = "finished" /\ events \subseteq acked => payments[t].status = "paid"
=============================================================================
