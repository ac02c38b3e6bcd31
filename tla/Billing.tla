------------------------------ MODULE Billing -------------------------------
(***************************************************************************)
(* Orders and top-ups over one wallet.  OrderFlow and TopUp model the      *)
(* handlers each by themselves; here top-ups and their webhooks are added  *)
(* to OrderFlow and share its users and ledger_entries, so that an order   *)
(* spends what a webhook has credited a moment ago.  Every wallet starts   *)
(* empty, as TopUp's do.                                                   *)
(***************************************************************************)
EXTENDS OrderFlow, FiniteSets, Functions

CONSTANTS
    Topups, TopupAmounts, Deliveries, MinTopup, MaxTopup, TopupFaults     \* of TopUp

VARIABLES
    payments, seen, topup, hook, remote, emitted, acked                   \* of TopUp

orderVars == <<plans, orders, proxies, services, syncs, req>>
topupVars == <<payments, seen, topup, hook, remote, emitted, acked>>
billingVars == <<vars, topupVars>>

TopUps == INSTANCE TopUp WITH Amounts <- TopupAmounts, Faults <- TopupFaults

\* A wallet may start empty, an order and a payment never share a reference,
\* and tables are finite.
ASSUME BillingAssumption ==
    /\ 0 \in Amounts
    /\ TopUps!AmountsAssumption
    /\ TopUps!TopUpAssumption
    /\ Topups \cap Requests = {}
    /\ IsFiniteSet(Topups) /\ IsFiniteSet(Requests)

BillingInit == Init /\ TopUps!Init

BillingNext == (Next /\ UNCHANGED topupVars) \/ (TopUps!Next /\ UNCHANGED orderVars)

BillingSpec == BillingInit /\ [][BillingNext]_billingVars

\* Every call a handler makes returns, since the router's timeout ends its
\* context; and a provider does not give up on money it has.
BillingFairSpec ==
    /\ BillingSpec
    /\ \A r \in Requests : WF_billingVars(Handler(r) /\ UNCHANGED topupVars)
    /\ \A d \in Deliveries : WF_billingVars(TopUps!HookStep(d) /\ UNCHANGED orderVars)
    /\ \A t \in Topups : SF_billingVars(TopUps!DeliverMoney(t) /\ UNCHANGED orderVars)

-----------------------------------------------------------------------------
\* What a payment has put into user u's wallet, and what an order has taken.
PaidInBy(u, t) ==
    IF topup[t].user = u /\ payments[t].credited THEN topup[t].amount ELSE 0
SpentOn(u, r) ==
    IF orders[r].user = u /\ Charged(r) /\ ~Refunded(r) THEN orders[r].total ELSE 0

PaidIn(u) == SumFunction([t \in Topups |-> PaidInBy(u, t)])
Spent(u) == SumFunction([r \in Requests |-> SpentOn(u, r)])

\* The balance is what the payments say was paid in less what the orders say
\* was spent, at every moment between any two steps of any handlers: a charge,
\* a refund and a credit that cross on one wallet lose nothing.
EveryCentAccounted == \A u \in Users : balance[u] = PaidIn(u) - Spent(u)

\* A charged order is fulfilled or refunded, and money a provider has
\* received is credited, also while both move the same wallet.
MoneySettles == ChargeSettles /\ TopUps!ReceivedIsCredited
=============================================================================
