----------------------------- MODULE OrdersPage -----------------------------
(***************************************************************************)
(* /dashboard/orders: the form that buys a plan.  loadAll reads plans and  *)
(* wallet in one Promise.all; submit places the order, loads all again,    *)
(* refreshes the user and goes on to the proxies, whether or not the page  *)
(* is still there.  handleCreateOrder is one step here: OrderFlow has its  *)
(* steps.                                                                  *)
(*                                                                         *)
(* The shop's plans are an entry of Catalogues, a version at a time; what  *)
(* a page has read is the number of the version.                           *)
(***************************************************************************)
EXTENDS Client, Sequences

CONSTANTS
    Catalogues,     \* the plans on sale, in the order of their versions
    PlanIds,        \* in the order of the list
    Quantities,     \* what a customer may type
    MaxQuantity,    \* the most createOrderReq takes
    NaN,            \* what parseInt makes of '.5'
    Retries,        \* slots for the loads the customer asks for
    NoWallet        \* wallet === null

ASSUME OrdersAssumption ==
    /\ PlanIds \subseteq Nat \ {0}
    /\ Quantities \subseteq Nat \ {0}
    /\ MaxQuantity \in Nat \ {0} /\ NaN \notin Int
    /\ Catalogues # <<>> /\ DOMAIN Catalogues = 1..Len(Catalogues)
    /\ \A v \in DOMAIN Catalogues :
         /\ DOMAIN Catalogues[v] \subseteq PlanIds
         /\ \A p \in DOMAIN Catalogues[v] : /\ Catalogues[v][p].price \in Nat \ {0}
                                            /\ Catalogues[v][p].min \in Quantities
    /\ "mount" \notin Retries /\ Retries \cap Presses = {}
    /\ NoWallet \notin Int

VARIABLES
    catalogue,      \* the version GET /plans answers with and orders are priced by
    orders,         \* the page: 0 for no plans, NoWallet for no wallet
    load,           \* the calls of loadAll under way
    order           \* the submissions under way

ordersVars == <<catalogue, orders, load, order>>

Loaders == {"mount"} \cup Retries \cup Presses
Versions == 1..Len(Catalogues)

\* The plans a version has, none for version 0.
PlansOf(v) == IF v = 0 THEN {} ELSE DOMAIN Catalogues[v]

FreshOrders == [plans |-> 0, wallet |-> NoWallet, loading |-> TRUE, error |-> FALSE,
                plan |-> 0, quantity |-> 1, submitting |-> FALSE]
NoLoad == [step |-> "idle", plans |-> 0, wallet |-> NoWallet, choose |-> FALSE, failed |-> FALSE]
NoOrder == [step |-> "idle", plan |-> 0, quantity |-> 1, plans |-> 0, wallet |-> NoWallet,
            reply |-> "none", mine |-> FALSE]

\* The answers of POST /orders: invalid, unavailable and minimum are 400s,
\* of decode and of the handler; funds 402; failed: 502 refunded, or
\* anything else.
OrderReplies == {"none", "placed", "invalid", "unavailable", "minimum", "funds", "failed"}
Refusals == {"unavailable", "minimum", "funds"}

Counts == {1} \cup Quantities \cup {NaN}

Wallets == Nat \cup {NoWallet}

OrdersTypeOK ==
    /\ catalogue \in Versions
    /\ orders \in [plans : {0} \cup Versions, wallet : Wallets,
                   loading : BOOLEAN, error : BOOLEAN, plan : {0} \cup PlanIds,
                   quantity : Counts, submitting : BOOLEAN]
    /\ load \in [Loaders -> [step : {"idle", "sent", "answered"}, plans : {0} \cup Versions,
                             wallet : Wallets, choose : BOOLEAN, failed : BOOLEAN]]
    /\ order \in [Presses -> [step : {"idle", "sent", "answered", "reload", "refresh"},
                              plan : {0} \cup PlanIds, quantity : Counts,
                              plans : {0} \cup Versions, wallet : Wallets,
                              reply : OrderReplies, mine : BOOLEAN]]

OrdersInit ==
    /\ catalogue = 1
    /\ orders = FreshOrders
    /\ load = [l \in Loaders |-> NoLoad]
    /\ order = [i \in Presses |-> NoOrder]

-----------------------------------------------------------------------------
(* What the form shows and allows *)

SelectedPlan == orders.plan \in PlansOf(orders.plans)
Selected == Catalogues[orders.plans][orders.plan]

TotalCents == IF ~SelectedPlan THEN 0
              ELSE IF orders.quantity = NaN THEN NaN ELSE Selected.price * orders.quantity

\* Mutant: the button compares the price of one with the balance.
InsufficientForOne ==
    SelectedPlan /\ orders.wallet # NoWallet /\ Selected.price > orders.wallet

\* NaN is not more than any balance.
Insufficient == orders.wallet # NoWallet /\ TotalCents # NaN /\ TotalCents > orders.wallet

FormShown == Awake /\ Shown("orders") /\ ~orders.loading /\ PlansOf(orders.plans) # {}

\* The checks of submit itself; NaN is not less than any minimum.
MayOrder == SelectedPlan /\ (orders.quantity # NaN => orders.quantity >= Selected.min)

-----------------------------------------------------------------------------
(* loadAll *)

\* Mutant: every load chooses a plan.
StartedToChoose(choose) == [NoLoad EXCEPT !.step = "sent", !.choose = TRUE]

\* The call knows the planId of the render it was made in.
Started(choose) == [NoLoad EXCEPT !.step = "sent", !.choose = choose]

\* The requests of a load are answered.  GET /orders counts as the wallet's:
\* both need the session, and nothing depends on its rows.
AnswerLoad(l) ==
    /\ Awake /\ load[l].step = "sent"
    /\ \E o \in Outcomes(TRUE) :
         load' = [load EXCEPT ![l] =
                     IF o = "ok" THEN [@ EXCEPT !.step = "answered", !.plans = catalogue,
                                                !.wallet = balance]
                     ELSE [@ EXCEPT !.step = "answered", !.failed = TRUE]]
    /\ UNCHANGED <<clientVars, catalogue, orders, order>>

\* Mutant: an error of a load is not caught.
LoadedWell(l) == load[l].step = "answered" /\ ~load[l].failed

\* Promise.all ends with the first failure, or when all have answered.
Loaded(l) == load[l].step = "answered"

\* The first plan of a list.
FirstPlan(v) == CHOOSE p \in PlansOf(v) : \A q \in PlansOf(v) : p <= q

\* What a load that has ended makes of the page that began it.
AfterLoad(l) ==
    IF load[l].failed THEN [orders EXCEPT !.loading = FALSE, !.error = TRUE]
    ELSE LET first   == FirstPlan(load[l].plans)
             chooses == load[l].choose /\ PlansOf(load[l].plans) # {}
         IN [orders EXCEPT !.loading = FALSE,
                           !.plans = load[l].plans, !.wallet = load[l].wallet,
                           !.plan = IF chooses THEN first ELSE @,
                           !.quantity = IF chooses THEN Catalogues[load[l].plans][first].min
                                                   ELSE @]

\* The load of the effect, or of the retry button, ends.
HearLoad(l) ==
    /\ l \in {"mount"} \cup Retries
    /\ Awake /\ Loaded(l)
    /\ orders' = AfterLoad(l)
    /\ load' = [load EXCEPT ![l] = NoLoad]
    /\ UNCHANGED <<clientVars, catalogue, order>>

\* The button of ErrorState; loadAll takes the error away first.
Retry(l) ==
    /\ Awake /\ Shown("orders") /\ ~orders.loading /\ orders.error
    /\ load[l].step = "idle"
    /\ load' = [load EXCEPT ![l] = Started(orders.plan = 0)]
    /\ orders' = [orders EXCEPT !.error = FALSE]
    /\ UNCHANGED <<clientVars, catalogue, order>>

-----------------------------------------------------------------------------
(* The form *)

\* Choosing a plan sets its minimum.
ChoosePlan(p) ==
    /\ FormShown /\ p \in PlansOf(orders.plans) \ {orders.plan}
    /\ orders' = [orders EXCEPT !.plan = p, !.quantity = Catalogues[orders.plans][p].min]
    /\ UNCHANGED <<clientVars, catalogue, load, order>>

\* Mutant: the quantity is taken as it is typed.
AsTyped(n) == n

\* Math.max(1, ...): a quantity below 1, or none, becomes 1, NaN stays.
AtLeastOne(n) == IF n = NaN THEN NaN ELSE IF n < 1 THEN 1 ELSE n

TypeQuantity(n) ==
    /\ FormShown /\ AtLeastOne(n) # orders.quantity
    /\ orders' = [orders EXCEPT !.quantity = AtLeastOne(n)]
    /\ UNCHANGED <<clientVars, catalogue, load, order>>

\* submit sends the order, with what the form shows kept for the properties.
Submit(i) ==
    /\ FormShown /\ ButtonOn(Insufficient, orders.submitting) /\ MayOrder
    /\ order[i].step = "idle"
    /\ order' = [order EXCEPT ![i] =
                    [step |-> "sent", plan |-> orders.plan, quantity |-> orders.quantity,
                     plans |-> orders.plans, wallet |-> orders.wallet,
                     reply |-> "none", mine |-> TRUE]]
    /\ orders' = [orders EXCEPT !.submitting = TRUE]
    /\ UNCHANGED <<clientVars, catalogue, load>>

\* The total handleCreateOrder charges.
Total(i) == Catalogues[catalogue][order[i].plan].price * order[i].quantity

\* What it answers: decode looks at the quantity first, which JSON has no NaN
\* for but null; the handler at what the shop holds.
Verdict(i) ==
    IF order[i].quantity \notin 1..MaxQuantity THEN "invalid"
    ELSE IF order[i].plan \notin PlansOf(catalogue) THEN "unavailable"
    ELSE IF order[i].quantity < Catalogues[catalogue][order[i].plan].min THEN "minimum"
    ELSE IF balance < Total(i) THEN "funds" ELSE "placed"

\* An order that fails upstream is refunded; one whose answer is lost may
\* have been placed.
AnswerOrder(i) ==
    /\ Awake /\ order[i].step = "sent"
    /\ \E o \in Outcomes(TRUE), done \in BOOLEAN :
         /\ done => session /\ o \in {"ok", "lost"} /\ Verdict(i) = "placed"
         /\ o = "ok" /\ Verdict(i) = "placed" => done
         /\ order' = [order EXCEPT ![i] = [NoOrder EXCEPT !.step = "answered", !.mine = order[i].mine,
                          !.reply = IF o = "ok" THEN Verdict(i) ELSE "failed"]]
         /\ balance' = IF done THEN balance - Total(i) ELSE balance
    /\ UNCHANGED <<session, visit, frameVars, catalogue, orders, load>>

\* Mutant: an order that fails leaves the button as it is.
HearOrderStuck(i) ==
    /\ Awake /\ order[i].step = "answered"
    /\ IF order[i].reply = "placed"
         THEN /\ order' = [order EXCEPT ![i] = [NoOrder EXCEPT !.step = "reload", !.mine = order[i].mine]]
              /\ load' = [load EXCEPT ![i] = Started(FALSE)]
              /\ orders' = IF order[i].mine THEN [orders EXCEPT !.error = FALSE] ELSE orders
         ELSE /\ order' = [order EXCEPT ![i] = NoOrder]
              /\ UNCHANGED <<orders, load>>
    /\ UNCHANGED <<clientVars, catalogue>>

\* A placed order loads all again; any other ends.  The page follows if it
\* is still the one the order was sent from.
HearOrder(i) ==
    /\ Awake /\ order[i].step = "answered"
    /\ IF order[i].reply = "placed"
         THEN /\ order' = [order EXCEPT ![i] = [NoOrder EXCEPT !.step = "reload", !.mine = order[i].mine]]
              /\ load' = [load EXCEPT ![i] = Started(FALSE)]
              /\ orders' = IF order[i].mine THEN [orders EXCEPT !.error = FALSE] ELSE orders
         ELSE /\ order' = [order EXCEPT ![i] = NoOrder]
              /\ orders' = IF order[i].mine THEN [orders EXCEPT !.submitting = FALSE] ELSE orders
              /\ load' = load
    /\ UNCHANGED <<clientVars, catalogue>>

\* loadAll has no error to throw: the order goes on to refresh().
HearOrderLoad(i) ==
    /\ Awake /\ Loaded(i)
    /\ orders' = IF order[i].mine THEN AfterLoad(i) ELSE orders
    /\ load' = [load EXCEPT ![i] = NoLoad]
    /\ order' = [order EXCEPT ![i].step = "refresh"]
    /\ me' = [me EXCEPT ![i] = Sent]
    /\ orderly' = (orderly /\ ~AuthBusy)
    /\ UNCHANGED <<shopVars, at, away, user, loading, config, auth, catalogue>>

\* A sync changes the plans.
Publish ==
    /\ "other" \in visit.faults /\ catalogue < Len(Catalogues)
    /\ catalogue' = catalogue + 1
    /\ UNCHANGED <<clientVars, orders, load, order>>

-----------------------------------------------------------------------------
(* The page comes and goes.  The answers to a page that is gone change    *)
(* nothing; an order goes on without it.                                  *)

OrdersTurn(ended) ==
    LET stays == Shown("orders") /\ Shown("orders")'
    IN /\ orders' = IF stays THEN orders ELSE FreshOrders
       /\ load' = [l \in Loaders |->
                      IF l \in Presses \/ stays THEN load[l]
                      ELSE IF l = "mount" /\ Shown("orders")' THEN Started(TRUE) ELSE NoLoad]
       /\ order' = [i \in Presses |-> IF i \in ended THEN NoOrder
                                      ELSE [order[i] EXCEPT !.mine = @ /\ stays]]
       /\ catalogue' = catalogue

OrdersLost ==
    /\ orders' = FreshOrders
    /\ load' = [l \in Loaders |-> NoLoad]
    /\ order' = [i \in Presses |-> NoOrder]
    /\ catalogue' = catalogue

OrdersNext ==
    \/ \E l \in Loaders : AnswerLoad(l) \/ HearLoad(l)
    \/ \E l \in Retries : Retry(l)
    \/ \E p \in PlanIds : ChoosePlan(p)
    \/ \E n \in {0, NaN} \cup Quantities : TypeQuantity(n)
    \/ \E i \in Presses : Submit(i) \/ AnswerOrder(i) \/ HearOrder(i) \/ HearOrderLoad(i)
    \/ Publish

-----------------------------------------------------------------------------
(* Properties *)

\* What the checks of submit and of the button let through, handleCreateOrder
\* takes, unless the plans or the wallet have changed since the page read
\* them, or decode refuses the quantity, for two reasons only, of which the
\* form knows nothing: it is NaN, or above the maximum.
RefusalMeansChange ==
    [][\A i \in Presses : order[i].reply = "none" =>
         /\ order'[i].reply \in Refusals
               => order[i].plans # catalogue \/ order[i].wallet # balance
         /\ order'[i].reply = "invalid"
               => order[i].quantity = NaN \/ order[i].quantity > MaxQuantity]_ordersVars

\* One page never has two orders under way: the button is off from the
\* press until the order, the reload and the refresh are over.
OneOrderPerPage ==
    \A i, j \in Presses : order[i].mine /\ order[j].mine => i = j

\* A page chooses a plan for the customer once; after that the selection
\* changes by their hand only, however late a load arrives.
SelectionIsTheCustomers ==
    [][orders'.plan # orders.plan => 0 \in {orders.plan, orders'.plan} \/ load' = load]_ordersVars
=============================================================================
