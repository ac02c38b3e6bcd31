------------------------------ MODULE Browser -------------------------------
(***************************************************************************)
(* The browser client: the frame and the pages it shows, in one document   *)
(* of one customer.  A step of the frame turns the pages: the one it shows *)
(* is mounted, the one it no longer shows loses its state, and the         *)
(* requests of both go on.                                                 *)
(***************************************************************************)
EXTENDS OrdersPage, BillingPage, AccountPages, SignInPages

vars == <<clientVars, ordersVars, billingVars, accountVars, signInVars>>

Init == /\ ClientInit /\ OrdersInit /\ BillingInit /\ AccountInit /\ SignInInit

-----------------------------------------------------------------------------
(* Steps of the frame *)

\* The effects and the cleanups of what is mounted and unmounted; ended are
\* the orders whose submit has ended.
Turns(ended) ==
    ConfigTurn /\ OrdersTurn(ended) /\ BillingTurn /\ AccountTurn /\ SignInTurn

FrameStep ==
    \/ (HearMe \/ Redirect \/ Visit) /\ Turns({})
    \/ \E b \in SignOuts : (PressLogout(b) \/ HearLogout(b)) /\ Turns({})
    \/ \E op \in SignInRoutes : HearSignedIn(op) /\ Turns({})
    \/ \E i \in Presses : HearRefresh(i) /\ Turns({i})

\* A reload, a return that the browser has kept no document for, or one
\* from Google.
Reload == (Open \/ SignInWithGoogle) /\ OrdersLost /\ BillingLost /\ AccountLost /\ SignInLost

-----------------------------------------------------------------------------
(* Steps that turn no page *)

UpstreamStep ==
    /\ \/ \E c \in Callers : AnswerMe(c)
       \/ \E b \in SignOuts : AnswerLogout(b)
       \/ Expire \/ MoveBalance
    /\ UNCHANGED <<ordersVars, billingVars, accountVars, signInVars>>

\* What an order has paid for is the customer's.
Delivers == owned' = (owned \/ (\E i \in Presses : order'[i] # order[i] /\ balance' # balance))

OnOrders(Step) ==
    /\ Step /\ Delivers
    /\ UNCHANGED <<billingVars, overview, listing, listCall, card, signInVars>>

\* The browser keeps a document that waits for nothing.
Quiet ==
    /\ ~MeBusy /\ ~AuthBusy
    /\ \A l \in Loaders : load[l].step = "idle"
    /\ \A i \in Presses : order[i].step = "idle" /\ pay[i].step = "idle"
    /\ billing.call = "idle" /\ overview.call = "idle"
    /\ listCall = "idle" /\ card.usageCall = "idle"

OnBilling(Step) == Step /\ UNCHANGED <<ordersVars, accountVars, signInVars>>
OnAccount(Step) == Step /\ UNCHANGED <<ordersVars, billingVars, signInVars>>
OnSignIn(Step) == Step /\ UNCHANGED <<ordersVars, billingVars, accountVars>>

Next ==
    \/ FrameStep \/ Reload \/ UpstreamStep
    \/ OnOrders(OrdersNext)
    \/ OnBilling(BillingNext) \/ OnBilling(GoBack /\ Quiet)
    \/ OnAccount(AccountNext)
    \/ OnSignIn(SignInNext)

Spec == Init /\ [][Next]_vars

-----------------------------------------------------------------------------
(* Fairness: the API answers, or the connection fails, and the event loop  *)
(* takes up what has been answered.  What the customer does is not fair.   *)

OrderGoesOn(i) ==
    \/ OnOrders(AnswerOrder(i) \/ HearOrder(i) \/ AnswerLoad(i) \/ HearOrderLoad(i))
    \/ AnswerMe(i) /\ UNCHANGED <<ordersVars, billingVars, accountVars, signInVars>>
    \/ HearRefresh(i) /\ Turns({i})

TopUpGoesOn(i) == OnBilling(AnswerTopUp(i) \/ HearTopUp(i) \/ Leave(i))

SignInGoesOn(op) ==
    \/ OnSignIn(AnswerRefused(op) \/ AnswerVerified(op) \/ HearSignInError(op))
    \/ HearSignedIn(op) /\ Turns({})

FairSpec ==
    /\ Spec
    /\ \A i \in Presses : WF_vars(OrderGoesOn(i)) /\ WF_vars(TopUpGoesOn(i))
    /\ \A op \in SignInRoutes : WF_vars(SignInGoesOn(op))

-----------------------------------------------------------------------------
(* Properties *)

BrowserTypeOK == ClientTypeOK /\ OrdersTypeOK /\ BillingTypeOK /\ AccountTypeOK /\ SignInTypeOK

\* Whatever the customer presses, leaves and comes back to, one page never
\* has two of its submissions under way: money is spent once a press.
NoDoubleSubmit == OneOrderPerPage /\ OneTopupPerPage

\* What says it is busy is: behind the spinners of the layout and of its
\* pages, every button that is off while it loads and the flag that is to go
\* away, there is a request or a timer that ends it.  The exception is the
\* button of the top-up, which stays off in a document that has been left for
\* the checkout.
BusyMeansWorking ==
    /\ at \in Dashboard /\ ~Guarded => MeBusy \/ SignedOut
    /\ Shown("overview") /\ overview.loading => overview.call # "idle"
    /\ Shown("billing") /\ billing.loading => billing.call # "idle"
    /\ Shown("orders") /\ orders.loading => load["mount"].step # "idle"
    /\ orders.submitting => \E i \in Presses : order[i].mine
    /\ billing.submitting => away \/ billing.returned \/ \E i \in Presses : pay[i].mine
    /\ Shown("proxies") /\ ListShows = "spinner" => listCall # "idle"
    /\ card.loadingUsage => card.usageCall # "idle"
    /\ card.copied => card.timers > 0
    /\ form.submitting => auth[at].step # "idle"

\* When nothing is under way, the client shows a user exactly if the browser
\* has a session, provided that the calls to /auth and to /me never
\* overlapped, none was lost and the session did not end elsewhere.
NoGhostUser ==
    orderly /\ ~loading /\ ~MeBusy /\ ~AuthBusy => (user <=> session)

\* Every submission ends, whatever fails on its way and wherever the
\* customer has gone, unless the document is left.
SubmissionsEnd ==
    /\ \A i \in Presses : order[i].step # "idle" ~> order[i].step = "idle" \/ away
    /\ \A i \in Presses : pay[i].step # "idle" ~> pay[i].step = "idle" \/ away
    /\ \A op \in SignInRoutes : auth[op].step # "idle" ~> auth[op].step = "idle" \/ away
=============================================================================
