# Verification of VPX

TLA+ models of the VPX backend (`src/backend`, Go) and of its browser client
(`src/frontend`, Next.js), checked with TLC on small instances and, where
stated, proved with TLAPS for every value of the constants. VPX resells
proxies: a customer tops up a wallet by card (Stripe) or crypto (NOWPayments)
and spends it on orders that are provisioned at VaultProxies. Money is what the
models are about first, then sessions, then what the client makes of both.

## 1. Inventory

| Component | State | Operations | Talks to | What makes it correct |
|---|---|---|---|---|
| Wallet and ledger store (`store/store.go`, `store/store_orders.go`) | `users.balance_cents`, `ledger_entries` | `Credit`, `Debit`, `MarkPaymentPaidAndCredit`, one SQL transaction each | PostgreSQL | never overdrawn; the ledger explains the balance; a payment credited once; no deadlock |
| Orders API (`api/order_handlers.go`) | `orders`, `proxies` | `handleCreateOrder` (9 calls in a row); list and usage handlers only read | wallet, plans, VaultProxies | charged at most once and what was quoted; charged means fulfilled or refunded, never both; status and answer tell the truth |
| Top-ups and webhooks (`api/billing_handlers.go`) | `payments`, `webhook_events` | `handleTopup`, `handleStripeWebhook`, `handleNowPaymentsWebhook` | wallet, the two providers | recorded before it can be paid; credited at most once, to the cent, and in the end; flag, status and ledger agree |
| Payment clients (`payments/`) | none | open a page, verify a webhook | Stripe, NOWPayments | - |
| VaultProxies client (`vaultproxies/`) | none | `Provision`, `Catalog`, `Usage`, `Balance`, `Healthy` | VaultProxies | an error means: nothing is known of the service |
| Catalogue sync and plan list (`catalog/`, `store_catalog.go`, `catalog_handlers.go`) | `plans`, one cached list in Redis | `Sync`, `handleSyncCatalog`, `handleListPlans` | VaultProxies, Redis | never priced below wholesale; what is sold is what upstream sells; the cached list catches up |
| Sessions (`api/auth_handlers.go`, `auth/`) | `sessions`, cookies, OAuth states in Redis | register, login, refresh, logout, Google login | browser | a revoked or rotated session is of no use; one account per Google identity |
| Rate limiter (`cache/cache.go`, `middleware.go`) | a token bucket per scope and identity in Redis | `Allow` | Redis | no more than capacity + rate x time, and what late requests cost; an idle caller gets the burst back |
| Router and middleware (`api/api.go`) | none | timeout, authentication, CSRF | every handler | - |
| Start and shutdown (`cmd/server/main.go`) | the requests in flight | start-up sync, 20 s of grace | everything | nothing a request left half done is worse for a restart |
| API client (`lib/api.ts`) | one shared refresh per tab | `rawRequest`, `tryRefresh` | the API | one refresh for many 401s; one retry; no request waits for ever |
| Auth provider and frame (`AuthProvider.tsx`, `dashboard/layout.tsx`, `lib/useConfig.ts`) | the user, `loading`; one configuration per page | `loadMe`, `refresh`, `login`, `register`, `logout`; the layout's guard | API client, pages | the user shown is the one the cookies are for; nobody waits at a spinner for nothing |
| Orders page (`dashboard/orders/page.tsx`) | plans, wallet, selection, button | `loadAll`, `submit`, retry | orders API, provider | submits once a press; asks what the server asks; never changes what the customer chose |
| Billing page (`dashboard/billing/page.tsx`) | amount, provider, button | `load`, `topup`, the checkout | top-ups, config | submits once a press; its terms are the server's |
| Overview, proxies and settings pages | lists, usage, copy flags | load, retry, usage, copy, sign out | API | what says it is busy is |
| Sign-in pages (`login`, `register`, `Turnstile.tsx`) | Turnstile token and script, button | submit, Google, the widget's callbacks | provider, config | a token is used as long as it is good |
| Public pages (`(marketing)`, `PlanCard.tsx`, `lib/server.ts`) | - | rendered from one GET without cookies | plan list | - |
| Admin statistics, deployment | - | read and present | - | - |

The hard behaviours: handlers are sequences of independent transactions and
remote calls, so other requests, a failure, the end of the request's context
(the client hangs up, or the router's 30 s timeout passes) or a restart may
come between any two calls; most errors of the later calls are ignored; nothing
repairs afterwards. Providers repeat and reorder their webhooks. PostgreSQL is
used at READ COMMITTED with row locks. In the browser, every request is
answered in its own time and heard by code that goes on after its page is gone;
a page holds what it read a while ago, is reloaded, left for a checkout and
brought back by the browser as it was, and other tabs share its cookies.
`PROJECT.json` lists each hazard at its
line, with the properties that cover it.

## 2. Modules

| Module | What it is |
|---|---|
| `Wallet` | balances and ledgers, moved by committed transactions; the abstract specification of the store's wallet part, and the library of moves the handlers use |
| `WalletTx` | the three wallet transactions statement by statement, concurrently, with row locks and rollbacks; refines `Wallet` |
| `Purchase` | what the shop promises about an order: charged once, then fulfilled or refunded, never both |
| `OrderFlow` | `handleCreateOrder`, one step per store or VaultProxies call, for any number of requests; refines `Purchase` |
| `Funding` | what the shop promises about a top-up: recorded, received, credited, in this order and once |
| `TopUp` | `handleTopup`, both webhooks and the two providers; refines `Funding` |
| `TokenBucket` | a rate limiter that never forgets a caller |
| `RateLimiter` | `cache.Allow` with its Lua script, requests that are late or sent again, clocks that differ, and a Redis that expires the key or cannot be reached; refines `TokenBucket` |
| `Catalog` | `catalog.Sync` statement by statement, several at once, and `handleListPlans` with its cached list |
| `Sessions` | refresh, sign-out and sign-in on the server, and the browser's tabs with their shared cookies, shared refresh and single retry |
| `Billing` | `OrderFlow` and `TopUp` over one wallet: an order spends what a webhook has credited a moment ago |
| `Client` | the frame of the browser client: route, auth provider, guard, `useConfig`, requests and their faults, reload, Google |
| `OrdersPage`, `BillingPage`, `AccountPages`, `SignInPages` | the pages; each extends `Client` |
| `Browser` | the frame and all pages in one document |
| `MC...` | the small instances; constants are in the `.cfg` files |
| `Wallet_proofs`, `WalletTx_proofs`, `Billing_proofs`, `TopUp_proofs`, `RateLimiter_proofs`, `Catalog_proofs`, `Sessions_proofs`, `Browser_proofs` | theorems and their proofs, each about the module it is named after; `Billing_proofs` is about `OrderFlow` first, which `Billing` extends |

### How they correspond to the code

*Wallet.* `balance` is `users.balance_cents`, `ledger[u]` the rows of
`ledger_entries` of user `u` in commit order (the table is listed by
`created_at`, which is not modelled). A reference is an order id or a payment
reference. `Credit` and `Debit` are the committed effects of the Go functions:
a non-positive amount is refused, a debit is conditional on the balance.

*WalletTx.* A transaction goes through the statements of its Go function. An
`UPDATE` or a `SELECT ... FOR UPDATE` waits for the row and then evaluates its
condition on the newest committed version (READ COMMITTED). `Abort` is the
rollback `pgx.BeginFunc` makes on any error, at any statement.

*OrderFlow.* The numbered comments of `handleCreateOrder` are the actions
`ReadPlan`, `CreateOrder`, `ChargeWallet` (with `CancelOrder` for 402),
`MarkProvisioning`, `Provision`, then `Refund` and `MarkFailed`, or `SaveProxy`
and `Activate`. `req[r]` holds the handler's step and locals; the order row a
request inserts is known by the request. A store call has the outcomes *ok*,
*error* (nothing happened) and *unacked* (it committed, the handler sees an
error); with an ended context only *error*. VaultProxies may refuse, or place
the service and lose the answer. `SyncPlan` lets the catalogue change in
between, `Restart` forgets every running request.

*TopUp.* `topup[t]` is the handler of a top-up request, `hook[d]` the webhook
handler on connection `d`. `payments` and `seen` are the tables `payments` and
`webhook_events`. `Announce`, `Follows` and `Deliver` are the providers:
NOWPayments announces each status once in the order of an invoice's life,
Stripe a completed session (paid, or with the fault `async` unpaid and paid
later). Events are delivered repeatedly until they are answered 200, in any
order, on all connections at once. A payment page can be paid only after
`POST /wallet/topup` has been answered, because its URL is in that answer and
nowhere else; this is why recording a Stripe payment after opening its page is
safe.

*RateLimiter.* One bucket, since buckets share nothing. A request reads the
clock of its server (`ReadClock`), which differs from Redis' by one of `Skews`,
and some time later runs the script (`Decide`), or runs it more than once when
an answer is lost and the client sends it again with the second it has read
(`Resend`). Nothing bounds how late a script runs, so scripts come in any order
of their seconds. Redis drops the key by its own clock,
which within one second may be before or after a script (`Forget`).
`FailOpen` is an unreachable Redis. `granted` counts the tokens taken since an
observer opened its window, `opened` the bucket's time then. Two counters say
what lateness costs: `setBack` the seconds by which late requests have turned
the bucket's clock back, `early` the seconds by which a request that found the
key dropped was later than the one before it, beyond the one second that
`EXPIRE` allows for (`Excess`). A request let through by `FailOpen` takes no
token and is not counted.

*Catalog.* `sync[s]` is one run of `Sync` and of the call that drops the cached
list after it, `reader[r]` a visitor's `GET /plans`. Statements fail, or are
done and not acknowledged; a failing Redis is a miss or a lost write. The
seeded plans have the fixed markup of migration 00004, all others the
configured one. The markup is a percentage. The code computes a price as
`int64(float64(w)*markup + 0.5)`; the float product is off by far less than the
hundredth of a cent of which the exact one is a multiple, so the error can be
seen only at exactly half a cent, and `FallShort` names the pairs for which it
is (50 x 1.15 becomes 57 and not 58). An empty list of codes deactivates
nothing, as in the code.

*Sessions.* One user in one browser. `jar` stands for the three cookies, which
are always set and cleared together. A request answered 401 goes to `denied`,
waits for the tab's refresh (`await`), is sent again (`retry`) and is over;
`flight[t]` is `refreshInFlight`, which stays settled until the waiting
requests have gone on. `call` is what is under way at `/auth`: a refresh per
tab and one action of the user. Cookies are stored in the order in which
answers arrive.

*Billing.* `OrderFlow`, and an `INSTANCE` of `TopUp` with the same `balance` and
`ledger`; a step of one leaves the variables of the other alone. Wallets start
empty, so every cent an order spends was credited by a webhook. `Amounts` and
`Faults` are `OrderFlow`'s, `TopupAmounts` and `TopupFaults` those of `TopUp`.

*Client.* One document. A request is *sent*, *answered* by the API and *heard*
by the code that awaits it, in three steps, so that answers of several requests
come in any order; between the last two anything may happen. `me[c]` is a
`GET /me` under way, of the provider's effect (`mount`) or of the `refresh()`
after order `i`; `auth[o]` is a call to `/auth`. The cookies and what
`rawRequest` does about a 401 are `Sessions`' subject: here `session` says only
whether the browser can be authorised. `visit` is chosen at the start and
never changes: the routes a history is about, and the faults of its
environment (see the bounds). `Open` is a reload, `SignInWithGoogle` the way
to Google and back: both load a new document, which forgets everything but
what is in the cookies. `orderly` is auxiliary: no call to `/auth` has
overlapped a `GET /me` or another call, none was lost, and the session has not
ended elsewhere.

*The pages.* A page is mounted when it is `Shown`; it then has its state, its
effects have run, and its requests are under way. `...Turn` says what becomes
of all of that in a step that changes the route, the user or `loading`: a page
that is unmounted loses its state, a page that is mounted starts its requests,
and a request that nothing aborts goes on. A submission (`order[i]`, `pay[i]`)
records whether it is *mine*, the page's that shows: only then does hearing its
answer change what is shown, but `submit` goes on to load, refresh and navigate
in any case. `catalogue` and `balance` are what the shop holds, as opposed to
what a page has read. The loads of the billing and the overview page are one
request each (`AnswerBilling`, `AnswerOverview`): which of their answers failed
changes what is listed and nothing a customer can press. The quantity of an
order is a number or `NaN`, which is what the form makes of ".5": it compares
as false with everything, so no check of the form stops it, and the server
refuses it as it refuses a quantity above `MaxQuantity`, of which the form
knows nothing. `handleCreateOrder` and `handleTopup` are one step here
(`AnswerOrder`, `AnswerTopUp`): what they do in detail is modelled by
`OrderFlow` and `TopUp`.

*Browser.* `FrameStep` is a step of the frame joined with the `Turn` of every
page; `Reload` loses them all. `away` is a document that has been left for the
checkout: it does not run, and the customer may go back to it as it was
(`GoBack`, for a document the browser keeps, which waits for nothing) or load a
new one. `form.token` is the Turnstile token a form holds: *spent* when the
server has had it verified, which the form cannot know.

## 3. Runs

| Run | Instance | Shows |
|---|---|---|
| `wallet_tx` | 2 users, 1 payment, 3 transactions, amounts 1 and 2 | the transactions refine the atomic wallet; a payment is credited once; no deadlock, every call returns |
| `orders` | 2 users, 2 requests, 1 plan, prices 0 and 1, quantities 1 and 2 (minimum 2), balances 0 and 3, one plan write, every fault | wallet, order row and answer tell the truth; `Purchase` is implemented |
| `orders_refund_lost` | 1 user, 1 request, fault `ctx` | **violation**, see section 6 |
| `topup` | 2 users, 1 top-up, 2 connections, amounts below, within and above the limits, every fault | `Funding` is implemented; flag, status and ledger agree; Stripe is never told to stop unrecorded |
| `topup_lost` | fault `db` | **violation**, see section 6 |
| `topup_status` | no fault | **violation**, see section 6 |
| `billing` | 1 user, 1 order, 1 top-up, 2 connections, faults `refused`, `lost`, `dup`, `provider` | the balance is what the payments and orders say at every moment; with a store that answers, what was charged is fulfilled or refunded and received money is credited, although both move one wallet |
| `ratelimit` | burst 3, rate 2, 2 requests under way, as late as they may be, a clock 2 s behind Redis' and one that is not, 7 s, of which late requests cost up to 3 | no window grants more than burst, refill and what lateness costs; that Redis drops the key is noticed only by a request later than the one before it |
| `catalog` | 2 codes (1 seeded), prices 13 and 50, markup 115 %, 2 syncs, 1 visitor, one change of the offer, every fault | prices are consistent, nothing continuously offered is withdrawn, a sync alone mirrors the offer, the cached list catches up |
| `sessions` | 2 tabs, 3 pages, 3 tokens at a time, every fault | every request returns; in an orderly history no session is left behind and nobody is signed out by a 401 |
| `browser` | 7 visits, 2 submissions and 1 retry at a time, 2 catalogues, balances 0 and 3, quantities 1 to 3 (maximum 2) and NaN, 3 offers of providers | no page submits twice at once; what is busy is being worked on and ends; the server refuses what a form lets through for a named reason only; the selection is the customer's; the user shown has the session; a Turnstile token is refused for a reason |
| `sessions_signout` | 1 tab, 2 pages, no fault | **violation**, see section 6 |

*Why the bounds are enough.* Requests interact only through the wallet of a
common customer and through the plans; two requests, of one customer or of two,
with a balance that covers one of them but not both, meet every such case, and
one plan write can fall between any two steps. Three transactions are the least
that let one wait, one hold and one abort. Top-ups interact through nothing but
the wallet, whose moves `WalletTx` settles; within a top-up two connections are
the least that race, and an invoice has up to five events. `MaxSyncs` is the
only counter of these models that is bounded. In `billing` the wallet is
empty and the top-up covers the order once, so that the order is possible only
after it, and a lost or doubled credit shows at once.

Capacity 3 at rate 2 makes `ceil(capacity / rate)` round up, so the key lives 3
seconds; 7 seconds are two expiries of it, and a request under way from the
start may be 7 seconds late. `MaxLost` bounds the auxiliary counters and with
them how much lateness one window takes in; 3 seconds are more than a full
bucket. Two syncs are the least that interleave, two codes the
least of which one can vanish while the other stays; at 115 % a wholesale price
of 13 is rounded up, and one of 50 is the half cent that the float product falls
short of. In `Sessions` two pages of one
tab share a refresh and the third page, in another tab, does not; a request or
a sign-in begins only when a token is left for it (`Room`), so the bound on
tokens delays and never stops anyone.

In `browser` a history with every page and every fault is beyond reach, and
pages meet only through the frame; `MCVisits` has one visit for each way they
meet:

| Visit | Faults | What it is about |
|---|---|---|
| login, register | answers lost | two forms, one session; the retried login; Google |
| login, settings | all | both sign-out buttons against sign-in, expiry and `GET /me` |
| pricing, register | API errors, expiry | the header's links, registration while signed in |
| orders | all | loads, retries and orders against a shop that changes |
| orders, overview | answers lost | orders that go on after their page, and take the customer along |
| proxies | all | list, usage, copies |
| billing, overview | answers lost, expiry | configuration, top-up, checkout and back |

Two `Presses` are the least that could be a double submission, and one retry
beside the load of the mount and those of the orders gives three loads of one
page. Of the two `Catalogues` the second withdraws a plan and raises the
minimum of the other, at a third of the price; balances are 0 and what one unit
costs in the first version, which pays for the least order of either; 3 units
are above the maximum and 2 are not; amounts lie below, at and above the limits (5 and 8),
with the minimum as the default.
`MaxTimers` is 2, for the first timer to end the flag of the second copy. Each
sign-out button is pressed once at a time, and a form is not submitted while
one of the same route, left behind, still is.

*What the properties do not say.* `WithinRate` has a price in it: a request that
arrives with an earlier second than the one before it turns the bucket's time
back, and one that is later than the one before it by more than a second may
find the key dropped before its bucket is full. Redis timeouts, repeated scripts
and the clocks of several servers make both possible in the code, so a limit of
10 and 1 per second is a limit of 10 and 1 per second plus 1 for each second
lost in this way, and nothing else (`RateLimiter_proofs`). Two overlapping syncs with different offers
may leave a mixture of both on sale (`SyncMirrorsOffer` is about a sync that
runs alone). `LiveIsHeld` and `NoSpuriousSignOut` are about orderly histories:
when two tabs refresh with the same cookie at once, the slower one is answered
401 and clears the cookies the faster one has just received, or both get a
session and one of them is left behind; a lost answer to a refresh ends the
session at the next one. Nothing in the repository promises otherwise.

In the same way `NoGhostUser` is about orderly histories: the answer to a
`GET /me` that was sent before a sign-out may set the user again after it.
`NoDoubleSubmit` is about presses, not about purchases: when the answer to a
placed order is lost the page says it failed, and a customer who presses again
buys twice. `SubmissionsEnd` excepts documents that are left, and
`BusyMeansWorking` the top-up button of a document the browser brings back,
which stays off until it is reloaded. `RefusalMeansChange` and
`TopupMeetsTerms` name the refusals the forms do not foresee: a quantity that is
NaN or above the maximum (`order_handlers.go:17`), an amount above the ceiling,
and an amount of 0 where 0 is the configured minimum (`billing_handlers.go:42`
requires 1). An order that goes on after its page is gone, and the copy flag
that the first of two timers takes away early, are in the model and in no
property. The sign-in form that never gets its
Turnstile widget, because the script failed once, is in the model and in no
property.

*Deadlock.* `OrderFlow`, `TopUp` and `Billing` stop when every request is
answered, and a customer may leave `Browser` as it is when nothing is under way, so
their runs do not check for it; `RateLimiter`, `Catalog` and `Sessions` never
stop, and their runs check that they do not; `WalletTx` may stop only when every call has
returned (`AllEnded`), and its run does.

*Fairness.* Weak fairness of a running handler or transaction: goroutines run
on, and each call returns, since the router's timeout ends its context.
Starting a request, hanging up, faults and restarts are not fair. Strong
fairness of `DeliverMoney`: a provider delivers an event that says money has
arrived until it is answered 200. Customers owe nothing. In `Catalog` what has begun
goes on and the list expires; in `Sessions` handlers run on, answers arrive or
are lost, and a tab handles the events that have come. In `Browser` a request
of a submission is answered or fails (`fetch` does one or the other) and the
event loop takes up what has been answered; nothing the customer does is fair: not
even that they stay. `Billing` has the fairness of its two parts. Restarts are not among
the faults of the liveness runs: nothing in the code takes up an order or an
event that a restart cut off.

## 4. Proofs

Every theorem is `Spec => []...` or `Spec => [][...]`, for all values of the
constants that satisfy
the named assumptions (`AmountsAssumption`, `OrderFlowAssumption`,
`TopUpAssumption`, `BillingAssumption`, ...), which TLC evaluates in the runs. Each module proves an inductive invariant first (`Invariance`), step by
step over the actions, and the properties from it.

`Wallet_proofs` proves about one `Move` what the handlers need: types are kept,
exactly one row is appended (`MoveLedger`), the rows of a reference change only
by it (`MoveEntries`, `OneRow`, `MoveOneRow`), the chain of balances is
continued (`MoveChain`); and `WalletSound`, the safety of the atomic wallet.

`WalletTx_proofs` proves `TypeOK`, `TopupOnce` and the refinement
`ImplementsWallet`: every statement of the three transactions is a step of
`Wallet` or a stutter. The invariant says what a transaction may rely on
because of the locks it holds (`TxSound`): the balance it has written and the
one it has read belong to the committed row, and its payment is not credited
yet. With it, `WalletSound` carries over to what the store has committed
(`CommittedWalletSound`). `NoLockCycle` is the safety part of the absence of
deadlock: nobody waits for one who waits for one who waits, and as long as a
call is open some open call does not wait. It holds because a payments row is
locked before a users row and nothing is locked after one (`Holders`: who holds
a row is past the statement that locks it), and that order is what a new
transaction on these tables has to keep.

`Billing_proofs` begins with `OrderFlow` by itself and proves `TypeOK`, `NonNegative`, `LedgerChain`,
`ServiceIsPaid`, `StatusTruth`, `ReplyTruth`, `QuoteIsCharged` and the step
simulation of `Purchase` (`PurchaseKept`), for every number of users, requests
and plans, every price and every set of faults. Few of these are inductive:
whether a step may set a status or an answer depends on where the handler is.
The strengthening is `Sound(...)`, one conjunct per fact a step relies on,
stated for one request over its order row, its locals, and whether it is
charged, refunded, served and stored: for instance that from `mark` to
`refund` the request is charged and not refunded, and before `debit` it is not
charged. Every action changes one request, `AllSound` says the same of all; the
lemmas, one per action, show that the request's own `Sound` is kept and the
others' is untouched, since a wallet move adds only a row with this request's
reference.

It goes on with `Billing`, orders and top-ups on the same wallets.
`BooksBalance` proves `EveryCentAccounted` for any finite tables of payments
and orders. `BillingInv` is the invariants of both parts and the equation
itself. Two lemmas carry each part over the other's steps: a row for a payment
disturbs no order (`PaymentRows`) and a row for an order disturbs no payment
(`OtherRows` of `TopUp_proofs`), since kinds and references differ
(`BillingAssumption`: no payment has the reference of an order). A step of
`OrderFlow` moves nothing, charges or refunds one order (`OrderMoves`), a step
of `TopUp` moves nothing or credits one payment (`TopupMoves`); so exactly one
summand changes, by what the balance changes by. That a sum over a finite set
then changes by as much (`SumChanges`) needs induction over the set, which is
done without the library's schemes: of the sets for which a claim fails one of
the least size is taken (`Smallest`, a minimum of a set of naturals), and the
claim shown for it from the set without one element. `TogetherAsAlone` states
what that gives for the parts: everything proved of the orders alone and of
the top-ups alone holds of both together. `HandlersUseTheWallet` is a
refinement again: seen from `users` and `ledger_entries`, `Billing` implements
the atomic `Wallet`, so that what `WalletTx` implements from below is all that
the handlers use from above.

Its last section is about which faults matter. `RefundNeedsStoreAndContext`
bounds the finding of run `orders_refund_lost`: if no store call fails and no
context ends, a 502 always means refunded, also with lost acknowledgements, a
failing VaultProxies and restarts. `ChargedIsInHand` is the part of
`ChargeSettles` that a step can break: with a store that answers and a server
that runs, a charged order is fulfilled, refunded or at one of the five steps
from `mark` to `activate`; what is left to fairness is only that handlers go
on. `MoneyIsInHand` says this, and `KnownMoneyIsInHand` below, of orders and
top-ups together. `StoreAnswers`, the hypothesis, is a condition on `Faults`
and holds in run `billing`.

`TopUp_proofs` proves `TypeOK`, `FlagMatchesLedger`, `StripeAckIsRecorded`,
`OneApplierPerEvent` and the step simulation of `Funding` (`FundingKept`). The
strengthening is `Sound` for a top-up (the credited flag is the ledger's row,
what is credited was received, what was received was announced, and nothing is
announced before the handler has answered 200 with the payment on record) and
`HookSound` for a connection: what it handles was announced, and what it
applies is in `webhook_events`. `KnownMoneyIsInHand` is the part of
`ReceivedIsCredited` that a step can break: with a store that answers and a
server that runs, a paid event that is in `webhook_events`, or was answered
200, has its payment credited or is being applied at this moment; a second
delivery may well be answered 200 before the first has credited. Run
`topup_lost` shows what a failing store makes of this.

`RateLimiter_proofs` proves `TypeOK`, `WithinRate` and the refinement
`ForgettingIsHarmless` for every burst, rate, number of requests and length of
time, however late the requests and however different the clocks. What it rests
on is `FindsTheLevel`: a request finds in Redis, whether the key was dropped or
not, what it would find in a bucket that is never dropped if it were `Excess`
seconds younger. `EXPIRE` is `ceil(capacity / rate) + 1`, which fills the bucket
(`TtlFills`) and leaves one second over: that second is the lateness that goes
unnoticed, all beyond it is in `early`. The invariant
adds that a key is dropped no earlier than it expires (`DroppedLate`)
and that what is still in the bucket counts against the bound, too (`Budget`).

`Catalog_proofs` proves `TypeOK`, `PricedByMarkup`, `NeverWithdrawn` and
`SyncMirrorsOffer`. `PricedByMarkup` needs arithmetic about rounding
(`Rounding`, `Product`, `RetailFits`) and holds whatever `FallShort` is: half a
cent is lost at most, and never below wholesale. `NeverWithdrawn` needs that the
codes a sync keeps are those it fetched, all of them, when it deactivates
(`SyncSound`): the first product that cannot be written ends the sync.
`SyncMirrorsOffer` is an action property with an invariant of its own
(`Mirrors`): as long as a sync has been alone, what it has written so far is in
the table as it fetched it.

`Sessions_proofs` proves `TypeOK`, `LiveIsHeld` and `NoSpuriousSignOut`. The
invariant is about orderly histories: one call is under way at a time, and at
each of its steps exactly one token may be alive (`Only(k)`): the cookie's
until the call revokes it, none, or the one it has created.

`Browser_proofs` proves `NoDoubleSubmit`, `NoGhostUser`, `CaptchaRefusals`,
`RefusalMeansChange`, `SelectionIsTheCustomers`, `TopupMeetsTerms`,
`BusyMeansWorking` and the types (`BrowserTypeOK`), for any visits, catalogues,
amounts, offers, presses and retries. There are three invariants, one per group
of pages that share no state: `FrameInv` (in an orderly history calls to `/me`
and `/auth` exclude each other, and a call that has been answered knows the
session; a token on its way is the form's, and was fresh or already spent when
it was sent), `BillingInv` (the form's provider is one that is offered, as soon
as there is a form), `OrdersInv` (what has been submitted fits what the page
had read; a load that is to choose a plan is the only one of a page that has
none). `BrowserInv` joins them with what each page has under way while it looks
busy (`OrdersBusy`, `BillingBusy`, `AccountBusy`, `FormBusy`).

Only model-checked: every liveness property (`EveryCallReturns`,
`MoneySettles`, `CacheCatchesUp`, `EveryRequestReturns`, `SubmissionsEnd`: out
of the prover's reach), and that the properties of the violation runs fail.

## 5. Not modelled

Backend: account look-up and linking (`upsertGoogleUser`) and the OAuth state.
They are two look-ups and an insert or an update, kept right by unique indexes
(`email`, `google_id`) and by the atomic `GetDel` of Redis; what could go
wrong, two first logins at once, ends in an error page and a second attempt.
The CSRF header is read and the cookies are attached at one moment in the
model. Signature checks, hashing, JWTs and payload formats (conversions no
property is about); read-only handlers and admin statistics (no state); a
ledger listing by timestamp; the number of credentials per order, which is one
with both clients. Delayed card payments (fault `async`) are in the safety run
only: the webhook ignores the event that would report them, so they are never
credited, and nothing in the repository says they should be.

Frontend: toasts, the texts of errors, tables of rows, the revealed password
and the mobile menus: nothing a customer can do depends on them. What a list
holds is abstracted to whether there is one and whether it is empty, the cards
of the proxies page to one card. The public pages are rendered on the server
and keep no state in the browser; their links are in `Client` (route
`pricing`). `Browser` is one document: several tabs are in `Sessions`, with the
cookies they share.

## 6. What the violation runs show

* `orders_refund_lost`: the client hangs up after the debit. `Provision` and
  the refund both run under the ended context, both fail, the refund's error is
  dropped and the answer says "you were refunded" (`order_handlers.go:79-84`,
  `docs/API.md:80`).
* `topup_lost`: one failed store call while a webhook is handled. The event is
  already in `webhook_events` (or, on the NOWPayments webhook, not even there
  but answered 200), so no redelivery credits the payment.
* `topup_status`: without any fault, a finished crypto invoice is left at
  `confirming`: `sending` overwrites `paid`, and `finished` finds the payment
  credited. The wallet is right, the status shown and the revenue counted from
  it are not.
* `sessions_signout`: the user signs out while a refresh with the same cookie
  is in the server. The refresh revokes the session itself and creates the next
  one, the sign-out revokes a session that is already revoked: "logged_out" is
  answered while a session of the browser is alive
  (`auth_handlers.go:153-160`, `settings/page.tsx:38`).

## 7. Plan

1. *Done:* every module of section 2, the runs of section 3 and the proofs of
   section 4.
2. *Left to model:* `Accounts` (registration, Google look-up and linking, the
   OAuth state taken once by `GetDel`), for the two hazards of
   `auth_handlers.go` that have no property.
3. *Left to prove:* the safety parts of the other liveness properties (in
   `Sessions`, that every waiting request has a refresh under way; in
   `Catalog`, that a stale list is on its way out); which faults can break `ReceivedIsCredited` and `SignOutRevokes`.
