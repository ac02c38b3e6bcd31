------------------------------- MODULE Client -------------------------------
(***************************************************************************)
(* The browser client's frame: where the document is, whom AuthProvider    *)
(* shows as signed in, and the guard of the dashboard's layout.  The pages *)
(* are modules of their own that extend this one; Browser composes them.   *)
(*                                                                         *)
(* A request is sent, answered by the API and heard by the client in steps *)
(* of its own, so that answers come in any order.  The cookies are         *)
(* abstracted to session: the browser can be authorised, if need be by the *)
(* refresh that module Sessions is about.  Of the answers, what a customer *)
(* is shown but no step depends on is left out.                            *)
(*                                                                         *)
(* The faults of a visit are what the environment may do wrong in it:      *)
(*   "net"    a request or its answer is lost                              *)
(*   "api"    the API answers a request with an error of its own           *)
(*   "expire" the session ends without the client                          *)
(*   "other"  another tab, a webhook or a sync changes what the shop holds *)
(***************************************************************************)
EXTENDS Integers, FiniteSets

CONSTANTS
    Money,          \* balances
    Presses,        \* slots for the submissions of a form, under way at the same time
    Visits          \* bound: what one visit may come to, routes and faults

Dashboard == {"overview", "proxies", "orders", "billing", "settings"}
SignInRoutes == {"login", "register"}
AllFaults == {"net", "api", "expire", "other"}
Routes == Dashboard \cup SignInRoutes \cup {"pricing"}

ASSUME ClientAssumption ==
    /\ Money \subseteq Nat /\ 0 \in Money
    /\ "mount" \notin Presses
    /\ \A v \in Visits : v.routes \subseteq Routes /\ v.faults \subseteq AllFaults

VARIABLES
    session,        \* the browser's cookies belong to a live session
    balance,        \* users.balance_cents of its owner
    visit,          \* the visit this is
    at,             \* the route of the document
    away,           \* it has been left for a checkout, and waits in the browser's cache
    user, loading,  \* AuthProvider: user is not null; loadMe has not ended yet
    me,             \* GET /me: of the provider's effect and of each refresh()
    config,         \* useConfig of the page that shows, if it has one
    auth,           \* POST /auth: the sign-ins and sign-outs under way
    orderly         \* auxiliary: no call to /auth overlapped a GET /me, none
                    \* was lost, no session expired

shopVars == <<session, balance, visit>>
frameVars == <<at, away, user, loading, me, config, auth, orderly>>
clientVars == <<shopVars, frameVars>>

Callers == {"mount"} \cup Presses
\* The buttons that sign out, which do not know of each other.  Bound: one
\* press of each at a time, though nothing turns them off.
SignOuts == {"sidebar", "settings"}
Ops == SignInRoutes \cup SignOuts

\* The pages that call useConfig.
Configured == {"billing", "login", "register"}

Rest == [step |-> "idle", value |-> FALSE]
Sent == [step |-> "sent", value |-> FALSE]
NoCall == [step |-> "idle", token |-> "none", reply |-> "none"]

\* What a sign-in is answered: wrong is a 401, captcha the 403 of Turnstile.
Replies == {"none", "ok", "wrong", "captcha", "error"}
\* The Turnstile token of a form, or of a request: one that has been
\* verified is spent; a form that does not ask for one sends it "unasked".
TokenStates == {"none", "fresh", "sent", "spent", "expired", "unasked"}

ClientTypeOK ==
    /\ session \in BOOLEAN /\ orderly \in BOOLEAN
    /\ user \in BOOLEAN /\ loading \in BOOLEAN
    /\ balance \in Nat
    /\ visit \in Visits
    /\ at \in Routes /\ away \in BOOLEAN
    /\ config \in {"idle", "sent", "known", "unknown"}
    /\ me \in [Callers -> [step : {"idle", "sent", "answered"}, value : BOOLEAN]]
    /\ auth \in [Ops -> [step : {"idle", "sent", "again", "answered"}, token : TokenStates,
                         reply : Replies]]

\* A document has just been loaded: the effect of AuthProvider calls loadMe.
\* The balance is told apart in visits that come to the orders.
ClientInit ==
    /\ session \in BOOLEAN
    /\ visit \in Visits
    /\ balance \in (IF "orders" \in visit.routes THEN Money ELSE {0})
    /\ at \in visit.routes
    /\ user = FALSE /\ loading = TRUE
    /\ me = [c \in Callers |-> IF c = "mount" THEN Sent ELSE Rest]
    /\ auth = [o \in Ops |-> NoCall]
    /\ config = IF at \in SignInRoutes THEN "sent" ELSE "idle"
    /\ away = FALSE /\ orderly = TRUE

-----------------------------------------------------------------------------
(* What is shown *)

\* The layout renders a page of the dashboard, or a spinner in its place.
Guarded == ~loading /\ user

\* The page of route r is mounted.
Shown(r) == at = r /\ (r \in Dashboard => Guarded)

\* The layout's effect sends everybody else to the sign-in page.
SignedOut == ~loading /\ ~user

\* The header's links depend on the user; a plan's card leads to /register.
HeaderLinks == IF Guarded THEN {"overview", "register"} ELSE SignInRoutes

\* "pricing" stands for the public pages, of which the logo of a form leads
\* to the first.  Inside the dashboard, the sidebar leads everywhere.
Links == IF at = "pricing" THEN HeaderLinks
         ELSE IF at \in SignInRoutes THEN SignInRoutes \cup {"pricing"}
         ELSE IF Guarded THEN Dashboard ELSE {}

\* Mutant: a button that loads can be pressed.
ButtonAlwaysOn(disabled, busy) == ~disabled

\* A Button is off while it loads.
ButtonOn(disabled, busy) == ~(disabled \/ busy)

\* A document in the browser's cache does not run.
Awake == ~away

-----------------------------------------------------------------------------
(* The API *)

\* What may become of a request that needs a session, or that does not.
Outcomes(needsSession) ==
    (IF needsSession /\ ~session THEN {"401"} ELSE {"ok"})
        \cup (IF "api" \in visit.faults THEN {"error"} ELSE {})
        \cup (IF "net" \in visit.faults THEN {"lost"} ELSE {})

AuthBusy == \E o \in Ops : auth[o].step # "idle"
MeBusy == \E c \in Callers : me[c].step # "idle"

\* handleMe answers loadMe; any failure is an answer without a user.
AnswerMe(c) ==
    /\ Awake /\ me[c].step = "sent"
    /\ \E o \in Outcomes(TRUE) :
         /\ me' = [me EXCEPT ![c] = [step |-> "answered",
                                     value |-> o = "ok"]]
         /\ orderly' = (orderly /\ o \in {"ok", "401"})
    /\ UNCHANGED <<shopVars, at, away, user, loading, config, auth>>

\* handleLogout revokes the session the cookie is for, and needs none.
AnswerLogout(b) ==
    /\ Awake /\ b \in SignOuts /\ auth[b].step = "sent"
    /\ \E o \in Outcomes(FALSE) :
         /\ session' \in IF o = "ok" THEN {FALSE} ELSE IF o = "error" THEN {session}
                         ELSE {session, FALSE}
         /\ orderly' = (orderly /\ o = "ok")
    /\ auth' = [auth EXCEPT ![b].step = "answered"]
    /\ UNCHANGED <<balance, visit, at, away, user, loading, me, config>>

\* The session expires, or is revoked in another tab.
Expire ==
    /\ "expire" \in visit.faults /\ session
    /\ session' = FALSE
    /\ orderly' = FALSE
    /\ UNCHANGED <<balance, visit, at, away, user, loading, me, config, auth>>

\* A webhook or another tab moves the balance.
MoveBalance ==
    /\ "other" \in visit.faults
    /\ balance' \in Money \ {balance}
    /\ UNCHANGED <<session, visit, frameVars>>

-----------------------------------------------------------------------------
(* useConfig *)

\* Each mount asks once; the request of a page that is left is aborted.
ConfigTurn ==
    config' = IF ~(at \in Configured /\ Shown(at))' THEN "idle"
              ELSE IF at' = at /\ Shown(at) THEN config ELSE "sent"

\* The page that asked hears the answer, which is the same at all times.
HearConfig ==
    /\ Awake /\ config = "sent"
    /\ config' \in {IF o = "ok" THEN "known" ELSE "unknown" : o \in Outcomes(FALSE)}
    /\ UNCHANGED <<shopVars, at, away, user, loading, me, auth, orderly>>

-----------------------------------------------------------------------------
(* Steps of the frame.  The pages follow a change of at, user or loading: *)
(* Browser joins each of these steps with the Turn of every page.         *)

\* The effect's loadMe ends.
HearMe ==
    /\ Awake /\ me["mount"].step = "answered"
    /\ user' = me["mount"].value
    /\ loading' = FALSE
    /\ me' = [me EXCEPT !["mount"] = Rest]
    /\ UNCHANGED <<shopVars, at, away, auth, orderly>>

\* The refresh() of an order ends, and the order goes on to the proxies.
HearRefresh(i) ==
    /\ Awake /\ i \in Presses /\ me[i].step = "answered"
    /\ user' = me[i].value
    /\ loading' = FALSE
    /\ me' = [me EXCEPT ![i] = Rest]
    /\ at' = "proxies"
    /\ UNCHANGED <<shopVars, away, auth, orderly>>

\* router.replace('/login') of the layout.
Redirect ==
    /\ Awake /\ at \in Dashboard /\ SignedOut
    /\ at' = "login"
    /\ UNCHANGED <<shopVars, away, user, loading, me, auth, orderly>>

\* The customer follows a link.
Visit ==
    /\ Awake
    /\ at' \in (Links \cap visit.routes) \ {at}
    /\ UNCHANGED <<shopVars, away, user, loading, me, auth, orderly>>

\* The sign-out buttons of the sidebar and of the settings.  Bound: pressed
\* in visits that come to the sign-in page.
PressLogout(b) ==
    /\ Awake /\ b \in SignOuts
    /\ at \in Dashboard /\ Guarded /\ (b = "settings" => at = "settings")
    /\ "login" \in visit.routes
    /\ auth[b].step = "idle"
    /\ auth' = [auth EXCEPT ![b] = [NoCall EXCEPT !.step = "sent"]]
    /\ orderly' = (orderly /\ ~MeBusy /\ ~AuthBusy)
    /\ UNCHANGED <<shopVars, at, away, user, loading, me>>

\* Mutant: signing out leaves the user in place.
HearLogoutKeepingUser(b) ==
    /\ Awake /\ b \in SignOuts /\ auth[b].step = "answered"
    /\ at' = "login"
    /\ auth' = [auth EXCEPT ![b] = NoCall]
    /\ UNCHANGED <<shopVars, away, user, loading, me, orderly>>

\* Whatever became of it, the user is cleared and the sign-in page shown.
HearLogout(b) ==
    /\ Awake /\ b \in SignOuts /\ auth[b].step = "answered"
    /\ user' = FALSE
    /\ at' = "login"
    /\ auth' = [auth EXCEPT ![b] = NoCall]
    /\ UNCHANGED <<shopVars, away, loading, me, orderly>>

\* login() and register() of AuthProvider end well: the user is set and the
\* dashboard shown, from wherever the customer has gone meanwhile.
HearSignedIn(op) ==
    /\ Awake /\ op \in SignInRoutes
    /\ auth[op].step = "answered" /\ auth[op].reply = "ok"
    /\ user' = TRUE
    /\ at' = "overview"
    /\ auth' = [auth EXCEPT ![op] = NoCall]
    /\ UNCHANGED <<shopVars, away, loading, me, orderly>>

\* A new document takes the place of this one.  A call to /auth that was
\* under way may still have its effect; any other is to the new document
\* what another tab does.
NewDocument ==
    /\ away' = FALSE
    /\ user' = FALSE /\ loading' = TRUE
    /\ me' = [c \in Callers |-> IF c = "mount" THEN Sent ELSE Rest]
    /\ auth' = [o \in Ops |-> NoCall]
    /\ config' = IF at' \in SignInRoutes THEN "sent" ELSE "idle"
    /\ orderly' = (orderly /\ ~AuthBusy)
    /\ UNCHANGED <<balance, visit>>

\* The customer reloads it, or comes back from a checkout.
Open ==
    /\ at' \in IF away THEN {at, "billing"} ELSE {at}
    /\ \/ session' = session
       \/ session' = TRUE /\ \E o \in SignInRoutes : auth[o].step = "sent"
       \/ session' = FALSE /\ \E o \in SignOuts : auth[o].step = "sent"
    /\ NewDocument

\* The link to Google; handleGoogleCallback sends the browser back, to the
\* dashboard with a session or to the sign-in page with an error.  Bound:
\* nothing else that changes the session is under way.
SignInWithGoogle ==
    /\ Awake /\ at \in SignInRoutes \cap visit.routes /\ config = "known"
    /\ ~AuthBusy
    /\ \/ at' = "overview" /\ session' = TRUE
       \/ at' = "login" /\ session' = session
    /\ NewDocument
=============================================================================
