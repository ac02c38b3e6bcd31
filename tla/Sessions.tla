------------------------------- MODULE Sessions -------------------------------
(***************************************************************************)
(* The sessions of one user in one browser: handleRefresh, handleLogout,   *)
(* handleLogin and handleGoogleCallback on the server, and on the client   *)
(* rawRequest and tryRefresh of lib/api.ts in several tabs, which share    *)
(* the cookies and nothing else.                                           *)
(*                                                                         *)
(* setAuthCookies and clearAuthCookies write the three cookies together:   *)
(* jar is the refresh token they belong to, access whether the access      *)
(* token is still accepted.  A request that is authorised changes nothing  *)
(* here; only those answered 401 are followed.                             *)
(*                                                                         *)
(* Faults names what the environment may do wrong:                         *)
(*   "db"   a statement fails, or is done and not acknowledged             *)
(*   "net"  an answer is lost on its way to the browser                    *)
(*   "ttl"  the refresh token expires (REFRESH_TTL)                        *)
(*   "again" the user signs in over a session                              *)
(***************************************************************************)
EXTENDS Integers, FiniteSets

CONSTANTS
    Tabs, Pages,    \* tabs, and what they load: a page has one request at a time
    TabOf,          \* the tab of each page
    Tokens,         \* bound on the refresh tokens known at the same time
    NoToken,
    User,           \* whatever tab the user signs in or out in, one at a time
    Faults

ASSUME SessionsAssumption ==
    /\ TabOf \in [Pages -> Tabs]
    /\ NoToken \notin Tokens
    /\ User \notin Tabs
    /\ Faults \subseteq {"db", "net", "ttl", "again"}

VARIABLES
    sessions,       \* table sessions by token: live, or revoked, expired or not there
    jar, access,    \* the cookies
    page,           \* where the request of each page is
    flight,         \* refreshInFlight of each tab; ok and bad: settled, not yet cleared
    call,           \* calls to /auth: the refresh of each tab and what the user does
    orderly         \* auxiliary: nothing has overlapped, failed or expired yet

vars == <<sessions, jar, access, page, flight, call, orderly>>

Calls == Tabs \cup {User}

\* What an answer does to the cookies.
Replies == {"set", "clear", "keep"}

Resting == [step |-> "idle", op |-> "refresh", token |-> NoToken, new |-> NoToken,
            reply |-> "keep"]

TypeOK ==
    /\ sessions \in [Tokens -> {"live", "dead"}]
    /\ jar \in Tokens \cup {NoToken}
    /\ access \in BOOLEAN
    /\ page \in [Pages -> {"idle", "denied", "await", "retry"}]
    /\ flight \in [Tabs -> {"none", "flying", "ok", "bad"}]
    /\ call \in [Calls -> [step : {"idle", "get", "revoke", "create", "answer"},
                           op : {"refresh", "logout", "login", "google"},
                           token : Tokens \cup {NoToken}, new : Tokens \cup {NoToken},
                           reply : Replies]]
    /\ \A c \in Calls : call[c].reply = "set" => call[c].new \in Tokens
    /\ orderly \in BOOLEAN

\* The browser begins with or without a session.
Init ==
    /\ jar \in Tokens \cup {NoToken}
    /\ sessions = [k \in Tokens |-> IF k = jar THEN "live" ELSE "dead"]
    /\ access = (jar # NoToken)
    /\ page = [p \in Pages |-> "idle"]
    /\ flight = [t \in Tabs |-> "none"]
    /\ call = [c \in Calls |-> Resting]
    /\ orderly = TRUE

-----------------------------------------------------------------------------
Busy == {c \in Calls : call[c].step # "idle"}

\* The token strings nobody knows: NewRefreshToken draws one of them.
Unused == {k \in Tokens : /\ sessions[k] # "live"
                          /\ k # jar
                          /\ \A c \in Busy : k # call[c].token /\ k # call[c].new}

\* The bound: whoever begins something that may need a token finds one.
Room == Cardinality(Unused) >
            Cardinality({p \in Pages : page[p] = "denied"}) + Cardinality(Busy)

\* A history is orderly as long as no call overlaps another one, nothing
\* fails, no session expires and nobody signs in over a session.
Overlaps(c) == Busy \ {c} # {}
Faulty(outcome) == outcome # "ok"

StoreOutcomes == {"ok"} \cup IF "db" \in Faults THEN {"error", "unacked"} ELSE {}

Answer(c, reply, new) ==
    call' = [call EXCEPT ![c].step = "answer", ![c].token = NoToken,
                         ![c].reply = reply, ![c].new = new]

\* A refresh that has seen its session and revoked it needs a new one.
GoesOn(c) == call' = [call EXCEPT ![c].step = "create", ![c].token = NoToken]

-----------------------------------------------------------------------------
(* The server: requireAuth, csrf and the handlers of /auth *)

Authorised == jar # NoToken /\ access

\* handleRefresh checks the session and its user; a failed SELECT counts as
\* a session that is not there.
GetSession(c) ==
    /\ call[c].step = "get"
    /\ \E o \in {"ok"} \cup ({"error"} \cap StoreOutcomes) :
         /\ IF o = "ok" /\ sessions[call[c].token] = "live"
              THEN call' = [call EXCEPT ![c].step = "revoke"]
              ELSE Answer(c, "clear", NoToken)
         /\ orderly' = (orderly /\ ~Faulty(o))
    /\ UNCHANGED <<sessions, jar, access, page, flight>>

\* Mutant: signing out clears the cookies only.
RevokeSessionUnlessLogout(c) ==
    /\ call[c].step = "revoke"
    /\ sessions' = IF call[c].op = "logout" THEN sessions
                   ELSE [sessions EXCEPT ![call[c].token] = "dead"]
    /\ IF call[c].op = "logout" THEN Answer(c, "clear", NoToken) ELSE GoesOn(c)
    /\ UNCHANGED <<jar, access, page, flight, orderly>>

\* store.RevokeSession, whose error both handlers drop.
RevokeSession(c) ==
    /\ call[c].step = "revoke"
    /\ \E o \in StoreOutcomes :
         /\ sessions' = IF o = "error" THEN sessions
                        ELSE [sessions EXCEPT ![call[c].token] = "dead"]
         /\ orderly' = (orderly /\ ~Faulty(o))
    /\ IF call[c].op = "logout" THEN Answer(c, "clear", NoToken) ELSE GoesOn(c)
    /\ UNCHANGED <<jar, access, page, flight>>

\* Mutant: the answer sets cookies before there is a token to set.
CreateSessionEmpty(c) ==
    /\ call[c].step = "create"
    /\ Answer(c, "set", NoToken)
    /\ UNCHANGED <<sessions, jar, access, page, flight, orderly>>

\* issueSession; the Google callback drops the error and sets the cookies.
CreateSession(c) ==
    /\ call[c].step = "create"
    /\ \E o \in StoreOutcomes, k \in Unused :
         /\ sessions' = [sessions EXCEPT ![k] = IF o = "error" THEN "dead" ELSE "live"]
         /\ IF Faulty(o) /\ call[c].op # "google" THEN Answer(c, "keep", NoToken)
                                                  ELSE Answer(c, "set", k)
         /\ orderly' = (orderly /\ ~Faulty(o))
    /\ UNCHANGED <<jar, access, page, flight>>

-----------------------------------------------------------------------------
(* The client *)

\* A page's request is answered 401.
Send(p) ==
    /\ page[p] = "idle"
    /\ ~Authorised
    /\ Room
    /\ page' = [page EXCEPT ![p] = "denied"]
    /\ UNCHANGED <<sessions, jar, access, flight, call, orderly>>

\* rawRequest learns of it and joins the tab's refresh, or starts it.  The
\* refresh carries the cookies of this moment; without them csrf answers 403.
Receive401(p) ==
    LET t == TabOf[p] IN
    /\ page[p] = "denied"
    /\ page' = [page EXCEPT ![p] = CASE flight[t] = "ok" -> "retry"
                                     [] flight[t] = "bad" -> "idle"
                                     [] OTHER -> "await"]
    /\ IF flight[t] = "none"
         THEN /\ flight' = [flight EXCEPT ![t] = "flying"]
              /\ call' = [call EXCEPT ![t] =
                            [Resting EXCEPT !.step = IF jar = NoToken THEN "answer" ELSE "get",
                                            !.token = jar]]
              /\ orderly' = (orderly /\ ~Overlaps(t))
         ELSE UNCHANGED <<flight, call, orderly>>
    /\ UNCHANGED <<sessions, jar, access>>

\* Mutant: the new tokens come without their cookies.
StoreCookiesClearOnly(c) ==
    /\ jar' = IF call[c].reply = "clear" THEN NoToken ELSE jar
    /\ access' = IF call[c].reply = "clear" THEN FALSE ELSE access

\* The browser stores what the answer sets.
StoreCookies(c) ==
    /\ jar' = CASE call[c].reply = "set" -> call[c].new
                [] call[c].reply = "clear" -> NoToken
                [] call[c].reply = "keep" -> jar
    /\ access' = CASE call[c].reply = "set" -> TRUE
                   [] call[c].reply = "clear" -> FALSE
                   [] call[c].reply = "keep" -> access

\* The refresh of a tab settles: the requests that wait for it go on.
Settle(t, result) ==
    /\ flight' = [flight EXCEPT ![t] = result]
    /\ page' = [p \in Pages |->
                  IF TabOf[p] = t /\ page[p] = "await"
                    THEN IF result = "ok" THEN "retry" ELSE "idle"
                    ELSE page[p]]

ReceiveRefresh(t) ==
    /\ call[t].step = "answer"
    /\ StoreCookies(t)
    /\ Settle(t, IF call[t].reply = "set" THEN "ok" ELSE "bad")
    /\ call' = [call EXCEPT ![t] = Resting]
    /\ UNCHANGED <<sessions, orderly>>

\* setTimeout(..., 0): after the waiting requests have gone on.
ClearFlight(t) ==
    /\ flight[t] \in {"ok", "bad"}
    /\ \A p \in Pages : TabOf[p] = t => page[p] # "retry"
    /\ flight' = [flight EXCEPT ![t] = "none"]
    /\ UNCHANGED <<sessions, jar, access, page, call, orderly>>

\* The request is sent once more, and whatever the answer, that is it.
Resend(p) ==
    /\ page[p] = "retry"
    /\ page' = [page EXCEPT ![p] = "idle"]
    /\ UNCHANGED <<sessions, jar, access, flight, call, orderly>>

\* The user signs out; without cookies csrf answers 403 and nothing changes.
SignOut ==
    /\ call[User].step = "idle"
    /\ jar # NoToken
    /\ call' = [call EXCEPT ![User] = [Resting EXCEPT !.step = "revoke", !.op = "logout",
                                                   !.token = jar]]
    /\ orderly' = (orderly /\ ~Overlaps(User))
    /\ UNCHANGED <<sessions, jar, access, page, flight>>

\* The user signs in, by password or with Google, and the credentials are right.
SignIn ==
    /\ call[User].step = "idle"
    /\ jar = NoToken \/ "again" \in Faults
    /\ Room
    /\ \E op \in {"login", "google"} :
         call' = [call EXCEPT ![User] = [Resting EXCEPT !.step = "create", !.op = op]]
    /\ orderly' = (orderly /\ ~Overlaps(User) /\ jar = NoToken)
    /\ UNCHANGED <<sessions, jar, access, page, flight>>

ReceiveUser ==
    /\ call[User].step = "answer"
    /\ StoreCookies(User)
    /\ call' = [call EXCEPT ![User] = Resting]
    /\ UNCHANGED <<sessions, page, flight, orderly>>

\* Mutant: refreshInFlight is cleared only when the fetch succeeds.
LoseAnswerNoFinally(c) ==
    /\ "net" \in Faults
    /\ call[c].step = "answer"
    /\ call' = [call EXCEPT ![c] = Resting]
    /\ orderly' = FALSE
    /\ UNCHANGED <<sessions, jar, access, page, flight>>

\* fetch fails although the handler has run: tryRefresh returns false.
LoseAnswer(c) ==
    /\ "net" \in Faults
    /\ call[c].step = "answer"
    /\ IF c \in Tabs THEN Settle(c, "bad") ELSE UNCHANGED <<page, flight>>
    /\ call' = [call EXCEPT ![c] = Resting]
    /\ orderly' = FALSE
    /\ UNCHANGED <<sessions, jar, access>>

ExpireAccess ==
    /\ access
    /\ access' = FALSE
    /\ UNCHANGED <<sessions, jar, page, flight, call, orderly>>

ExpireSession ==
    /\ "ttl" \in Faults
    /\ \E k \in Tokens :
         /\ sessions[k] = "live"
         /\ sessions' = [sessions EXCEPT ![k] = "dead"]
    /\ orderly' = FALSE
    /\ UNCHANGED <<jar, access, page, flight, call>>

ServerStep(c) == GetSession(c) \/ RevokeSession(c) \/ CreateSession(c)

ClientStep(t) ==
    \/ \E p \in Pages : TabOf[p] = t /\ (Receive401(p) \/ Resend(p))
    \/ ReceiveRefresh(t) \/ ClearFlight(t)

Next ==
    \/ \E c \in Calls : ServerStep(c) \/ LoseAnswer(c)
    \/ \E t \in Tabs : ClientStep(t)
    \/ SignOut \/ SignIn \/ ReceiveUser
    \/ \E p \in Pages : Send(p)
    \/ ExpireAccess
    \/ ExpireSession

Spec == Init /\ [][Next]_vars

\* Handlers run on, answers arrive or are lost, and so does the event loop of
\* each tab: every event that has come is handled in the end.
FairSpec ==
    /\ Spec
    /\ \A c \in Calls : WF_vars(ServerStep(c))
    /\ WF_vars(ReceiveUser)
    /\ \A t \in Tabs : WF_vars(ReceiveRefresh(t)) /\ WF_vars(ClearFlight(t))
    /\ \A p \in Pages : WF_vars(Receive401(p)) /\ WF_vars(Resend(p))

-----------------------------------------------------------------------------
\* The step in which the browser receives "logged_out".
EndsSignOut ==
    call[User].op = "logout" /\ call[User].step = "answer" /\ call[User].reply = "clear"
        /\ call'[User].step = "idle" /\ jar' = NoToken

\* A request that has met a 401 comes to an end, also when the refresh is
\* refused, fails or is lost: no page waits for a refresh that is over
\* (tryRefresh: the shared promise and its finally).
EveryRequestReturns == \A p \in Pages : page[p] # "idle" ~> page[p] = "idle"

\* In an orderly history the rotation leaves nothing behind: a session that
\* is alive is the one in the cookies or in an answer that is on its way.  In
\* particular none survives a sign-out (settings/page.tsx: "Signing out
\* revokes this device's session. Refresh tokens rotate automatically").
LiveIsHeld ==
    orderly =>
        \A k \in Tokens : sessions[k] = "live" =>
            k = jar \/ \E c \in Busy : call[c].new = k

\* In an orderly history the browser loses its session by signing out and in
\* no other way: however the 401s of its pages and tabs fall, no refresh is
\* answered with one that clears the cookies (api.ts, rawRequest).
NoSpuriousSignOut ==
    [][orderly' /\ jar # NoToken /\ jar' = NoToken => EndsSignOut]_vars

\* "Signing out revokes this device's session" (settings/page.tsx:38): when
\* "logged_out" arrives, no session of the browser is alive.
SignOutRevokes == [][EndsSignOut => \A k \in Tokens : sessions[k] # "live"]_vars
=============================================================================
