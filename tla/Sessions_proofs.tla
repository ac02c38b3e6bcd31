--------------------------- MODULE Sessions_proofs ---------------------------
(***************************************************************************)
(* The sessions of one user for any number of tabs, pages and tokens and   *)
(* every set of faults: types, and in orderly histories that no session is *)
(* left behind and that the browser loses its session by signing out only. *)
(*                                                                         *)
(* The inductive invariant says of an orderly history that one call is     *)
(* under way at a time, and which token alone is alive at each of its      *)
(* steps: the one in the cookies until it is revoked, none until the next  *)
(* one is created, and then that one.                                      *)
(***************************************************************************)
EXTENDS Sessions, TLAPS

CallState == [step : {"idle", "get", "revoke", "create", "answer"},
              op : {"refresh", "logout", "login", "google"},
              token : Tokens \cup {NoToken}, new : Tokens \cup {NoToken},
              reply : Replies]

\* No session but k is alive, and k is unless it is NoToken.
Only(k) == \A t \in Tokens : sessions[t] = "live" <=> t = k

\* Who makes a call: the tabs refresh, the user does the rest.
CallerSound(c) ==
    /\ c \in Tabs => call[c].op = "refresh"
    /\ c \in Tabs /\ call[c].step # "idle" => flight[c] = "flying"
    /\ c = User /\ call[c].step = "revoke" => call[c].op = "logout"
    /\ c = User => call[c].step # "get"
    /\ call[c].reply = "set" => call[c].new \in Tokens

\* A call of an orderly history.
CallSound(c) ==
    /\ call[c].step \in {"get", "revoke"} =>
          jar \in Tokens /\ call[c].token = jar /\ Only(jar)
    /\ call[c].step = "create" => Only(NoToken)
    /\ call[c].step = "answer" =>
          CASE call[c].reply = "set" -> Only(call[c].new)
            [] call[c].reply = "clear" -> Only(NoToken) /\ c = User /\ call[c].op = "logout"
            [] call[c].reply = "keep" -> Only(NoToken) /\ jar = NoToken

OrderlySound ==
    orderly =>
        /\ \A c, d \in Calls : call[c].step # "idle" /\ call[d].step # "idle" => c = d
        /\ (\A c \in Calls : call[c].step = "idle") => Only(jar)
        /\ \A c \in Calls : CallSound(c)

Typed ==
    /\ sessions \in [Tokens -> {"live", "dead"}]
    /\ jar \in Tokens \cup {NoToken}
    /\ access \in BOOLEAN
    /\ page \in [Pages -> {"idle", "denied", "await", "retry"}]
    /\ flight \in [Tabs -> {"none", "flying", "ok", "bad"}]
    /\ call \in [Calls -> CallState]
    /\ orderly \in BOOLEAN

Inv ==
    /\ Typed
    /\ \A c \in Calls : CallerSound(c)
    /\ OrderlySound

-----------------------------------------------------------------------------
LEMMA RestingState ==
    /\ Resting \in CallState
    /\ Resting.step = "idle" /\ Resting.op = "refresh" /\ Resting.reply = "keep"
    /\ Resting.token = NoToken /\ Resting.new = NoToken
BY DEF Resting, CallState, Replies

LEMMA InitInv == Init => Inv
<1> SUFFICES ASSUME Init PROVE Inv
    OBVIOUS
<1>1. call \in [Calls -> CallState] /\ \A c \in Calls : call[c] = Resting
    BY RestingState DEF Init
<1>2. Typed
    BY <1>1, SessionsAssumption DEF Init, Typed
<1>3. \A c \in Calls : CallerSound(c)
    BY <1>1, RestingState, SessionsAssumption DEF CallerSound
<1>4. Only(jar)
    BY SessionsAssumption DEF Init, Only
<1>5. OrderlySound
    BY <1>1, <1>4, RestingState DEF OrderlySound, CallSound
<1> QED BY <1>2, <1>3, <1>5 DEF Inv

\* What Answer and GoesOn change of a call.
LEMMA AnswerSets ==
    ASSUME Inv, NEW c \in Calls, NEW reply \in Replies, NEW new \in Tokens \cup {NoToken},
           Answer(c, reply, new)
    PROVE  /\ call' \in [Calls -> CallState]
           /\ call'[c].step = "answer" /\ call'[c].reply = reply /\ call'[c].new = new
           /\ call'[c].op = call[c].op
           /\ \A d \in Calls : d # c => call'[d] = call[d]
<1>1. call[c] \in CallState /\ call \in [Calls -> CallState]
    BY DEF Inv, Typed
<1>2. call'[c] = [call[c] EXCEPT !.step = "answer", !.token = NoToken, !.reply = reply,
                                 !.new = new]
    BY <1>1 DEF Answer
<1>3. call'[c] \in CallState
    BY <1>1, <1>2 DEF CallState
<1>4. /\ call'[c].step = "answer" /\ call'[c].reply = reply /\ call'[c].new = new
      /\ call'[c].op = call[c].op
    BY <1>1, <1>2 DEF CallState
<1>5. \A d \in Calls : d # c => call'[d] = call[d]
    BY <1>1 DEF Answer
<1>6. call' \in [Calls -> CallState]
    BY <1>1, <1>3, <1>5 DEF Answer
<1> QED BY <1>4, <1>5, <1>6

LEMMA StepSets ==
    ASSUME Inv, NEW c \in Calls, GoesOn(c) \/ call' = [call EXCEPT ![c].step = "revoke"]
    PROVE  /\ call' \in [Calls -> CallState]
           /\ call'[c].op = call[c].op /\ call'[c].new = call[c].new
           /\ call'[c].reply = call[c].reply
           /\ GoesOn(c) => call'[c].step = "create"
           /\ ~GoesOn(c) => call'[c].step = "revoke" /\ call'[c].token = call[c].token
           /\ \A d \in Calls : d # c => call'[d] = call[d]
<1>1. call[c] \in CallState /\ call \in [Calls -> CallState]
    BY DEF Inv, Typed
<1>2. CASE GoesOn(c)
    <2>1. call'[c] = [call[c] EXCEPT !.step = "create", !.token = NoToken]
        BY <1>1, <1>2 DEF GoesOn
    <2>2. call'[c] \in CallState /\ call'[c].step = "create" /\ call'[c].op = call[c].op
             /\ call'[c].new = call[c].new /\ call'[c].reply = call[c].reply
        BY <1>1, <2>1 DEF CallState
    <2>3. \A d \in Calls : d # c => call'[d] = call[d]
        BY <1>1, <1>2 DEF GoesOn
    <2>4. call' \in [Calls -> CallState]
        BY <1>1, <1>2, <2>2, <2>3 DEF GoesOn
    <2> QED BY <1>2, <2>2, <2>3, <2>4
<1>3. CASE ~GoesOn(c)
    <2>1. call'[c] = [call[c] EXCEPT !.step = "revoke"]
        BY <1>1, <1>3
    <2>2. call'[c] \in CallState /\ call'[c].step = "revoke" /\ call'[c].op = call[c].op
             /\ call'[c].new = call[c].new /\ call'[c].reply = call[c].reply
             /\ call'[c].token = call[c].token
        BY <1>1, <2>1 DEF CallState
    <2>3. \A d \in Calls : d # c => call'[d] = call[d]
        BY <1>1, <1>3
    <2>4. call' \in [Calls -> CallState]
        BY <1>1, <1>3, <2>2, <2>3
    <2> QED BY <1>3, <2>2, <2>3, <2>4
<1> QED BY <1>2, <1>3

\* The rest of an orderly history when one call is under way.
LEMMA OneCall ==
    ASSUME Inv, orderly, NEW c \in Calls, call[c].step # "idle"
    PROVE  CallSound(c) /\ \A d \in Calls : d # c => call[d].step = "idle"
BY DEF Inv, OrderlySound

\* A call goes on, and the others rest: what there is to show of it.
LEMMA OrderlyStep ==
    ASSUME NEW c \in Calls, call'[c].step # "idle",
           \A d \in Calls : d # c => call'[d].step = "idle",
           CallSound(c)'
    PROVE  OrderlySound'
BY DEF OrderlySound, CallSound

-----------------------------------------------------------------------------
(* The server *)

\* A step of a handler: its call goes on, and the browser sees nothing yet.
LEMMA HandlerKeeps ==
    ASSUME Inv, NEW c \in Calls, call[c].step # "idle",
           UNCHANGED <<jar, access, page, flight>>,
           sessions' \in [Tokens -> {"live", "dead"}],
           call' \in [Calls -> CallState],
           call'[c].step \notin {"idle", "get"},
           call'[c].step = "revoke" => c # User,
           call'[c].op = call[c].op,
           call'[c].reply = "set" => call'[c].new \in Tokens,
           \A d \in Calls : d # c => call'[d] = call[d],
           orderly' \in BOOLEAN,
           orderly' => orderly,
           orderly' => CallSound(c)'
    PROVE  Inv'
<1>1. Typed'
    BY DEF Inv, Typed
<1>2. ASSUME NEW d \in Calls PROVE CallerSound(d)'
    <2>1. CASE d = c
        BY <2>1 DEF Inv, CallerSound
    <2>2. CASE d # c
        BY <2>2 DEF Inv, CallerSound
    <2> QED BY <2>1, <2>2
<1>3. OrderlySound'
    <2>1. CASE orderly'
        <3>1. \A d \in Calls : d # c => call'[d].step = "idle"
            BY <2>1, OneCall
        <3> QED BY <2>1, <3>1, OrderlyStep
    <2>2. CASE ~orderly'
        BY <2>2 DEF OrderlySound
    <2> QED BY <2>1, <2>2
<1> QED BY <1>1, <1>2, <1>3 DEF Inv

LEMMA GetSessionInv ==
    ASSUME Inv, NEW c \in Calls, GetSession(c)
    PROVE  Inv'
<1>1. PICK o \in {"ok"} \cup ({"error"} \cap StoreOutcomes) :
         /\ IF o = "ok" /\ sessions[call[c].token] = "live"
              THEN call' = [call EXCEPT ![c].step = "revoke"]
              ELSE Answer(c, "clear", NoToken)
         /\ orderly' = (orderly /\ ~Faulty(o))
    BY DEF GetSession
<1>2. call[c].step = "get" /\ UNCHANGED <<sessions, jar, access, page, flight>>
    BY DEF GetSession
<1>3. c # User
    BY <1>2 DEF Inv, CallerSound
<1>4. orderly' \in BOOLEAN /\ (orderly' => orderly /\ o = "ok")
    BY <1>1 DEF Faulty
<1>5. orderly => jar \in Tokens /\ call[c].token = jar /\ Only(jar)
    BY <1>2, OneCall DEF CallSound
<1>6. sessions' \in [Tokens -> {"live", "dead"}]
    BY <1>2 DEF Inv, Typed
<1>7. CASE o = "ok" /\ sessions[call[c].token] = "live"
    <2>1. /\ call' \in [Calls -> CallState]
          /\ call'[c].op = call[c].op /\ call'[c].new = call[c].new
          /\ call'[c].reply = call[c].reply
          /\ call'[c].step = "revoke" /\ call'[c].token = call[c].token
          /\ \A d \in Calls : d # c => call'[d] = call[d]
        <3>1. call' = [call EXCEPT ![c].step = "revoke"]
            BY <1>1, <1>7
        <3>2. ~GoesOn(c)
            <4>1. call'[c].step = "revoke"
                BY <3>1 DEF Inv, Typed, CallState
            <4>2. GoesOn(c) => call'[c].step = "create"
                BY <3>1, StepSets
            <4> QED BY <4>1, <4>2
        <3> QED BY <3>1, <3>2, StepSets
    <2>2. orderly' => CallSound(c)'
        BY <1>2, <1>4, <1>5, <2>1 DEF CallSound, Only
    <2>3. call'[c].reply = "set" => call'[c].new \in Tokens
        BY <2>1 DEF Inv, CallerSound
    <2> QED BY <1>2, <1>3, <1>4, <1>6, <2>1, <2>2, <2>3, HandlerKeeps
<1>8. CASE ~(o = "ok" /\ sessions[call[c].token] = "live")
    <2>1. Answer(c, "clear", NoToken)
        BY <1>1, <1>8
    <2>2. /\ call' \in [Calls -> CallState]
          /\ call'[c].step = "answer" /\ call'[c].reply = "clear"
          /\ call'[c].op = call[c].op
          /\ \A d \in Calls : d # c => call'[d] = call[d]
        BY <2>1, AnswerSets DEF Replies
    <2>3. ~orderly'
        BY <1>4, <1>5, <1>8 DEF Only
    <2> QED BY <1>2, <1>4, <1>6, <2>2, <2>3, HandlerKeeps
<1> QED BY <1>7, <1>8

LEMMA RevokeSessionInv ==
    ASSUME Inv, NEW c \in Calls, RevokeSession(c)
    PROVE  Inv'
<1>1. PICK o \in StoreOutcomes :
         /\ sessions' = IF o = "error" THEN sessions
                        ELSE [sessions EXCEPT ![call[c].token] = "dead"]
         /\ orderly' = (orderly /\ ~Faulty(o))
    BY DEF RevokeSession
<1>2. /\ call[c].step = "revoke"
      /\ IF call[c].op = "logout" THEN Answer(c, "clear", NoToken) ELSE GoesOn(c)
      /\ UNCHANGED <<jar, access, page, flight>>
    BY DEF RevokeSession
<1>3. orderly' \in BOOLEAN /\ (orderly' => orderly /\ o = "ok")
    BY <1>1 DEF Faulty
<1>4. sessions' \in [Tokens -> {"live", "dead"}]
    BY <1>1 DEF Inv, Typed
<1>5. orderly' => Only(NoToken)'
    BY <1>1, <1>2, <1>3, OneCall, SessionsAssumption DEF CallSound, Only, Inv, Typed
<1>6. CASE call[c].op = "logout"
    <2>1. /\ call' \in [Calls -> CallState]
          /\ call'[c].step = "answer" /\ call'[c].reply = "clear"
          /\ call'[c].op = call[c].op
          /\ \A d \in Calls : d # c => call'[d] = call[d]
        BY <1>2, <1>6, AnswerSets DEF Replies
    <2>2. c = User
        BY <1>6 DEF Inv, CallerSound, Calls
    <2>3. orderly' => CallSound(c)'
        BY <1>5, <1>6, <2>1, <2>2 DEF CallSound
    <2> QED BY <1>2, <1>3, <1>4, <2>1, <2>3, HandlerKeeps
<1>7. CASE call[c].op # "logout"
    <2>1. /\ call' \in [Calls -> CallState]
          /\ call'[c].op = call[c].op /\ call'[c].new = call[c].new
          /\ call'[c].reply = call[c].reply
          /\ call'[c].step = "create"
          /\ \A d \in Calls : d # c => call'[d] = call[d]
        BY <1>2, <1>7, StepSets
    <2>2. orderly' => CallSound(c)'
        BY <1>5, <2>1 DEF CallSound
    <2>3. call'[c].reply = "set" => call'[c].new \in Tokens
        BY <2>1 DEF Inv, CallerSound
    <2> QED BY <1>2, <1>3, <1>4, <2>1, <2>2, <2>3, HandlerKeeps
<1> QED BY <1>6, <1>7

LEMMA CreateSessionInv ==
    ASSUME Inv, NEW c \in Calls, CreateSession(c)
    PROVE  Inv'
<1>1. PICK o \in StoreOutcomes, k \in Unused :
         /\ sessions' = [sessions EXCEPT ![k] = IF o = "error" THEN "dead" ELSE "live"]
         /\ IF Faulty(o) /\ call[c].op # "google" THEN Answer(c, "keep", NoToken)
                                                  ELSE Answer(c, "set", k)
         /\ orderly' = (orderly /\ ~Faulty(o))
    BY DEF CreateSession
<1>2. call[c].step = "create" /\ UNCHANGED <<jar, access, page, flight>>
    BY DEF CreateSession
<1>3. k \in Tokens
    BY DEF Unused
<1>4. orderly' \in BOOLEAN /\ (orderly' => orderly /\ o = "ok")
    BY <1>1 DEF Faulty
<1>5. sessions' \in [Tokens -> {"live", "dead"}]
    BY <1>1, <1>3 DEF Inv, Typed
<1>6. CASE Faulty(o) /\ call[c].op # "google"
    <2>1. Answer(c, "keep", NoToken)
        BY <1>1, <1>6
    <2>2. /\ call' \in [Calls -> CallState]
          /\ call'[c].step = "answer" /\ call'[c].reply = "keep"
          /\ call'[c].op = call[c].op
          /\ \A d \in Calls : d # c => call'[d] = call[d]
        BY <2>1, AnswerSets DEF Replies
    <2>3. ~orderly'
        BY <1>1, <1>6
    <2> QED BY <1>2, <1>4, <1>5, <2>2, <2>3, HandlerKeeps
<1>7. CASE ~(Faulty(o) /\ call[c].op # "google")
    <2>1. Answer(c, "set", k)
        BY <1>1, <1>7
    <2>2. /\ call' \in [Calls -> CallState]
          /\ call'[c].step = "answer" /\ call'[c].reply = "set" /\ call'[c].new = k
          /\ call'[c].op = call[c].op
          /\ \A d \in Calls : d # c => call'[d] = call[d]
        BY <1>3, <2>1, AnswerSets DEF Replies
    <2>3. orderly' => Only(k)'
        <3>1. SUFFICES ASSUME orderly' PROVE Only(k)'
            OBVIOUS
        <3>2. Only(NoToken)
            BY <1>2, <1>4, <3>1, OneCall DEF CallSound
        <3>3. sessions' = [sessions EXCEPT ![k] = "live"]
            BY <1>1, <1>4, <3>1
        <3> QED BY <1>3, <3>2, <3>3, SessionsAssumption DEF Only, Inv, Typed
    <2>4. orderly' => CallSound(c)'
        BY <2>2, <2>3 DEF CallSound
    <2> QED BY <1>2, <1>3, <1>4, <1>5, <2>2, <2>4, HandlerKeeps
<1> QED BY <1>6, <1>7

-----------------------------------------------------------------------------
(* The client *)

PageState == {"idle", "denied", "await", "retry"}
FlightState == {"none", "flying", "ok", "bad"}

\* A step of the pages in which no call begins or ends.
LEMMA PagesKeep ==
    ASSUME Inv, UNCHANGED <<sessions, jar, call, orderly>>, access' \in BOOLEAN,
           page' \in [Pages -> PageState], flight' \in [Tabs -> FlightState],
           \A t \in Tabs : flight[t] = "flying" => flight'[t] = "flying"
    PROVE  Inv'
<1>1. Typed'
    BY DEF Inv, Typed, PageState, FlightState
<1>2. \A c \in Calls : CallerSound(c)'
    BY DEF Inv, CallerSound
<1>3. ASSUME orderly, NEW c \in Calls PROVE CallSound(c)'
    <2>1. CallSound(c)
        BY <1>3 DEF Inv, OrderlySound
    <2>2. call'[c] = call[c] /\ jar' = jar /\ sessions' = sessions
        OBVIOUS
    <2>3. Only(jar)' <=> Only(jar)
        BY <2>2 DEF Only
    <2>4. Only(NoToken)' <=> Only(NoToken)
        BY <2>2 DEF Only
    <2>5. Only(call[c].new)' <=> Only(call[c].new)
        BY <2>2 DEF Only
    <2>6. call[c].reply \in {"set", "clear", "keep"}
        BY DEF Inv, Typed, CallState, Replies
    <2> QED BY <2>1, <2>2, <2>3, <2>4, <2>5, <2>6 DEF CallSound
<1>4. OrderlySound'
    BY <1>3 DEF Inv, OrderlySound, Only
<1> QED BY <1>1, <1>2, <1>4 DEF Inv

\* A call begins: it takes the cookies of this moment along.
LEMMA CallBegins ==
    ASSUME Inv, NEW c \in Calls, call[c].step = "idle",
           NEW new \in CallState, call' = [call EXCEPT ![c] = new],
           UNCHANGED <<sessions, jar, access>>,
           page' \in [Pages -> PageState], flight' \in [Tabs -> FlightState],
           \A t \in Tabs : flight[t] = "flying" => flight'[t] = "flying",
           new.step # "idle", new.reply # "set",
           c \in Tabs => new.op = "refresh" /\ flight'[c] = "flying",
           c = User => new.step # "get" /\ (new.step = "revoke" => new.op = "logout"),
           orderly' \in BOOLEAN,
           orderly' => orderly /\ ~Overlaps(c),
           new.step \in {"get", "revoke"} => jar # NoToken /\ new.token = jar,
           orderly' /\ new.step = "create" => jar = NoToken,
           new.step = "answer" => jar = NoToken /\ new.reply = "keep"
    PROVE  Inv'
<1>1. /\ call' \in [Calls -> CallState]
      /\ call'[c] = new
      /\ \A d \in Calls : d # c => call'[d] = call[d]
    BY DEF Inv, Typed
<1>2. Typed'
    BY <1>1 DEF Inv, Typed, PageState, FlightState
<1>3. ASSUME NEW d \in Calls PROVE CallerSound(d)'
    <2>1. CASE d = c
        BY <1>1, <2>1 DEF CallerSound
    <2>2. CASE d # c
        BY <1>1, <2>2 DEF Inv, CallerSound
    <2> QED BY <2>1, <2>2
<1>4. OrderlySound'
    <2>1. CASE ~orderly'
        BY <2>1 DEF OrderlySound
    <2>2. CASE orderly'
        <3>1. \A d \in Calls : call[d].step = "idle"
            BY <2>2 DEF Overlaps, Busy
        <3>2. Only(jar)
            BY <2>2, <3>1 DEF Inv, OrderlySound
        <3>3. Only(jar)'
            BY <3>2 DEF Only
        <3>4. CallSound(c)'
            <4>1. call'[c].step \in {"get", "revoke"} =>
                     jar' \in Tokens /\ call'[c].token = jar' /\ Only(jar)'
                BY <1>1, <3>3 DEF Inv, Typed
            <4>2. call'[c].step \in {"create", "answer"} => Only(NoToken)' /\ jar' = NoToken
                BY <1>1, <2>2, <3>2 DEF Only, CallState
            <4>3. call'[c].step = "answer" => call'[c].reply = "keep"
                BY <1>1
            <4> QED BY <4>1, <4>2, <4>3 DEF CallSound
        <3> QED BY <1>1, <3>1, <3>4, OrderlyStep
    <2> QED BY <2>1, <2>2
<1> QED BY <1>2, <1>3, <1>4 DEF Inv

\* A call is over, and the browser has stored what its answer sets, or the
\* history is no longer orderly.
LEMMA CallEnds ==
    ASSUME Inv, NEW c \in Calls, call' = [call EXCEPT ![c] = Resting],
           UNCHANGED sessions, jar' \in Tokens \cup {NoToken}, access' \in BOOLEAN,
           page' \in [Pages -> PageState], flight' \in [Tabs -> FlightState],
           \A t \in Tabs : t # c => flight'[t] = flight[t],
           orderly' \in BOOLEAN,
           orderly' => orderly /\ call[c].step = "answer" /\ StoreCookies(c)
    PROVE  Inv'
<1>1. /\ call' \in [Calls -> CallState]
      /\ call'[c] = Resting
      /\ \A d \in Calls : d # c => call'[d] = call[d]
    BY RestingState DEF Inv, Typed
<1>2. Typed'
    BY <1>1 DEF Inv, Typed, PageState, FlightState
<1>3. ASSUME NEW d \in Calls PROVE CallerSound(d)'
    <2>1. CASE d = c
        BY <1>1, <2>1, RestingState DEF CallerSound
    <2>2. CASE d # c
        BY <1>1, <2>2 DEF Inv, CallerSound
    <2> QED BY <2>1, <2>2
<1>4. OrderlySound'
    <2>1. CASE ~orderly'
        BY <2>1 DEF OrderlySound
    <2>2. CASE orderly'
        <3>1. CallSound(c) /\ \A d \in Calls : d # c => call[d].step = "idle"
            BY <2>2, OneCall
        <3>2. \A d \in Calls : call'[d].step = "idle"
            BY <1>1, <3>1, RestingState
        <3>3. call[c].reply \in Replies
            BY DEF Inv, Typed, CallState
        <3>4. Only(jar')
            BY <2>2, <3>1, <3>3 DEF CallSound, StoreCookies, Replies
        <3>5. Only(jar)'
            BY <3>4 DEF Only
        <3> QED BY <3>2, <3>5 DEF OrderlySound, CallSound
    <2> QED BY <2>1, <2>2
<1> QED BY <1>2, <1>3, <1>4 DEF Inv

LEMMA SendInv ==
    ASSUME Inv, NEW p \in Pages, Send(p) \/ Resend(p)
    PROVE  Inv'
<1>1. page' \in [Pages -> PageState] /\ UNCHANGED <<sessions, jar, access, flight, call, orderly>>
    BY DEF Send, Resend, Inv, Typed, PageState
<1> QED BY <1>1, PagesKeep DEF Inv, Typed, FlightState

LEMMA Receive401Inv ==
    ASSUME Inv, NEW p \in Pages, Receive401(p)
    PROVE  Inv'
<1> DEFINE t == TabOf[p]
<1>1. t \in Tabs /\ t \in Calls /\ t # User
    BY SessionsAssumption DEF Calls
<1>2. page' \in [Pages -> PageState] /\ UNCHANGED <<sessions, jar, access>>
    BY DEF Receive401, Inv, Typed, PageState
<1>3. CASE flight[t] # "none"
    <2>1. UNCHANGED <<flight, call, orderly>>
        BY <1>3 DEF Receive401
    <2> QED BY <1>2, <2>1, PagesKeep DEF Inv, Typed, FlightState
<1>4. CASE flight[t] = "none"
    <2> DEFINE new == [Resting EXCEPT !.step = IF jar = NoToken THEN "answer" ELSE "get",
                                      !.token = jar]
    <2>1. /\ flight' = [flight EXCEPT ![t] = "flying"]
          /\ call' = [call EXCEPT ![t] = new]
          /\ orderly' = (orderly /\ ~Overlaps(t))
        BY <1>4 DEF Receive401
    <2>2. call[t].step = "idle"
        BY <1>1, <1>4 DEF Inv, CallerSound
    <2>3. /\ new \in CallState
          /\ new.op = "refresh" /\ new.reply = "keep" /\ new.token = jar
          /\ new.step = IF jar = NoToken THEN "answer" ELSE "get"
        BY DEF Resting, CallState, Replies, Inv, Typed
    <2>4. flight' \in [Tabs -> FlightState] /\ flight'[t] = "flying"
             /\ \A s \in Tabs : flight[s] = "flying" => flight'[s] = "flying"
        BY <1>1, <2>1 DEF Inv, Typed, FlightState
    <2>5. orderly' \in BOOLEAN /\ (orderly' => orderly /\ ~Overlaps(t))
        BY <2>1
    <2> HIDE DEF new, t
    <2> QED BY <1>1, <1>2, <2>1, <2>2, <2>3, <2>4, <2>5, CallBegins
<1> QED BY <1>3, <1>4

LEMMA SettleKeeps ==
    ASSUME Inv, NEW t \in Tabs, NEW result \in {"ok", "bad"}, Settle(t, result)
    PROVE  /\ page' \in [Pages -> PageState]
           /\ flight' \in [Tabs -> FlightState]
           /\ \A s \in Tabs : s # t => flight'[s] = flight[s]
BY DEF Settle, Inv, Typed, PageState, FlightState

LEMMA CookiesKeep ==
    ASSUME Inv, NEW c \in Calls, StoreCookies(c)
    PROVE  jar' \in Tokens \cup {NoToken} /\ access' \in BOOLEAN
<1>1. call[c] \in CallState /\ CallerSound(c) /\ access \in BOOLEAN
         /\ jar \in Tokens \cup {NoToken}
    BY DEF Inv, Typed
<1>2. call[c].reply \in {"set", "clear", "keep"}
    BY <1>1 DEF CallState, Replies
<1> QED BY <1>1, <1>2 DEF StoreCookies, CallerSound

LEMMA ReceiveInv ==
    ASSUME Inv, NEW c \in Calls,
           (c = User /\ ReceiveUser) \/ (c \in Tabs /\ ReceiveRefresh(c))
    PROVE  Inv'
<1>1. /\ call[c].step = "answer"
      /\ StoreCookies(c)
      /\ call' = [call EXCEPT ![c] = Resting]
      /\ UNCHANGED <<sessions, orderly>>
    BY DEF ReceiveUser, ReceiveRefresh
<1>2. /\ page' \in [Pages -> PageState]
      /\ flight' \in [Tabs -> FlightState]
      /\ \A t \in Tabs : t # c => flight'[t] = flight[t]
    <2>1. CASE c = User /\ ReceiveUser
        BY <2>1 DEF ReceiveUser, Inv, Typed, PageState, FlightState
    <2>2. CASE c \in Tabs /\ ReceiveRefresh(c)
        BY <2>2, SettleKeeps DEF ReceiveRefresh
    <2> QED BY <2>1, <2>2
<1>3. jar' \in Tokens \cup {NoToken} /\ access' \in BOOLEAN
    BY <1>1, CookiesKeep
<1> QED BY <1>1, <1>2, <1>3, CallEnds DEF Inv, Typed

LEMMA LoseAnswerInv ==
    ASSUME Inv, NEW c \in Calls, LoseAnswer(c)
    PROVE  Inv'
<1>1. /\ call' = [call EXCEPT ![c] = Resting]
      /\ orderly' = FALSE
      /\ UNCHANGED <<sessions, jar, access>>
    BY DEF LoseAnswer
<1>2. /\ page' \in [Pages -> PageState]
      /\ flight' \in [Tabs -> FlightState]
      /\ \A t \in Tabs : t # c => flight'[t] = flight[t]
    <2>1. CASE c \in Tabs
        BY <2>1, SettleKeeps DEF LoseAnswer
    <2>2. CASE c \notin Tabs
        BY <2>2 DEF LoseAnswer, Inv, Typed, PageState, FlightState
    <2> QED BY <2>1, <2>2
<1> QED BY <1>1, <1>2, CallEnds DEF Inv, Typed

LEMMA ClearFlightInv ==
    ASSUME Inv, NEW t \in Tabs, ClearFlight(t)
    PROVE  Inv'
<1>1. flight' \in [Tabs -> FlightState]
         /\ \A s \in Tabs : flight[s] = "flying" => flight'[s] = "flying"
    BY DEF ClearFlight, Inv, Typed, FlightState
<1> QED BY <1>1, PagesKeep DEF ClearFlight, Inv, Typed, PageState

LEMMA SignInOutInv ==
    ASSUME Inv, SignOut \/ SignIn
    PROVE  Inv'
<1>1. User \in Calls /\ User \notin Tabs
    BY SessionsAssumption DEF Calls
<1>2. call[User].step = "idle" /\ UNCHANGED <<sessions, jar, access, page, flight>>
    BY DEF SignOut, SignIn
<1>3. page' \in [Pages -> PageState] /\ flight' \in [Tabs -> FlightState]
    BY <1>2 DEF Inv, Typed, PageState, FlightState
<1>4. PICK new \in CallState :
         /\ call' = [call EXCEPT ![User] = new]
         /\ new.reply = "keep"
         /\ \/ SignOut /\ new.step = "revoke" /\ new.op = "logout" /\ new.token = jar
            \/ SignIn /\ new.step = "create"
    <2>1. CASE SignOut
        <3> DEFINE new == [Resting EXCEPT !.step = "revoke", !.op = "logout", !.token = jar]
        <3>1. call' = [call EXCEPT ![User] = new]
            BY <2>1 DEF SignOut
        <3>2. new \in CallState /\ new.reply = "keep" /\ new.step = "revoke"
                 /\ new.op = "logout" /\ new.token = jar
            BY DEF Resting, CallState, Replies, Inv, Typed
        <3> HIDE DEF new
        <3> QED BY <2>1, <3>1, <3>2
    <2>2. CASE SignIn
        <3>1. PICK op \in {"login", "google"} :
                 call' = [call EXCEPT ![User] = [Resting EXCEPT !.step = "create", !.op = op]]
            BY <2>2 DEF SignIn
        <3> DEFINE new == [Resting EXCEPT !.step = "create", !.op = op]
        <3>2. new \in CallState /\ new.reply = "keep" /\ new.step = "create"
            BY DEF Resting, CallState, Replies
        <3> HIDE DEF new
        <3>3. call' = [call EXCEPT ![User] = new]
            BY <3>1 DEF new
        <3> QED BY <2>2, <3>2, <3>3
    <2> QED BY <2>1, <2>2
<1>5. /\ orderly' \in BOOLEAN
      /\ orderly' => orderly /\ ~Overlaps(User)
      /\ SignIn /\ orderly' => jar = NoToken
      /\ SignOut => jar # NoToken
    BY DEF SignOut, SignIn
<1>6. CASE SignOut /\ new.step = "revoke" /\ new.op = "logout" /\ new.token = jar
    BY <1>1, <1>2, <1>3, <1>4, <1>5, <1>6, CallBegins
<1>7. CASE SignIn /\ new.step = "create"
    BY <1>1, <1>2, <1>3, <1>4, <1>5, <1>7, CallBegins
<1> QED BY <1>4, <1>6, <1>7

LEMMA ExpiryInv ==
    ASSUME Inv, ExpireAccess \/ ExpireSession \/ UNCHANGED vars
    PROVE  Inv'
<1>1. CASE ExpireAccess
    BY <1>1, PagesKeep DEF ExpireAccess, Inv, Typed, PageState, FlightState
<1>2. CASE ExpireSession
    <2>1. Typed'
        BY <1>2 DEF ExpireSession, Inv, Typed
    <2>2. \A c \in Calls : CallerSound(c)'
        BY <1>2 DEF ExpireSession, Inv, CallerSound
    <2>3. OrderlySound'
        BY <1>2 DEF ExpireSession, OrderlySound
    <2> QED BY <2>1, <2>2, <2>3 DEF Inv
<1>3. CASE UNCHANGED vars
    BY <1>3, PagesKeep DEF vars, Inv, Typed, PageState, FlightState
<1> QED BY <1>1, <1>2, <1>3

LEMMA NextInv == Inv /\ [Next]_vars => Inv'
<1>1. \A p \in Pages : TabOf[p] \in Tabs
    BY SessionsAssumption
<1>2. User \in Calls /\ Tabs \subseteq Calls
    BY DEF Calls
<1> QED BY <1>1, <1>2, GetSessionInv, RevokeSessionInv, CreateSessionInv, LoseAnswerInv,
           SendInv, Receive401Inv, ReceiveInv, ClearFlightInv, SignInOutInv, ExpiryInv
        DEF Next, ServerStep, ClientStep

\* The inductive invariant holds in every reachable state.
THEOREM Invariance == Spec => []Inv
BY InitInv, NextInv, PTL DEF Spec

\* Every variable of Sessions keeps its type.
THEOREM TypeCorrect == Spec => []TypeOK
<1>1. Inv => TypeOK
    BY DEF Inv, Typed, CallState, CallerSound, TypeOK
<1> QED BY <1>1, Invariance, PTL

\* In an orderly history, with any number of tabs and pages, the rotation
\* leaves no session behind: what is alive is in the cookies or under way.
THEOREM NothingLeftAlive == Spec => []LiveIsHeld
<1>1. Inv => LiveIsHeld
    <2> SUFFICES ASSUME Inv, orderly, NEW k \in Tokens, sessions[k] = "live"
                 PROVE  k = jar \/ \E c \in Busy : call[c].new = k
        BY DEF LiveIsHeld
    <2>1. CASE \A c \in Calls : call[c].step = "idle"
        BY <2>1 DEF Inv, OrderlySound, Only
    <2>2. CASE \E c \in Calls : call[c].step # "idle"
        <3>1. PICK c \in Calls : call[c].step # "idle"
            BY <2>2
        <3>2. CallSound(c) /\ call[c] \in CallState
            BY <3>1, OneCall DEF Inv, Typed
        <3>3. call[c].step \in {"get", "revoke", "create", "answer"}
                 /\ call[c].reply \in {"set", "clear", "keep"}
            BY <3>1, <3>2 DEF CallState, Replies
        <3>4. k # NoToken
            BY SessionsAssumption
        <3> QED BY <3>1, <3>2, <3>3, <3>4 DEF CallSound, Only, Busy
    <2> QED BY <2>1, <2>2
<1> QED BY <1>1, Invariance, PTL

LEMMA OnlySigningOut ==
    ASSUME Inv, Next, orderly', jar # NoToken, jar' = NoToken
    PROVE  EndsSignOut
<1>1. PICK c \in Calls : (c = User /\ ReceiveUser) \/ (c \in Tabs /\ ReceiveRefresh(c))
    BY DEF Next, ServerStep, ClientStep, GetSession, RevokeSession, CreateSession, LoseAnswer,
           Send, Receive401, ClearFlight, Resend, SignOut, SignIn, ExpireAccess, ExpireSession,
           Calls
<1>2. /\ call[c].step = "answer"
      /\ StoreCookies(c)
      /\ call' = [call EXCEPT ![c] = Resting]
      /\ orderly
    BY <1>1 DEF ReceiveUser, ReceiveRefresh
<1>3. CallSound(c) /\ CallerSound(c)
    BY <1>2, OneCall DEF Inv
<1>4. call[c].reply \in {"set", "clear", "keep"}
    BY DEF Inv, Typed, CallState, Replies
<1>5. call[c].reply = "clear"
    BY <1>2, <1>3, <1>4, SessionsAssumption DEF StoreCookies, CallerSound
<1>6. c = User /\ call[c].op = "logout"
    BY <1>2, <1>3, <1>5 DEF CallSound
<1>7. call'[c].step = "idle"
    BY <1>2, RestingState DEF Inv, Typed
<1> QED BY <1>2, <1>5, <1>6, <1>7 DEF EndsSignOut

\* In an orderly history no 401, however the tabs' requests and refreshes
\* fall, costs the browser its session: only signing out does.
THEOREM SignedOutByUser == Spec => NoSpuriousSignOut
<1>1. Inv /\ [Next]_vars => [orderly' /\ jar # NoToken /\ jar' = NoToken => EndsSignOut]_vars
    BY OnlySigningOut
<1> QED BY <1>1, Invariance, PTL DEF Spec, NoSpuriousSignOut
=============================================================================
