---------------------------- MODULE SignInPages -----------------------------
(***************************************************************************)
(* /login and /register: a form, and the Turnstile widget it shows when    *)
(* the configuration asks for one.  The server takes a token of the widget *)
(* once, before it looks at the password; the form keeps it until the      *)
(* widget says that it has expired.                                        *)
(*                                                                         *)
(* What the customer types is left out: whether it is accepted is decided  *)
(* by the answer.  A form that lacks a field, or has a short password,     *)
(* sends nothing.                                                          *)
(***************************************************************************)
EXTENDS Client

VARIABLES
    captcha,        \* Turnstile is enabled
    script,         \* the promise of loadScript, one for the life of a document
    form            \* the page: the token it holds, and its submission

signInVars == <<captcha, script, form>>

FreshForm == [token |-> "none", submitting |-> FALSE]

SignInTypeOK ==
    /\ captcha \in BOOLEAN
    /\ script \in {"none", "loading", "ready", "failed"}
    /\ form \in [token : TokenStates \ {"unasked"}, submitting : BOOLEAN]

\* A visit that does not come to a form need not tell whether it asks.
SignInInit ==
    /\ captcha \in (IF SignInRoutes \cap visit.routes = {} THEN {FALSE} ELSE BOOLEAN)
    /\ script = "none" /\ form = FreshForm

-----------------------------------------------------------------------------
(* Turnstile *)

\* turnstileRequired, once the configuration is known.
Required == config = "known" /\ captcha

\* The widget's effect calls loadScript, which makes one promise for all.
HearSignInConfig ==
    /\ at \in SignInRoutes
    /\ HearConfig
    /\ UNCHANGED <<captcha, form>>
    /\ script' = IF Required' /\ script = "none" THEN "loading" ELSE script

\* A script that fails to load is not asked for again.
ScriptLoads ==
    /\ Awake /\ script = "loading"
    /\ script' \in {"ready"} \cup (IF "net" \in visit.faults THEN {"failed"} ELSE {})
    /\ UNCHANGED <<clientVars, captcha, form>>

\* The form of the route; neither page looks at whether a user is signed in.
SignInFormShown(op) == Awake /\ op \in SignInRoutes /\ at = op

WidgetShown == SignInFormShown(at) /\ Required /\ script = "ready"

\* The customer passes the challenge: onVerify.
Verify ==
    /\ WidgetShown /\ form.token \in {"none", "expired"}
    /\ form' = [form EXCEPT !.token = "fresh"]
    /\ UNCHANGED <<clientVars, captcha, script>>

\* Mutant: the page gives the widget no onExpire.
TokenExpiresUnheard ==
    /\ WidgetShown /\ form.token \in {"fresh", "sent", "spent"}
    /\ form' = [form EXCEPT !.token = "expired"]
    /\ UNCHANGED <<clientVars, captcha, script>>

\* The widget's expired-callback, or its error-callback: onExpire.
TokenExpires ==
    /\ WidgetShown /\ form.token \in {"fresh", "sent", "spent"}
    /\ form' = [form EXCEPT !.token = "none"]
    /\ UNCHANGED <<clientVars, captcha, script>>

-----------------------------------------------------------------------------
(* Signing in *)

\* Bounds: a form does not submit while a form of its route that is gone
\* does; a visit that is not for the form ends there.
SubmitForm(op) ==
    /\ SignInFormShown(op) /\ op \in visit.routes
    /\ ButtonOn(FALSE, form.submitting) /\ auth[op].step = "idle"
    /\ Required => form.token # "none"
    /\ auth' = [auth EXCEPT ![op] = [NoCall EXCEPT !.step = "sent",
                   !.token = IF Required THEN form.token ELSE "unasked"]]
    /\ form' = [submitting |-> TRUE,
                token |-> IF Required /\ form.token = "fresh" THEN "sent" ELSE form.token]
    /\ orderly' = (orderly /\ ~MeBusy /\ ~AuthBusy)
    /\ UNCHANGED <<shopVars, at, away, user, loading, me, config, captcha, script>>

\* The API has read the form's token, which is good for nothing any more.
Spent == [form EXCEPT !.token = IF @ = "sent" THEN "spent" ELSE @]

Reply(op, reply) == [auth EXCEPT ![op].step = "answered", ![op].reply = reply]

\* The token is refused, which is also what becomes of it when the API
\* cannot reach Turnstile; or the API fails before it has read the token.
AnswerRefused(op) ==
    /\ Awake /\ op \in SignInRoutes /\ auth[op].step \in {"sent", "again"}
    /\ \/ /\ captcha /\ (auth[op].token # "fresh" \/ "api" \in visit.faults)
          /\ auth' = Reply(op, "captcha")
          /\ orderly' = orderly
       \/ /\ Outcomes(FALSE) # {"ok"}
          /\ auth' = Reply(op, "error")
          /\ orderly' = FALSE
    /\ form' \in {Spent, [form EXCEPT !.token = IF @ = "sent" THEN "fresh" ELSE @]}
    /\ UNCHANGED <<shopVars, at, away, user, loading, me, config, captcha, script>>

\* The token is taken.  The password opens a session, though the answer may
\* be lost; or it is wrong, and rawRequest sends the login once more if a
\* session it finds can be refreshed; or registration finds the e-mail taken.
AnswerVerified(op) ==
    /\ Awake /\ op \in SignInRoutes /\ auth[op].step \in {"sent", "again"}
    /\ captcha => auth[op].token = "fresh"
    /\ \/ /\ auth[op].step = "sent"
          /\ session' = TRUE
          /\ \/ /\ auth' = [auth EXCEPT ![op].step = "answered", ![op].reply = "ok"]
                /\ orderly' = orderly
             \/ /\ "net" \in visit.faults
                /\ auth' = Reply(op, "error")
                /\ orderly' = FALSE
       \/ /\ session' = session /\ orderly' = orderly
          /\ \/ /\ op = "login" /\ session /\ auth[op].step = "sent"
                /\ auth' = [auth EXCEPT ![op].step = "again",
                               ![op].token = IF @ = "fresh" THEN "spent" ELSE @]
             \/ /\ op = "login" /\ session /\ auth[op].step = "sent" => "net" \in visit.faults
                /\ auth' = Reply(op, "wrong")
    /\ form' = Spent
    /\ UNCHANGED <<balance, visit, at, away, user, loading, me, config, captcha, script>>

\* An error is shown; the token stays in the form.
HearSignInError(op) ==
    /\ Awake /\ op \in SignInRoutes
    /\ auth[op].step = "answered" /\ auth[op].reply # "ok"
    /\ auth' = [auth EXCEPT ![op] = NoCall]
    /\ form' = IF at = op THEN [form EXCEPT !.submitting = FALSE] ELSE form
    /\ UNCHANGED <<shopVars, at, away, user, loading, me, config, orderly, captcha, script>>

-----------------------------------------------------------------------------
(* The pages come and go, the script stays. *)

SignInTurn ==
    /\ form' = IF at' = at THEN form ELSE FreshForm
    /\ script' = script /\ captcha' = captcha

SignInLost ==
    /\ form' = FreshForm
    /\ script' = "none" /\ captcha' = captcha

SignInNext ==
    \/ HearSignInConfig \/ ScriptLoads \/ Verify \/ TokenExpires
    \/ \E op \in SignInRoutes : \/ SubmitForm(op) \/ AnswerRefused(op) \/ AnswerVerified(op)
                                \/ HearSignInError(op)

-----------------------------------------------------------------------------
(* Properties *)

\* As long as the API reaches Turnstile, a sign-in is refused for its token
\* only if the form did not know that one is asked for, or if the token has
\* been verified before: by an attempt with a wrong password, or because
\* rawRequest sent the login a second time.  A form never sends a token that
\* has expired.
CaptchaRefusals ==
    \A op \in SignInRoutes : auth[op].reply = "captcha" =>
        auth[op].token \in {"unasked", "spent"} \/ "api" \in visit.faults
=============================================================================
