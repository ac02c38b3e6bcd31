--------------------------- MODULE Browser_proofs ---------------------------
(***************************************************************************)
(* The browser client, for any visits, plans, amounts, offers and number   *)
(* of presses: that a page submits once a press, that what its forms let   *)
(* through the server accepts, that a plan stays the one the customer      *)
(* chose, that the user shown as signed in is the one the cookies are for, *)
(* and that whatever shows as busy has something under way.                *)
(*                                                                         *)
(* There is one inductive invariant for the frame and the sign-in pages,   *)
(* one for the billing page and one for the orders page: the pages share   *)
(* nothing but the frame.  What is busy is inductive on top of them.       *)
(***************************************************************************)
EXTENDS Browser, WellFoundedInduction, TLAPS

-----------------------------------------------------------------------------
(* The frame and the sign-in pages *)

frameInvVars == <<session, visit, at, user, loading, me, auth, orderly, captcha, form>>

MeState == [step : {"idle", "sent", "answered"}, value : BOOLEAN]
AuthState == [step : {"idle", "sent", "again", "answered"}, token : TokenStates,
              reply : Replies]
FormState == [token : TokenStates \ {"unasked"}, submitting : BOOLEAN]

FrameTyped ==
    /\ session \in BOOLEAN /\ orderly \in BOOLEAN
    /\ user \in BOOLEAN /\ loading \in BOOLEAN /\ captcha \in BOOLEAN
    /\ visit \in Visits /\ at \in Routes
    /\ me \in [Callers -> MeState]
    /\ auth \in [Ops -> AuthState]
    /\ form \in FormState

\* A sign-in or a sign-out of an orderly history: until it is answered the
\* user shown is right, and then the answer makes it right.
AuthSound(o) ==
    /\ auth[o].step \in {"sent", "again"} => user = session
    /\ auth[o].step = "answered" =>
          IF o \in SignOuts THEN ~session
          ELSE IF auth[o].reply = "ok" THEN session ELSE user = session

Following ==
    orderly =>
        /\ \A o, p \in Ops : auth[o].step # "idle" /\ auth[p].step # "idle" => o = p
        /\ \A o \in Ops, c \in Callers : auth[o].step = "idle" \/ me[c].step = "idle"
        /\ \A c \in Callers : me[c].step = "answered" => me[c].value = session
        /\ \A o \in Ops : AuthSound(o)
        /\ ~loading /\ ~MeBusy /\ ~AuthBusy => user = session

\* The token a form holds, and the one a request has taken along.
TokenSound ==
    /\ form.token # "expired"
    /\ form.token = "sent" =>
          at \in SignInRoutes /\ form.submitting /\ auth[at].step \in {"sent", "again"}
    /\ \A o \in SignInRoutes :
          /\ auth[o].step \in {"sent", "again"} => auth[o].token \in {"unasked", "fresh", "spent"}
          /\ auth[o].step = "idle" => auth[o].reply = "none"

FrameInv ==
    /\ FrameTyped
    /\ loading => me["mount"].step # "idle"
    /\ Following
    /\ TokenSound
    /\ CaptchaRefusals

LEMMA Names ==
    /\ "mount" \in Callers /\ Presses \subseteq Callers
    /\ SignInRoutes \subseteq Ops /\ SignOuts \subseteq Ops
    /\ SignOuts \cap SignInRoutes = {} /\ Ops = SignOuts \cup SignInRoutes
    /\ SignInRoutes \subseteq Routes /\ Dashboard \subseteq Routes
    /\ SignInRoutes \cap Dashboard = {}
BY DEF Callers, Ops, SignOuts, SignInRoutes, Routes, Dashboard

LEMMA Rests ==
    /\ Rest \in MeState /\ Rest.step = "idle"
    /\ Sent \in MeState /\ Sent.step = "sent"
    /\ NoCall \in AuthState /\ NoCall.step = "idle" /\ NoCall.reply = "none"
    /\ FreshForm \in FormState /\ FreshForm.token = "none"
BY DEF Rest, Sent, NoCall, FreshForm, MeState, AuthState, FormState, TokenStates, Replies

\* A new document waits for its GET /me and for nothing else.
LEMMA FreshDocument ==
    ASSUME session \in BOOLEAN, orderly \in BOOLEAN, captcha \in BOOLEAN,
           visit \in Visits, at \in Routes, user = FALSE, loading = TRUE,
           me = [c \in Callers |-> IF c = "mount" THEN Sent ELSE Rest],
           auth = [o \in Ops |-> NoCall], form = FreshForm
    PROVE  FrameInv
<1>1. \A o \in Ops : auth[o] = NoCall
    OBVIOUS
<1>2. FrameTyped
    BY Names, Rests DEF FrameTyped
<1>3. me["mount"].step = "sent" /\ \A c \in Callers : me[c].step # "answered"
    BY Names, Rests
<1>4. Following
    BY <1>1, <1>3, Rests DEF Following, AuthSound
<1>5. TokenSound /\ CaptchaRefusals
    BY <1>1, Names, Rests DEF TokenSound, CaptchaRefusals
<1> QED BY <1>2, <1>3, <1>4, <1>5 DEF FrameInv

LEMMA FrameInit == Init => FrameInv
<1> SUFFICES ASSUME Init PROVE FrameInv
    OBVIOUS
<1>1. at \in Routes
    BY ClientAssumption DEF Init, ClientInit
<1>2. orderly \in BOOLEAN /\ captcha \in BOOLEAN
    BY DEF Init, ClientInit, SignInInit
<1> QED BY <1>1, <1>2, FreshDocument DEF Init, ClientInit, SignInInit

\* Steps that do not touch the frame or the forms.
LEMMA FrameStays ==
    ASSUME FrameInv, UNCHANGED frameInvVars
    PROVE  FrameInv'
<1>1. FrameTyped'
    BY DEF FrameInv, FrameTyped, frameInvVars
<1>2. Following'
    BY DEF FrameInv, Following, AuthSound, MeBusy, AuthBusy, frameInvVars
<1>3. TokenSound' /\ CaptchaRefusals'
    BY DEF FrameInv, TokenSound, CaptchaRefusals, frameInvVars
<1> QED BY <1>1, <1>2, <1>3 DEF FrameInv, frameInvVars

\* A call of GET /me that is sent, answered or over.
LEMMA MeSteps ==
    ASSUME FrameInv, NEW c \in Callers, NEW m \in MeState, me' = [me EXCEPT ![c] = m]
    PROVE  /\ me' \in [Callers -> MeState]
           /\ me'[c] = m
           /\ \A d \in Callers : d # c => me'[d] = me[d]
BY DEF FrameInv, FrameTyped

LEMMA AuthSteps ==
    ASSUME FrameInv, NEW o \in Ops, NEW a \in AuthState, auth' = [auth EXCEPT ![o] = a]
    PROVE  /\ auth' \in [Ops -> AuthState]
           /\ auth'[o] = a
           /\ \A p \in Ops : p # o => auth'[p] = auth[p]
BY DEF FrameInv, FrameTyped

\* A step that changes GET /me only.
LEMMA MeKeeps ==
    ASSUME FrameInv, NEW c \in Callers, NEW m \in MeState, me' = [me EXCEPT ![c] = m],
           m.step # "idle",
           UNCHANGED <<session, visit, at, user, loading, auth, captcha, form>>,
           orderly' \in BOOLEAN, orderly' => orderly,
           orderly' => \A o \in Ops : auth[o].step = "idle",
           orderly' /\ m.step = "answered" => m.value = session
    PROVE  FrameInv'
<1>1. /\ me' \in [Callers -> MeState]
      /\ me'[c] = m
      /\ \A d \in Callers : d # c => me'[d] = me[d]
    BY MeSteps
<1>2. FrameTyped'
    BY <1>1 DEF FrameInv, FrameTyped
<1>3. loading' => me'["mount"].step # "idle"
    BY <1>1, Names DEF FrameInv
<1>4. Following'
    <2> SUFFICES ASSUME orderly' PROVE Following'
        BY DEF Following
    <2>1. \A d \in Callers : me'[d].step = "answered" => me'[d].value = session'
        BY <1>1 DEF FrameInv, Following
    <2>2. MeBusy'
        BY <1>1 DEF MeBusy
    <2>3. \A o \in Ops : auth'[o].step = "idle"
        OBVIOUS
    <2> QED BY <2>1, <2>2, <2>3 DEF Following, AuthSound
<1>5. TokenSound' /\ CaptchaRefusals'
    BY DEF FrameInv, TokenSound, CaptchaRefusals
<1> QED BY <1>2, <1>3, <1>4, <1>5 DEF FrameInv

LEMMA AnswerMeInv ==
    ASSUME FrameInv, NEW c \in Callers, AnswerMe(c), UNCHANGED signInVars
    PROVE  FrameInv'
<1>1. PICK o \in Outcomes(TRUE) :
         /\ me' = [me EXCEPT ![c] = [step |-> "answered", value |-> o = "ok"]]
         /\ orderly' = (orderly /\ o \in {"ok", "401"})
    BY DEF AnswerMe
<1>2. PICK v \in BOOLEAN : v = (o = "ok")
    OBVIOUS
<1>3. [step |-> "answered", value |-> v] \in MeState
    BY DEF MeState
<1>4. me' = [me EXCEPT ![c] = [step |-> "answered", value |-> v]]
    BY <1>1, <1>2
<1>5. o \in {"ok", "401"} => v = session
    BY <1>2 DEF Outcomes, FrameInv, FrameTyped
<1>6. me[c].step = "sent" /\ UNCHANGED <<session, visit, at, user, loading, auth, captcha, form>>
    BY DEF AnswerMe, shopVars, signInVars
<1>7. orderly' => \A p \in Ops : auth[p].step = "idle"
    BY <1>1, <1>6 DEF FrameInv, Following
<1> QED BY <1>1, <1>3, <1>4, <1>5, <1>6, <1>7, MeKeeps

LEMMA HearOrderLoadInv ==
    ASSUME FrameInv, NEW i \in Presses, HearOrderLoad(i), UNCHANGED signInVars
    PROVE  FrameInv'
<1>1. orderly' => \A o \in Ops : auth[o].step = "idle"
    BY DEF HearOrderLoad, AuthBusy
<1>2. orderly' \in BOOLEAN /\ (orderly' => orderly)
    BY DEF HearOrderLoad
<1>3. UNCHANGED <<session, visit, at, user, loading, auth, captcha, form>>
         /\ me' = [me EXCEPT ![i] = Sent]
    BY DEF HearOrderLoad, shopVars, signInVars
<1> QED BY <1>1, <1>2, <1>3, MeKeeps, Names, Rests

LEMMA AnswerLogoutInv ==
    ASSUME FrameInv, NEW b \in SignOuts, AnswerLogout(b), UNCHANGED signInVars
    PROVE  FrameInv'
<1>1. PICK o \in Outcomes(FALSE) :
         /\ session' \in IF o = "ok" THEN {FALSE} ELSE IF o = "error" THEN {session}
                         ELSE {session, FALSE}
         /\ orderly' = (orderly /\ o = "ok")
    BY DEF AnswerLogout
<1>2. auth[b].step = "sent" /\ UNCHANGED <<visit, at, user, loading, me, captcha, form>>
    BY DEF AnswerLogout, signInVars
<1>3. b \in Ops /\ b \notin SignInRoutes
    BY Names
<1>4. /\ auth' \in [Ops -> AuthState]
      /\ auth'[b].step = "answered"
      /\ \A p \in Ops : p # b => auth'[p] = auth[p]
    <2>1. auth' = [auth EXCEPT ![b] = [auth[b] EXCEPT !.step = "answered"]]
        BY <1>3 DEF AnswerLogout, FrameInv, FrameTyped
    <2>2. [auth[b] EXCEPT !.step = "answered"] \in AuthState
             /\ [auth[b] EXCEPT !.step = "answered"].step = "answered"
        BY <1>3 DEF FrameInv, FrameTyped, AuthState
    <2> QED BY <1>3, <2>1, <2>2, AuthSteps
<1>5. FrameTyped'
    BY <1>1, <1>2, <1>4 DEF FrameInv, FrameTyped
<1>6. Following'
    <2> SUFFICES ASSUME orderly' PROVE Following'
        BY DEF Following
    <2>1. session' = FALSE /\ orderly
        BY <1>1
    <2>2. \A p \in Ops : p # b => auth'[p].step = "idle"
        BY <1>2, <1>3, <1>4, <2>1 DEF FrameInv, Following
    <2>3. \A c \in Callers : me[c].step = "idle"
        BY <1>2, <1>3, <2>1 DEF FrameInv, Following
    <2>4. AuthBusy'
        BY <1>3, <1>4 DEF AuthBusy
    <2>5. \A p \in Ops : AuthSound(p)'
        BY <1>4, <2>1, <2>2 DEF AuthSound
    <2> QED BY <1>2, <2>2, <2>3, <2>4, <2>5 DEF Following
<1>7. TokenSound' /\ CaptchaRefusals'
    BY <1>2, <1>3, <1>4, Names DEF FrameInv, TokenSound, CaptchaRefusals
<1> QED BY <1>2, <1>5, <1>6, <1>7 DEF FrameInv

LEMMA ExpireInv ==
    ASSUME FrameInv, Expire, UNCHANGED signInVars
    PROVE  FrameInv'
<1>1. session' = FALSE /\ orderly' = FALSE
         /\ UNCHANGED <<visit, at, user, loading, me, auth, captcha, form>>
    BY DEF Expire, signInVars
<1> QED BY <1>1 DEF FrameInv, FrameTyped, Following, TokenSound, CaptchaRefusals

\* No sign-in changes, but for ones that are answered and end.
SignInsStay == \A o \in SignInRoutes : \/ auth'[o] = auth[o]
                                       \/ auth[o].step = "answered" /\ auth'[o] = NoCall

\* The forms follow such a step of the frame.
LEMMA FormTurns ==
    ASSUME FrameInv, SignInTurn, at' \in Routes, visit' = visit, SignInsStay
    PROVE  form' \in FormState /\ captcha' \in BOOLEAN /\ TokenSound' /\ CaptchaRefusals'
<1>1. form' \in FormState /\ captcha' \in BOOLEAN
    BY Rests DEF SignInTurn, FrameInv, FrameTyped
<1>2. TokenSound'
    <2>1. form'.token # "expired"
        BY Rests DEF SignInTurn, FrameInv, TokenSound
    <2>2. form'.token = "sent" => form' = form /\ at' = at
        BY Rests DEF SignInTurn
    <2>3. ASSUME NEW o \in SignInRoutes
          PROVE  /\ auth'[o].step \in {"sent", "again"} =>
                       auth'[o].token \in {"unasked", "fresh", "spent"}
                 /\ auth'[o].step = "idle" => auth'[o].reply = "none"
                 /\ auth[o].step \in {"sent", "again"} => auth'[o] = auth[o]
        BY Rests DEF FrameInv, TokenSound, SignInsStay
    <2> QED BY <2>1, <2>2, <2>3 DEF FrameInv, TokenSound
<1>3. CaptchaRefusals'
    BY Rests DEF FrameInv, CaptchaRefusals, SignInsStay
<1> QED BY <1>1, <1>2, <1>3

LEMMA AtKeeps ==
    ASSUME FrameInv, FrameStep
    PROVE  at' \in Routes /\ UNCHANGED <<session, visit>> /\ SignInTurn
<1>1. Links \subseteq Routes
    BY DEF Links, HeaderLinks, SignInRoutes, Dashboard, Routes
<1> QED BY <1>1 DEF FrameStep, Turns, HearMe, HearRefresh, Redirect, Visit, PressLogout,
                    HearLogout, HearSignedIn, FrameInv, FrameTyped, shopVars, Routes, Dashboard,
                    SignInRoutes

\* The answer to GET /me is heard: the user is whose session the browser has,
\* unless the history is not orderly.
LEMMA HearMeInv ==
    ASSUME FrameInv, NEW c \in Callers, me[c].step = "answered", FrameStep,
           user' = me[c].value, loading' = FALSE, me' = [me EXCEPT ![c] = Rest],
           UNCHANGED <<auth, orderly>>
    PROVE  FrameInv'
<1>1. /\ me' \in [Callers -> MeState]
      /\ me'[c] = Rest
      /\ \A d \in Callers : d # c => me'[d] = me[d]
    BY Rests, MeSteps
<1>2. at' \in Routes /\ UNCHANGED <<session, visit>> /\ SignInTurn
    BY AtKeeps
<1>3. form' \in FormState /\ captcha' \in BOOLEAN /\ TokenSound' /\ CaptchaRefusals'
    <2>1. visit' = visit /\ SignInsStay
        BY <1>2 DEF SignInsStay
    <2> QED BY <1>2, <2>1, FormTurns
<1>4. user' \in BOOLEAN
    BY DEF FrameInv, FrameTyped, MeState
<1>5. FrameTyped'
    BY <1>1, <1>2, <1>3, <1>4 DEF FrameInv, FrameTyped
<1>6. Following'
    <2> SUFFICES ASSUME orderly PROVE Following'
        BY DEF Following
    <2>1. \A o \in Ops : auth[o].step = "idle"
        BY DEF FrameInv, Following
    <2>2. user' = session'
        BY <1>2 DEF FrameInv, Following
    <2>3. \A d \in Callers : me'[d].step = "answered" => me'[d].value = session'
        BY <1>1, <1>2, Rests DEF FrameInv, Following
    <2>4. \A o \in Ops : auth'[o].step = "idle" /\ AuthSound(o)'
        BY <2>1 DEF AuthSound
    <2> QED BY <2>2, <2>3, <2>4 DEF Following
<1> QED BY <1>3, <1>5, <1>6 DEF FrameInv

LEMMA MoveInv ==
    ASSUME FrameInv, FrameStep, Redirect \/ Visit
    PROVE  FrameInv'
<1>1. at' \in Routes /\ UNCHANGED <<session, visit>> /\ SignInTurn
    BY AtKeeps
<1>2. UNCHANGED <<user, loading, me, auth, orderly>>
    BY DEF Redirect, Visit
<1>3. form' \in FormState /\ captcha' \in BOOLEAN /\ TokenSound' /\ CaptchaRefusals'
    <2>1. visit' = visit /\ SignInsStay
        BY <1>1, <1>2 DEF SignInsStay
    <2> QED BY <1>1, <2>1, FormTurns
<1>4. FrameTyped'
    BY <1>1, <1>2, <1>3 DEF FrameInv, FrameTyped
<1>5. Following'
    BY <1>1, <1>2 DEF FrameInv, Following, AuthSound, MeBusy, AuthBusy
<1> QED BY <1>2, <1>3, <1>4, <1>5 DEF FrameInv

LEMMA PressLogoutInv ==
    ASSUME FrameInv, FrameStep, NEW b \in SignOuts, PressLogout(b)
    PROVE  FrameInv'
<1>1. at' \in Routes /\ UNCHANGED <<session, visit>> /\ SignInTurn
    BY AtKeeps
<1>2. /\ UNCHANGED <<user, loading, me>>
      /\ user /\ ~loading
      /\ orderly' = (orderly /\ ~MeBusy /\ ~AuthBusy)
    BY DEF PressLogout, Guarded
<1>3. b \in Ops /\ b \notin SignInRoutes
    BY Names
<1>4. /\ auth' \in [Ops -> AuthState]
      /\ auth'[b].step = "sent"
      /\ \A p \in Ops : p # b => auth'[p] = auth[p]
    <2>1. [NoCall EXCEPT !.step = "sent"] \in AuthState
             /\ [NoCall EXCEPT !.step = "sent"].step = "sent"
        BY DEF NoCall, AuthState, TokenStates, Replies
    <2> QED BY <1>3, <2>1, AuthSteps DEF PressLogout
<1>5. form' \in FormState /\ captcha' \in BOOLEAN /\ TokenSound' /\ CaptchaRefusals'
    <2>1. visit' = visit /\ SignInsStay
        BY <1>1, <1>3, <1>4, Names DEF SignInsStay
    <2> QED BY <1>1, <2>1, FormTurns
<1>6. FrameTyped'
    BY <1>1, <1>2, <1>4, <1>5 DEF FrameInv, FrameTyped
<1>7. Following'
    <2> SUFFICES ASSUME orderly' PROVE Following'
        BY DEF Following
    <2>1. orderly /\ ~MeBusy /\ ~AuthBusy
        BY <1>2
    <2>2. user = session
        BY <1>2, <2>1 DEF FrameInv, Following
    <2>3. \A p \in Ops : p # b => auth'[p].step = "idle"
        BY <1>4, <2>1 DEF AuthBusy
    <2>4. \A c \in Callers : me'[c].step = "idle"
        BY <1>2, <2>1 DEF MeBusy
    <2>5. AuthBusy'
        BY <1>3, <1>4 DEF AuthBusy
    <2>6. \A p \in Ops : AuthSound(p)'
        BY <1>1, <1>2, <1>4, <2>2, <2>3 DEF AuthSound
    <2> QED BY <2>3, <2>4, <2>5, <2>6 DEF Following
<1> QED BY <1>2, <1>5, <1>6, <1>7 DEF FrameInv

\* A sign-out or a sign-in is heard, and the user is set by its answer.
LEMMA HearAuthInv ==
    ASSUME FrameInv, FrameStep, NEW o \in Ops, HearLogout(o) \/ HearSignedIn(o)
    PROVE  FrameInv'
<1>1. at' \in Routes /\ UNCHANGED <<session, visit>> /\ SignInTurn
    BY AtKeeps
<1>2. /\ UNCHANGED <<loading, me, orderly>>
      /\ auth[o].step = "answered"
      /\ auth' = [auth EXCEPT ![o] = NoCall]
      /\ \/ o \in SignOuts /\ user' = FALSE
         \/ o \in SignInRoutes /\ auth[o].reply = "ok" /\ user' = TRUE
    BY DEF HearLogout, HearSignedIn
<1>3. /\ auth' \in [Ops -> AuthState]
      /\ auth'[o] = NoCall
      /\ \A p \in Ops : p # o => auth'[p] = auth[p]
    BY <1>2, Rests, AuthSteps
<1>4. form' \in FormState /\ captcha' \in BOOLEAN /\ TokenSound' /\ CaptchaRefusals'
    <2>1. visit' = visit /\ SignInsStay
        BY <1>1, <1>2, <1>3, Names DEF SignInsStay
    <2> QED BY <1>1, <2>1, FormTurns
<1>5. FrameTyped'
    BY <1>1, <1>2, <1>3, <1>4 DEF FrameInv, FrameTyped
<1>6. Following'
    <2> SUFFICES ASSUME orderly PROVE Following'
        BY <1>2 DEF Following
    <2>1. \A p \in Ops : auth'[p].step = "idle"
        BY <1>2, <1>3, Rests DEF FrameInv, Following
    <2>2. \A c \in Callers : me'[c].step = "idle"
        BY <1>2 DEF FrameInv, Following
    <2>3. user' = session'
        BY <1>1, <1>2, Names DEF FrameInv, FrameTyped, Following, AuthSound
    <2> QED BY <2>1, <2>2, <2>3 DEF Following, AuthSound
<1> QED BY <1>2, <1>4, <1>5, <1>6 DEF FrameInv

LEMMA FrameStepInv ==
    ASSUME FrameInv, FrameStep
    PROVE  FrameInv'
<1>1. CASE HearMe
    BY <1>1, HearMeInv, Names DEF HearMe
<1>2. CASE Redirect \/ Visit
    BY <1>2, MoveInv
<1>3. ASSUME NEW b \in SignOuts, PressLogout(b) PROVE FrameInv'
    BY <1>3, PressLogoutInv
<1>4. ASSUME NEW o \in Ops, HearLogout(o) \/ HearSignedIn(o) PROVE FrameInv'
    BY <1>4, HearAuthInv
<1>5. ASSUME NEW i \in Presses, HearRefresh(i) PROVE FrameInv'
    BY <1>5, HearMeInv, Names DEF HearRefresh
<1> QED BY <1>1, <1>2, <1>3, <1>4, <1>5, Names DEF FrameStep

LEMMA ReloadInv ==
    ASSUME FrameInv, Reload
    PROVE  FrameInv'
<1>1. /\ user' = FALSE /\ loading' = TRUE /\ form' = FreshForm
      /\ me' = [c \in Callers |-> IF c = "mount" THEN Sent ELSE Rest]
      /\ auth' = [o \in Ops |-> NoCall]
      /\ UNCHANGED <<visit, captcha>> /\ orderly' \in BOOLEAN
    BY DEF Reload, Open, SignInWithGoogle, NewDocument, SignInLost
<1>2. session' \in BOOLEAN /\ at' \in Routes
    BY DEF Reload, Open, SignInWithGoogle, FrameInv, FrameTyped, Routes, Dashboard, SignInRoutes
<1>3. session' \in BOOLEAN /\ orderly' \in BOOLEAN /\ captcha' \in BOOLEAN
         /\ visit' \in Visits /\ at' \in Routes /\ user' = FALSE /\ loading' = TRUE
    BY <1>1, <1>2 DEF FrameInv, FrameTyped
<1>4. FrameTyped'
    BY <1>1, <1>3, Names, Rests DEF FrameTyped
<1>5. \A o \in Ops : auth'[o] = NoCall
    BY <1>1
<1>6. me'["mount"].step = "sent" /\ \A c \in Callers : me'[c].step # "answered"
    BY <1>1, Names, Rests
<1>7. Following'
    BY <1>5, <1>6, <1>3, Rests DEF Following, AuthSound
<1>8. TokenSound' /\ CaptchaRefusals'
    BY <1>1, <1>5, Names, Rests DEF TokenSound, CaptchaRefusals
<1> QED BY <1>4, <1>6, <1>7, <1>8 DEF FrameInv

\* The widget verifies or forgets a token; no request is touched.
LEMMA WidgetInv ==
    ASSUME FrameInv, Verify \/ TokenExpires
    PROVE  FrameInv'
<1>1. UNCHANGED <<session, visit, at, user, loading, me, auth, orderly, captcha>>
    BY DEF Verify, TokenExpires, clientVars, shopVars, frameVars
<1>2. form' \in FormState /\ form'.token \in {"fresh", "none"}
    BY DEF Verify, TokenExpires, FrameInv, FrameTyped, FormState, TokenStates
<1>3. FrameTyped'
    BY <1>1, <1>2 DEF FrameInv, FrameTyped
<1>4. Following'
    BY <1>1 DEF FrameInv, Following, AuthSound, MeBusy, AuthBusy
<1>5. TokenSound' /\ CaptchaRefusals'
    BY <1>1, <1>2 DEF FrameInv, TokenSound, CaptchaRefusals
<1> QED BY <1>1, <1>3, <1>4, <1>5 DEF FrameInv

LEMMA SubmitFormInv ==
    ASSUME FrameInv, NEW op \in SignInRoutes, SubmitForm(op)
    PROVE  FrameInv'
<1> DEFINE a == [NoCall EXCEPT !.step = "sent",
                               !.token = IF Required THEN form.token ELSE "unasked"]
<1>1. /\ at = op /\ ~form.submitting /\ auth[op].step = "idle"
      /\ Required => form.token # "none"
      /\ auth' = [auth EXCEPT ![op] = a]
      /\ form' = [submitting |-> TRUE,
                  token |-> IF Required /\ form.token = "fresh" THEN "sent" ELSE form.token]
      /\ orderly' = (orderly /\ ~MeBusy /\ ~AuthBusy)
      /\ UNCHANGED <<session, visit, at, user, loading, me, captcha>>
    BY DEF SubmitForm, SignInFormShown, ButtonOn, shopVars
<1>2. form.token \in {"none", "fresh", "spent"} /\ form \in FormState
    BY <1>1 DEF FrameInv, FrameTyped, TokenSound, FormState, TokenStates
<1>3. op \in Ops
    BY Names
<1>4. /\ a \in AuthState /\ a.step = "sent" /\ a.reply = "none"
      /\ a.token \in {"unasked", "fresh", "spent"}
    BY <1>1, <1>2 DEF NoCall, AuthState, TokenStates, Replies
<1> HIDE DEF a
<1>5. /\ auth' \in [Ops -> AuthState]
      /\ auth'[op] = a
      /\ \A p \in Ops : p # op => auth'[p] = auth[p]
    BY <1>1, <1>3, <1>4, AuthSteps
<1>6. form' \in FormState /\ form'.submitting /\ form'.token # "expired"
    BY <1>1, <1>2 DEF FormState, TokenStates
<1>7. FrameTyped'
    BY <1>1, <1>5, <1>6 DEF FrameInv, FrameTyped
<1>8. Following'
    <2> SUFFICES ASSUME orderly' PROVE Following'
        BY DEF Following
    <2>1. orderly /\ ~MeBusy /\ ~AuthBusy
        BY <1>1
    <2>2. ~loading
        BY <2>1, Names DEF FrameInv, MeBusy
    <2>3. user = session
        BY <2>1, <2>2 DEF FrameInv, Following
    <2>4. \A p \in Ops : p # op => auth'[p].step = "idle"
        BY <1>5, <2>1 DEF AuthBusy
    <2>5. \A c \in Callers : me'[c].step = "idle"
        BY <1>1, <2>1 DEF MeBusy
    <2>6. AuthBusy'
        BY <1>3, <1>4, <1>5 DEF AuthBusy
    <2>7. \A p \in Ops : AuthSound(p)'
        BY <1>1, <1>4, <1>5, <2>3, <2>4 DEF AuthSound
    <2> QED BY <2>4, <2>5, <2>6, <2>7 DEF Following
<1>9. TokenSound' /\ CaptchaRefusals'
    <2>1. \A p \in SignInRoutes : p # op => auth'[p] = auth[p]
        BY <1>5, Names
    <2>2. TokenSound'
        BY <1>1, <1>4, <1>5, <1>6, <2>1 DEF FrameInv, TokenSound
    <2>3. CaptchaRefusals'
        BY <1>1, <1>4, <1>5, <2>1 DEF FrameInv, CaptchaRefusals
    <2> QED BY <2>2, <2>3
<1> QED BY <1>1, <1>7, <1>8, <1>9 DEF FrameInv

\* A sign-in goes on at the server.
LEMMA SignInGoes ==
    ASSUME FrameInv, NEW op \in SignInRoutes, auth[op].step \in {"sent", "again"},
           NEW a \in AuthState, auth' = [auth EXCEPT ![op] = a],
           a.step \in {"again", "answered"},
           UNCHANGED <<visit, at, user, loading, me, captcha>>,
           form' \in FormState, form'.submitting = form.submitting,
           form'.token \in {form.token, "spent", "fresh"} \ {"sent"},
           session' \in BOOLEAN, orderly' \in BOOLEAN, orderly' => orderly,
           orderly' => IF a.step = "answered" /\ a.reply = "ok" THEN session'
                                                                 ELSE session' = session,
           a.step = "again" => a.token \in {"unasked", "spent"},
           a.reply = "captcha" => a.token \in {"unasked", "spent"} \/ "api" \in visit.faults
    PROVE  FrameInv'
<1>1. op \in Ops /\ op \notin SignOuts
    BY Names
<1>2. /\ auth' \in [Ops -> AuthState]
      /\ auth'[op] = a
      /\ \A p \in Ops : p # op => auth'[p] = auth[p]
    BY <1>1, AuthSteps
<1>3. FrameTyped'
    BY <1>2 DEF FrameInv, FrameTyped
<1>4. Following'
    <2> SUFFICES ASSUME orderly' PROVE Following'
        BY DEF Following
    <2>1. user = session /\ \A p \in Ops : p # op => auth'[p].step = "idle"
        BY <1>1, <1>2 DEF FrameInv, Following, AuthSound
    <2>2. \A c \in Callers : me'[c].step = "idle"
        BY <1>1 DEF FrameInv, Following
    <2>3. AuthBusy'
        BY <1>1, <1>2 DEF AuthBusy
    <2>4. AuthSound(op)'
        BY <1>1, <1>2, <2>1 DEF AuthSound, FrameInv, FrameTyped
    <2>5. \A p \in Ops : AuthSound(p)'
        BY <2>1, <2>4 DEF AuthSound
    <2> QED BY <2>1, <2>2, <2>3, <2>5 DEF Following
<1>5. \A p \in SignInRoutes : p # op => auth'[p] = auth[p]
    BY <1>2, Names
<1>6. TokenSound'
    BY <1>2, <1>5 DEF FrameInv, TokenSound
<1>7. CaptchaRefusals'
    BY <1>2, <1>5 DEF FrameInv, CaptchaRefusals
<1> QED BY <1>3, <1>4, <1>6, <1>7 DEF FrameInv

\* What the API makes of the token a form holds.
LEMMA FormSpent ==
    ASSUME FrameInv, form' \in {Spent, [form EXCEPT !.token = IF @ = "sent" THEN "fresh" ELSE @]}
    PROVE  /\ form' \in FormState
           /\ form'.submitting = form.submitting
           /\ form'.token \in {form.token, "spent", "fresh"} \ {"sent"}
BY DEF Spent, FrameInv, FrameTyped, FormState, TokenStates

\* The fields of an answered sign-in.
LEMMA ReplyFields ==
    ASSUME FrameInv, NEW op \in SignInRoutes, NEW reply \in Replies
    PROVE  \E a \in AuthState :
              /\ Reply(op, reply) = [auth EXCEPT ![op] = a]
              /\ a.step = "answered" /\ a.reply = reply /\ a.token = auth[op].token
<1>1. auth[op] \in AuthState /\ op \in Ops
    BY Names DEF FrameInv, FrameTyped
<1> DEFINE a == [auth[op] EXCEPT !.step = "answered", !.reply = reply]
<1>2. a \in AuthState /\ a.step = "answered" /\ a.reply = reply /\ a.token = auth[op].token
    BY <1>1 DEF AuthState
<1>3. Reply(op, reply) = [auth EXCEPT ![op] = a]
    BY <1>1 DEF Reply, FrameInv, FrameTyped
<1> QED BY <1>2, <1>3

LEMMA AnswerRefusedInv ==
    ASSUME FrameInv, NEW op \in SignInRoutes, AnswerRefused(op)
    PROVE  FrameInv'
<1>1. /\ auth[op].step \in {"sent", "again"}
      /\ UNCHANGED <<session, visit, at, user, loading, me, captcha>>
      /\ form' \in {Spent, [form EXCEPT !.token = IF @ = "sent" THEN "fresh" ELSE @]}
    BY DEF AnswerRefused, shopVars
<1>2. /\ form' \in FormState
      /\ form'.submitting = form.submitting
      /\ form'.token \in {form.token, "spent", "fresh"} \ {"sent"}
    BY <1>1, FormSpent
<1>3. auth[op].token \in {"unasked", "fresh", "spent"} /\ session \in BOOLEAN
         /\ orderly \in BOOLEAN
    BY <1>1 DEF FrameInv, FrameTyped, TokenSound
<1>4. CASE /\ auth[op].token # "fresh" \/ "api" \in visit.faults
           /\ auth' = Reply(op, "captcha")
           /\ orderly' = orderly
    <2>1. PICK a \in AuthState :
              /\ auth' = [auth EXCEPT ![op] = a]
              /\ a.step = "answered" /\ a.reply = "captcha" /\ a.token = auth[op].token
        BY <1>4, ReplyFields DEF Replies
    <2> QED BY <1>1, <1>2, <1>3, <1>4, <2>1, SignInGoes
<1>5. CASE auth' = Reply(op, "error") /\ orderly' = FALSE
    <2>1. PICK a \in AuthState :
              /\ auth' = [auth EXCEPT ![op] = a]
              /\ a.step = "answered" /\ a.reply = "error" /\ a.token = auth[op].token
        BY <1>5, ReplyFields DEF Replies
    <2> QED BY <1>1, <1>2, <1>3, <1>5, <2>1, SignInGoes
<1> QED BY <1>4, <1>5 DEF AnswerRefused

LEMMA AnswerVerifiedInv ==
    ASSUME FrameInv, NEW op \in SignInRoutes, AnswerVerified(op)
    PROVE  FrameInv'
<1>1. /\ auth[op].step \in {"sent", "again"}
      /\ UNCHANGED <<visit, at, user, loading, me, captcha>>
      /\ form' = Spent
    BY DEF AnswerVerified
<1>2. /\ form' \in FormState
      /\ form'.submitting = form.submitting
      /\ form'.token \in {form.token, "spent", "fresh"} \ {"sent"}
    BY <1>1, FormSpent
<1>3. auth[op].token \in {"unasked", "fresh", "spent"} /\ session \in BOOLEAN
         /\ orderly \in BOOLEAN
    BY <1>1 DEF FrameInv, FrameTyped, TokenSound
<1>4. CASE session' = TRUE /\ auth' = Reply(op, "ok") /\ orderly' = orderly
    <2>1. PICK a \in AuthState :
              /\ auth' = [auth EXCEPT ![op] = a]
              /\ a.step = "answered" /\ a.reply = "ok" /\ a.token = auth[op].token
        BY <1>4, ReplyFields DEF Replies
    <2> QED BY <1>1, <1>2, <1>3, <1>4, <2>1, SignInGoes
<1>5. CASE session' = TRUE /\ auth' = Reply(op, "error") /\ orderly' = FALSE
    <2>1. PICK a \in AuthState :
              /\ auth' = [auth EXCEPT ![op] = a]
              /\ a.step = "answered" /\ a.reply = "error" /\ a.token = auth[op].token
        BY <1>5, ReplyFields DEF Replies
    <2> QED BY <1>1, <1>2, <1>3, <1>5, <2>1, SignInGoes
<1>6. CASE /\ session' = session /\ orderly' = orderly
           /\ auth' = Reply(op, "wrong")
    <2>1. PICK a \in AuthState :
              /\ auth' = [auth EXCEPT ![op] = a]
              /\ a.step = "answered" /\ a.reply = "wrong" /\ a.token = auth[op].token
        BY <1>6, ReplyFields DEF Replies
    <2> QED BY <1>1, <1>2, <1>3, <1>6, <2>1, SignInGoes
<1>7. CASE /\ session' = session /\ orderly' = orderly
           /\ auth[op].step = "sent"
           /\ auth' = [auth EXCEPT ![op].step = "again",
                          ![op].token = IF @ = "fresh" THEN "spent" ELSE @]
    <2> DEFINE a == [auth[op] EXCEPT !.step = "again",
                                     !.token = IF @ = "fresh" THEN "spent" ELSE @]
    <2>1. auth[op] \in AuthState /\ op \in Ops
        BY Names DEF FrameInv, FrameTyped
    <2>2. /\ a \in AuthState /\ a.step = "again" /\ a.reply = auth[op].reply
          /\ a.token \in {"unasked", "spent"}
        BY <1>3, <2>1 DEF AuthState, TokenStates
    <2>3. auth' = [auth EXCEPT ![op] = a]
        BY <1>7, <2>1 DEF FrameInv, FrameTyped
    <2>4. a.reply = "captcha" => a.token \in {"unasked", "spent"}
        BY <2>2
    <2> HIDE DEF a
    <2> QED BY <1>1, <1>2, <1>3, <1>7, <2>2, <2>3, <2>4, SignInGoes
<1> QED BY <1>4, <1>5, <1>6, <1>7 DEF AnswerVerified, Reply

LEMMA HearSignInErrorInv ==
    ASSUME FrameInv, NEW op \in SignInRoutes, HearSignInError(op)
    PROVE  FrameInv'
<1>1. /\ auth[op].step = "answered" /\ auth[op].reply # "ok"
      /\ auth' = [auth EXCEPT ![op] = NoCall]
      /\ form' = IF at = op THEN [form EXCEPT !.submitting = FALSE] ELSE form
      /\ UNCHANGED <<session, visit, at, user, loading, me, orderly, captcha>>
    BY DEF HearSignInError, shopVars
<1>2. op \in Ops /\ op \notin SignOuts
    BY Names
<1>3. /\ auth' \in [Ops -> AuthState]
      /\ auth'[op] = NoCall
      /\ \A p \in Ops : p # op => auth'[p] = auth[p]
    BY <1>1, <1>2, Rests, AuthSteps
<1>4. form' \in FormState /\ form'.token = form.token
         /\ (at # op => form' = form)
    BY <1>1 DEF FrameInv, FrameTyped, FormState
<1>5. FrameTyped'
    BY <1>1, <1>3, <1>4 DEF FrameInv, FrameTyped
<1>6. Following'
    <2> SUFFICES ASSUME orderly PROVE Following'
        BY <1>1 DEF Following
    <2>1. \A p \in Ops : auth'[p].step = "idle"
        BY <1>1, <1>2, <1>3, Rests DEF FrameInv, Following
    <2>2. \A c \in Callers : me'[c].step = "idle"
        BY <1>1, <1>2 DEF FrameInv, Following
    <2>3. user' = session'
        BY <1>1, <1>2 DEF FrameInv, Following, AuthSound
    <2> QED BY <2>1, <2>2, <2>3 DEF Following, AuthSound
<1>7. \A p \in SignInRoutes : p # op => auth'[p] = auth[p]
    BY <1>3, Names
<1>8. TokenSound'
    BY <1>1, <1>3, <1>4, <1>7, Rests DEF FrameInv, TokenSound
<1>9. CaptchaRefusals'
    BY <1>1, <1>3, <1>7, Rests DEF FrameInv, CaptchaRefusals
<1> QED BY <1>1, <1>5, <1>6, <1>8, <1>9 DEF FrameInv

\* A step of the pages that leaves frame and forms alone, or only leaves the
\* document, or hears a configuration.
LEMMA PagesStay ==
    ASSUME Next
    PROVE  \/ FrameStep \/ Reload
           \/ \E c \in Callers : AnswerMe(c) /\ UNCHANGED signInVars
           \/ \E b \in SignOuts : AnswerLogout(b) /\ UNCHANGED signInVars
           \/ Expire /\ UNCHANGED signInVars
           \/ \E i \in Presses : HearOrderLoad(i) /\ UNCHANGED signInVars
           \/ Verify \/ TokenExpires
           \/ \E op \in SignInRoutes : \/ SubmitForm(op) \/ AnswerRefused(op)
                                       \/ AnswerVerified(op) \/ HearSignInError(op)
           \/ UNCHANGED frameInvVars
<1>1. CASE UpstreamStep
    <2>1. CASE MoveBalance
        BY <1>1, <2>1 DEF UpstreamStep, MoveBalance, frameVars, signInVars, frameInvVars
    <2>2. CASE ~MoveBalance
        <3>1. (\E c \in Callers : AnswerMe(c)) \/ (\E b \in SignOuts : AnswerLogout(b)) \/ Expire
            BY <1>1, <2>2 DEF UpstreamStep, AnswerLogout
        <3>2. UNCHANGED signInVars
            BY <1>1 DEF UpstreamStep
        <3> QED BY <3>1, <3>2
    <2> QED BY <2>1, <2>2
<1>2. CASE OnOrders(OrdersNext)
    <2>1. UNCHANGED signInVars
        BY <1>2 DEF OnOrders
    <2>2. ASSUME NEW l \in Loaders, AnswerLoad(l) \/ HearLoad(l)
          PROVE  UNCHANGED frameInvVars
        BY <2>1, <2>2 DEF AnswerLoad, HearLoad, clientVars, shopVars, frameVars, signInVars,
                          frameInvVars
    <2>3. ASSUME NEW l \in Retries, Retry(l)
          PROVE  UNCHANGED frameInvVars
        BY <2>1, <2>3 DEF Retry, clientVars, shopVars, frameVars, signInVars, frameInvVars
    <2>4. ASSUME \/ \E p \in PlanIds : ChoosePlan(p)
                 \/ \E n \in {0, NaN} \cup Quantities : TypeQuantity(n)
                 \/ Publish
          PROVE  UNCHANGED frameInvVars
        BY <2>1, <2>4 DEF ChoosePlan, TypeQuantity, Publish, clientVars, shopVars, frameVars,
                          signInVars, frameInvVars
    <2>5. ASSUME NEW i \in Presses, Submit(i) \/ AnswerOrder(i) \/ HearOrder(i)
          PROVE  UNCHANGED frameInvVars
        BY <2>1, <2>5 DEF Submit, AnswerOrder, HearOrder, clientVars, shopVars, frameVars,
                          signInVars, frameInvVars
    <2>6. OrdersNext
        BY <1>2 DEF OnOrders
    <2> QED BY <2>1, <2>2, <2>3, <2>4, <2>5, <2>6 DEF OrdersNext
<1>3. CASE OnBilling(BillingNext) \/ OnBilling(GoBack /\ Quiet)
    <2>1. UNCHANGED signInVars
        BY <1>3 DEF OnBilling
    <2>2. CASE OnBilling(GoBack /\ Quiet)
        BY <2>1, <2>2 DEF OnBilling, GoBack, shopVars, signInVars, frameInvVars
    <2>3. ASSUME \/ AnswerBilling \/ HearBilling \/ HearBillingConfig
                 \/ (\E a \in Amounts : TypeAmount(a)) \/ (\E p \in Providers : ChooseProvider(p))
          PROVE  UNCHANGED frameInvVars
        BY <2>1, <2>3 DEF AnswerBilling, HearBilling, HearBillingConfig, HearConfig, TypeAmount,
                          ChooseProvider,
                          clientVars, shopVars, frameVars, signInVars, frameInvVars
    <2>4. ASSUME NEW i \in Presses, PressTopUp(i) \/ AnswerTopUp(i) \/ HearTopUp(i) \/ Leave(i)
          PROVE  UNCHANGED frameInvVars
        BY <2>1, <2>4 DEF PressTopUp, AnswerTopUp, HearTopUp, Leave, clientVars, shopVars,
                          frameVars, signInVars, frameInvVars
    <2>5. CASE OnBilling(BillingNext)
        BY <2>3, <2>4, <2>5 DEF OnBilling, BillingNext
    <2> QED BY <1>3, <2>2, <2>5
<1>4. CASE OnAccount(AccountNext)
    BY <1>4 DEF OnAccount, AccountNext, AnswerOverview, HearOverview, AnswerList, HearList,
                RetryList, PressUsage, AnswerUsage, HearUsage, Copy, CopyTimesOut,
                clientVars, shopVars, frameVars,
                signInVars, frameInvVars
<1>5. CASE OnSignIn(SignInNext)
    <2>1. CASE HearSignInConfig \/ ScriptLoads
        BY <2>1 DEF HearSignInConfig, ScriptLoads, HearConfig, clientVars, shopVars, frameVars,
                    frameInvVars
    <2> QED BY <1>5, <2>1 DEF OnSignIn, SignInNext
<1> QED BY <1>1, <1>2, <1>3, <1>4, <1>5 DEF Next

LEMMA FrameNext == FrameInv /\ [Next]_vars => FrameInv'
<1> SUFFICES ASSUME FrameInv, [Next]_vars PROVE FrameInv'
    OBVIOUS
<1>1. CASE UNCHANGED vars
    BY <1>1, FrameStays DEF vars, clientVars, shopVars, frameVars, signInVars, frameInvVars
<1>2. CASE Next
    BY <1>2, PagesStay, FrameStepInv, ReloadInv, AnswerMeInv, AnswerLogoutInv, ExpireInv,
       HearOrderLoadInv, WidgetInv, SubmitFormInv, AnswerRefusedInv, AnswerVerifiedInv,
       HearSignInErrorInv, FrameStays
<1> QED BY <1>1, <1>2

\* The inductive invariant of the frame and the sign-in pages holds in every
\* reachable state.
THEOREM FrameInvariance == Spec => []FrameInv
BY FrameInit, FrameNext, PTL DEF Spec

\* When nothing is under way in an orderly history, the user shown as signed
\* in is the one the cookies are for: for any order in which the answers of
\* /me and /auth come and the customer moves between the pages.
THEOREM UserIsSession == Spec => []NoGhostUser
<1>1. FrameInv => NoGhostUser
    BY DEF FrameInv, Following, NoGhostUser
<1> QED BY <1>1, FrameInvariance, PTL

\* A form never sends a Turnstile token that has expired, and one that was
\* verified before only where the program does so knowingly.
THEOREM CaptchaIsFresh == Spec => []CaptchaRefusals
<1>1. FrameInv => CaptchaRefusals
    BY DEF FrameInv
<1> QED BY <1>1, FrameInvariance, PTL

-----------------------------------------------------------------------------
(* The billing page *)

billingInvVars == <<at, user, loading, config, offered, billing, pay>>

BillingState == [loading : BOOLEAN, call : {"idle", "sent", "answered"},
                 amount : Amounts, provider : Providers,
                 submitting : BOOLEAN, returned : BOOLEAN]
PayState == [step : {"idle", "sent", "answered", "leaving"}, amount : Amounts,
             provider : Providers, reply : PayReplies, mine : BOOLEAN]

BillingTyped ==
    /\ offered \subseteq Providers
    /\ billing \in BillingState
    /\ pay \in [Presses -> PayState]

\* The provider the form shows can be chosen, as soon as there is a form.
ProviderSound ==
    Shown("billing") =>
        IF config = "known" THEN offered # {} => billing.provider \in offered
                            ELSE billing.provider = "stripe"

PaySound(i) ==
    /\ pay[i].mine => billing.submitting
    /\ pay[i].step = "sent" => pay[i].amount >= MinCents /\ pay[i].provider \in offered

BillingInv ==
    /\ BillingTyped
    /\ ProviderSound
    /\ \A i \in Presses : PaySound(i)
    /\ OneTopupPerPage

\* The page as its effect leaves it.
Mounted == [FreshBilling EXCEPT !.call = "sent"]

LEMMA BillingRests ==
    /\ FreshBilling \in BillingState /\ FreshBilling.provider = "stripe"
    /\ Mounted \in BillingState /\ Mounted.provider = "stripe" /\ Mounted.call = "sent"
    /\ ~Mounted.submitting /\ ~FreshBilling.submitting
    /\ NoPay \in PayState /\ NoPay.step = "idle" /\ ~NoPay.mine
BY BillingAssumption DEF FreshBilling, Mounted, NoPay, BillingState, PayState, PayReplies, Providers

LEMMA BillingInitInv == Init => BillingInv
<1> SUFFICES ASSUME Init PROVE BillingInv
    OBVIOUS
<1>1. offered \in Offers
    BY BillingAssumption DEF Init, BillingInit
<1>2. billing = FreshBilling /\ \A i \in Presses : pay[i] = NoPay
    BY DEF Init, BillingInit
<1>3. BillingTyped
    BY <1>1, <1>2, BillingAssumption, BillingRests DEF Init, BillingInit, BillingTyped
<1>4. ~Shown("billing")
    BY DEF Init, ClientInit, Shown, Guarded, Dashboard
<1> QED BY <1>2, <1>3, <1>4, BillingRests DEF BillingInv, ProviderSound, PaySound, OneTopupPerPage

LEMMA BillingStays ==
    ASSUME BillingInv, UNCHANGED billingInvVars
    PROVE  BillingInv'
<1>1. BillingTyped'
    BY DEF BillingInv, BillingTyped, billingInvVars
<1>2. ProviderSound'
    BY DEF BillingInv, ProviderSound, Shown, Guarded, billingInvVars
<1>3. (\A i \in Presses : PaySound(i)') /\ OneTopupPerPage'
    BY DEF BillingInv, PaySound, OneTopupPerPage, billingInvVars
<1> QED BY <1>1, <1>2, <1>3 DEF BillingInv

\* Another configuration is heard, and not on this page.
LEMMA OtherConfig ==
    ASSUME BillingInv, HearSignInConfig, UNCHANGED billingVars
    PROVE  BillingInv'
<1>1. ~Shown("billing")'
    BY DEF HearSignInConfig, HearConfig, frameVars, Shown, SignInRoutes
<1>2. BillingTyped' /\ (\A i \in Presses : PaySound(i)') /\ OneTopupPerPage'
    BY DEF BillingInv, BillingTyped, PaySound, OneTopupPerPage, billingVars
<1> QED BY <1>1, <1>2 DEF BillingInv, ProviderSound

LEMMA BillingTurnInv ==
    ASSUME BillingInv, BillingTurn, ConfigTurn
    PROVE  BillingInv'
<1> DEFINE stays == Shown("billing") /\ Shown("billing")'
<1>1. /\ offered' = offered
      /\ billing' = IF stays THEN billing ELSE IF Shown("billing")' THEN Mounted ELSE FreshBilling
      /\ pay' = [i \in Presses |-> [pay[i] EXCEPT !.mine = @ /\ stays]]
    BY DEF BillingTurn, Mounted
<1>2. PICK s \in BOOLEAN : s = stays
    OBVIOUS
<1>3. ASSUME NEW i \in Presses
      PROVE  /\ pay'[i] \in PayState
             /\ pay'[i].step = pay[i].step /\ pay'[i].amount = pay[i].amount
             /\ pay'[i].provider = pay[i].provider
             /\ pay'[i].mine => pay[i].mine /\ s
    <2>1. pay'[i] = [pay[i] EXCEPT !.mine = pay[i].mine /\ s]
        BY <1>1, <1>2
    <2>2. pay[i] \in PayState
        BY DEF BillingInv, BillingTyped
    <2>3. PICK m \in BOOLEAN : m = (pay[i].mine /\ s)
        OBVIOUS
    <2>4. pay'[i] = [pay[i] EXCEPT !.mine = m]
        BY <2>1, <2>3
    <2> QED BY <2>2, <2>3, <2>4 DEF PayState
<1>4. BillingTyped'
    <2>1. billing' \in BillingState /\ offered' \subseteq Providers
        BY <1>1, BillingRests DEF BillingInv, BillingTyped
    <2>2. pay' \in [Presses -> PayState]
        BY <1>1, <1>3
    <2> QED BY <2>1, <2>2 DEF BillingTyped
<1>5. ProviderSound'
    <2> SUFFICES ASSUME Shown("billing")'
                 PROVE  IF config' = "known" THEN offered' # {} => billing'.provider \in offered'
                                             ELSE billing'.provider = "stripe"
        BY DEF ProviderSound
    <2>1. at' = "billing"
        BY DEF Shown
    <2>2. (at \in Configured /\ Shown(at))'
        BY <2>1 DEF Configured, Shown
    <2>3. CASE Shown("billing")
        <3>1. at = "billing"
            BY <2>3 DEF Shown
        <3>2. config' = config
            BY <2>1, <2>2, <2>3, <3>1 DEF ConfigTurn
        <3> QED BY <1>1, <2>3, <3>2 DEF BillingInv, ProviderSound
    <2>4. CASE ~Shown("billing")
        <3>1. ~(at' = at /\ Shown(at))
            BY <2>1, <2>4
        <3>2. config' = "sent"
            BY <2>2, <3>1 DEF ConfigTurn
        <3>3. billing' = Mounted
            BY <1>1, <2>4
        <3> QED BY <3>2, <3>3, BillingRests
    <2> QED BY <2>3, <2>4
<1>6. ASSUME NEW i \in Presses PROVE PaySound(i)'
    <2>1. s => billing' = billing
        BY <1>1, <1>2
    <2>2. PaySound(i)
        BY DEF BillingInv
    <2> HIDE DEF stays
    <2> QED BY <1>1, <1>3, <2>1, <2>2 DEF PaySound
<1>7. OneTopupPerPage'
    BY <1>3 DEF BillingInv, OneTopupPerPage
<1> QED BY <1>4, <1>5, <1>6, <1>7 DEF BillingInv

LEMMA BillingLostInv ==
    ASSUME BillingInv, BillingLost, loading' = TRUE
    PROVE  BillingInv'
<1>1. billing' = FreshBilling /\ offered' = offered /\ pay' = [i \in Presses |-> NoPay]
    BY DEF BillingLost
<1>2. BillingTyped'
    BY <1>1, BillingRests DEF BillingInv, BillingTyped
<1>3. ~Shown("billing")'
    BY DEF Shown, Guarded, Dashboard
<1>4. \A i \in Presses : pay'[i] = NoPay
    BY <1>1
<1> QED BY <1>2, <1>3, <1>4, BillingRests
        DEF BillingInv, ProviderSound, PaySound, OneTopupPerPage

\* A step of the form that sends nothing.
LEMMA FormInv ==
    ASSUME BillingInv, NEW b \in BillingState, billing' = b, UNCHANGED <<offered, pay>>,
           UNCHANGED <<at, user, loading>>,
           b.submitting = billing.submitting,
           config' = "known" => (offered # {} /\ Shown("billing") => b.provider \in offered),
           config' # "known" => (Shown("billing") => b.provider = "stripe")
    PROVE  BillingInv'
<1>1. BillingTyped'
    BY DEF BillingInv, BillingTyped
<1>2. Shown("billing")' => Shown("billing")
    BY DEF Shown, Guarded
<1>3. ProviderSound'
    BY <1>2 DEF ProviderSound
<1>4. (\A i \in Presses : PaySound(i)') /\ OneTopupPerPage'
    BY DEF BillingInv, PaySound, OneTopupPerPage
<1> QED BY <1>1, <1>3, <1>4 DEF BillingInv

\* A step of a submission, which may turn the button on or off.
LEMMA PayInv ==
    ASSUME BillingInv, NEW i \in Presses, NEW p \in PayState, pay' = [pay EXCEPT ![i] = p],
           NEW submitting \in BOOLEAN, billing' = [billing EXCEPT !.submitting = submitting],
           UNCHANGED <<at, user, loading, config, offered>>,
           p.mine => submitting,
           p.mine => pay[i].mine \/ ~billing.submitting,
           ~submitting => ~billing.submitting \/ pay[i].mine,
           p.step = "sent" => p.amount >= MinCents /\ p.provider \in offered
    PROVE  BillingInv'
<1>1. /\ pay' \in [Presses -> PayState]
      /\ pay'[i] = p
      /\ \A j \in Presses : j # i => pay'[j] = pay[j]
    BY DEF BillingInv, BillingTyped
<1>2. billing' \in BillingState /\ billing'.provider = billing.provider
         /\ billing'.submitting = submitting
    BY DEF BillingInv, BillingTyped, BillingState
<1>3. BillingTyped'
    BY <1>1, <1>2 DEF BillingInv, BillingTyped
<1>4. ProviderSound'
    BY <1>2 DEF BillingInv, ProviderSound, Shown, Guarded
<1>5. ASSUME NEW j \in Presses PROVE PaySound(j)'
    <2>1. CASE j = i
        BY <1>1, <1>2, <2>1 DEF PaySound
    <2>2. CASE j # i
        BY <1>1, <1>2, <2>2 DEF BillingInv, PaySound, OneTopupPerPage
    <2> QED BY <2>1, <2>2
<1>6. OneTopupPerPage'
    BY <1>1 DEF BillingInv, PaySound, OneTopupPerPage
<1> QED BY <1>3, <1>4, <1>5, <1>6 DEF BillingInv

LEMMA TypingInv ==
    ASSUME BillingInv, NEW a \in Amounts, NEW q \in Providers,
           AnswerBilling \/ HearBilling \/ TypeAmount(a) \/ ChooseProvider(q)
    PROVE  BillingInv'
<1>1. UNCHANGED <<at, user, loading, config, offered, pay>>
    BY DEF AnswerBilling, HearBilling, TypeAmount, ChooseProvider, clientVars, frameVars
<1>2. billing \in BillingState /\ ProviderSound
    BY DEF BillingInv, BillingTyped
<1>3. CASE AnswerBilling \/ HearBilling
    <2>1. \/ billing' = [billing EXCEPT !.call = "answered"]
          \/ billing' = [billing EXCEPT !.call = "idle", !.loading = FALSE]
        BY <1>3 DEF AnswerBilling, HearBilling
    <2>2. billing' \in BillingState /\ billing'.provider = billing.provider
             /\ billing'.submitting = billing.submitting
        BY <1>2, <2>1 DEF BillingState
    <2> QED BY <1>1, <1>2, <2>2, FormInv DEF ProviderSound
<1>4. CASE TypeAmount(a)
    <2>1. billing' = [billing EXCEPT !.amount = a]
        BY <1>4 DEF TypeAmount
    <2>2. billing' \in BillingState /\ billing'.provider = billing.provider
             /\ billing'.submitting = billing.submitting
        BY <1>2, <2>1 DEF BillingState
    <2> QED BY <1>1, <1>2, <2>2, FormInv DEF ProviderSound
<1>5. CASE ChooseProvider(q)
    <2>1. billing' = [billing EXCEPT !.provider = q] /\ q \in offered /\ config = "known"
        BY <1>5 DEF ChooseProvider, TopUpFormShown
    <2>2. billing' \in BillingState /\ billing'.provider = q
             /\ billing'.submitting = billing.submitting
        BY <1>2, <2>1 DEF BillingState
    <2> QED BY <1>1, <2>1, <2>2, FormInv
<1> QED BY <1>3, <1>4, <1>5

LEMMA HearBillingConfigInv ==
    ASSUME BillingInv, HearBillingConfig
    PROVE  BillingInv'
<1>1. /\ UNCHANGED <<at, user, loading, offered, pay>>
      /\ Shown("billing") /\ config = "sent"
      /\ billing' = IF config' = "known" THEN [billing EXCEPT !.provider = DefaultProvider(@)]
                                         ELSE billing
    BY DEF HearBillingConfig, HearConfig
<1>2. billing \in BillingState /\ billing.provider = "stripe" /\ offered \subseteq Providers
    BY <1>1 DEF BillingInv, BillingTyped, ProviderSound
<1>3. CASE config' = "known"
    <2>1. DefaultProvider("stripe") \in Providers
             /\ (offered # {} => DefaultProvider("stripe") \in offered)
        BY <1>2 DEF DefaultProvider, Providers
    <2>2. billing' = [billing EXCEPT !.provider = DefaultProvider("stripe")]
        BY <1>1, <1>2, <1>3
    <2>3. billing' \in BillingState /\ billing'.provider = DefaultProvider("stripe")
             /\ billing'.submitting = billing.submitting
        BY <1>2, <2>1, <2>2 DEF BillingState
    <2> QED BY <1>1, <1>3, <2>1, <2>3, FormInv
<1>4. CASE config' # "known"
    BY <1>1, <1>2, <1>4, FormInv
<1> QED BY <1>3, <1>4

LEMMA PressTopUpInv ==
    ASSUME BillingInv, NEW i \in Presses, PressTopUp(i)
    PROVE  BillingInv'
<1> DEFINE p == [step |-> "sent", amount |-> billing.amount, provider |-> billing.provider,
                 reply |-> "none", mine |-> TRUE]
<1>1. /\ TopUpFormShown /\ ~billing.submitting /\ billing.amount >= MinCents
      /\ pay' = [pay EXCEPT ![i] = p]
      /\ billing' = [billing EXCEPT !.submitting = TRUE]
      /\ UNCHANGED <<at, user, loading, config, offered>>
    BY DEF PressTopUp, ButtonOn, clientVars, frameVars
<1>2. billing.provider \in offered
    BY <1>1 DEF TopUpFormShown, BillingInv, ProviderSound
<1>3. p \in PayState
    BY DEF PayState, PayReplies, BillingInv, BillingTyped, BillingState
<1> QED BY <1>1, <1>2, <1>3, PayInv

\* A submission goes on, and the button follows at most when it is over.
LEMMA TopUpGoesInv ==
    ASSUME BillingInv, NEW i \in Presses, AnswerTopUp(i) \/ HearTopUp(i) \/ Leave(i)
    PROVE  BillingInv'
<1>1. UNCHANGED <<at, user, loading, config, offered>>
    BY DEF AnswerTopUp, HearTopUp, Leave, clientVars, frameVars
<1>2. pay[i] \in PayState /\ billing \in BillingState /\ PaySound(i)
    BY DEF BillingInv, BillingTyped
<1>3. billing = [billing EXCEPT !.submitting = billing.submitting]
         /\ billing.submitting \in BOOLEAN
    BY <1>2 DEF BillingState
<1>4. CASE AnswerTopUp(i)
    <2>1. PICK reply \in PayReplies :
             pay' = [pay EXCEPT ![i] = [NoPay EXCEPT !.step = "answered", !.mine = pay[i].mine,
                                                     !.reply = reply]]
        BY <1>4 DEF AnswerTopUp, TopUpVerdict, PayReplies
    <2> DEFINE p == [NoPay EXCEPT !.step = "answered", !.mine = pay[i].mine, !.reply = reply]
    <2>2. p \in PayState /\ p.step = "answered" /\ p.mine = pay[i].mine
        BY <1>2, BillingAssumption DEF NoPay, PayState, Providers
    <2>3. billing' = [billing EXCEPT !.submitting = billing.submitting]
        BY <1>3, <1>4 DEF AnswerTopUp
    <2> HIDE DEF p
    <2>4. pay' = [pay EXCEPT ![i] = p]
        BY <2>1 DEF p
    <2> QED BY <1>1, <1>2, <1>3, <2>2, <2>3, <2>4, PayInv DEF PaySound
<1>5. CASE HearTopUp(i) /\ pay[i].reply = "checkout"
    <2> DEFINE p == [pay[i] EXCEPT !.step = "leaving"]
    <2>1. p \in PayState /\ p.step = "leaving" /\ p.mine = pay[i].mine
        BY <1>2 DEF PayState
    <2>2. pay' = [pay EXCEPT ![i] = p]
        BY <1>5 DEF HearTopUp, BillingInv, BillingTyped
    <2>3. billing' = [billing EXCEPT !.submitting = billing.submitting]
        BY <1>3, <1>5 DEF HearTopUp
    <2> HIDE DEF p
    <2> QED BY <1>1, <1>2, <1>3, <2>1, <2>2, <2>3, PayInv DEF PaySound
<1>6. CASE HearTopUp(i) /\ pay[i].reply # "checkout"
    <2>1. pay' = [pay EXCEPT ![i] = NoPay]
        BY <1>6 DEF HearTopUp
    <2>2. CASE pay[i].mine
        <3>1. billing' = [billing EXCEPT !.submitting = FALSE]
            BY <1>6, <2>2 DEF HearTopUp
        <3> QED BY <1>1, <2>1, <2>2, <3>1, BillingRests, PayInv
    <2>3. CASE ~pay[i].mine
        <3>1. billing' = [billing EXCEPT !.submitting = billing.submitting]
            BY <1>3, <1>6, <2>3 DEF HearTopUp
        <3> QED BY <1>1, <1>3, <2>1, <3>1, BillingRests, PayInv
    <2> QED BY <2>2, <2>3
<1>7. CASE Leave(i)
    <2>1. pay' = [pay EXCEPT ![i] = NoPay]
        BY <1>7 DEF Leave
    <2>2. billing' = [billing EXCEPT !.submitting = billing.submitting]
        BY <1>3, <1>7 DEF Leave
    <2> QED BY <1>1, <1>3, <2>1, <2>2, BillingRests, PayInv
<1> QED BY <1>4, <1>5, <1>6, <1>7

LEMMA GoBackInv ==
    ASSUME BillingInv, GoBack
    PROVE  BillingInv'
<1>1. UNCHANGED <<at, user, loading, config, offered, pay>>
    BY DEF GoBack
<1>2. billing \in BillingState /\ ProviderSound
    BY DEF BillingInv, BillingTyped
<1>3. billing' \in BillingState /\ billing'.provider = billing.provider
         /\ billing'.submitting = billing.submitting
    BY <1>2 DEF GoBack, BillingState
<1> QED BY <1>1, <1>2, <1>3, FormInv DEF ProviderSound

LEMMA BillingStep ==
    ASSUME Next
    PROVE  \/ BillingTurn /\ ConfigTurn
           \/ BillingLost /\ loading' = TRUE
           \/ BillingNext \/ GoBack
           \/ HearSignInConfig /\ UNCHANGED billingVars
           \/ UNCHANGED billingInvVars
<1>1. CASE FrameStep
    BY <1>1 DEF FrameStep, Turns
<1>2. CASE Reload
    BY <1>2 DEF Reload, Open, SignInWithGoogle, NewDocument
<1>3. CASE UpstreamStep
    BY <1>3 DEF UpstreamStep, AnswerMe, AnswerLogout, Expire, MoveBalance, frameVars, billingVars,
                billingInvVars
<1>4. CASE OnOrders(OrdersNext)
    <2>1. UNCHANGED billingVars /\ OrdersNext
        BY <1>4 DEF OnOrders
    <2>2. UNCHANGED <<at, user, loading, config>>
        BY <2>1 DEF OrdersNext, AnswerLoad, HearLoad, Retry, ChoosePlan, TypeQuantity, Submit,
                    AnswerOrder, HearOrder, HearOrderLoad, Publish, clientVars, frameVars
    <2> QED BY <2>1, <2>2 DEF billingVars, billingInvVars
<1>5. CASE OnBilling(BillingNext) \/ OnBilling(GoBack /\ Quiet)
    BY <1>5 DEF OnBilling
<1>6. CASE OnAccount(AccountNext)
    BY <1>6 DEF OnAccount, AccountNext, AnswerOverview, HearOverview, AnswerList, HearList,
                RetryList, PressUsage, AnswerUsage, HearUsage, Copy, CopyTimesOut,
                clientVars, frameVars, billingVars,
                billingInvVars
<1>7. CASE OnSignIn(SignInNext)
    <2>1. UNCHANGED billingVars /\ SignInNext
        BY <1>7 DEF OnSignIn
    <2>2. CASE ~HearSignInConfig
        BY <2>1, <2>2 DEF SignInNext, ScriptLoads, Verify, TokenExpires, SubmitForm, AnswerRefused,
                          AnswerVerified, HearSignInError, clientVars, frameVars, billingVars,
                          billingInvVars
    <2> QED BY <2>1, <2>2
<1> QED BY <1>1, <1>2, <1>3, <1>4, <1>5, <1>6, <1>7 DEF Next

LEMMA BillingNextInv == BillingInv /\ [Next]_vars => BillingInv'
<1> SUFFICES ASSUME BillingInv, [Next]_vars PROVE BillingInv'
    OBVIOUS
<1>1. CASE UNCHANGED vars
    BY <1>1, BillingStays DEF vars, clientVars, frameVars, billingVars, billingInvVars
<1>2. CASE BillingNext
    <2>1. MinCents \in Amounts /\ "stripe" \in Providers
        BY BillingAssumption DEF Providers
    <2> QED BY <1>2, <2>1, TypingInv, HearBillingConfigInv, PressTopUpInv, TopUpGoesInv
            DEF BillingNext
<1>3. CASE Next /\ ~BillingNext
    BY <1>3, BillingStep, BillingTurnInv, BillingLostInv, GoBackInv, OtherConfig, BillingStays
<1> QED BY <1>1, <1>2, <1>3

\* The inductive invariant of the billing page holds in every reachable state.
THEOREM BillingInvariance == Spec => []BillingInv
BY BillingInitInv, BillingNextInv, PTL DEF Spec

\* Only an answer refuses a top-up.
LEMMA RefusedByAnswer ==
    ASSUME BillingInv, Next, NEW i \in Presses, pay'[i].reply = "refused", pay[i].reply = "none"
    PROVE  AnswerTopUp(i)
<1>1. pay \in [Presses -> PayState] /\ NoPay.reply = "none" /\ pay[i] \in PayState
    BY DEF BillingInv, BillingTyped, NoPay
<1>2. pay' # pay /\ pay'[i] # NoPay
    BY <1>1
<1>3. ~BillingTurn
    <2> SUFFICES ASSUME BillingTurn PROVE FALSE
        OBVIOUS
    <2>1. pay'[i] = [pay[i] EXCEPT !.mine = @ /\ Shown("billing") /\ Shown("billing")']
        BY DEF BillingTurn
    <2>2. pay'[i].reply = pay[i].reply
        BY <1>1, <2>1 DEF PayState
    <2> QED BY <2>2
<1>4. ~BillingLost
    BY <1>2 DEF BillingLost
<1>5. PICK j \in Presses : PressTopUp(j) \/ AnswerTopUp(j) \/ HearTopUp(j) \/ Leave(j)
    BY <1>2, <1>3, <1>4, BillingStep 
       DEF BillingNext, AnswerBilling, HearBilling, HearBillingConfig, TypeAmount, ChooseProvider,
           GoBack, billingVars, billingInvVars
<1>6. j = i
    BY <1>1, <1>5 DEF PressTopUp, AnswerTopUp, HearTopUp, Leave
<1>7. ~PressTopUp(i)
    <2> SUFFICES ASSUME PressTopUp(i) PROVE FALSE
        OBVIOUS
    <2>1. pay'[i] = [step |-> "sent", amount |-> billing.amount, provider |-> billing.provider,
                     reply |-> "none", mine |-> TRUE]
        BY <1>1 DEF PressTopUp
    <2>2. pay'[i].reply = "none"
        BY <2>1
    <2> QED BY <2>2
<1>8. ~Leave(i)
    BY <1>1 DEF Leave
<1>9. ~HearTopUp(i)
    BY <1>1 DEF HearTopUp, PayState
<1> QED BY <1>5, <1>6, <1>7, <1>8, <1>9

\* Every top-up the form lets through meets the terms of handleTopup, but for
\* its ceiling, and for nothing where the minimum is 0: whatever is
\* configured, and however late that is known.
THEOREM TopupAccepted == Spec => TopupMeetsTerms
<1>1. BillingInv /\ [Next]_vars =>
         [\A i \in Presses : pay'[i].reply = "refused" /\ pay[i].reply = "none"
                                 => pay[i].amount > MaxCents \/ pay[i].amount = 0]_billingVars
    <2> SUFFICES ASSUME BillingInv, Next, NEW i \in Presses,
                        pay'[i].reply = "refused", pay[i].reply = "none"
                 PROVE  pay[i].amount > MaxCents \/ pay[i].amount = 0
        BY DEF vars, billingVars
    <2>1. AnswerTopUp(i)
        BY RefusedByAnswer
    <2>2. pay \in [Presses -> PayState] /\ PaySound(i) /\ NoPay \in PayState
        BY BillingRests DEF BillingInv, BillingTyped
    <2>3. TopUpVerdict(i) = "refused" /\ pay[i].step = "sent"
        BY <2>1, <2>2 DEF AnswerTopUp, NoPay
    <2>4. \/ ~(pay[i].amount >= 1) \/ pay[i].amount \notin MinCents..MaxCents
          \/ pay[i].provider \notin offered
        BY <2>3 DEF TopUpVerdict
    <2>5. pay[i].amount \in Nat
        BY <2>2, BillingAssumption DEF PayState
    <2> QED BY <2>2, <2>3, <2>4, <2>5, BillingAssumption DEF PaySound
<1> QED BY <1>1, BillingInvariance, PTL DEF Spec, TopupMeetsTerms

-----------------------------------------------------------------------------
(* The orders page *)

ordersInvVars == <<balance, ordersVars>>

PageLoads == {"mount"} \cup Retries

OrdersState == [plans : {0} \cup Versions, wallet : Wallets, loading : BOOLEAN, error : BOOLEAN,
                plan : {0} \cup PlanIds, quantity : Counts, submitting : BOOLEAN]
LoadState == [step : {"idle", "sent", "answered"}, plans : {0} \cup Versions, wallet : Wallets,
              choose : BOOLEAN, failed : BOOLEAN]
OrderState == [step : {"idle", "sent", "answered", "reload", "refresh"},
               plan : {0} \cup PlanIds, quantity : Counts, plans : {0} \cup Versions,
               wallet : Wallets, reply : OrderReplies, mine : BOOLEAN]

OrdersTyped ==
    /\ balance \in Nat /\ catalogue \in Versions
    /\ orders \in OrdersState
    /\ load \in [Loaders -> LoadState]
    /\ order \in [Presses -> OrderState]

\* What the form let through, by what the page had read: a number fits, and
\* NaN passes.
Fits(o) ==
    /\ o.plan \in PlansOf(o.plans)
    /\ o.quantity # NaN =>
         /\ o.quantity >= Catalogues[o.plans][o.plan].min
         /\ o.wallet # NoWallet => Catalogues[o.plans][o.plan].price * o.quantity <= o.wallet

OrderSound(i) ==
    /\ order[i].mine => orders.submitting /\ orders.plan # 0
    /\ order[i].step = "sent" => Fits(order[i])

\* A load that is to choose a plan is the only one of a page without any.
LoadSound(l) ==
    load[l].step # "idle" =>
        IF load[l].choose
        THEN /\ orders.plan = 0 /\ ~orders.error
             /\ \A m \in PageLoads : load[m].step # "idle" => m = l
        ELSE orders.plan # 0

ChoiceSound ==
    /\ orders.plan = 0 => PlansOf(orders.plans) = {}
    /\ \A l \in PageLoads : LoadSound(l)
    /\ \A i \in Presses : ~load[i].choose

OrdersInv ==
    /\ OrdersTyped
    /\ \A i \in Presses : OrderSound(i)
    /\ ChoiceSound
    /\ OneOrderPerPage

LEMMA Slots ==
    /\ PageLoads \subseteq Loaders /\ Presses \subseteq Loaders
    /\ Loaders = PageLoads \cup Presses /\ PageLoads \cap Presses = {}
    /\ "mount" \in PageLoads /\ Retries \subseteq PageLoads
BY OrdersAssumption, ClientAssumption DEF PageLoads, Loaders

LEMMA OrdersRests ==
    /\ FreshOrders \in OrdersState /\ FreshOrders.plan = 0 /\ FreshOrders.plans = 0
    /\ ~FreshOrders.error
    /\ NoLoad \in LoadState /\ NoLoad.step = "idle" /\ ~NoLoad.choose
    /\ NoOrder \in OrderState /\ NoOrder.step = "idle" /\ ~NoOrder.mine
    /\ PlansOf(0) = {}
BY DEF FreshOrders, NoLoad, NoOrder, OrdersState, LoadState, OrderState, OrderReplies, Wallets,
       PlansOf, Counts

LEMMA StartedLoad ==
    ASSUME NEW c \in BOOLEAN
    PROVE  Started(c) \in LoadState /\ Started(c).step = "sent" /\ Started(c).choose = c
BY DEF Started, NoLoad, LoadState, Wallets

\* A quantity is a number, of one at least, or none at all.
LEMMA QuantitiesCount ==
    /\ {1} \cup Quantities \subseteq Counts /\ NaN \in Counts /\ NaN \notin Int
    /\ \A n \in Counts : n # NaN => n \in Nat \ {0}
BY OrdersAssumption DEF Counts

\* A plan on sale, and the first one of a list.
LEMMA OnSale ==
    ASSUME NEW v \in {0} \cup Versions, NEW p \in PlansOf(v)
    PROVE  /\ v \in Versions /\ p \in PlanIds /\ p # 0 /\ p \in Nat
           /\ Catalogues[v][p].price \in Nat
           /\ Catalogues[v][p].min \in Counts /\ Catalogues[v][p].min \in Nat
BY OrdersAssumption DEF PlansOf, Versions, Counts

LEMMA FirstOnSale ==
    ASSUME NEW v \in {0} \cup Versions, PlansOf(v) # {}
    PROVE  FirstPlan(v) \in PlansOf(v)
<1>1. PlansOf(v) \subseteq Nat
    BY OnSale
<1>2. PICK p \in PlansOf(v) : \A q \in PlansOf(v) : ~(<<q, p>> \in OpToRel(<, Nat))
    BY <1>1, WFMin, NatLessThanWellFounded
<1>3. OpToRel(<, Nat) = {ss \in Nat \X Nat : ss[1] < ss[2]}
    BY Zenon DEF OpToRel
<1>4. ASSUME NEW q \in PlansOf(v) PROVE p <= q
    <2>1. q \in Nat /\ p \in Nat
        BY <1>1
    <2>2. <<q, p>> \in Nat \X Nat
        BY <2>1
    <2>3. ~(<<q, p>>[1] < <<q, p>>[2])
        BY <1>2, <1>3, <2>2, Zenon
    <2> QED BY <2>1, <2>3
<1> QED BY <1>4 DEF FirstPlan

LEMMA OrdersFresh ==
    ASSUME balance \in Nat, catalogue \in Versions, orders = FreshOrders,
           load = [l \in Loaders |-> NoLoad], order = [i \in Presses |-> NoOrder]
    PROVE  OrdersInv
<1>1. (\A l \in Loaders : load[l] = NoLoad) /\ (\A i \in Presses : order[i] = NoOrder)
    OBVIOUS
<1>2. OrdersTyped
    BY OrdersRests DEF OrdersTyped
<1>3. ChoiceSound
    BY <1>1, OrdersRests, Slots DEF ChoiceSound, LoadSound
<1> QED BY <1>1, <1>2, <1>3, OrdersRests DEF OrdersInv, OrderSound, OneOrderPerPage

LEMMA OrdersInitInv == Init => OrdersInv
<1> SUFFICES ASSUME Init PROVE OrdersInv
    OBVIOUS
<1>1. balance \in Nat
    BY ClientAssumption DEF Init, ClientInit
<1>2. catalogue \in Versions
    <2>1. Len(Catalogues) \in Nat /\ Len(Catalogues) # 0
        BY OrdersAssumption DEF OrdersInit
    <2> QED BY <2>1 DEF Init, OrdersInit, Versions
<1> QED BY <1>1, <1>2, OrdersFresh DEF Init, OrdersInit

\* A step that changes the shop only.
LEMMA OrdersStay ==
    ASSUME OrdersInv, UNCHANGED <<orders, load, order>>, balance' \in Nat,
           catalogue' \in Versions
    PROVE  OrdersInv'
<1>1. OrdersTyped'
    BY DEF OrdersInv, OrdersTyped
<1>2. \A i \in Presses : OrderSound(i)'
    BY DEF OrdersInv, OrderSound, Fits
<1>3. ChoiceSound' /\ OneOrderPerPage'
    BY DEF OrdersInv, ChoiceSound, LoadSound, OneOrderPerPage
<1> QED BY <1>1, <1>2, <1>3 DEF OrdersInv

LEMMA OrdersLostInv ==
    ASSUME OrdersInv, OrdersLost, balance' \in Nat
    PROVE  OrdersInv'
<1>1. (\A l \in Loaders : load'[l] = NoLoad) /\ (\A i \in Presses : order'[i] = NoOrder)
         /\ orders' = FreshOrders /\ catalogue' = catalogue
    BY DEF OrdersLost
<1>2. OrdersTyped'
    BY <1>1, OrdersRests DEF OrdersLost, OrdersInv, OrdersTyped
<1>3. ChoiceSound'
    BY <1>1, OrdersRests, Slots DEF ChoiceSound, LoadSound
<1> QED BY <1>1, <1>2, <1>3, OrdersRests DEF OrdersInv, OrderSound, OneOrderPerPage

LEMMA OrdersTurnInv ==
    ASSUME OrdersInv, NEW ended \in SUBSET Presses, OrdersTurn(ended), balance' \in Nat
    PROVE  OrdersInv'
<1> DEFINE stays == Shown("orders") /\ Shown("orders")'
<1>1. PICK s \in BOOLEAN : s = stays
    OBVIOUS
<1>2. /\ orders' = IF s THEN orders ELSE FreshOrders
      /\ load' = [l \in Loaders |->
                    IF l \in Presses \/ s THEN load[l]
                    ELSE IF l = "mount" /\ Shown("orders")' THEN Started(TRUE) ELSE NoLoad]
      /\ order' = [i \in Presses |-> IF i \in ended THEN NoOrder
                                     ELSE [order[i] EXCEPT !.mine = @ /\ s]]
      /\ catalogue' = catalogue
    BY <1>1 DEF OrdersTurn
<1> HIDE DEF stays
<1>3. ASSUME NEW i \in Presses
      PROVE  /\ order'[i] \in OrderState
             /\ order'[i].mine => order[i].mine /\ s
             /\ order'[i].step = "sent" => Fits(order[i]) /\ Fits(order'[i])
    <2>1. CASE i \in ended
        BY <1>2, <2>1, OrdersRests
    <2>2. CASE i \notin ended
        <3>1. PICK m \in BOOLEAN : m = (order[i].mine /\ s)
            OBVIOUS
        <3>2. order'[i] = [order[i] EXCEPT !.mine = m]
            BY <1>2, <2>2, <3>1
        <3>3. order[i] \in OrderState /\ OrderSound(i)
            BY DEF OrdersInv, OrdersTyped
        <3>4. /\ order'[i] \in OrderState /\ order'[i].mine = m
              /\ order'[i].step = order[i].step /\ order'[i].plan = order[i].plan
              /\ order'[i].plans = order[i].plans /\ order'[i].quantity = order[i].quantity
              /\ order'[i].wallet = order[i].wallet
            BY <3>2, <3>3 DEF OrderState
        <3> QED BY <3>1, <3>3, <3>4 DEF OrderSound, Fits
    <2> QED BY <2>1, <2>2
<1>4. ASSUME NEW l \in Loaders
      PROVE  /\ load'[l] \in LoadState
             /\ l \in Presses \/ s => load'[l] = load[l]
             /\ l \in PageLoads /\ ~s /\ load'[l].step # "idle" => l = "mount" /\ load'[l].choose
    <2>1. load[l] \in LoadState
        BY DEF OrdersInv, OrdersTyped
    <2> QED BY <1>2, <2>1, OrdersRests, StartedLoad, Slots
<1>5. OrdersTyped'
    <2>1. orders' \in OrdersState
        BY <1>2, OrdersRests DEF OrdersInv, OrdersTyped
    <2>2. load' \in [Loaders -> LoadState] /\ order' \in [Presses -> OrderState]
        BY <1>2, <1>3, <1>4
    <2> QED BY <1>2, <2>1, <2>2 DEF OrdersInv, OrdersTyped
<1>6. \A i \in Presses : OrderSound(i)'
    BY <1>2, <1>3 DEF OrdersInv, OrderSound, Fits
<1>7. ChoiceSound'
    <2>1. CASE s
        <3>1. orders' = orders /\ \A l \in Loaders : load'[l] = load[l]
            BY <1>2, <1>4, <2>1
        <3> QED BY <3>1, Slots DEF OrdersInv, ChoiceSound, LoadSound
    <2>2. CASE ~s
        <3>1. orders' = FreshOrders
            BY <1>2, <2>2
        <3>2. \A l \in PageLoads : load'[l].step # "idle" => l = "mount" /\ load'[l].choose
            BY <1>4, <2>2, Slots
        <3>3. \A i \in Presses : ~load'[i].choose
            BY <1>4, Slots DEF OrdersInv, ChoiceSound
        <3> QED BY <3>1, <3>2, <3>3, OrdersRests DEF ChoiceSound, LoadSound
    <2> QED BY <2>1, <2>2
<1>8. OneOrderPerPage'
    BY <1>3 DEF OrdersInv, OneOrderPerPage
<1> QED BY <1>5, <1>6, <1>7, <1>8 DEF OrdersInv

\* The page a load has ended for.
LEMMA AfterLoadIs ==
    ASSUME OrdersInv, NEW l \in Loaders
    PROVE  /\ AfterLoad(l) \in OrdersState
           /\ AfterLoad(l).submitting = orders.submitting
           /\ AfterLoad(l).plan = 0 => orders.plan = 0
           /\ orders.plan = 0 /\ load[l].choose /\ AfterLoad(l).plan = 0
                => PlansOf(AfterLoad(l).plans) = {}
           /\ ~load[l].choose => AfterLoad(l).plan = orders.plan
<1>1. orders \in OrdersState /\ load[l] \in LoadState
         /\ (orders.plan = 0 => PlansOf(orders.plans) = {})
    BY DEF OrdersInv, OrdersTyped, ChoiceSound
<1>2. CASE load[l].failed
    <2>1. AfterLoad(l) = [orders EXCEPT !.loading = FALSE, !.error = TRUE]
        BY <1>2 DEF AfterLoad
    <2> QED BY <1>1, <2>1 DEF OrdersState
<1>3. CASE ~load[l].failed /\ load[l].choose /\ PlansOf(load[l].plans) # {}
    <2> DEFINE v == load[l].plans
               p == FirstPlan(v)
               n == Catalogues[v][p].min
    <2>1. AfterLoad(l) = [orders EXCEPT !.loading = FALSE, !.plans = v, !.wallet = load[l].wallet,
                                        !.plan = p, !.quantity = n]
        BY <1>3 DEF AfterLoad
    <2>2. v \in {0} \cup Versions /\ load[l].wallet \in Wallets
        BY <1>1 DEF LoadState
    <2>3. p \in PlanIds /\ p # 0 /\ n \in Counts
        BY <1>3, <2>2, FirstOnSale, OnSale
    <2> HIDE DEF v, p, n
    <2>4. AfterLoad(l) \in OrdersState /\ AfterLoad(l).submitting = orders.submitting
             /\ AfterLoad(l).plan = p
        BY <1>1, <2>1, <2>2, <2>3 DEF OrdersState
    <2> QED BY <1>3, <2>3, <2>4
<1>4. CASE ~load[l].failed /\ ~(load[l].choose /\ PlansOf(load[l].plans) # {})
    <2>1. AfterLoad(l) = [orders EXCEPT !.loading = FALSE, !.plans = load[l].plans,
                                        !.wallet = load[l].wallet, !.plan = orders.plan,
                                        !.quantity = orders.quantity]
        BY <1>4 DEF AfterLoad
    <2>2. AfterLoad(l) \in OrdersState /\ AfterLoad(l).submitting = orders.submitting
             /\ AfterLoad(l).plan = orders.plan /\ AfterLoad(l).plans = load[l].plans
        BY <1>1, <2>1 DEF OrdersState, LoadState
    <2> QED BY <1>4, <2>2
<1> QED BY <1>2, <1>3, <1>4

LEMMA LoadSteps ==
    ASSUME OrdersInv, NEW l \in Loaders, NEW m \in LoadState, load' = [load EXCEPT ![l] = m]
    PROVE  /\ load' \in [Loaders -> LoadState]
           /\ load'[l] = m
           /\ \A n \in Loaders : n # l => load'[n] = load[n]
BY DEF OrdersInv, OrdersTyped

LEMMA OrderSteps ==
    ASSUME OrdersInv, NEW i \in Presses, NEW o \in OrderState, order' = [order EXCEPT ![i] = o]
    PROVE  /\ order' \in [Presses -> OrderState]
           /\ order'[i] = o
           /\ \A j \in Presses : j # i => order'[j] = order[j]
BY DEF OrdersInv, OrdersTyped

\* A step of the form that sends nothing, and leaves a plan chosen.
LEMMA OrderFormInv ==
    ASSUME OrdersInv, NEW b \in OrdersState, orders' = b, UNCHANGED <<catalogue, load, order>>,
           UNCHANGED balance, b.submitting = orders.submitting, orders.plan # 0, b.plan # 0
    PROVE  OrdersInv'
<1>1. OrdersTyped'
    BY DEF OrdersInv, OrdersTyped
<1>2. (\A i \in Presses : OrderSound(i)') /\ OneOrderPerPage'
    BY DEF OrdersInv, OrderSound, OneOrderPerPage, Fits
<1>3. ChoiceSound'
    BY Slots DEF OrdersInv, ChoiceSound, LoadSound
<1> QED BY <1>1, <1>2, <1>3 DEF OrdersInv

\* A step of a submission, which may turn the button on or off.
LEMMA SubmissionInv ==
    ASSUME OrdersInv, NEW i \in Presses, NEW o \in OrderState, order' = [order EXCEPT ![i] = o],
           NEW submitting \in BOOLEAN, orders' = [orders EXCEPT !.submitting = submitting],
           balance' \in Nat, UNCHANGED <<catalogue, load>>,
           o.mine => submitting /\ orders.plan # 0,
           o.mine => order[i].mine \/ ~orders.submitting,
           ~submitting => ~orders.submitting \/ order[i].mine,
           o.step = "sent" => Fits(o)
    PROVE  OrdersInv'
<1>1. /\ order' \in [Presses -> OrderState]
      /\ order'[i] = o
      /\ \A j \in Presses : j # i => order'[j] = order[j]
    BY OrderSteps
<1>2. /\ orders' \in OrdersState /\ orders'.submitting = submitting
      /\ orders'.plan = orders.plan /\ orders'.plans = orders.plans /\ orders'.error = orders.error
    BY DEF OrdersInv, OrdersTyped, OrdersState
<1>3. OrdersTyped'
    BY <1>1, <1>2 DEF OrdersInv, OrdersTyped
<1>4. ASSUME NEW j \in Presses PROVE OrderSound(j)'
    <2>1. CASE j = i
        BY <1>1, <1>2, <2>1 DEF OrderSound, Fits
    <2>2. CASE j # i
        BY <1>1, <1>2, <2>2 DEF OrdersInv, OrderSound, OneOrderPerPage, Fits
    <2> QED BY <2>1, <2>2
<1>5. ChoiceSound'
    BY <1>2 DEF OrdersInv, ChoiceSound, LoadSound
<1>6. OneOrderPerPage'
    BY <1>1 DEF OrdersInv, OrderSound, OneOrderPerPage
<1> QED BY <1>3, <1>4, <1>5, <1>6 DEF OrdersInv

LEMMA AnswerLoadInv ==
    ASSUME OrdersInv, NEW l \in Loaders, AnswerLoad(l)
    PROVE  OrdersInv'
<1>1. load[l] \in LoadState /\ load[l].step = "sent" /\ balance \in Wallets
         /\ catalogue \in {0} \cup Versions
    BY DEF AnswerLoad, OrdersInv, OrdersTyped, Wallets
<1>2. UNCHANGED <<balance, catalogue, orders, order>>
    BY DEF AnswerLoad, clientVars, shopVars
<1>3. PICK m \in LoadState : /\ load' = [load EXCEPT ![l] = m]
                             /\ m.step = "answered" /\ m.choose = load[l].choose
    <2>1. PICK x \in Outcomes(TRUE) :
             load' = [load EXCEPT ![l] =
                         IF x = "ok" THEN [@ EXCEPT !.step = "answered", !.plans = catalogue,
                                                    !.wallet = balance]
                         ELSE [@ EXCEPT !.step = "answered", !.failed = TRUE]]
        BY DEF AnswerLoad
    <2> DEFINE m == IF x = "ok" THEN [load[l] EXCEPT !.step = "answered", !.plans = catalogue,
                                                     !.wallet = balance]
                    ELSE [load[l] EXCEPT !.step = "answered", !.failed = TRUE]
    <2>2. load' = [load EXCEPT ![l] = m]
        BY <2>1 DEF OrdersInv, OrdersTyped
    <2>3. m \in LoadState /\ m.step = "answered" /\ m.choose = load[l].choose
        BY <1>1 DEF LoadState
    <2> QED BY <2>2, <2>3
<1>4. /\ load' \in [Loaders -> LoadState]
      /\ load'[l] = m
      /\ \A n \in Loaders : n # l => load'[n] = load[n]
    BY <1>3, LoadSteps
<1>5. OrdersTyped'
    BY <1>2, <1>4 DEF OrdersInv, OrdersTyped
<1>6. ChoiceSound'
    BY <1>1, <1>2, <1>3, <1>4, Slots DEF OrdersInv, ChoiceSound, LoadSound
<1> QED BY <1>2, <1>5, <1>6 DEF OrdersInv, OrderSound, OneOrderPerPage, Fits

LEMMA HearLoadInv ==
    ASSUME OrdersInv, NEW l \in Loaders, HearLoad(l)
    PROVE  OrdersInv'
<1>1. /\ l \in PageLoads /\ load[l].step # "idle"
      /\ orders' = AfterLoad(l) /\ load' = [load EXCEPT ![l] = NoLoad]
      /\ UNCHANGED <<balance, catalogue, order>>
    BY DEF HearLoad, Loaded, PageLoads, clientVars, shopVars
<1>2. /\ load' \in [Loaders -> LoadState]
      /\ load'[l] = NoLoad
      /\ \A n \in Loaders : n # l => load'[n] = load[n]
    BY <1>1, OrdersRests, LoadSteps
<1>3. OrdersTyped'
    BY <1>1, <1>2, AfterLoadIs DEF OrdersInv, OrdersTyped
<1>4. ChoiceSound'
    <2>1. LoadSound(l)
        BY <1>1 DEF OrdersInv, ChoiceSound
    <2>2. orders'.plan = 0 => PlansOf(orders'.plans) = {}
        BY <1>1, <2>1, AfterLoadIs DEF LoadSound
    <2>3. ASSUME NEW m \in PageLoads, load'[m].step # "idle" PROVE LoadSound(m)'
        <3>1. m # l /\ load'[m] = load[m] /\ LoadSound(m)
            BY <1>2, <2>3, OrdersRests, Slots DEF OrdersInv, ChoiceSound
        <3>2. ~load[m].choose /\ orders.plan # 0
            BY <1>1, <2>3, <3>1 DEF LoadSound
        <3>3. orders'.plan # 0
            BY <1>1, <3>2, AfterLoadIs
        <3> QED BY <3>1, <3>2, <3>3 DEF LoadSound
    <2>4. \A m \in PageLoads : LoadSound(m)'
        BY <2>3 DEF LoadSound
    <2>5. \A i \in Presses : ~load'[i].choose
        BY <1>2, OrdersRests, Slots DEF OrdersInv, ChoiceSound
    <2> QED BY <2>2, <2>4, <2>5 DEF ChoiceSound
<1>5. \A i \in Presses : OrderSound(i)'
    BY <1>1, AfterLoadIs DEF OrdersInv, OrderSound, Fits
<1> QED BY <1>1, <1>3, <1>4, <1>5 DEF OrdersInv, OneOrderPerPage

LEMMA RetryInv ==
    ASSUME OrdersInv, NEW l \in Retries, Retry(l)
    PROVE  OrdersInv'
<1>1. PICK c \in BOOLEAN : c = (orders.plan = 0)
    OBVIOUS
<1>2. /\ l \in PageLoads /\ orders.error
      /\ orders' = [orders EXCEPT !.error = FALSE]
      /\ load' = [load EXCEPT ![l] = Started(c)]
      /\ UNCHANGED <<balance, catalogue, order>>
    BY <1>1 DEF Retry, PageLoads, clientVars, shopVars
<1>3. /\ load' \in [Loaders -> LoadState]
      /\ load'[l] = Started(c)
      /\ \A n \in Loaders : n # l => load'[n] = load[n]
    BY <1>2, StartedLoad, Slots, LoadSteps
<1>4. /\ orders' \in OrdersState /\ orders'.submitting = orders.submitting
      /\ orders'.plan = orders.plan /\ orders'.plans = orders.plans /\ ~orders'.error
    BY <1>2 DEF OrdersInv, OrdersTyped, OrdersState
<1>5. OrdersTyped'
    BY <1>2, <1>3, <1>4 DEF OrdersInv, OrdersTyped
<1>6. ChoiceSound'
    <2>1. \A m \in PageLoads : load[m].step # "idle" => ~load[m].choose /\ orders.plan # 0
        BY <1>2 DEF OrdersInv, ChoiceSound, LoadSound
    <2>2. ASSUME NEW m \in PageLoads, load'[m].step # "idle" PROVE LoadSound(m)'
        <3>1. m # l => load'[m] = load[m]
            BY <1>3, Slots
        <3>2. CASE orders.plan = 0
            <4>1. \A k \in PageLoads : load'[k].step # "idle" => k = l
                BY <1>3, <2>1, <3>2, Slots
            <4>2. m = l /\ load'[m].choose
                BY <1>1, <1>3, <2>2, <3>2, <4>1, StartedLoad
            <4> QED BY <1>4, <3>2, <4>1, <4>2 DEF LoadSound
        <3>3. CASE orders.plan # 0
            <4>1. ~load'[m].choose
                BY <1>1, <1>3, <2>1, <2>2, <3>1, <3>3, StartedLoad
            <4> QED BY <1>4, <3>3, <4>1 DEF LoadSound
        <3> QED BY <3>2, <3>3
    <2>3. \A i \in Presses : ~load'[i].choose
        BY <1>2, <1>3, Slots DEF OrdersInv, ChoiceSound
    <2>4. \A m \in PageLoads : LoadSound(m)'
        BY <2>2 DEF LoadSound
    <2> QED BY <1>4, <2>3, <2>4 DEF OrdersInv, ChoiceSound
<1>7. \A i \in Presses : OrderSound(i)'
    BY <1>2, <1>4 DEF OrdersInv, OrderSound, Fits
<1> QED BY <1>2, <1>5, <1>6, <1>7 DEF OrdersInv, OneOrderPerPage

LEMMA ChoosePlanInv ==
    ASSUME OrdersInv, NEW p \in PlanIds, ChoosePlan(p)
    PROVE  OrdersInv'
<1> DEFINE n == Catalogues[orders.plans][p].min
<1>1. /\ p \in PlansOf(orders.plans) /\ orders \in OrdersState
      /\ orders' = [orders EXCEPT !.plan = p, !.quantity = n]
      /\ UNCHANGED <<balance, catalogue, load, order>>
    BY DEF ChoosePlan, OrdersInv, OrdersTyped, clientVars, shopVars
<1>2. p # 0 /\ n \in Counts /\ orders.plan # 0
    BY <1>1, OnSale DEF OrdersState, OrdersInv, ChoiceSound
<1> HIDE DEF n
<1>3. orders' \in OrdersState /\ orders'.plan = p /\ orders'.submitting = orders.submitting
         /\ orders'.plans = orders.plans /\ orders'.error = orders.error
    BY <1>1, <1>2 DEF OrdersState
<1> QED BY <1>1, <1>2, <1>3, OrderFormInv

LEMMA TypeQuantityInv ==
    ASSUME OrdersInv, NEW n \in {0, NaN} \cup Quantities, TypeQuantity(n)
    PROVE  OrdersInv'
<1>1. /\ PlansOf(orders.plans) # {} /\ orders \in OrdersState
      /\ orders' = [orders EXCEPT !.quantity = AtLeastOne(n)]
      /\ UNCHANGED <<balance, catalogue, load, order>>
    BY DEF TypeQuantity, FormShown, OrdersInv, OrdersTyped, clientVars, shopVars
<1>2. orders.plan # 0 /\ AtLeastOne(n) \in Counts
    BY <1>1, OrdersAssumption DEF OrdersInv, ChoiceSound, AtLeastOne, Counts
<1>3. orders' \in OrdersState /\ orders'.plan = orders.plan
         /\ orders'.submitting = orders.submitting
         /\ orders'.plans = orders.plans /\ orders'.error = orders.error
    BY <1>1, <1>2 DEF OrdersState
<1> QED BY <1>1, <1>2, <1>3, OrderFormInv

LEMMA SubmitInv ==
    ASSUME OrdersInv, NEW i \in Presses, Submit(i)
    PROVE  OrdersInv'
<1> DEFINE o == [step |-> "sent", plan |-> orders.plan, quantity |-> orders.quantity,
                 plans |-> orders.plans, wallet |-> orders.wallet, reply |-> "none",
                 mine |-> TRUE]
<1>1. /\ SelectedPlan /\ ~Insufficient /\ ~orders.submitting
      /\ orders.quantity # NaN => orders.quantity >= Selected.min
      /\ order' = [order EXCEPT ![i] = o]
      /\ orders' = [orders EXCEPT !.submitting = TRUE]
      /\ UNCHANGED <<balance, catalogue, load>>
      /\ orders \in OrdersState /\ balance \in Nat
    BY DEF Submit, MayOrder, ButtonOn, OrdersInv, OrdersTyped, clientVars, shopVars
<1>2. o \in OrderState
    BY <1>1 DEF OrdersState, OrderState, OrderReplies
<1>3. orders.plan # 0 /\ Selected.price \in Nat
    BY <1>1, OnSale DEF SelectedPlan, Selected, OrdersState
<1>4. Fits(o)
    <2>1. ASSUME orders.quantity # NaN, orders.wallet # NoWallet
          PROVE  Selected.price * orders.quantity <= orders.wallet
        <3>1. orders.quantity \in Nat
            BY <1>1, <2>1, QuantitiesCount DEF OrdersState
        <3>2. PICK total \in Int : total = Selected.price * orders.quantity
            BY <1>3, <3>1
        <3>3. TotalCents = total /\ total # NaN
            BY <1>1, <2>1, <3>2, QuantitiesCount DEF TotalCents
        <3> QED BY <1>1, <2>1, <3>2, <3>3 DEF Insufficient, OrdersState, Wallets
    <2> QED BY <1>1, <2>1 DEF Fits, SelectedPlan, Selected
<1> HIDE DEF o
<1>5. o.mine
    BY DEF o
<1> QED BY <1>1, <1>2, <1>3, <1>4, <1>5, SubmissionInv

\* Of an order, the shop's total is a price.
LEMMA TotalIs ==
    ASSUME OrdersInv, NEW i \in Presses, order[i].plan \in PlansOf(catalogue),
           order[i].quantity \in Nat
    PROVE  Total(i) \in Nat
<1>1. catalogue \in {0} \cup Versions
    BY DEF OrdersInv, OrdersTyped
<1> QED BY <1>1, OnSale DEF Total

LEMMA AnswerOrderInv ==
    ASSUME OrdersInv, NEW i \in Presses, AnswerOrder(i)
    PROVE  OrdersInv'
<1>1. order[i] \in OrderState /\ OrderSound(i) /\ orders \in OrdersState /\ balance \in Nat
    BY DEF OrdersInv, OrdersTyped
<1>2. Verdict(i) \in OrderReplies
    BY DEF Verdict, OrderReplies
<1>3. PICK reply \in OrderReplies, done \in BOOLEAN :
         /\ order' = [order EXCEPT ![i] = [NoOrder EXCEPT !.step = "answered",
                                                          !.mine = order[i].mine, !.reply = reply]]
         /\ done => Verdict(i) = "placed"
         /\ balance' = IF done THEN balance - Total(i) ELSE balance
    BY <1>2 DEF AnswerOrder, OrderReplies
<1> DEFINE o == [NoOrder EXCEPT !.step = "answered", !.mine = order[i].mine, !.reply = reply]
<1>4. o \in OrderState /\ o.step = "answered" /\ o.mine = order[i].mine
    BY <1>1, OrdersRests DEF NoOrder, OrderState
<1>5. balance' \in Nat
    <2>1. done => order[i].plan \in PlansOf(catalogue) /\ order[i].quantity \in Nat
        BY <1>3, OrdersAssumption DEF Verdict
    <2>2. done => Total(i) \in Nat /\ ~(balance < Total(i))
        BY <1>3, <2>1, TotalIs DEF Verdict
    <2> QED BY <1>1, <1>3, <2>2
<1>6. orders' = [orders EXCEPT !.submitting = orders.submitting] /\ orders.submitting \in BOOLEAN
         /\ UNCHANGED <<catalogue, load>>
    BY <1>1 DEF AnswerOrder, OrdersState
<1>7. order' = [order EXCEPT ![i] = o]
    BY <1>3
<1> HIDE DEF o
<1> QED BY <1>1, <1>4, <1>5, <1>6, <1>7, SubmissionInv DEF OrderSound

LEMMA HearOrderInv ==
    ASSUME OrdersInv, NEW i \in Presses, HearOrder(i)
    PROVE  OrdersInv'
<1>1. order[i] \in OrderState /\ OrderSound(i) /\ orders \in OrdersState /\ balance' \in Nat
         /\ catalogue' = catalogue /\ balance' = balance
    BY DEF HearOrder, OrdersInv, OrdersTyped, clientVars, shopVars
<1>2. CASE order[i].reply = "placed"
    <2> DEFINE o == [NoOrder EXCEPT !.step = "reload", !.mine = order[i].mine]
    <2>1. o \in OrderState /\ o.step = "reload" /\ o.mine = order[i].mine
        BY <1>1, OrdersRests DEF NoOrder, OrderState
    <2>2. order' = [order EXCEPT ![i] = o] /\ load' = [load EXCEPT ![i] = Started(FALSE)]
             /\ orders' = IF order[i].mine THEN [orders EXCEPT !.error = FALSE] ELSE orders
        BY <1>2 DEF HearOrder
    <2> HIDE DEF o
    <2>3. /\ order' \in [Presses -> OrderState]
          /\ order'[i] = o
          /\ \A j \in Presses : j # i => order'[j] = order[j]
        BY <2>1, <2>2, OrderSteps
    <2>4. /\ load' \in [Loaders -> LoadState]
          /\ load'[i] = Started(FALSE)
          /\ \A n \in Loaders : n # i => load'[n] = load[n]
        BY <2>2, StartedLoad, Slots, LoadSteps
    <2>5. /\ orders' \in OrdersState /\ orders'.submitting = orders.submitting
          /\ orders'.plan = orders.plan /\ orders'.plans = orders.plans
          /\ orders'.error => orders.error
        BY <1>1, <2>2 DEF OrdersState
    <2>6. OrdersTyped'
        BY <1>1, <2>3, <2>4, <2>5 DEF OrdersInv, OrdersTyped
    <2>7. \A j \in Presses : OrderSound(j)'
        BY <1>1, <2>1, <2>3, <2>5 DEF OrdersInv, OrderSound, Fits
    <2>8. ChoiceSound'
        <3>1. \A m \in PageLoads : load'[m] = load[m]
            BY <2>4, Slots
        <3>2. \A j \in Presses : ~load'[j].choose
            BY <2>4, StartedLoad, Slots DEF OrdersInv, ChoiceSound
        <3> QED BY <2>5, <3>1, <3>2 DEF OrdersInv, ChoiceSound, LoadSound
    <2>9. OneOrderPerPage'
        BY <2>1, <2>3 DEF OrdersInv, OneOrderPerPage
    <2> QED BY <2>6, <2>7, <2>8, <2>9 DEF OrdersInv
<1>3. CASE order[i].reply # "placed"
    <2>1. PICK submitting \in BOOLEAN :
             /\ orders' = [orders EXCEPT !.submitting = submitting]
             /\ submitting = IF order[i].mine THEN FALSE ELSE orders.submitting
        BY <1>1, <1>3 DEF HearOrder, OrdersState
    <2>2. order' = [order EXCEPT ![i] = NoOrder] /\ UNCHANGED load
        BY <1>3 DEF HearOrder
    <2> QED BY <1>1, <2>1, <2>2, OrdersRests, SubmissionInv
<1> QED BY <1>2, <1>3

LEMMA HearOrderLoadKeeps ==
    ASSUME OrdersInv, NEW i \in Presses, HearOrderLoad(i)
    PROVE  OrdersInv'
<1>1. order[i] \in OrderState /\ OrderSound(i) /\ orders \in OrdersState
         /\ UNCHANGED <<balance, catalogue>>
    BY DEF HearOrderLoad, OrdersInv, OrdersTyped, shopVars
<1> DEFINE o == [order[i] EXCEPT !.step = "refresh"]
<1>2. o \in OrderState /\ o.step = "refresh" /\ o.mine = order[i].mine
    BY <1>1 DEF OrderState
<1>3. order' = [order EXCEPT ![i] = o]
    BY DEF HearOrderLoad, OrdersInv, OrdersTyped
<1> HIDE DEF o
<1>4. /\ order' \in [Presses -> OrderState]
      /\ order'[i] = o
      /\ \A j \in Presses : j # i => order'[j] = order[j]
    BY <1>2, <1>3, OrderSteps
<1>5. /\ load' \in [Loaders -> LoadState]
      /\ load'[i] = NoLoad
      /\ \A n \in Loaders : n # i => load'[n] = load[n]
    BY OrdersRests, Slots, LoadSteps DEF HearOrderLoad
<1>6. orders' = IF order[i].mine THEN AfterLoad(i) ELSE orders
    BY DEF HearOrderLoad
<1>7. ~load[i].choose /\ i \in Loaders
    BY Slots DEF OrdersInv, ChoiceSound
<1>8. /\ orders' \in OrdersState /\ orders'.submitting = orders.submitting
      /\ orders'.plan = orders.plan
    BY <1>1, <1>6, <1>7, AfterLoadIs
<1>9. OrdersTyped'
    BY <1>1, <1>4, <1>5, <1>8 DEF OrdersInv, OrdersTyped
<1>10. \A j \in Presses : OrderSound(j)'
    BY <1>2, <1>4, <1>8 DEF OrdersInv, OrderSound, Fits
<1>11. ChoiceSound'
    <2>1. \A m \in PageLoads : load'[m] = load[m]
        BY <1>5, Slots
    <2>2. \A j \in Presses : ~load'[j].choose
        BY <1>5, OrdersRests, Slots DEF OrdersInv, ChoiceSound
    <2>3. CASE order[i].mine
        <3>1. orders.plan # 0
            BY <1>1, <2>3 DEF OrderSound
        <3> QED BY <1>8, <2>1, <2>2, <3>1 DEF OrdersInv, ChoiceSound, LoadSound
    <2>4. CASE ~order[i].mine
        BY <1>6, <2>1, <2>2, <2>4 DEF OrdersInv, ChoiceSound, LoadSound
    <2> QED BY <2>3, <2>4
<1>12. OneOrderPerPage'
    BY <1>2, <1>4 DEF OrdersInv, OneOrderPerPage
<1> QED BY <1>9, <1>10, <1>11, <1>12 DEF OrdersInv

LEMMA PublishInv ==
    ASSUME OrdersInv, Publish
    PROVE  OrdersInv'
<1>1. Len(Catalogues) \in Nat /\ catalogue \in 1..Len(Catalogues)
    BY OrdersAssumption DEF OrdersInv, OrdersTyped, Versions
<1>2. catalogue' \in Versions /\ balance' \in Nat
    BY <1>1 DEF Publish, OrdersInv, OrdersTyped, Versions, clientVars, shopVars
<1> QED BY <1>2, OrdersStay DEF Publish

LEMMA OrdersStep ==
    ASSUME Next, balance \in Nat
    PROVE  \/ (\E ended \in SUBSET Presses : OrdersTurn(ended)) /\ balance' \in Nat
           \/ OrdersLost /\ balance' \in Nat
           \/ OrdersNext
           \/ UNCHANGED ordersVars /\ balance' \in Nat
<1>1. CASE FrameStep
    <2>1. balance' = balance
        BY <1>1 DEF FrameStep, HearMe, Redirect, Visit, PressLogout, HearLogout, HearSignedIn,
                    HearRefresh, shopVars
    <2>2. \E ended \in SUBSET Presses : OrdersTurn(ended)
        BY <1>1 DEF FrameStep, Turns
    <2> QED BY <2>1, <2>2
<1>2. CASE Reload
    BY <1>2 DEF Reload, Open, SignInWithGoogle, NewDocument
<1>3. CASE UpstreamStep
    <2>1. UNCHANGED ordersVars
        BY <1>3 DEF UpstreamStep
    <2>2. balance' = balance \/ balance' \in Money
        BY <1>3 DEF UpstreamStep, AnswerMe, AnswerLogout, Expire, MoveBalance, shopVars
    <2>3. Money \subseteq Nat
        BY ClientAssumption
    <2>4. balance' \in Nat
        BY <2>2, <2>3
    <2> QED BY <2>1, <2>4
<1>4. CASE OnOrders(OrdersNext)
    BY <1>4 DEF OnOrders
<1>5. CASE OnBilling(BillingNext) \/ OnBilling(GoBack /\ Quiet)
    <2>1. UNCHANGED ordersVars
        BY <1>5 DEF OnBilling
    <2>2. balance' = balance
        BY <1>5 DEF OnBilling, BillingNext, AnswerBilling, HearBilling, HearBillingConfig, HearConfig,
                    TypeAmount, ChooseProvider, PressTopUp, AnswerTopUp, HearTopUp, Leave, GoBack,
                    clientVars, shopVars
    <2> QED BY <2>1, <2>2
<1>6. CASE OnAccount(AccountNext)
    BY <1>6 DEF OnAccount, AccountNext, AnswerOverview, HearOverview, AnswerList, HearList,
                RetryList, PressUsage, AnswerUsage, HearUsage, Copy, CopyTimesOut, clientVars, shopVars
<1>7. CASE OnSignIn(SignInNext)
    BY <1>7 DEF OnSignIn, SignInNext, HearSignInConfig, HearConfig, ScriptLoads, Verify,
                TokenExpires, SubmitForm, AnswerRefused, AnswerVerified, HearSignInError,
                clientVars, shopVars
<1> QED BY <1>1, <1>2, <1>3, <1>4, <1>5, <1>6, <1>7 DEF Next

LEMMA OrdersNextInv == OrdersInv /\ [Next]_vars => OrdersInv'
<1> SUFFICES ASSUME OrdersInv, [Next]_vars PROVE OrdersInv'
    OBVIOUS
<1>1. balance \in Nat /\ catalogue \in Versions
    BY DEF OrdersInv, OrdersTyped
<1>2. CASE UNCHANGED vars
    BY <1>1, <1>2, OrdersStay DEF vars, clientVars, shopVars, ordersVars
<1>3. CASE OrdersNext
    BY <1>3, AnswerLoadInv, HearLoadInv, RetryInv, ChoosePlanInv, TypeQuantityInv, SubmitInv,
       AnswerOrderInv, HearOrderInv, HearOrderLoadKeeps, PublishInv DEF OrdersNext
<1>4. CASE Next /\ ~OrdersNext
    BY <1>1, <1>4, OrdersStep, OrdersTurnInv, OrdersLostInv, OrdersStay DEF ordersVars
<1> QED BY <1>2, <1>3, <1>4

\* The inductive invariant of the orders page holds in every reachable state.
THEOREM OrdersInvariance == Spec => []OrdersInv
BY OrdersInitInv, OrdersNextInv, PTL DEF Spec

\* No page has two of its submissions under way, whatever the customer
\* presses and wherever they go: submit and handleTopup run once a press.
THEOREM SubmittedOnce == Spec => []NoDoubleSubmit
<1>1. OrdersInv /\ BillingInv => NoDoubleSubmit
    BY DEF OrdersInv, BillingInv, NoDoubleSubmit
<1> QED BY <1>1, OrdersInvariance, BillingInvariance, PTL

\* Only an answer refuses an order.
LEMMA OrderRefused ==
    ASSUME OrdersInv, Next, NEW i \in Presses, order'[i].reply # "none",
           order[i].reply = "none"
    PROVE  AnswerOrder(i)
<1>1. order \in [Presses -> OrderState] /\ NoOrder.reply = "none"
    BY DEF OrdersInv, OrdersTyped, NoOrder
<1>2. order' # order /\ order'[i] # NoOrder
    BY <1>1
<1>3. ASSUME NEW ended \in SUBSET Presses, OrdersTurn(ended) PROVE FALSE
    <2>1. order'[i] = [order[i] EXCEPT !.mine = @ /\ Shown("orders") /\ Shown("orders")']
        BY <1>2, <1>3 DEF OrdersTurn
    <2>2. order'[i].reply = order[i].reply
        BY <1>1, <2>1 DEF OrderState
    <2> QED BY <1>1, <2>2
<1>4. ~OrdersLost
    BY <1>2 DEF OrdersLost
<1>5. OrdersNext
    BY <1>2, <1>3, <1>4, OrdersStep DEF ordersVars, OrdersInv, OrdersTyped
<1>6. PICK j \in Presses : Submit(j) \/ AnswerOrder(j) \/ HearOrder(j) \/ HearOrderLoad(j)
    BY <1>2, <1>5 DEF OrdersNext, AnswerLoad, HearLoad, Retry, ChoosePlan, TypeQuantity, Publish
<1>7. j = i
    BY <1>1, <1>6 DEF Submit, AnswerOrder, HearOrder, HearOrderLoad
<1>8. ~Submit(i)
    <2> SUFFICES ASSUME Submit(i) PROVE FALSE
        OBVIOUS
    <2>1. order'[i] = [step |-> "sent", plan |-> orders.plan, quantity |-> orders.quantity,
                       plans |-> orders.plans, wallet |-> orders.wallet,
                       reply |-> "none", mine |-> TRUE]
        BY <1>1 DEF Submit
    <2>2. order'[i].reply = "none"
        BY <2>1
    <2> QED BY <1>1, <2>2
<1>9. ~HearOrder(i)
    <2> SUFFICES ASSUME HearOrder(i) PROVE FALSE
        OBVIOUS
    <2>1. order'[i] = NoOrder
        BY <1>1 DEF HearOrder
    <2> QED BY <1>2, <2>1
<1>10. ~HearOrderLoad(i)
    <2> SUFFICES ASSUME HearOrderLoad(i) PROVE FALSE
        OBVIOUS
    <2>1. order'[i].reply = order[i].reply
        BY <1>1 DEF HearOrderLoad, OrderState
    <2> QED BY <1>1, <2>1
<1> QED BY <1>6, <1>7, <1>8, <1>9, <1>10

\* What the form let through fits what the page had read, so that a shop that
\* has not changed refuses none of it, but for the quantity itself.
LEMMA UnchangedShopTakes ==
    ASSUME OrdersInv, NEW i \in Presses, order[i].step = "sent",
           order[i].plans = catalogue, order[i].wallet = balance
    PROVE  Verdict(i) \in {"placed", "invalid"}
<1> SUFFICES ASSUME order[i].quantity \in 1..MaxQuantity PROVE Verdict(i) = "placed"
    BY DEF Verdict
<1>1. order[i] \in OrderState /\ balance \in Nat /\ catalogue \in {0} \cup Versions
    BY DEF OrdersInv, OrdersTyped
<1>2. order[i].wallet # NoWallet /\ order[i].quantity # NaN /\ order[i].quantity \in Nat
    BY <1>1, OrdersAssumption
<1>3. /\ order[i].plan \in PlansOf(catalogue)
      /\ order[i].quantity >= Catalogues[catalogue][order[i].plan].min
      /\ Total(i) <= balance
    BY <1>2 DEF OrdersInv, OrderSound, Fits, Total
<1>4. Total(i) \in Int /\ Catalogues[catalogue][order[i].plan].min \in Int
    BY <1>1, <1>2, <1>3, TotalIs, OnSale
<1> QED BY <1>1, <1>2, <1>3, <1>4 DEF Verdict

\* decode refuses no number that the form sends, but one above its maximum.
LEMMA DecodeTakes ==
    ASSUME OrdersInv, NEW i \in Presses, Verdict(i) = "invalid"
    PROVE  order[i].quantity = NaN \/ order[i].quantity > MaxQuantity
<1>1. order[i].quantity \notin 1..MaxQuantity
    BY DEF Verdict
<1>2. order[i].quantity \in Counts
    BY DEF OrdersInv, OrdersTyped, OrderState
<1> QED BY <1>1, <1>2, QuantitiesCount, OrdersAssumption

\* An order is refused only if the plans or the wallet have changed since the
\* page read them, or for a quantity that only decode looks at: submit and the
\* button ask all else that handleCreateOrder asks.
THEOREM RefusedForAReason == Spec => RefusalMeansChange
<1>1. OrdersInv /\ [Next]_vars =>
         [\A i \in Presses : order[i].reply = "none" =>
            /\ order'[i].reply \in Refusals
                  => order[i].plans # catalogue \/ order[i].wallet # balance
            /\ order'[i].reply = "invalid"
                  => order[i].quantity = NaN \/ order[i].quantity > MaxQuantity]_ordersVars
    <2> SUFFICES ASSUME OrdersInv, Next, NEW i \in Presses, order[i].reply = "none",
                        order'[i].reply \in Refusals \cup {"invalid"}
                 PROVE  /\ order'[i].reply \in Refusals
                              => order[i].plans # catalogue \/ order[i].wallet # balance
                        /\ order'[i].reply = "invalid"
                              => order[i].quantity = NaN \/ order[i].quantity > MaxQuantity
        BY DEF vars, ordersVars
    <2>1. AnswerOrder(i)
        BY OrderRefused DEF Refusals
    <2>2. order[i] \in OrderState /\ order \in [Presses -> OrderState]
        BY DEF OrdersInv, OrdersTyped
    <2>3. order'[i].reply = Verdict(i) /\ order[i].step = "sent"
        <3>1. PICK reply \in {Verdict(i), "failed"} :
                 order'[i] = [NoOrder EXCEPT !.step = "answered", !.mine = order[i].mine,
                                             !.reply = reply]
            BY <2>1, <2>2 DEF AnswerOrder
        <3>2. order'[i].reply = reply
            BY <3>1 DEF NoOrder
        <3> QED BY <2>1, <3>2 DEF AnswerOrder, Refusals
    <2>4. CASE order'[i].reply = "invalid"
        BY <2>3, <2>4, DecodeTakes DEF Refusals
    <2>5. CASE order'[i].reply \in Refusals
        BY <2>3, <2>5, UnchangedShopTakes DEF Refusals
    <2> QED BY <2>4, <2>5
<1> QED BY <1>1, OrdersInvariance, PTL DEF Spec, RefusalMeansChange

\* Once a page has a plan chosen, only the customer chooses another one: no
\* load that arrives, however late and after whatever retries, does.
THEOREM ChoiceIsKept == Spec => SelectionIsTheCustomers
<1>1. OrdersInv /\ [Next]_vars =>
         [orders'.plan # orders.plan
             => 0 \in {orders.plan, orders'.plan} \/ load' = load]_ordersVars
    <2> SUFFICES ASSUME OrdersInv, Next, orders'.plan # orders.plan, orders.plan # 0,
                        orders'.plan # 0, load' # load
                 PROVE  FALSE
        BY DEF vars, ordersVars
    <2>1. orders \in OrdersState
        BY DEF OrdersInv, OrdersTyped
    <2>2. orders' # orders /\ orders' # FreshOrders
        BY OrdersRests
    <2>3. OrdersNext
        BY <2>2, OrdersStep DEF OrdersTurn, OrdersLost, ordersVars, OrdersInv, OrdersTyped
    <2>4. CASE \E l \in Loaders : HearLoad(l)
        <3>1. PICK l \in PageLoads : load[l].step # "idle" /\ orders' = AfterLoad(l)
            BY <2>4 DEF HearLoad, Loaded, PageLoads
        <3>2. ~load[l].choose
            BY <3>1 DEF OrdersInv, ChoiceSound, LoadSound
        <3> QED BY <3>1, <3>2, AfterLoadIs, Slots
    <2>5. CASE \E i \in Presses : HearOrderLoad(i)
        <3>1. PICK i \in Presses : orders' = AfterLoad(i)
            BY <2>2, <2>5 DEF HearOrderLoad
        <3>2. ~load[i].choose
            BY DEF OrdersInv, ChoiceSound
        <3> QED BY <3>1, <3>2, AfterLoadIs, Slots
    <2>6. CASE (\E l \in Retries : Retry(l)) \/ (\E i \in Presses : HearOrder(i))
        <3>1. PICK b \in BOOLEAN, c \in BOOLEAN : orders' = [orders EXCEPT !.error = b, !.submitting = c]
            <4>1. CASE \E l \in Retries : Retry(l)
                BY <2>1, <4>1 DEF Retry, OrdersState
            <4>2. CASE \E i \in Presses : HearOrder(i)
                BY <2>1, <4>2 DEF HearOrder, OrdersState
            <4> QED BY <2>6, <4>1, <4>2
        <3>2. orders'.plan = orders.plan
            BY <2>1, <3>1 DEF OrdersState
        <3> QED BY <3>2
    <2> QED BY <2>2, <2>3, <2>4, <2>5, <2>6 DEF OrdersNext, AnswerLoad, ChoosePlan, TypeQuantity,
            Submit, AnswerOrder, Publish
<1> QED BY <1>1, OrdersInvariance, PTL DEF Spec, SelectionIsTheCustomers

-----------------------------------------------------------------------------
(* What is busy *)

\* Behind what a page shows as busy there is a request or a timer: the
\* conjuncts of BusyMeansWorking, page by page, with what they rest on.
OrdersBusy ==
    /\ Shown("orders") /\ orders.loading => load["mount"].step # "idle"
    /\ orders.submitting => \E i \in Presses : order[i].mine

BillingLoads == Shown("billing") /\ billing.loading => billing.call # "idle"
BillingBusy == billing.submitting => away \/ billing.returned \/ \E i \in Presses : pay[i].mine

AccountBusy ==
    /\ Shown("overview") /\ overview.loading => overview.call # "idle"
    /\ Shown("proxies") /\ ListShows = "spinner" => listCall # "idle"
    /\ card.loadingUsage => card.usageCall # "idle"
    /\ card.copied => card.timers > 0

\* No page but a form submits one, and no button of another page is named
\* for a form's route.
FormBusy == form.submitting => at \in SignInRoutes /\ auth[at].step # "idle"

\* Only the frame and a new document change which page is shown.
LEMMA ShownStays ==
    ASSUME Next, ~FrameStep, ~Reload
    PROVE  UNCHANGED <<at, user, loading>>
<1>1. CASE UNCHANGED frameInvVars
    BY <1>1 DEF frameInvVars
<1>2. CASE \/ \E c \in Callers : AnswerMe(c)
           \/ \E b \in SignOuts : AnswerLogout(b)
           \/ Expire
           \/ \E i \in Presses : HearOrderLoad(i)
    BY <1>2 DEF AnswerMe, AnswerLogout, Expire, HearOrderLoad
<1>3. CASE \/ Verify \/ TokenExpires
           \/ \E op \in SignInRoutes : \/ SubmitForm(op) \/ AnswerRefused(op)
                                       \/ AnswerVerified(op) \/ HearSignInError(op)
    BY <1>3 DEF Verify, TokenExpires, SubmitForm, AnswerRefused, AnswerVerified, HearSignInError,
                clientVars, frameVars
<1> QED BY <1>1, <1>2, <1>3, PagesStay

LEMMA NotShown ==
    ASSUME NEW r \in Dashboard, loading' = TRUE
    PROVE  ~Shown(r)'
BY DEF Shown, Guarded

\* A new document shows no page of the dashboard yet.
LEMMA ReloadLoads ==
    ASSUME Reload
    PROVE  loading' = TRUE /\ OrdersLost /\ BillingLost /\ AccountLost
BY DEF Reload, Open, SignInWithGoogle, NewDocument

-----------------------------------------------------------------------------
(* The orders page is busy *)

LEMMA OrdersBusyTurn ==
    ASSUME OrdersInv, OrdersBusy, FrameStep
    PROVE  OrdersBusy'
<1>1. PICK ended \in SUBSET Presses :
         OrdersTurn(ended) /\ (ended = {} \/ at' = "proxies")
    BY DEF FrameStep, Turns, HearRefresh
<1>2. PICK s \in BOOLEAN : s = (Shown("orders") /\ Shown("orders")')
    OBVIOUS
<1>3. s => ended = {} /\ Shown("orders")
    BY <1>1, <1>2 DEF Shown
<1>4. /\ orders' = IF s THEN orders ELSE FreshOrders
      /\ load'["mount"] = IF s THEN load["mount"]
                          ELSE IF Shown("orders")' THEN Started(TRUE) ELSE NoLoad
      /\ \A i \in Presses : order'[i] = IF i \in ended THEN NoOrder
                                        ELSE [order[i] EXCEPT !.mine = @ /\ s]
    BY <1>1, <1>2, Slots DEF OrdersTurn
<1>5. CASE s
    <2>1. ASSUME NEW i \in Presses, order[i].mine PROVE order'[i].mine
        <3>1. order'[i] = [order[i] EXCEPT !.mine = order[i].mine /\ s]
            BY <1>3, <1>4, <1>5
        <3>2. order'[i] = [order[i] EXCEPT !.mine = TRUE]
            <4>1. order[i].mine = TRUE
                BY <2>1 DEF OrdersInv, OrdersTyped, OrderState
            <4> QED BY <1>5, <3>1, <4>1
        <3> QED BY <3>2 DEF OrdersInv, OrdersTyped, OrderState
    <2> QED BY <1>3, <1>4, <1>5, <2>1 DEF OrdersBusy
<1>6. CASE ~s
    <2>1. ~orders'.submitting
        BY <1>4, <1>6 DEF FreshOrders
    <2>2. Shown("orders")' => load'["mount"].step = "sent"
        BY <1>4, <1>6, StartedLoad
    <2> QED BY <2>1, <2>2 DEF OrdersBusy
<1> QED BY <1>5, <1>6

\* A load that has ended leaves no spinner, and the button as it was.
LEMMA AfterLoadShows ==
    ASSUME OrdersInv, NEW l \in Loaders
    PROVE  AfterLoad(l).loading = FALSE /\ AfterLoad(l).submitting = orders.submitting
<1>1. orders \in OrdersState
    BY DEF OrdersInv, OrdersTyped
<1> QED BY <1>1 DEF AfterLoad, OrdersState

\* A step of the page, or of an order, which may turn the button on or off.
LEMMA OrdersBusyStep ==
    ASSUME OrdersBusy, UNCHANGED <<at, user, loading>>,
           orders'.loading => /\ orders.loading
                              /\ load["mount"].step # "idle" => load'["mount"].step # "idle",
           orders'.submitting => \/ \E i \in Presses : order'[i].mine
                                 \/ orders.submitting /\ \A i \in Presses :
                                       order[i].mine => order'[i].mine
    PROVE  OrdersBusy'
BY DEF OrdersBusy, Shown, Guarded

LEMMA OrdersBusyNext ==
    ASSUME OrdersInv, OrdersBusy, OrdersNext, UNCHANGED <<at, user, loading>>
    PROVE  OrdersBusy'
<1>1. /\ orders \in OrdersState /\ load \in [Loaders -> LoadState]
      /\ order \in [Presses -> OrderState] /\ "mount" \in Loaders /\ Presses \subseteq Loaders
    BY Slots DEF OrdersInv, OrdersTyped
<1>2. ASSUME NEW l \in Loaders, AnswerLoad(l) PROVE OrdersBusy'
    <2>1. UNCHANGED <<orders, order>>
        BY <1>2 DEF AnswerLoad
    <2>2. load'["mount"].step # "idle" \/ load'["mount"] = load["mount"]
        BY <1>1, <1>2 DEF AnswerLoad, LoadState
    <2> QED BY <2>1, <2>2, OrdersBusyStep
<1>3. ASSUME NEW l \in Loaders, HearLoad(l) PROVE OrdersBusy'
    <2>1. orders' = AfterLoad(l) /\ UNCHANGED order
        BY <1>3 DEF HearLoad
    <2> QED BY <2>1, AfterLoadShows, OrdersBusyStep
<1>4. ASSUME NEW l \in Retries, Retry(l) PROVE OrdersBusy'
    <2>1. orders'.loading = orders.loading /\ orders'.submitting = orders.submitting
             /\ UNCHANGED order
        BY <1>1, <1>4 DEF Retry, OrdersState
    <2>2. load'["mount"] = load["mount"]
        BY <1>1, <1>4, OrdersAssumption DEF Retry
    <2> QED BY <2>1, <2>2, OrdersBusyStep
<1>5. ASSUME NEW p \in PlanIds, ChoosePlan(p) PROVE OrdersBusy'
    <2>1. orders'.loading = orders.loading /\ orders'.submitting = orders.submitting
             /\ UNCHANGED <<load, order>>
        BY <1>1, <1>5 DEF ChoosePlan, OrdersState
    <2> QED BY <2>1, OrdersBusyStep
<1>6. ASSUME NEW n \in {0, NaN} \cup Quantities, TypeQuantity(n) PROVE OrdersBusy'
    <2>1. orders'.loading = orders.loading /\ orders'.submitting = orders.submitting
             /\ UNCHANGED <<load, order>>
        BY <1>1, <1>6 DEF TypeQuantity, OrdersState
    <2> QED BY <2>1, OrdersBusyStep
<1>7. ASSUME NEW i \in Presses, Submit(i) PROVE OrdersBusy'
    <2>1. orders'.loading = orders.loading /\ UNCHANGED load
        BY <1>1, <1>7 DEF Submit, OrdersState
    <2>2. order'[i].mine
        BY <1>1, <1>7 DEF Submit
    <2> QED BY <2>1, <2>2, OrdersBusyStep
<1>8. ASSUME NEW i \in Presses, AnswerOrder(i) PROVE OrdersBusy'
    <2>1. UNCHANGED <<orders, load>>
        BY <1>8 DEF AnswerOrder
    <2>2. PICK reply : order' = [order EXCEPT ![i] = [NoOrder EXCEPT !.step = "answered",
                                              !.mine = order[i].mine, !.reply = reply]]
        BY <1>8 DEF AnswerOrder
    <2>3. \A j \in Presses : order[j].mine => order'[j].mine
        BY <1>1, <2>2 DEF NoOrder
    <2> QED BY <2>1, <2>3, OrdersBusyStep
<1>9. ASSUME NEW i \in Presses, HearOrder(i) PROVE OrdersBusy'
    <2>1. load'["mount"] = load["mount"]
        BY <1>1, <1>9, ClientAssumption DEF HearOrder
    <2>2. CASE order[i].reply = "placed"
        <3>1. orders'.loading = orders.loading /\ orders'.submitting = orders.submitting
            BY <1>1, <1>9, <2>2 DEF HearOrder, OrdersState
        <3>2. order' = [order EXCEPT ![i] = [NoOrder EXCEPT !.step = "reload",
                                                            !.mine = order[i].mine]]
            BY <1>9, <2>2 DEF HearOrder
        <3>3. \A j \in Presses : order[j].mine => order'[j].mine
            BY <1>1, <3>2 DEF NoOrder
        <3> QED BY <2>1, <3>1, <3>3, OrdersBusyStep
    <2>3. CASE order[i].reply # "placed"
        <3>1. /\ orders'.loading = orders.loading
              /\ orders'.submitting => orders.submitting /\ ~order[i].mine
            BY <1>1, <1>9, <2>3 DEF HearOrder, OrdersState
        <3>2. \A j \in Presses : j # i => order'[j] = order[j]
            BY <1>1, <1>9, <2>3 DEF HearOrder
        <3> QED BY <2>1, <3>1, <3>2, OrdersBusyStep
    <2> QED BY <2>2, <2>3
<1>10. ASSUME NEW i \in Presses, HearOrderLoad(i) PROVE OrdersBusy'
    <2>1. load'["mount"] = load["mount"]
        BY <1>1, <1>10, ClientAssumption DEF HearOrderLoad
    <2>2. /\ orders'.loading => orders.loading
          /\ orders'.submitting = orders.submitting
        BY <1>1, <1>10, AfterLoadShows DEF HearOrderLoad
    <2>3. \A j \in Presses : order'[j].mine = order[j].mine
        BY <1>1, <1>10 DEF HearOrderLoad, OrderState
    <2> QED BY <2>1, <2>2, <2>3, OrdersBusyStep
<1>11. CASE Publish
    BY <1>11, OrdersBusyStep DEF Publish
<1> QED BY <1>2, <1>3, <1>4, <1>5, <1>6, <1>7, <1>8, <1>9, <1>10, <1>11 DEF OrdersNext

LEMMA OrdersBusyInv ==
    ASSUME OrdersInv, OrdersBusy, [Next]_vars
    PROVE  OrdersBusy'
<1>1. CASE UNCHANGED vars
    BY <1>1, OrdersBusyStep DEF vars, clientVars, frameVars, ordersVars
<1>2. CASE FrameStep
    BY <1>2, OrdersBusyTurn
<1>3. CASE Reload
    <2>1. orders' = FreshOrders /\ ~Shown("orders")'
        BY <1>3, ReloadLoads, NotShown DEF OrdersLost, Dashboard
    <2> QED BY <2>1 DEF OrdersBusy, FreshOrders
<1>4. CASE Next /\ ~FrameStep /\ ~Reload
    <2>1. UNCHANGED <<at, user, loading>>
        BY <1>4, ShownStays
    <2>2. OrdersNext \/ UNCHANGED ordersVars
        BY <1>4 DEF Next, UpstreamStep, OnOrders, OnBilling, OnAccount, OnSignIn
    <2>3. CASE UNCHANGED ordersVars
        BY <2>1, <2>3, OrdersBusyStep DEF ordersVars
    <2> QED BY <2>1, <2>2, <2>3, OrdersBusyNext
<1> QED BY <1>1, <1>2, <1>3, <1>4

-----------------------------------------------------------------------------
(* The billing page is busy *)

LEMMA BillingLoadsInv ==
    ASSUME BillingInv, BillingLoads, [Next]_vars
    PROVE  BillingLoads'
<1>1. CASE FrameStep
    <2>1. billing' = IF Shown("billing") /\ Shown("billing")' THEN billing
                     ELSE IF Shown("billing")' THEN Mounted ELSE FreshBilling
        BY <1>1 DEF FrameStep, Turns, BillingTurn, Mounted
    <2> QED BY <2>1, BillingRests DEF BillingLoads
<1>2. CASE Reload
    BY <1>2, ReloadLoads, NotShown DEF Dashboard, BillingLoads
<1>3. CASE [Next]_vars /\ ~FrameStep /\ ~Reload
    <2>1. Shown("billing")' => Shown("billing")
        BY <1>3, ShownStays DEF Shown, Guarded, vars, clientVars, frameVars
    <2>2. \/ AnswerBilling \/ HearBilling
          \/ billing'.loading = billing.loading /\ billing'.call = billing.call
        <3>1. CASE BillingNext \/ GoBack
            BY <3>1 DEF BillingNext, HearBillingConfig, TypeAmount, ChooseProvider, PressTopUp,
                        AnswerTopUp, HearTopUp, Leave, GoBack, BillingInv, BillingTyped,
                        BillingState
        <3>2. CASE UNCHANGED billingVars
            BY <3>2 DEF billingVars
        <3> QED BY <1>3, <3>1, <3>2
                DEF Next, UpstreamStep, OnOrders, OnBilling, OnAccount, OnSignIn, vars
    <2>3. AnswerBilling \/ HearBilling => billing'.call = "answered" \/ ~billing'.loading
        BY DEF AnswerBilling, HearBilling, BillingInv, BillingTyped, BillingState
    <2> QED BY <2>1, <2>2, <2>3 DEF BillingLoads
<1> QED BY <1>1, <1>2, <1>3

LEMMA BillingBusyTurn ==
    ASSUME BillingInv, BillingBusy, BillingTurn, away' = away
    PROVE  BillingBusy'
<1>1. PICK s \in BOOLEAN : s = (Shown("billing") /\ Shown("billing")')
    OBVIOUS
<1>2. /\ s => billing' = billing
      /\ ~s => billing' \in {Mounted, FreshBilling}
      /\ \A i \in Presses : pay'[i] = [pay[i] EXCEPT !.mine = @ /\ s]
    BY <1>1 DEF BillingTurn, Mounted
<1>3. CASE s
    <2>1. ASSUME NEW i \in Presses, pay[i].mine PROVE pay'[i].mine
        <3>1. pay[i] \in PayState /\ pay[i].mine = TRUE
            BY <2>1 DEF BillingInv, BillingTyped, PayState
        <3>2. pay'[i] = [pay[i] EXCEPT !.mine = TRUE]
            BY <1>2, <1>3, <3>1
        <3> QED BY <3>1, <3>2 DEF PayState
    <2> QED BY <1>2, <1>3, <2>1 DEF BillingBusy
<1>4. CASE ~s
    BY <1>2, <1>4, BillingRests DEF BillingBusy
<1> QED BY <1>3, <1>4

LEMMA BillingBusyNext ==
    ASSUME BillingInv, BillingBusy, BillingNext
    PROVE  BillingBusy'
<1>1. billing \in BillingState /\ pay \in [Presses -> PayState] /\ OneTopupPerPage
    BY DEF BillingInv, BillingTyped
<1>2. CASE AnswerBilling \/ HearBilling \/ HearBillingConfig \/ (\E a \in Amounts : TypeAmount(a))
           \/ (\E q \in Providers : ChooseProvider(q))
    <2>1. billing'.submitting = billing.submitting /\ billing'.returned = billing.returned
        BY <1>1, <1>2 DEF AnswerBilling, HearBilling, HearBillingConfig, TypeAmount,
                          ChooseProvider, BillingState
    <2>2. UNCHANGED <<away, pay>>
        BY <1>2 DEF AnswerBilling, HearBilling, HearBillingConfig, HearConfig, TypeAmount,
                    ChooseProvider, clientVars, frameVars
    <2> QED BY <2>1, <2>2 DEF BillingBusy
<1>3. ASSUME NEW i \in Presses, PressTopUp(i) PROVE BillingBusy'
    <2>1. pay'[i].mine
        BY <1>1, <1>3 DEF PressTopUp
    <2> QED BY <2>1 DEF BillingBusy
<1>4. ASSUME NEW i \in Presses, AnswerTopUp(i) PROVE BillingBusy'
    <2>1. UNCHANGED <<away, billing>>
        BY <1>4 DEF AnswerTopUp, clientVars, frameVars
    <2>2. PICK reply : pay' = [pay EXCEPT ![i] = [NoPay EXCEPT !.step = "answered",
                                                  !.mine = pay[i].mine, !.reply = reply]]
        BY <1>4 DEF AnswerTopUp
    <2>3. \A j \in Presses : pay[j].mine => pay'[j].mine
        BY <1>1, <2>2 DEF NoPay
    <2> QED BY <2>1, <2>3 DEF BillingBusy
<1>5. ASSUME NEW i \in Presses, HearTopUp(i), pay[i].reply = "checkout" PROVE BillingBusy'
    <2>1. UNCHANGED <<away, billing>>
        BY <1>5 DEF HearTopUp, clientVars, frameVars
    <2>2. \A j \in Presses : pay'[j].mine = pay[j].mine
        BY <1>1, <1>5 DEF HearTopUp, PayState
    <2> QED BY <2>1, <2>2 DEF BillingBusy
<1>6. ASSUME NEW i \in Presses, HearTopUp(i), pay[i].reply # "checkout" PROVE BillingBusy'
    <2>1. UNCHANGED away
        BY <1>6 DEF HearTopUp, clientVars, frameVars
    <2>2. /\ billing'.submitting => billing.submitting /\ ~pay[i].mine
          /\ billing'.returned = billing.returned
        BY <1>1, <1>6 DEF HearTopUp, BillingState
    <2>3. \A j \in Presses : j # i => pay'[j] = pay[j]
        BY <1>1, <1>6 DEF HearTopUp
    <2> QED BY <2>1, <2>2, <2>3 DEF BillingBusy
<1>7. ASSUME NEW i \in Presses, Leave(i) PROVE BillingBusy'
    BY <1>7 DEF Leave, BillingBusy
<1> QED BY <1>2, <1>3, <1>4, <1>5, <1>6, <1>7 DEF BillingNext

LEMMA BillingBusyInv ==
    ASSUME BillingInv, BillingBusy, [Next]_vars
    PROVE  BillingBusy'
<1>1. CASE FrameStep
    BY <1>1, BillingBusyTurn DEF FrameStep, Turns, HearMe, Redirect, Visit, PressLogout, HearLogout,
                                 HearSignedIn, HearRefresh
<1>2. CASE Reload
    BY <1>2, ReloadLoads DEF BillingLost, FreshBilling, BillingBusy
<1>3. CASE BillingNext
    BY <1>3, BillingBusyNext
<1>4. CASE GoBack
    BY <1>4 DEF GoBack, BillingInv, BillingTyped, BillingState, BillingBusy
<1>5. CASE UpstreamStep
    BY <1>5 DEF UpstreamStep, AnswerMe, AnswerLogout, Expire, MoveBalance, frameVars, billingVars,
                BillingBusy
<1>6. CASE OnOrders(OrdersNext)
    <2>1. UNCHANGED billingVars /\ OrdersNext
        BY <1>6 DEF OnOrders, billingVars
    <2>2. UNCHANGED away
        BY <2>1 DEF OrdersNext, AnswerLoad, HearLoad, Retry, ChoosePlan, TypeQuantity, Submit,
                    AnswerOrder, HearOrder, HearOrderLoad, Publish, clientVars, frameVars
    <2> QED BY <2>1, <2>2 DEF billingVars, BillingBusy
<1>7. CASE OnAccount(AccountNext)
    BY <1>7 DEF OnAccount, AccountNext, AnswerOverview, HearOverview, AnswerList, HearList,
                RetryList, PressUsage, AnswerUsage, HearUsage, Copy, CopyTimesOut,
                clientVars, frameVars, billingVars,
                BillingBusy
<1>8. CASE OnSignIn(SignInNext)
    <2>1. UNCHANGED billingVars /\ SignInNext
        BY <1>8 DEF OnSignIn
    <2>2. UNCHANGED away
        BY <2>1 DEF SignInNext, HearSignInConfig, HearConfig, ScriptLoads, Verify, TokenExpires,
                    SubmitForm, AnswerRefused, AnswerVerified, HearSignInError, clientVars, frameVars
    <2> QED BY <2>1, <2>2 DEF billingVars, BillingBusy
<1>9. CASE UNCHANGED vars
    BY <1>9 DEF vars, clientVars, frameVars, billingVars, BillingBusy
<1> QED BY <1>1, <1>2, <1>3, <1>4, <1>5, <1>6, <1>7, <1>8, <1>9 DEF Next, OnBilling

-----------------------------------------------------------------------------
(* The list of proxies and its cards are busy *)

CardState == [usage : BOOLEAN, loadingUsage : BOOLEAN,
              usageCall : {"idle", "sent", "ok", "failed"},
              copied : BOOLEAN, timers : 0..MaxTimers]

OverviewState == [loading : BOOLEAN, call : {"idle", "sent", "answered"}]

\* The overview as its effect leaves it.
MountedOverview == [FreshOverview EXCEPT !.call = "sent"]

LEMMA OverviewRests ==
    /\ FreshOverview \in OverviewState
    /\ MountedOverview \in OverviewState /\ MountedOverview.call = "sent"
BY DEF FreshOverview, MountedOverview, OverviewState

LEMMA AccountRests ==
    /\ FreshListing \in [proxies : {"none", "empty", "full"}, error : BOOLEAN]
    /\ FreshCard \in CardState /\ ~FreshCard.loadingUsage /\ ~FreshCard.copied
BY AccountAssumption DEF FreshListing, FreshCard, CardState

LEMMA AccountBusyTurn ==
    ASSUME AccountTypeOK, AccountBusy, AccountTurn
    PROVE  AccountTypeOK' /\ AccountBusy'
<1>1. PICK s \in BOOLEAN : s = (Shown("proxies") /\ Shown("proxies")')
    OBVIOUS
<1>2. /\ owned' = owned
      /\ listing' = IF s THEN listing ELSE FreshListing
      /\ listCall' = IF s THEN listCall ELSE IF Shown("proxies")' THEN "sent" ELSE "idle"
      /\ card' = IF s THEN card ELSE FreshCard
    BY <1>1 DEF AccountTurn
<1>3. overview' \in OverviewState
         /\ (Shown("overview")' /\ overview'.loading => overview'.call # "idle")
    <2>1. overview' = IF Shown("overview") /\ Shown("overview")' THEN overview
                      ELSE IF Shown("overview")' THEN MountedOverview ELSE FreshOverview
        BY DEF AccountTurn, MountedOverview
    <2>2. overview \in OverviewState
        BY DEF AccountTypeOK, OverviewState
    <2> QED BY <2>1, <2>2, OverviewRests DEF AccountBusy
<1>4. AccountTypeOK'
    BY <1>2, <1>3, AccountRests DEF AccountTypeOK, CardState, OverviewState
<1>5. Shown("proxies")' /\ ListShows' = "spinner" => listCall' # "idle"
    <2>1. CASE s
        BY <1>1, <1>2, <2>1 DEF AccountBusy, ListShows
    <2>2. CASE ~s
        BY <1>1, <1>2, <2>2
    <2> QED BY <2>1, <2>2
<1>6. /\ card'.loadingUsage => card'.usageCall # "idle"
      /\ card'.copied => card'.timers > 0
    BY <1>2, AccountRests DEF AccountBusy
<1> QED BY <1>3, <1>4, <1>5, <1>6 DEF AccountBusy

LEMMA AccountBusyLost ==
    ASSUME AccountTypeOK, AccountLost, loading' = TRUE
    PROVE  AccountTypeOK' /\ AccountBusy'
<1>1. AccountTypeOK'
    BY AccountRests, OverviewRests DEF AccountLost, AccountTypeOK, CardState, OverviewState
<1>2. ~Shown("proxies")' /\ ~Shown("overview")'
    BY NotShown DEF Dashboard
<1> QED BY <1>1, <1>2, AccountRests DEF AccountLost, AccountBusy

LEMMA ListSteps ==
    ASSUME AccountTypeOK, AccountBusy, AnswerList \/ HearList \/ RetryList
    PROVE  AccountTypeOK' /\ AccountBusy'
<1>1. /\ UNCHANGED <<owned, overview, card>>
      /\ Shown("overview")' = Shown("overview")
    <2>1. UNCHANGED <<owned, overview, card, at, user, loading>>
        BY DEF AnswerList, HearList, RetryList, clientVars, frameVars
    <2> QED BY <2>1 DEF Shown, Guarded
<1>2. listing \in [proxies : {"none", "empty", "full"}, error : BOOLEAN]
    BY DEF AccountTypeOK
<1>3. CASE AnswerList
    <2>1. listCall' \in {"failed", "empty", "full"} /\ listing' = listing
        BY <1>3 DEF AnswerList
    <2> QED BY <1>1, <2>1 DEF AccountTypeOK, AccountBusy
<1>4. CASE HearList
    <2>1. listCall' = "idle" /\ listCall \in {"failed", "empty", "full"}
             /\ listing' = IF listCall = "failed" THEN [listing EXCEPT !.error = TRUE]
                           ELSE [listing EXCEPT !.proxies = listCall]
        BY <1>4 DEF HearList
    <2>2. listing' \in [proxies : {"none", "empty", "full"}, error : BOOLEAN]
             /\ (listing'.error \/ listing'.proxies # "none")
        BY <1>2, <2>1
    <2> QED BY <1>1, <2>1, <2>2 DEF AccountTypeOK, AccountBusy, ListShows
<1>5. CASE RetryList
    <2>1. listCall' = "sent" /\ listing' = [listing EXCEPT !.error = FALSE]
        BY <1>5 DEF RetryList
    <2> QED BY <1>1, <1>2, <2>1 DEF AccountTypeOK, AccountBusy
<1> QED BY <1>3, <1>4, <1>5

LEMMA CardSteps ==
    ASSUME AccountTypeOK, AccountBusy, PressUsage \/ AnswerUsage \/ HearUsage \/ Copy \/ CopyTimesOut
    PROVE  AccountTypeOK' /\ AccountBusy'
<1>1. UNCHANGED <<at, user, loading, owned, overview, listing, listCall>>
    BY DEF PressUsage, AnswerUsage, HearUsage, Copy, CopyTimesOut, clientVars, frameVars
<1>2. card \in CardState
    BY DEF AccountTypeOK, CardState
<1>3. /\ card' \in CardState
      /\ card'.loadingUsage => card'.usageCall # "idle"
      /\ card'.copied => card'.timers > 0
    <2>1. CASE PressUsage
        BY <1>2, <2>1 DEF PressUsage, AccountBusy, CardState
    <2>2. CASE AnswerUsage
        <3>1. PICK reply \in {"ok", "failed"} : card' = [card EXCEPT !.usageCall = reply]
            BY <2>2 DEF AnswerUsage
        <3> QED BY <1>2, <3>1 DEF AccountBusy, CardState
    <2>3. CASE HearUsage
        <3>1. PICK usage \in BOOLEAN : usage = (card.usage \/ card.usageCall = "ok")
            OBVIOUS
        <3>2. card' = [card EXCEPT !.usage = usage, !.loadingUsage = FALSE, !.usageCall = "idle"]
            BY <2>3, <3>1 DEF HearUsage
        <3> QED BY <1>2, <3>2 DEF AccountBusy, CardState
    <2>4. CASE Copy
        <3>1. card.timers < MaxTimers /\ card.timers \in Nat /\ MaxTimers \in Nat
            BY <1>2, <2>4, AccountAssumption DEF Copy, CardState
        <3>2. card.timers + 1 \in 0..MaxTimers /\ card.timers + 1 > 0
            BY <3>1
        <3>3. card' = [card EXCEPT !.copied = TRUE, !.timers = card.timers + 1]
            BY <2>4 DEF Copy
        <3> QED BY <1>2, <3>2, <3>3 DEF AccountBusy, CardState
    <2>5. CASE CopyTimesOut
        <3>1. card.timers - 1 \in 0..MaxTimers
            BY <1>2, <2>5, AccountAssumption DEF CopyTimesOut, CardState
        <3>2. card' = [card EXCEPT !.copied = FALSE, !.timers = card.timers - 1]
            BY <2>5 DEF CopyTimesOut
        <3> QED BY <1>2, <3>1, <3>2 DEF AccountBusy, CardState
    <2> QED BY <2>1, <2>2, <2>3, <2>4, <2>5
<1>4. AccountTypeOK'
    BY <1>1, <1>3 DEF AccountTypeOK, CardState
<1>5. /\ Shown("proxies")' = Shown("proxies") /\ Shown("overview")' = Shown("overview")
      /\ ListShows' = ListShows
    BY <1>1 DEF Shown, Guarded, ListShows
<1> QED BY <1>1, <1>3, <1>4, <1>5 DEF AccountBusy

\* A step of other pages, which may deliver a proxy.
LEMMA AccountBusyStays ==
    ASSUME AccountTypeOK, AccountBusy, UNCHANGED <<at, user, loading, listing, listCall, card>>,
           owned' \in BOOLEAN, overview' \in OverviewState,
           overview' = overview \/ overview'.call # "idle" \/ ~overview'.loading
    PROVE  AccountTypeOK' /\ AccountBusy'
<1>1. AccountTypeOK'
    BY DEF AccountTypeOK, OverviewState
<1>2. /\ Shown("proxies")' = Shown("proxies") /\ Shown("overview")' = Shown("overview")
      /\ ListShows' = ListShows
    BY DEF Shown, Guarded, ListShows
<1> QED BY <1>1, <1>2 DEF AccountBusy

LEMMA AccountBusyInv ==
    ASSUME AccountTypeOK, AccountBusy, [Next]_vars
    PROVE  AccountTypeOK' /\ AccountBusy'
<1>1. CASE UNCHANGED vars
    BY <1>1, AccountBusyStays DEF vars, clientVars, frameVars, accountVars, AccountTypeOK,
                                  OverviewState
<1>2. CASE FrameStep
    BY <1>2, AccountBusyTurn DEF FrameStep, Turns
<1>3. CASE Reload
    BY <1>3, ReloadLoads, AccountBusyLost
<1>4. CASE Next /\ ~FrameStep /\ ~Reload
    <2>1. UNCHANGED <<at, user, loading>>
        BY <1>4, ShownStays
    <2>2. CASE OnAccount(AccountNext)
        <3>1. AccountNext
            BY <2>2 DEF OnAccount
        <3>2. CASE AnswerOverview \/ HearOverview
            <4>1. overview' \in OverviewState /\ (overview'.call # "idle" \/ ~overview'.loading)
                <5>1. overview \in OverviewState
                    BY DEF AccountTypeOK, OverviewState
                <5>2. \/ overview' = [overview EXCEPT !.call = "answered"]
                      \/ overview' = [loading |-> FALSE, call |-> "idle"]
                    BY <3>2 DEF AnswerOverview, HearOverview
                <5>3. CASE overview' = [overview EXCEPT !.call = "answered"]
                    BY <5>1, <5>3 DEF OverviewState
                <5>4. CASE overview' = [loading |-> FALSE, call |-> "idle"]
                    BY <5>4 DEF OverviewState
                <5> QED BY <5>2, <5>3, <5>4
            <4> QED BY <2>1, <3>2, <4>1, AccountBusyStays
                    DEF AnswerOverview, HearOverview, AccountTypeOK
        <3> QED BY <3>1, <3>2, ListSteps, CardSteps DEF AccountNext
    <2>3. CASE OnOrders(OrdersNext)
        <3>1. PICK b \in BOOLEAN : b = (\E i \in Presses : order'[i] # order[i] /\ balance' # balance)
            OBVIOUS
        <3>2. owned' = (owned \/ b) /\ UNCHANGED <<overview, listing, listCall, card>>
            BY <2>3, <3>1 DEF OnOrders, Delivers
        <3>3. owned' \in BOOLEAN /\ overview' \in OverviewState
            BY <3>2 DEF AccountTypeOK, OverviewState
        <3> QED BY <2>1, <3>2, <3>3, AccountBusyStays
    <2>4. CASE UNCHANGED accountVars
        BY <2>1, <2>4, AccountBusyStays DEF accountVars, AccountTypeOK, OverviewState
    <2> QED BY <1>4, <2>2, <2>3, <2>4 DEF Next, UpstreamStep, OnBilling, OnSignIn
<1> QED BY <1>1, <1>2, <1>3, <1>4

-----------------------------------------------------------------------------
(* The forms are busy *)

LEMMA FormBusyTurn ==
    ASSUME FrameInv, FormBusy, FrameStep
    PROVE  FormBusy'
<1> SUFFICES ASSUME form'.submitting PROVE at' \in SignInRoutes /\ auth'[at'].step # "idle"
    BY DEF FormBusy
<1>1. form' = form /\ at' = at
    BY Rests, AtKeeps DEF SignInTurn, FreshForm
<1>2. at \in SignInRoutes /\ auth[at].step # "idle" /\ auth \in [Ops -> AuthState]
    BY <1>1 DEF FormBusy, FrameInv, FrameTyped
<1>3. CASE \E b \in SignOuts : PressLogout(b) \/ HearLogout(b)
    BY <1>1, <1>2, <1>3, Names DEF PressLogout, HearLogout
<1>4. CASE ~(\E b \in SignOuts : PressLogout(b) \/ HearLogout(b))
    <2>1. auth' = auth
        BY <1>1, <1>2, <1>4 DEF FrameStep, HearMe, Redirect, Visit, HearRefresh, HearSignedIn,
                                SignInRoutes
    <2> QED BY <1>1, <1>2, <2>1
<1> QED BY <1>3, <1>4

LEMMA FormBusyInv ==
    ASSUME FrameInv, FormBusy, [Next]_vars
    PROVE  FormBusy'
<1>1. CASE UNCHANGED frameInvVars
    BY <1>1 DEF frameInvVars, FormBusy
<1>2. CASE FrameStep
    BY <1>2, FormBusyTurn
<1>3. CASE Reload
    BY <1>3 DEF Reload, SignInLost, FreshForm, FormBusy
<1>4. ASSUME NEW c \in Callers, AnswerMe(c), UNCHANGED signInVars PROVE FormBusy'
    BY <1>4 DEF AnswerMe, signInVars, FormBusy
<1>5. ASSUME NEW b \in SignOuts, AnswerLogout(b), UNCHANGED signInVars PROVE FormBusy'
    BY <1>5, Names DEF AnswerLogout, signInVars, FormBusy, FrameInv, FrameTyped
<1>6. ASSUME Expire \/ (\E i \in Presses : HearOrderLoad(i)), UNCHANGED signInVars PROVE FormBusy'
    BY <1>6 DEF Expire, HearOrderLoad, signInVars, FormBusy
<1>7. CASE Verify \/ TokenExpires
    BY <1>7 DEF Verify, TokenExpires, clientVars, frameVars, FormBusy, FrameInv, FrameTyped,
                FormState
<1>8. ASSUME NEW op \in SignInRoutes, SubmitForm(op) PROVE FormBusy'
    <2>1. at' = op /\ auth'[op].step = "sent"
        BY <1>8, Names DEF SubmitForm, SignInFormShown, FrameInv, FrameTyped, NoCall
    <2> QED BY <2>1 DEF FormBusy
<1>9. ASSUME NEW op \in SignInRoutes, AnswerRefused(op) \/ AnswerVerified(op) PROVE FormBusy'
    <2>1. at' = at /\ form'.submitting = form.submitting
        BY <1>9, FormSpent DEF AnswerRefused, AnswerVerified
    <2>2. /\ auth'[op].step # "idle"
          /\ \A o \in Ops : o # op => auth'[o] = auth[o]
        <3>1. op \in Ops /\ auth \in [Ops -> AuthState]
            BY Names DEF FrameInv, FrameTyped
        <3>2. CASE \E reply \in Replies : auth' = Reply(op, reply)
            <4>1. PICK a \in AuthState : auth' = [auth EXCEPT ![op] = a] /\ a.step = "answered"
                BY <3>2, ReplyFields
            <4> QED BY <3>1, <4>1
        <3>3. CASE auth' = [auth EXCEPT ![op].step = "again",
                               ![op].token = IF @ = "fresh" THEN "spent" ELSE @]
            BY <3>1, <3>3 DEF AuthState
        <3>4. CASE auth' = [auth EXCEPT ![op].step = "answered", ![op].reply = "ok"]
            BY <3>2, <3>4 DEF Reply, Replies
        <3> QED BY <1>9, <3>2, <3>3, <3>4 DEF AnswerRefused, AnswerVerified, Replies
    <2> QED BY <2>1, <2>2, Names DEF FormBusy
<1>10. ASSUME NEW op \in SignInRoutes, HearSignInError(op) PROVE FormBusy'
    <2>1. at' = at /\ \A o \in Ops : o # op => auth'[o] = auth[o]
        BY <1>10, Names DEF HearSignInError, FrameInv, FrameTyped
    <2>2. form'.submitting => form.submitting /\ at # op
        BY <1>10 DEF HearSignInError, FrameInv, FrameTyped, FormState
    <2> QED BY <2>1, <2>2, Names DEF FormBusy
<1>11. CASE UNCHANGED vars
    BY <1>11 DEF vars, clientVars, frameVars, signInVars, FormBusy
<1> QED BY <1>1, <1>2, <1>3, <1>4, <1>5, <1>6, <1>7, <1>8, <1>9, <1>10, <1>11, PagesStay

-----------------------------------------------------------------------------
(* The document *)

\* What no invariant of a page is about.
DocumentTyped ==
    /\ away \in BOOLEAN /\ offered \in Offers
    /\ config \in {"idle", "sent", "known", "unknown"}
    /\ script \in {"none", "loading", "ready", "failed"}

LEMMA DocumentTurn ==
    ASSUME DocumentTyped, FrameStep
    PROVE  DocumentTyped'
<1>1. UNCHANGED <<away, offered, script>>
    BY DEF FrameStep, Turns, BillingTurn, SignInTurn, HearMe, Redirect, Visit, PressLogout,
           HearLogout, HearSignedIn, HearRefresh
<1>2. config' \in {"idle", config, "sent"}
    BY DEF FrameStep, Turns, ConfigTurn
<1> QED BY <1>1, <1>2 DEF DocumentTyped

\* A configuration is heard, by the page that shows.
LEMMA ConfigHeard ==
    ASSUME HearConfig
    PROVE  config' \in {"known", "unknown"} /\ away' = away
BY DEF HearConfig

LEMMA DocumentBilling ==
    ASSUME DocumentTyped, BillingNext \/ GoBack, UNCHANGED signInVars
    PROVE  DocumentTyped'
<1>1. UNCHANGED <<offered, script>>
    BY DEF BillingNext, AnswerBilling, HearBilling, HearBillingConfig, TypeAmount, ChooseProvider,
           PressTopUp, AnswerTopUp, HearTopUp, Leave, GoBack, signInVars
<1>2. CASE HearBillingConfig
    BY <1>1, <1>2, ConfigHeard DEF HearBillingConfig, DocumentTyped
<1>3. CASE ~HearBillingConfig
    <2>1. UNCHANGED config /\ away' \in {TRUE, FALSE, away}
        BY <1>3 DEF BillingNext, AnswerBilling, HearBilling, TypeAmount, ChooseProvider, PressTopUp,
                    AnswerTopUp, HearTopUp, Leave, GoBack, clientVars, frameVars
    <2> QED BY <1>1, <2>1 DEF DocumentTyped
<1> QED BY <1>2, <1>3

LEMMA DocumentSignIn ==
    ASSUME DocumentTyped, SignInNext, UNCHANGED billingVars
    PROVE  DocumentTyped'
<1>1. CASE HearSignInConfig
    BY <1>1, ConfigHeard DEF HearSignInConfig, DocumentTyped, billingVars
<1>2. CASE ~HearSignInConfig
    <2>1. UNCHANGED <<away, config>> /\ script' \in {script, "ready", "failed"}
        BY <1>2 DEF SignInNext, ScriptLoads, Verify, TokenExpires, SubmitForm, AnswerRefused,
                    AnswerVerified, HearSignInError, clientVars, frameVars
    <2> QED BY <2>1 DEF DocumentTyped, billingVars
<1> QED BY <1>1, <1>2

LEMMA DocumentInv ==
    ASSUME DocumentTyped, [Next]_vars
    PROVE  DocumentTyped'
<1>1. CASE UNCHANGED <<away, offered, config, script>>
    BY <1>1 DEF DocumentTyped
<1>2. CASE FrameStep
    BY <1>2, DocumentTurn
<1>3. CASE Reload
    BY <1>3 DEF Reload, Open, SignInWithGoogle, NewDocument, BillingLost, SignInLost, DocumentTyped
<1>4. CASE UpstreamStep
    BY <1>1, <1>4 DEF UpstreamStep, AnswerMe, AnswerLogout, Expire, MoveBalance, frameVars,
                      billingVars, signInVars
<1>5. CASE OnOrders(OrdersNext)
    <2>1. OrdersNext /\ UNCHANGED <<offered, script>>
        BY <1>5 DEF OnOrders, billingVars, signInVars
    <2>2. UNCHANGED <<away, config>>
        BY <2>1 DEF OrdersNext, AnswerLoad, HearLoad, Retry, ChoosePlan, TypeQuantity, Submit,
                    AnswerOrder, HearOrder, HearOrderLoad, Publish, clientVars, frameVars
    <2> QED BY <1>1, <2>1, <2>2
<1>6. CASE OnBilling(BillingNext) \/ OnBilling(GoBack /\ Quiet)
    BY <1>6, DocumentBilling DEF OnBilling
<1>7. CASE OnAccount(AccountNext)
    BY <1>1, <1>7 DEF OnAccount, AccountNext, AnswerOverview, HearOverview, AnswerList, HearList, RetryList,
                PressUsage, AnswerUsage, HearUsage, Copy, CopyTimesOut, clientVars, frameVars,
                billingVars, signInVars
<1>8. CASE OnSignIn(SignInNext)
    BY <1>8, DocumentSignIn DEF OnSignIn
<1>9. CASE UNCHANGED vars
    BY <1>1, <1>9 DEF vars, clientVars, frameVars, billingVars, signInVars
<1> QED BY <1>2, <1>3, <1>4, <1>5, <1>6, <1>7, <1>8, <1>9 DEF Next

-----------------------------------------------------------------------------
(* The theorems about all pages *)

BrowserInv ==
    /\ FrameInv /\ OrdersInv /\ BillingInv
    /\ DocumentTyped /\ AccountTypeOK
    /\ OrdersBusy /\ BillingLoads /\ BillingBusy /\ AccountBusy /\ FormBusy

LEMMA BrowserInit == Init => BrowserInv
<1> SUFFICES ASSUME Init PROVE BrowserInv
    OBVIOUS
<1>1. DocumentTyped
    <2>1. (CHOOSE o \in Offers : TRUE) \in Offers
        BY BillingAssumption
    <2> QED BY <2>1 DEF Init, ClientInit, BillingInit, SignInInit, DocumentTyped
<1>2. AccountTypeOK
    BY AccountRests, OverviewRests DEF Init, AccountInit, AccountTypeOK, CardState, OverviewState
<1>3. OrdersBusy /\ BillingLoads /\ BillingBusy /\ FormBusy
    BY DEF Init, ClientInit, OrdersInit, BillingInit, SignInInit, FreshOrders, FreshBilling,
           FreshForm, OrdersBusy, BillingLoads, BillingBusy, FormBusy, Shown, Guarded, Dashboard
<1>4. AccountBusy
    BY AccountRests DEF Init, ClientInit, AccountInit, AccountBusy, Shown, Guarded, Dashboard
<1> QED BY <1>1, <1>2, <1>3, <1>4, FrameInit, OrdersInitInv, BillingInitInv DEF BrowserInv

LEMMA BrowserNext == BrowserInv /\ [Next]_vars => BrowserInv'
BY FrameNext, OrdersNextInv, BillingNextInv, DocumentInv, OrdersBusyInv, BillingLoadsInv,
   BillingBusyInv, AccountBusyInv, FormBusyInv DEF BrowserInv

\* The inductive invariant of the browser client, all of its pages together,
\* holds in every reachable state.
THEOREM BrowserInvariance == Spec => []BrowserInv
BY BrowserInit, BrowserNext, PTL DEF Spec

\* Every variable of the client keeps its type: also what the steps compute,
\* the balance an order leaves and the quantity a load or a customer sets.
THEOREM BrowserTyped == Spec => []BrowserTypeOK
<1>1. ASSUME BrowserInv PROVE BrowserTypeOK
    <2>1. ClientTypeOK
        BY <1>1 DEF BrowserInv, FrameInv, FrameTyped, OrdersInv, OrdersTyped, DocumentTyped,
                    ClientTypeOK, MeState, AuthState
    <2>2. OrdersTypeOK
        BY <1>1 DEF BrowserInv, OrdersInv, OrdersTyped, OrdersTypeOK, OrdersState, LoadState,
                    OrderState
    <2>3. BillingTypeOK
        BY <1>1 DEF BrowserInv, BillingInv, BillingTyped, DocumentTyped, BillingTypeOK,
                    BillingState, PayState
    <2>4. AccountTypeOK /\ SignInTypeOK
        BY <1>1 DEF BrowserInv, FrameInv, FrameTyped, DocumentTyped, SignInTypeOK, FormState
    <2> QED BY <2>1, <2>2, <2>3, <2>4 DEF BrowserTypeOK
<1> QED BY <1>1, BrowserInvariance, PTL

\* No spinner of the dashboard, no button that is off while it loads and no
\* flag stays for good because what it waits for is gone: there is always a request or a
\* timer that ends it, in any order of answers, visits and reloads.
THEOREM BusyIsWorking == Spec => []BusyMeansWorking
<1>1. ASSUME BrowserInv PROVE BusyMeansWorking
    <2>1. at \in Dashboard /\ ~Guarded => MeBusy \/ SignedOut
        BY <1>1, Names DEF BrowserInv, FrameInv, Guarded, MeBusy, SignedOut
    <2> QED BY <1>1, <2>1 DEF BrowserInv, OrdersBusy, BillingLoads, BillingBusy, AccountBusy,
                              FormBusy,
                              BusyMeansWorking
<1> QED BY <1>1, BrowserInvariance, PTL
=============================================================================
