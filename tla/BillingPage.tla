---------------------------- MODULE BillingPage -----------------------------
(***************************************************************************)
(* /dashboard/billing: the form that starts a top-up and hands the         *)
(* document over to the provider's checkout.  handleTopup is one step      *)
(* here: TopUp has its steps, and those of the payment.                    *)
(***************************************************************************)
EXTENDS Client

CONSTANTS
    Offers,         \* bound: the sets of providers that may be configured
    Amounts,        \* what a customer may type, in cents
    MinCents,       \* config.min_topup_cents
    MaxCents        \* the ceiling of handleTopup

Providers == {"stripe", "nowpayments"}

ASSUME BillingAssumption ==
    /\ Offers \subseteq SUBSET Providers /\ Offers # {}
    /\ Amounts \subseteq Nat
    /\ MinCents \in Nat /\ MaxCents \in Nat /\ MinCents \in Amounts

VARIABLES
    offered,        \* the providers that are configured
    billing,        \* the page
    pay             \* the submissions under way

billingVars == <<offered, billing, pay>>

FreshBilling == [loading |-> TRUE, call |-> "idle", amount |-> MinCents, provider |-> "stripe",
                 submitting |-> FALSE, returned |-> FALSE]
NoPay == [step |-> "idle", amount |-> MinCents, provider |-> "stripe",
          reply |-> "none", mine |-> FALSE]

\* The answers of POST /wallet/topup: refused by its checks, or failed.
PayReplies == {"none", "checkout", "refused", "failed"}

\* returned is auxiliary: the page came back from the browser's cache.
BillingTypeOK ==
    /\ offered \in Offers
    /\ billing \in [loading : BOOLEAN, call : {"idle", "sent", "answered"}, amount : Amounts,
                    provider : Providers, submitting : BOOLEAN, returned : BOOLEAN]
    /\ pay \in [Presses -> [step : {"idle", "sent", "answered", "leaving"}, amount : Amounts,
                            provider : Providers, reply : PayReplies, mine : BOOLEAN]]

\* A visit that does not come to the page need not tell the offers apart.
BillingInit ==
    /\ offered \in (IF "billing" \in visit.routes THEN Offers ELSE {CHOOSE o \in Offers : TRUE})
    /\ billing = FreshBilling
    /\ pay = [i \in Presses |-> NoPay]

-----------------------------------------------------------------------------
(* The page *)

\* The three requests of load() are answered, or the first of them fails.
\* Nothing a customer can press depends on which: an error leaves the empty
\* states, and $0.00.
AnswerBilling ==
    /\ Awake /\ billing.call = "sent"
    /\ billing' = [billing EXCEPT !.call = "answered"]
    /\ UNCHANGED <<clientVars, offered, pay>>

\* load() ends, and the spinner with it.
HearBilling ==
    /\ Awake /\ billing.call = "answered"
    /\ billing' = [billing EXCEPT !.call = "idle", !.loading = FALSE]
    /\ UNCHANGED <<clientVars, offered, pay>>

\* Mutant: the form starts with cards whatever is configured.
AnyDefault(p) == p

\* The effect that follows the configuration.
DefaultProvider(p) ==
    IF "stripe" \notin offered /\ "nowpayments" \in offered THEN "nowpayments" ELSE p

HearBillingConfig ==
    /\ Shown("billing")
    /\ HearConfig
    /\ billing' = IF config' = "known" THEN [billing EXCEPT !.provider = DefaultProvider(@)]
                                       ELSE billing
    /\ UNCHANGED <<offered, pay>>

\* No form without a provider, and no provider without a configuration.
TopUpFormShown ==
    Awake /\ Shown("billing") /\ ~billing.loading /\ config = "known" /\ offered # {}

TypeAmount(a) ==
    /\ TopUpFormShown /\ a # billing.amount
    /\ billing' = [billing EXCEPT !.amount = a]
    /\ UNCHANGED <<clientVars, offered, pay>>

ChooseProvider(p) ==
    /\ TopUpFormShown /\ p \in offered \ {billing.provider}
    /\ billing' = [billing EXCEPT !.provider = p]
    /\ UNCHANGED <<clientVars, offered, pay>>

-----------------------------------------------------------------------------
(* topup *)

\* An amount below the minimum is not sent.
PressTopUp(i) ==
    /\ TopUpFormShown /\ ButtonOn(FALSE, billing.submitting)
    /\ billing.amount >= MinCents
    /\ pay[i].step = "idle"
    /\ pay' = [pay EXCEPT ![i] = [step |-> "sent", amount |-> billing.amount,
                                  provider |-> billing.provider, reply |-> "none",
                                  mine |-> TRUE]]
    /\ billing' = [billing EXCEPT !.submitting = TRUE]
    /\ UNCHANGED <<clientVars, offered>>

\* The checks of decode and of handleTopup; every later error is a failure.
TopUpVerdict(i) ==
    IF /\ pay[i].amount >= 1 /\ pay[i].amount \in MinCents..MaxCents
       /\ pay[i].provider \in offered
      THEN "checkout" ELSE "refused"

AnswerTopUp(i) ==
    /\ Awake /\ pay[i].step = "sent"
    /\ \E o \in Outcomes(TRUE) :
         pay' = [pay EXCEPT ![i] = [NoPay EXCEPT !.step = "answered", !.mine = pay[i].mine,
                                    !.reply = IF o = "ok" THEN TopUpVerdict(i) ELSE "failed"]]
    /\ UNCHANGED <<clientVars, offered, billing>>

\* A checkout's address is handed to the browser, the button still off; an
\* error turns the button on again.
HearTopUp(i) ==
    /\ Awake /\ pay[i].step = "answered"
    /\ IF pay[i].reply = "checkout"
         THEN /\ pay' = [pay EXCEPT ![i].step = "leaving"]
              /\ billing' = billing
         ELSE /\ pay' = [pay EXCEPT ![i] = NoPay]
              /\ billing' = IF pay[i].mine THEN [billing EXCEPT !.submitting = FALSE]
                                           ELSE billing
    /\ UNCHANGED <<clientVars, offered>>

\* The browser leaves the document, whatever page it shows by now.
Leave(i) ==
    /\ Awake /\ pay[i].step = "leaving"
    /\ away' = TRUE
    /\ pay' = [pay EXCEPT ![i] = NoPay]
    /\ UNCHANGED <<shopVars, at, user, loading, me, config, auth, orderly, offered, billing>>

\* The customer goes back, and the browser still has the document as it was.
GoBack ==
    /\ away
    /\ away' = FALSE
    /\ billing' = [billing EXCEPT !.returned = billing.submitting]
    /\ UNCHANGED <<shopVars, at, user, loading, me, config, auth, orderly, offered, pay>>

-----------------------------------------------------------------------------
(* The page comes and goes: its effect loads, a late answer to a page that  *)
(* is gone changes nothing, and a submission goes on without it.          *)

BillingTurn ==
    LET stays == Shown("billing") /\ Shown("billing")'
    IN /\ billing' = IF stays THEN billing
                     ELSE IF Shown("billing")' THEN [FreshBilling EXCEPT !.call = "sent"]
                     ELSE FreshBilling
       /\ pay' = [i \in Presses |-> [pay[i] EXCEPT !.mine = @ /\ stays]]
       /\ offered' = offered

BillingLost ==
    /\ billing' = FreshBilling
    /\ pay' = [i \in Presses |-> NoPay]
    /\ offered' = offered

BillingNext ==
    \/ AnswerBilling \/ HearBilling \/ HearBillingConfig
    \/ \E a \in Amounts : TypeAmount(a)
    \/ \E p \in Providers : ChooseProvider(p)
    \/ \E i \in Presses : PressTopUp(i) \/ AnswerTopUp(i) \/ HearTopUp(i) \/ Leave(i)

-----------------------------------------------------------------------------
(* Properties *)

\* A top-up the form lets through is refused for its amount only, when it is
\* above the ceiling, of which the form knows nothing, or nothing at all,
\* where the configured minimum is 0: its minimum and its choice of provider
\* are the server's, also before the customer chooses.
TopupMeetsTerms ==
    [][\A i \in Presses : pay'[i].reply = "refused" /\ pay[i].reply = "none"
                              => pay[i].amount > MaxCents \/ pay[i].amount = 0]_billingVars

\* One page never has two top-ups under way, up to the moment it is left.
OneTopupPerPage ==
    \A i, j \in Presses : pay[i].mine /\ pay[j].mine => i = j
=============================================================================
