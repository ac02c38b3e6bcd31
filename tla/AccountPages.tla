---------------------------- MODULE AccountPages ----------------------------
(***************************************************************************)
(* /dashboard, the overview, and /dashboard/proxies, the list of what the  *)
(* customer has bought.  One card of the list has state here: the cards do *)
(* not know of each other.  What a list holds is left out, but for whether *)
(* it is empty; nothing a customer can press depends on more.              *)
(***************************************************************************)
EXTENDS Client

CONSTANTS MaxTimers     \* bound: copies whose flag has not timed out

ASSUME AccountAssumption == MaxTimers \in Nat

VARIABLES
    owned,          \* the account has proxies
    overview,       \* the overview: its loading and its requests
    listing,        \* the list: none yet, or empty, or full; the error it shows
    listCall,       \* GET /proxies
    card            \* a card of the list

accountVars == <<owned, overview, listing, listCall, card>>

FreshOverview == [loading |-> TRUE, call |-> "idle"]
FreshListing == [proxies |-> "none", error |-> FALSE]
FreshCard == [usage |-> FALSE, loadingUsage |-> FALSE, usageCall |-> "idle",
              copied |-> FALSE, timers |-> 0]

AccountTypeOK ==
    /\ owned \in BOOLEAN
    /\ overview \in [loading : BOOLEAN, call : {"idle", "sent", "answered"}]
    /\ listing \in [proxies : {"none", "empty", "full"}, error : BOOLEAN]
    /\ listCall \in {"idle", "sent", "failed", "empty", "full"}
    /\ card \in [usage : BOOLEAN, loadingUsage : BOOLEAN,
                 usageCall : {"idle", "sent", "ok", "failed"},
                 copied : BOOLEAN, timers : 0..MaxTimers]

\* A visit that does not come to the list need not tell what it holds.
AccountInit ==
    /\ owned \in (IF "proxies" \in visit.routes THEN BOOLEAN ELSE {FALSE})
    /\ overview = FreshOverview /\ listing = FreshListing
    /\ listCall = "idle" /\ card = FreshCard

-----------------------------------------------------------------------------
(* The overview *)

\* Its three requests are answered, or the first of them fails; an error
\* shows $0.00 and no orders, and nothing a customer can press depends on it.
AnswerOverview ==
    /\ Awake /\ overview.call = "sent"
    /\ overview' = [overview EXCEPT !.call = "answered"]
    /\ UNCHANGED <<clientVars, owned, listing, listCall, card>>

\* Either way the spinner goes.
HearOverview ==
    /\ Awake /\ overview.call = "answered"
    /\ overview' = [loading |-> FALSE, call |-> "idle"]
    /\ UNCHANGED <<clientVars, owned, listing, listCall, card>>

-----------------------------------------------------------------------------
(* The list *)

AnswerList ==
    /\ Awake /\ listCall = "sent"
    /\ listCall' \in {IF o # "ok" THEN "failed" ELSE IF owned THEN "full" ELSE "empty" :
                        o \in Outcomes(TRUE)}
    /\ UNCHANGED <<clientVars, owned, overview, listing, card>>

HearList ==
    /\ Awake /\ listCall \in {"failed", "empty", "full"}
    /\ listing' = IF listCall = "failed" THEN [listing EXCEPT !.error = TRUE]
                  ELSE [listing EXCEPT !.proxies = listCall]
    /\ listCall' = "idle"
    /\ UNCHANGED <<clientVars, owned, overview, card>>

\* An error hides the list, a missing list shows the spinner.
ListShows == IF listing.error THEN "error"
             ELSE IF listing.proxies = "none" THEN "spinner" ELSE listing.proxies

\* The button of ErrorState: load() takes the error away first.
RetryList ==
    /\ Awake /\ Shown("proxies") /\ ListShows = "error"
    /\ listing' = [listing EXCEPT !.error = FALSE]
    /\ listCall' = "sent"
    /\ UNCHANGED <<clientVars, owned, overview, card>>

-----------------------------------------------------------------------------
(* A card *)

\* Bound: the cards are used in visits that come for them.
CardShown == Awake /\ Shown("proxies") /\ ListShows = "full" /\ "proxies" \in visit.routes

PressUsage ==
    /\ CardShown /\ ~card.loadingUsage
    /\ card' = [card EXCEPT !.loadingUsage = TRUE, !.usageCall = "sent"]
    /\ UNCHANGED <<clientVars, owned, overview, listing, listCall>>

AnswerUsage ==
    /\ Awake /\ card.usageCall = "sent"
    /\ card' \in {[card EXCEPT !.usageCall = IF o = "ok" THEN "ok" ELSE "failed"] :
                    o \in Outcomes(TRUE)}
    /\ UNCHANGED <<clientVars, owned, overview, listing, listCall>>

\* An error leaves the usage of the time before.
HearUsage ==
    /\ Awake /\ card.usageCall \in {"ok", "failed"}
    /\ card' = [card EXCEPT !.usage = @ \/ card.usageCall = "ok",
                            !.loadingUsage = FALSE, !.usageCall = "idle"]
    /\ UNCHANGED <<clientVars, owned, overview, listing, listCall>>

\* Each copy shows its flag and starts a timer of its own.
Copy ==
    /\ CardShown /\ card.timers < MaxTimers
    /\ card' = [card EXCEPT !.copied = TRUE, !.timers = @ + 1]
    /\ UNCHANGED <<clientVars, owned, overview, listing, listCall>>

\* The timer of an earlier copy takes the flag of a later one away.
CopyTimesOut ==
    /\ Awake /\ card.timers > 0
    /\ card' = [card EXCEPT !.copied = FALSE, !.timers = @ - 1]
    /\ UNCHANGED <<clientVars, owned, overview, listing, listCall>>

-----------------------------------------------------------------------------
(* The pages come and go; the overview aborts its requests, and a late     *)
(* answer to the list of a page that is gone changes nothing.              *)

AccountTurn ==
    LET stays(r) == Shown(r) /\ Shown(r)'
    IN /\ overview' = IF stays("overview") THEN overview
                      ELSE IF Shown("overview")' THEN [FreshOverview EXCEPT !.call = "sent"]
                      ELSE FreshOverview
       /\ listing' = IF stays("proxies") THEN listing ELSE FreshListing
       /\ listCall' = IF stays("proxies") THEN listCall
                      ELSE IF Shown("proxies")' THEN "sent" ELSE "idle"
       /\ card' = IF stays("proxies") THEN card ELSE FreshCard
       /\ owned' = owned

AccountLost ==
    /\ overview' = FreshOverview /\ listing' = FreshListing
    /\ listCall' = "idle" /\ card' = FreshCard
    /\ owned' = owned

AccountNext ==
    \/ AnswerOverview \/ HearOverview
    \/ AnswerList \/ HearList \/ RetryList
    \/ PressUsage \/ AnswerUsage \/ HearUsage \/ Copy \/ CopyTimesOut
=============================================================================
