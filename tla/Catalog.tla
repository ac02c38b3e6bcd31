------------------------------- MODULE Catalog --------------------------------
(***************************************************************************)
(* The catalogue: catalog.Sync mirrors what VaultProxies offers into table *)
(* plans, one statement per step; handleListPlans serves the active plans  *)
(* from a list cached in Redis.  Syncs run at start-up (main.go) and on    *)
(* POST /admin/catalog/sync, and nothing keeps two of them apart.          *)
(*                                                                         *)
(* Faults names what the environment may do wrong:                         *)
(*   "vault"  VaultProxies cannot be reached                               *)
(*   "db"     a statement fails, or is done and not acknowledged; what a    *)
(*            sync has written so far stays                                *)
(*   "redis"  a call to Redis fails: a Get is a miss, a Set or Del is lost *)
(***************************************************************************)
EXTENDS Integers

CONSTANTS
    Codes,          \* the keys of VaultProxies' categories
    Seed,           \* the codes of the plans the migrations insert
    Prices,         \* wholesale prices in cents
    Markups,        \* RESELLER_MARKUP in percent; config.go refuses less than 100
    FallShort,      \* pairs of a price and a markup whose product is exactly
                    \* half a cent over, but less than that as a float64
    Syncs,          \* runs of catalog.Sync
    Readers,        \* visitors, with one GET /plans at a time
    MaxChanges,     \* bound on the changes of VaultProxies' offer
    NoList,         \* an empty cache
    Faults

Offers == UNION {[offered -> Prices] : offered \in SUBSET Codes}

ASSUME CatalogAssumption ==
    /\ Seed \subseteq Codes
    /\ Prices \subseteq Nat
    /\ Markups \subseteq {m \in Nat : m >= 100}
    /\ FallShort \subseteq Prices \X Markups
    /\ MaxChanges \in Nat
    /\ Faults \subseteq {"vault", "db", "redis"}

VARIABLES
    markup,         \* Cfg.ResellerMarkup, read once
    upstream,       \* VaultProxies: the price of each code it offers
    changes,        \* changes of upstream so far
    plans,          \* table plans, by code
    cached,         \* the Redis key cache:plans:v1
    sync,           \* the locals of each sync
    reader          \* the locals of each visitor's GET /plans

vars == <<markup, upstream, changes, plans, cached, sync, reader>>

\* origin: whether a row exists, and what has written it last.
Plan == [origin : {"none", "migration", "sync"}, active : BOOLEAN,
         wholesale : Nat, retail : Nat]

\* What a visitor is shown: retail prices by code.
IsListing(l) == DOMAIN l \subseteq Codes /\ \A c \in DOMAIN l : l[c] \in Nat

SyncSteps == {"idle", "upsert", "deactivate", "drop", "ended"}
Working == {"upsert", "deactivate", "drop"}

TypeOK ==
    /\ markup \in Markups
    /\ upstream \in Offers
    /\ changes \in 0 .. MaxChanges
    /\ plans \in [Codes -> Plan]
    /\ cached = NoList \/ IsListing(cached)
    /\ DOMAIN sync = Syncs
    /\ \A s \in Syncs :
          /\ sync[s].pc \in SyncSteps
          /\ sync[s].offer \in Offers
          /\ sync[s].todo \subseteq DOMAIN sync[s].offer
          /\ sync[s].codes \subseteq DOMAIN sync[s].offer
          /\ sync[s].alone \in BOOLEAN
    /\ DOMAIN reader = Readers
    /\ \A r \in Readers :
          /\ reader[r].pc \in {"get", "list", "set"}
          /\ reader[r].list = NoList \/ IsListing(reader[r].list)

-----------------------------------------------------------------------------
\* Mutant: the half cent is forgotten.
RetailTruncated(wholesale) == (wholesale * markup) \div 100

\* int64(float64(wholesale)*markup + 0.5), and never below wholesale.  The
\* float64 product is off by far less than the hundredth of a cent the exact
\* one is a multiple of; that shows only where it is half a cent over: with a
\* markup of 1.15, 10 becomes 12 (from 11.5), but 50 becomes 57 (from 57.5).
Retail(wholesale) ==
    LET exact   == wholesale * markup
        rounded == IF exact % 100 = 50 /\ <<wholesale, markup>> \in FallShort
                     THEN exact \div 100
                     ELSE (exact + 50) \div 100
    IN  IF rounded < wholesale THEN wholesale ELSE rounded

\* ListActivePlans: one SELECT, so one state of the table.
ActiveList == [c \in {d \in Codes : plans[d].active} |-> plans[c].retail]

Init ==
    /\ markup \in Markups
    /\ upstream \in Offers
    /\ changes = 0
    /\ \E price \in Prices :
         plans = [c \in Codes |-> IF c \in Seed
                    THEN [origin |-> "migration", active |-> TRUE, wholesale |-> price,
                          retail |-> 2 * price]
                    ELSE [origin |-> "none", active |-> FALSE, wholesale |-> 0, retail |-> 0]]
    /\ cached = NoList
    /\ sync = [s \in Syncs |-> [pc |-> "idle", offer |-> << >>, todo |-> {}, codes |-> {},
                             alone |-> TRUE]]
    /\ reader = [r \in Readers |-> [pc |-> "get", list |-> NoList]]

\* A statement is done, or fails, or is done and its acknowledgement is lost.
StoreOutcomes == {"ok"} \cup IF "db" \in Faults THEN {"error", "unacked"} ELSE {}
CacheOutcomes == {"ok"} \cup ({"redis"} \cap Faults)

-----------------------------------------------------------------------------
(* catalog.Sync *)

Goto(s, pc) == sync' = [sync EXCEPT ![s].pc = pc]

\* The sync returns, with a result or an error; of its locals only what it
\* fetched matters from here on, and only to the properties.
End(s) == sync' = [sync EXCEPT ![s].pc = "ended", ![s].todo = {}, ![s].codes = {}, ![s].alone = TRUE]

\* Mutant: the sync works through every code it knows.
FetchAllCodes(s) ==
    /\ sync[s].pc = "idle"
    /\ DOMAIN upstream # {}
    /\ sync' = [sync EXCEPT ![s] = [pc |-> "upsert", offer |-> upstream,
                                    todo |-> Codes, codes |-> {}, alone |-> TRUE]]
    /\ UNCHANGED <<markup, upstream, changes, plans, cached, reader>>

\* Client.Catalog: an unreachable or empty upstream ends the sync.  A sync is
\* alone as long as no other one works at the same time (auxiliary).
Fetch(s) ==
    LET others == {t \in Syncs \ {s} : sync[t].pc \in Working} IN
    /\ sync[s].pc = "idle"
    /\ \/ /\ DOMAIN upstream # {}
          /\ sync' = [t \in Syncs |->
                        IF t = s THEN [pc |-> "upsert", offer |-> upstream,
                                       todo |-> DOMAIN upstream, codes |-> {},
                                       alone |-> others = {}]
                        ELSE IF t \in others THEN [sync[t] EXCEPT !.alone = FALSE]
                        ELSE sync[t]]
       \/ /\ DOMAIN upstream = {} \/ "vault" \in Faults
          /\ End(s)
    /\ UNCHANGED <<markup, upstream, changes, plans, cached, reader>>

\* Mutant: ON CONFLICT does not set active.
UpsertPlanKeepsActive(c, price) ==
    plans' = [plans EXCEPT ![c] = [origin |-> "sync",
                                   active |-> IF @.origin = "none" THEN TRUE ELSE @.active,
                                   wholesale |-> price, retail |-> Retail(price)]]

\* store.UpsertPlan.
UpsertPlan(c, price) ==
    plans' = [plans EXCEPT ![c] = [origin |-> "sync", active |-> TRUE,
                                   wholesale |-> price, retail |-> Retail(price)]]

\* Mutant: a product that cannot be written is left out, and the sync goes on.
UpsertSkips(s) ==
    /\ sync[s].pc = "upsert"
    /\ \E c \in sync[s].todo, o \in StoreOutcomes :
         LET rest == sync[s].todo \ {c} IN
         /\ IF o # "error" THEN UpsertPlan(c, sync[s].offer[c]) ELSE UNCHANGED plans
         /\ sync' = [sync EXCEPT ![s].todo = rest,
                                 ![s].codes = IF o = "ok" THEN @ \cup {c} ELSE @,
                                 ![s].pc = IF rest = {} THEN "deactivate" ELSE @]
    /\ UNCHANGED <<markup, upstream, changes, cached, reader>>

\* The products are written one by one, in an order by type and price that
\* depends on the data: any order here.  The first error ends the sync; codes
\* collects what has been written.
Upsert(s) ==
    /\ sync[s].pc = "upsert"
    /\ \E c \in sync[s].todo, o \in StoreOutcomes :
         LET rest == sync[s].todo \ {c} IN
         /\ IF o # "error" THEN UpsertPlan(c, sync[s].offer[c]) ELSE UNCHANGED plans
         /\ IF o = "ok" THEN sync' = [sync EXCEPT ![s].todo = rest,
                                        ![s].codes = @ \cup {c},
                                        ![s].pc = IF rest = {} THEN "deactivate" ELSE @]
                        ELSE End(s)
    /\ UNCHANGED <<markup, upstream, changes, cached, reader>>

\* store.DeactivatePlansNotIn, with the codes of what has been written; for
\* an empty list it does nothing and succeeds.
DeactivatePlansNotIn(s) ==
    LET codes == sync[s].codes IN
    /\ sync[s].pc = "deactivate"
    /\ \E o \in IF codes = {} THEN {"ok"} ELSE StoreOutcomes :
         /\ plans' = [c \in Codes |-> IF o = "error" \/ codes = {} \/ c \in codes THEN plans[c]
                                      ELSE [plans[c] EXCEPT !.active = FALSE]]
         /\ IF o = "ok" THEN Goto(s, "drop") ELSE End(s)
    /\ UNCHANGED <<markup, upstream, changes, cached, reader>>

\* The caller of Sync drops the cached list, after a success only.
DropCache(s) ==
    /\ sync[s].pc = "drop"
    /\ \E o \in CacheOutcomes : cached' = IF o = "ok" THEN NoList ELSE cached
    /\ End(s)
    /\ UNCHANGED <<markup, upstream, changes, plans, reader>>

-----------------------------------------------------------------------------
(* handleListPlans *)

GetCached(r) ==
    /\ reader[r].pc = "get"
    /\ \E o \in CacheOutcomes :
         reader' = [reader EXCEPT ![r].pc = IF o = "ok" /\ cached # NoList THEN "get"
                                                                           ELSE "list"]
    /\ UNCHANGED <<markup, upstream, changes, plans, cached, sync>>

ListActivePlans(r) ==
    /\ reader[r].pc = "list"
    /\ \E o \in StoreOutcomes :
         reader' = [reader EXCEPT ![r] = IF o = "ok"
                                           THEN [pc |-> "set", list |-> ActiveList]
                                           ELSE [pc |-> "get", list |-> NoList]]
    /\ UNCHANGED <<markup, upstream, changes, plans, cached, sync>>

SetCached(r) ==
    /\ reader[r].pc = "set"
    /\ \E o \in CacheOutcomes : cached' = IF o = "ok" THEN reader[r].list ELSE cached
    /\ reader' = [reader EXCEPT ![r] = [pc |-> "get", list |-> NoList]]
    /\ UNCHANGED <<markup, upstream, changes, plans, sync>>

\* Mutant: the list is stored for ever.
ExpireNever == UNCHANGED vars

\* The cached list expires after 60 s.
Expire ==
    /\ cached # NoList
    /\ cached' = NoList
    /\ UNCHANGED <<markup, upstream, changes, plans, sync, reader>>

\* VaultProxies changes its offer, external.
ChangeOffer ==
    /\ changes < MaxChanges
    /\ changes' = changes + 1
    /\ upstream' \in Offers \ {upstream}
    /\ UNCHANGED <<markup, plans, cached, sync, reader>>

SyncStep(s) == Upsert(s) \/ DeactivatePlansNotIn(s) \/ DropCache(s)

ReaderStep(r) == ListActivePlans(r) \/ SetCached(r)

Next ==
    \/ \E s \in Syncs : Fetch(s) \/ SyncStep(s)
    \/ \E r \in Readers : GetCached(r) \/ ReaderStep(r)
    \/ Expire
    \/ ChangeOffer

Spec == Init /\ [][Next]_vars

\* What has begun goes on, and the list expires; nobody has to begin.
FairSpec ==
    /\ Spec
    /\ \A s \in Syncs : WF_vars(SyncStep(s))
    /\ \A r \in Readers : WF_vars(ReaderStep(r))
    /\ WF_vars(Expire)

-----------------------------------------------------------------------------
Fetched(s) == sync[s].offer # << >>

\* A product on sale that VaultProxies has offered at every fetch is never
\* withdrawn, whatever fails and however many syncs run at once: no upsert is
\* undone and no deactivation hits it (catalog.Sync, DeactivatePlansNotIn).
NeverWithdrawn ==
    \A c \in Seed :
        (\A s \in Syncs : Fetched(s) => c \in DOMAIN sync[s].offer) => plans[c].active

\* A sync that runs alone leaves on sale exactly what it fetched, at the
\* prices it fetched (API.md: "deactivating any plan no longer offered
\* upstream"), also products that had been withdrawn before.
SyncMirrorsOffer ==
    [][\A s \in Syncs :
          sync[s].pc = "deactivate" /\ sync'[s].pc = "drop" /\ sync[s].alone =>
              \A c \in Codes :
                  /\ plans'[c].active <=> c \in DOMAIN sync[s].offer
                  /\ c \in DOMAIN sync[s].offer => plans'[c].wholesale = sync[s].offer[c]]_vars

\* No plan is ever priced below wholesale, and in every plan a sync has
\* written, retail is wholesale times the markup to the nearest cent, half a
\* cent either way: no interleaving of two syncs pairs the wholesale price of
\* one with the retail price of the other (Sync: "retail = round(wholesale *
\* markup)").
PricedByMarkup ==
    \A c \in Codes :
        LET exact == plans[c].wholesale * markup
            shown == plans[c].retail * 100
        IN  /\ plans[c].retail >= plans[c].wholesale
            /\ plans[c].origin = "sync" => shown - exact \in -50 .. 50

\* When the catalogue is left alone, visitors come to see it as it is: a list
\* stored late, or not dropped because a sync failed half way, does not stay.
CacheCatchesUp == <>[](cached = NoList \/ cached = ActiveList)
=============================================================================
