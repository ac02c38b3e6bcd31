--------------------------- MODULE Catalog_proofs ---------------------------
(***************************************************************************)
(* Safety of the catalogue for any number of codes, syncs and visitors,    *)
(* any prices and markup, and every set of faults: types, prices that fit  *)
(* the markup, that what is continuously offered stays on sale, and that a *)
(* sync that runs alone leaves what it fetched.                            *)
(***************************************************************************)
EXTENDS Catalog, TLAPS

SyncState == [pc : SyncSteps, offer : Offers, todo : SUBSET Codes, codes : SUBSET Codes,
              alone : BOOLEAN]

\* What a sync may write follows from what it fetched, once, and not empty.
SyncSound(s) ==
    /\ sync[s].todo \subseteq DOMAIN sync[s].offer
    /\ sync[s].codes \subseteq DOMAIN sync[s].offer
    /\ sync[s].pc = "upsert" => sync[s].codes = DOMAIN sync[s].offer \ sync[s].todo
    /\ sync[s].pc = "deactivate" => sync[s].codes = DOMAIN sync[s].offer
    /\ sync[s].pc = "idle" => ~Fetched(s)
    /\ sync[s].pc \in Working => Fetched(s) /\ DOMAIN sync[s].offer # {}

IsList(l) == l = NoList \/ IsListing(l)

ReaderSound(r) ==
    /\ reader[r].pc \in {"get", "list", "set"}
    /\ IsList(reader[r].list)

Tables ==
    /\ markup \in Markups
    /\ upstream \in Offers
    /\ changes \in 0 .. MaxChanges
    /\ plans \in [Codes -> Plan]
    /\ IsList(cached)

ReaderRecord == \A r \in Readers : reader[r] = [pc |-> reader[r].pc, list |-> reader[r].list]

Inv ==
    /\ Tables
    /\ sync \in [Syncs -> SyncState]
    /\ \A s \in Syncs : SyncSound(s)
    /\ DOMAIN reader = Readers
    /\ ReaderRecord
    /\ \A r \in Readers : ReaderSound(r)
    /\ NeverWithdrawn
    /\ PricedByMarkup

-----------------------------------------------------------------------------
LEMMA NoOffer == << >> \in Offers /\ DOMAIN << >> = {}
<1>1. << >> \in [{} -> Prices]
    OBVIOUS
<1>2. {} \in SUBSET Codes
    OBVIOUS
<1> QED BY <1>1, <1>2 DEF Offers

LEMMA OfferPrices ==
    ASSUME NEW o \in Offers
    PROVE  DOMAIN o \subseteq Codes /\ \A c \in DOMAIN o : o[c] \in Nat
<1>1. Prices \subseteq Nat
    BY CatalogAssumption
<1>2. PICK offered \in SUBSET Codes : o \in [offered -> Prices]
    BY DEF Offers
<1> QED BY <1>1, <1>2

\* Adding half and cutting off is rounding to the nearest; at exactly half,
\* so is cutting off.
LEMMA Rounding ==
    ASSUME NEW x \in Nat
    PROVE  /\ (x + 50) \div 100 \in Nat
           /\ ((x + 50) \div 100) * 100 - x \in -50 .. 50
           /\ x \div 100 \in Nat
           /\ x % 100 = 50 => (x \div 100) * 100 - x = -50
OBVIOUS

LEMMA Product ==
    ASSUME NEW w \in Nat, NEW m \in Nat, m >= 100
    PROVE  w * m \in Nat /\ w * m >= 100 * w
<1>1. PICK k \in Nat : m = 100 + k
    <2>1. m - 100 \in Nat /\ m = 100 + (m - 100)
        OBVIOUS
    <2> QED BY <2>1
<1>2. w * k \in Nat
    BY SMT
<1>3. w * m = 100 * w + w * k
    BY <1>1, SMT
<1> QED BY <1>2, <1>3

LEMMA RetailFits ==
    ASSUME markup \in Markups, NEW w \in Nat
    PROVE  /\ Retail(w) \in Nat
           /\ Retail(w) >= w
           /\ Retail(w) * 100 - w * markup \in -50 .. 50
<1>1. markup \in Nat /\ markup >= 100
    BY CatalogAssumption
<1>2. PICK x \in Nat : x = w * markup /\ x >= 100 * w
    BY <1>1, Product
<1> DEFINE up == (x + 50) \div 100
           down == x \div 100
           short == x % 100 = 50 /\ <<w, markup>> \in FallShort
           r == IF short THEN down ELSE up
<1>3. /\ up \in Nat /\ up * 100 - x \in -50 .. 50
      /\ down \in Nat /\ (short => down * 100 - x = -50)
    BY Rounding
<1>4. Retail(w) = IF r < w THEN w ELSE r
    BY <1>2 DEF Retail
<1> HIDE DEF up, down, short
<1>5. r \in Nat /\ r * 100 - x \in -50 .. 50
    BY <1>2, <1>3
<1>6. r >= w
    BY <1>2, <1>5
<1>7. Retail(w) = r
    BY <1>4, <1>5, <1>6
<1> HIDE DEF r
<1> QED BY <1>2, <1>5, <1>6, <1>7

-----------------------------------------------------------------------------
LEMMA InitInv == Init => Inv
<1> SUFFICES ASSUME Init PROVE Inv
    OBVIOUS
<1>1. plans \in [Codes -> Plan]
    BY CatalogAssumption DEF Init, Plan
<1>2. Tables
    <2>1. changes \in 0 .. MaxChanges
        BY CatalogAssumption DEF Init
    <2>2. markup \in Markups /\ upstream \in Offers /\ cached = NoList
        BY DEF Init
    <2> QED BY <1>1, <2>1, <2>2 DEF Tables, IsList
<1>3. sync \in [Syncs -> SyncState] /\ \A s \in Syncs : SyncSound(s)
    BY NoOffer DEF Init, SyncState, SyncSteps, SyncSound, Fetched, Working
<1>4. DOMAIN reader = Readers /\ ReaderRecord /\ \A r \in Readers : ReaderSound(r)
    BY DEF Init, ReaderRecord, ReaderSound, IsList
<1>5. NeverWithdrawn
    BY CatalogAssumption DEF Init, NeverWithdrawn
<1>6. PricedByMarkup
    <2>1. PICK price \in Prices :
             plans = [c \in Codes |-> IF c \in Seed
                        THEN [origin |-> "migration", active |-> TRUE, wholesale |-> price,
                              retail |-> 2 * price]
                        ELSE [origin |-> "none", active |-> FALSE, wholesale |-> 0, retail |-> 0]]
        BY DEF Init
    <2>2. price \in Nat
        BY CatalogAssumption
    <2>3. ASSUME NEW c \in Codes
          PROVE  plans[c].retail >= plans[c].wholesale /\ plans[c].origin # "sync"
        <3>1. CASE c \in Seed
            <4>1. plans[c].retail = 2 * price /\ plans[c].wholesale = price
                     /\ plans[c].origin = "migration"
                BY <2>1, <3>1
            <4> QED BY <4>1, <2>2
        <3>2. CASE c \notin Seed
            <4>1. plans[c].retail = 0 /\ plans[c].wholesale = 0 /\ plans[c].origin = "none"
                BY <2>1, <3>2
            <4> QED BY <4>1
        <3> QED BY <3>1, <3>2
    <2> QED BY <2>3 DEF PricedByMarkup
<1> QED BY <1>2, <1>3, <1>4, <1>5, <1>6 DEF Inv

\* Both properties of the table survive a step that leaves it alone, and in
\* which every sync keeps what it has fetched.
LEMMA TableStays ==
    ASSUME Inv, plans' = plans, markup' = markup,
           \A t \in Syncs : Fetched(t) => sync'[t].offer = sync[t].offer
    PROVE  NeverWithdrawn' /\ PricedByMarkup'
<1>1. NeverWithdrawn'
    BY DEF Inv, NeverWithdrawn, Fetched
<1>2. PricedByMarkup'
    BY DEF Inv, PricedByMarkup
<1> QED BY <1>1, <1>2

LEMMA FetchInv ==
    ASSUME Inv, NEW s \in Syncs, Fetch(s)
    PROVE  Inv'
<1>1. sync[s].pc = "idle" /\ ~Fetched(s) /\ DOMAIN sync = Syncs
    BY DEF Inv, SyncSound, Fetch
<1>2. /\ sync' \in [Syncs -> SyncState]
      /\ \A t \in Syncs : SyncSound(t)'
      /\ \A t \in Syncs : Fetched(t) => sync'[t].offer = sync[t].offer
    <2>1. CASE End(s)
        <3>1. sync'[s] = [sync[s] EXCEPT !.pc = "ended", !.todo = {}, !.codes = {},
                                 !.alone = TRUE]
            BY <2>1, <1>1 DEF End
        <3>2. sync[s] \in SyncState
            BY DEF Inv
        <3>3. sync'[s] \in SyncState /\ SyncSound(s)' /\ sync'[s].offer = sync[s].offer
            BY <3>1, <3>2, <1>1 DEF SyncState, SyncSteps, SyncSound, Fetched, Working
        <3>4. \A t \in Syncs : t # s => sync'[t] = sync[t]
            BY <2>1 DEF End, Inv
        <3>5. sync' \in [Syncs -> SyncState]
            BY <2>1, <3>1, <3>3 DEF End, Inv
        <3> QED BY <3>3, <3>4, <3>5 DEF Inv, SyncSound, Fetched
    <2>2. CASE DOMAIN upstream # {} /\ ~End(s)
        <3> DEFINE others == {t \in Syncs \ {s} : sync[t].pc \in Working}
        <3>1. sync' = [t \in Syncs |->
                        IF t = s THEN [pc |-> "upsert", offer |-> upstream,
                                       todo |-> DOMAIN upstream, codes |-> {},
                                       alone |-> others = {}]
                        ELSE IF t \in others THEN [sync[t] EXCEPT !.alone = FALSE]
                        ELSE sync[t]]
            BY <2>2 DEF Fetch
        <3>2. upstream \in Offers /\ upstream # << >> /\ DOMAIN upstream \subseteq Codes
            BY <2>2, NoOffer, OfferPrices DEF Inv, Tables
        <3>3. sync'[s] \in SyncState /\ SyncSound(s)'
            <4>1. sync'[s] = [pc |-> "upsert", offer |-> upstream, todo |-> DOMAIN upstream,
                              codes |-> {}, alone |-> others = {}]
                BY <3>1
            <4>2. DOMAIN upstream # {} /\ (others = {}) \in BOOLEAN
                BY <2>2
            <4> HIDE DEF others
            <4>3. sync'[s] \in SyncState
                BY <3>2, <4>1, <4>2 DEF SyncState, SyncSteps
            <4>4. /\ sync'[s].pc = "upsert" /\ sync'[s].offer = upstream
                  /\ sync'[s].todo = DOMAIN upstream /\ sync'[s].codes = {}
                BY <4>1
            <4> QED BY <3>2, <4>2, <4>3, <4>4 DEF SyncSound, Fetched
        <3>4. ASSUME NEW t \in Syncs, t # s
              PROVE  /\ sync'[t] \in SyncState
                     /\ SyncSound(t)'
                     /\ sync'[t].offer = sync[t].offer
            <4>1. sync'[t] \in {sync[t], [sync[t] EXCEPT !.alone = FALSE]}
                BY <3>1, <3>4
            <4>2. sync[t] \in SyncState /\ SyncSound(t)
                BY DEF Inv
            <4> HIDE DEF others
            <4> QED BY <4>1, <4>2 DEF SyncState, SyncSound, Fetched
        <3>5. sync' \in [Syncs -> SyncState]
            <4>1. sync' = [t \in Syncs |-> sync'[t]]
                BY <3>1
            <4> HIDE DEF others
            <4> QED BY <4>1, <3>3, <3>4
        <3> QED BY <1>1, <3>3, <3>4, <3>5
    <2> QED BY <2>1, <2>2 DEF Fetch
<1>3. NeverWithdrawn' /\ PricedByMarkup'
    BY <1>2, TableStays DEF Fetch
<1> QED BY <1>2, <1>3 DEF Inv, Fetch, Tables, ReaderRecord, ReaderSound, IsList, IsListing

\* A step of a sync that keeps its offer and drops nothing it has to do.
LEMMA KeepsSyncs ==
    ASSUME Inv, NEW s \in Syncs, sync[s].pc \in Working, NEW pc \in SyncSteps \ {"idle"},
           NEW todo \in SUBSET sync[s].todo, NEW codes \in SUBSET DOMAIN sync[s].offer,
           NEW alone \in BOOLEAN,
           pc = "upsert" => codes = DOMAIN sync[s].offer \ todo,
           pc = "deactivate" => codes = DOMAIN sync[s].offer,
           sync' = [sync EXCEPT ![s] = [pc |-> pc, offer |-> sync[s].offer, todo |-> todo,
                                        codes |-> codes, alone |-> alone]]
    PROVE  /\ sync' \in [Syncs -> SyncState]
           /\ \A t \in Syncs : SyncSound(t)' /\ sync'[t].offer = sync[t].offer
<1>1. sync[s] \in SyncState /\ SyncSound(s)
    BY DEF Inv
<1>2. [pc |-> pc, offer |-> sync[s].offer, todo |-> todo, codes |-> codes,
       alone |-> alone] \in SyncState
    BY <1>1, OfferPrices DEF SyncState
<1>3. sync' \in [Syncs -> SyncState]
    BY <1>2 DEF Inv
<1>4. SyncSound(s)' /\ sync'[s].offer = sync[s].offer
    BY <1>1, DOMAIN sync = Syncs DEF Inv, SyncSound, Fetched
<1>5. ASSUME NEW t \in Syncs, t # s
      PROVE  SyncSound(t)' /\ sync'[t].offer = sync[t].offer
    BY <1>5, DOMAIN sync = Syncs DEF Inv, SyncSound, Fetched
<1> QED BY <1>3, <1>4, <1>5

\* The sync goes on to a step, or ends.
LEMMA GotoKeeps ==
    ASSUME Inv, NEW s \in Syncs, sync[s].pc \in Working,
           End(s) \/ Goto(s, "drop")
    PROVE  /\ sync' \in [Syncs -> SyncState]
           /\ \A t \in Syncs : SyncSound(t)' /\ sync'[t].offer = sync[t].offer
<1>1. sync[s] \in SyncState /\ DOMAIN sync = Syncs
    BY DEF Inv
<1>3. CASE End(s)
    <2>1. sync'[s] = [sync[s] EXCEPT !.pc = "ended", !.todo = {}, !.codes = {},
                                 !.alone = TRUE]
        BY <1>1, <1>3 DEF End
    <2>2. sync'[s] \in SyncState /\ SyncSound(s)' /\ sync'[s].offer = sync[s].offer
        BY <2>1, <1>1 DEF Inv, SyncState, SyncSteps, SyncSound, Fetched, Working
    <2>3. \A t \in Syncs : t # s => sync'[t] = sync[t]
        BY <1>1, <1>3 DEF End
    <2>4. sync' \in [Syncs -> SyncState]
        BY <2>1, <2>2, <1>3 DEF End, Inv
    <2> QED BY <2>2, <2>3, <2>4 DEF Inv, SyncSound, Fetched
<1>4. CASE Goto(s, "drop")
    <2>1. sync' = [sync EXCEPT ![s] = [pc |-> "drop", offer |-> sync[s].offer,
                                       todo |-> sync[s].todo, codes |-> sync[s].codes,
                                       alone |-> sync[s].alone]]
        <3>1. [sync[s] EXCEPT !.pc = "drop"] =
                 [pc |-> "drop", offer |-> sync[s].offer, todo |-> sync[s].todo,
                  codes |-> sync[s].codes, alone |-> sync[s].alone]
            BY <1>1 DEF SyncState
        <3>2. sync' = [sync EXCEPT ![s] = [sync[s] EXCEPT !.pc = "drop"]]
            BY <1>4, <1>1 DEF Goto
        <3> QED BY <3>1, <3>2, Zenon
    <2>2. /\ sync[s].alone \in BOOLEAN /\ sync[s].codes \in SUBSET DOMAIN sync[s].offer
          /\ "drop" \in SyncSteps \ {"idle"}
        BY <1>1 DEF SyncState, Inv, SyncSound, SyncSteps
    <2> QED BY <2>1, <2>2, KeepsSyncs
<1> QED BY <1>3, <1>4

\* What UpsertPlan leaves is priced by the markup and on sale.
LEMMA UpsertPrices ==
    ASSUME Inv, NEW c \in Codes, NEW price \in Nat, UpsertPlan(c, price), markup' = markup
    PROVE  /\ plans' \in [Codes -> Plan]
           /\ PricedByMarkup'
           /\ plans'[c].active
           /\ \A d \in Codes : d # c => plans'[d] = plans[d]
<1>1. /\ Retail(price) \in Nat
      /\ Retail(price) >= price
      /\ Retail(price) * 100 - price * markup \in -50 .. 50
    BY RetailFits DEF Inv, Tables
<1>2. /\ plans \in [Codes -> Plan]
      /\ plans'[c] = [origin |-> "sync", active |-> TRUE, wholesale |-> price,
                      retail |-> Retail(price)]
      /\ \A d \in Codes : d # c => plans'[d] = plans[d]
    BY DEF Inv, Tables, UpsertPlan
<1>3. plans' \in [Codes -> Plan]
    BY <1>1 DEF Plan, UpsertPlan, Inv, Tables
<1>4. ASSUME NEW d \in Codes
      PROVE  /\ plans'[d].retail >= plans'[d].wholesale
             /\ plans'[d].origin = "sync" =>
                   plans'[d].retail * 100 - plans'[d].wholesale * markup \in -50 .. 50
    <2>1. CASE d = c
        <3>1. plans'[d].retail = Retail(price) /\ plans'[d].wholesale = price
            BY <1>2, <2>1
        <3> QED BY <1>1, <3>1
    <2>2. CASE d # c
        <3>1. plans'[d] = plans[d]
            BY <1>2, <2>2
        <3> QED BY <3>1 DEF Inv, PricedByMarkup
    <2> QED BY <2>1, <2>2
<1>5. PricedByMarkup'
    BY <1>4 DEF PricedByMarkup
<1> QED BY <1>2, <1>3, <1>5

LEMMA UpsertInv ==
    ASSUME Inv, NEW s \in Syncs, Upsert(s)
    PROVE  Inv'
<1>1. PICK c \in sync[s].todo, o \in StoreOutcomes :
         /\ IF o # "error" THEN UpsertPlan(c, sync[s].offer[c]) ELSE UNCHANGED plans
         /\ IF o = "ok"
              THEN sync' = [sync EXCEPT ![s].todo = sync[s].todo \ {c},
                             ![s].codes = sync[s].codes \cup {c},
                             ![s].pc = IF sync[s].todo \ {c} = {} THEN "deactivate" ELSE @]
              ELSE End(s)
    BY DEF Upsert
<1>2. /\ sync[s].pc = "upsert"
      /\ UNCHANGED <<markup, upstream, changes, cached, reader>>
    BY DEF Upsert
<1>3. sync[s] \in SyncState /\ SyncSound(s) /\ DOMAIN sync = Syncs
    BY DEF Inv
<1>4. c \in Codes /\ sync[s].offer[c] \in Nat
    BY <1>3, OfferPrices DEF SyncState, SyncSound
<1>5. /\ sync' \in [Syncs -> SyncState]
      /\ \A t \in Syncs : SyncSound(t)' /\ sync'[t].offer = sync[t].offer
    <2>1. CASE o = "ok"
        <3> DEFINE pc == IF sync[s].todo \ {c} = {} THEN "deactivate" ELSE "upsert"
        <3>1. sync[s] = [pc |-> "upsert", offer |-> sync[s].offer, todo |-> sync[s].todo,
                         codes |-> sync[s].codes, alone |-> sync[s].alone]
            BY <1>2, <1>3 DEF SyncState
        <3>2. sync' = [sync EXCEPT ![s] = [pc |-> pc, offer |-> sync[s].offer,
                                 todo |-> sync[s].todo \ {c},
                                 codes |-> sync[s].codes \cup {c}, alone |-> sync[s].alone]]
            BY <1>1, <2>1, <1>3, <3>1
        <3>3. pc \in SyncSteps \ {"idle"} /\ sync[s].alone \in BOOLEAN
            BY <1>3 DEF SyncSteps, SyncState
        <3>4. /\ sync[s].codes \cup {c} \in SUBSET DOMAIN sync[s].offer
              /\ sync[s].codes \cup {c} = DOMAIN sync[s].offer \ (sync[s].todo \ {c})
              /\ pc = "deactivate" => sync[s].codes \cup {c} = DOMAIN sync[s].offer
            BY <1>2, <1>3 DEF SyncSound
        <3> HIDE DEF pc
        <3> QED BY <3>2, <3>3, <3>4, <1>2, KeepsSyncs DEF Working
    <2>2. CASE o # "ok"
        BY <1>1, <1>2, <2>2, GotoKeeps DEF Working
    <2> QED BY <2>1, <2>2
<1>6. plans' \in [Codes -> Plan] /\ NeverWithdrawn' /\ PricedByMarkup'
    <2>1. CASE o = "error"
        BY <1>1, <1>2, <1>5, <2>1, TableStays DEF Inv, Tables
    <2>2. CASE o # "error"
        <3>1. /\ plans' \in [Codes -> Plan]
              /\ PricedByMarkup'
              /\ \A d \in Codes : plans'[d].active = TRUE \/ plans'[d] = plans[d]
            BY <1>1, <1>2, <1>4, <2>2, UpsertPrices
        <3>2. NeverWithdrawn'
            BY <3>1, <1>5, CatalogAssumption DEF Inv, NeverWithdrawn, Fetched
        <3> QED BY <3>1, <3>2
    <2> QED BY <2>1, <2>2
<1> QED BY <1>2, <1>5, <1>6 DEF Inv, Tables, ReaderRecord, ReaderSound, IsList, IsListing

LEMMA DeactivateInv ==
    ASSUME Inv, NEW s \in Syncs, DeactivatePlansNotIn(s)
    PROVE  Inv'
<1>1. PICK o \in {"ok"} \cup StoreOutcomes :
         /\ plans' = [c \in Codes |->
                        IF o = "error" \/ sync[s].codes = {} \/ c \in sync[s].codes THEN plans[c]
                        ELSE [plans[c] EXCEPT !.active = FALSE]]
         /\ IF o = "ok" THEN Goto(s, "drop") ELSE End(s)
    BY DEF DeactivatePlansNotIn
<1>2. /\ sync[s].pc = "deactivate"
      /\ UNCHANGED <<markup, upstream, changes, cached, reader>>
    BY DEF DeactivatePlansNotIn
<1>3. /\ sync' \in [Syncs -> SyncState]
      /\ \A t \in Syncs : SyncSound(t)' /\ sync'[t].offer = sync[t].offer
    BY <1>1, <1>2, GotoKeeps DEF Working, SyncSteps
<1>4. plans' \in [Codes -> Plan] /\ NeverWithdrawn' /\ PricedByMarkup'
    <2>1. sync[s].codes = DOMAIN sync[s].offer
        BY <1>2 DEF Inv, SyncSound
    <2>2. ASSUME NEW c \in Codes
          PROVE  /\ plans'[c] \in Plan
                 /\ plans'[c].origin = plans[c].origin
                 /\ plans'[c].wholesale = plans[c].wholesale
                 /\ plans'[c].retail = plans[c].retail
                 /\ c \in DOMAIN sync[s].offer => plans'[c] = plans[c]
        <3>1. plans'[c] \in {plans[c], [plans[c] EXCEPT !.active = FALSE]}
                 /\ (c \in DOMAIN sync[s].offer => plans'[c] = plans[c])
            BY <1>1, <2>1
        <3>2. plans[c] \in Plan
            BY DEF Inv, Tables
        <3> QED BY <3>1, <3>2 DEF Plan
    <2>3. plans' \in [Codes -> Plan]
        BY <1>1, <2>2
    <2>4. PricedByMarkup'
        BY <1>2, <2>2 DEF Inv, PricedByMarkup
    <2>5. Fetched(s)
        BY <1>2 DEF Inv, SyncSound, Working
    <2>6. NeverWithdrawn'
        BY <1>3, <2>2, <2>5, CatalogAssumption DEF Inv, NeverWithdrawn, Fetched
    <2> QED BY <2>3, <2>4, <2>6
<1> QED BY <1>2, <1>3, <1>4 DEF Inv, Tables, ReaderRecord, ReaderSound, IsList, IsListing

LEMMA DropCacheInv ==
    ASSUME Inv, NEW s \in Syncs, DropCache(s)
    PROVE  Inv'
<1>1. /\ sync' \in [Syncs -> SyncState]
      /\ \A t \in Syncs : SyncSound(t)' /\ sync'[t].offer = sync[t].offer
    BY GotoKeeps DEF DropCache, Working
<1>2. NeverWithdrawn' /\ PricedByMarkup'
    BY <1>1, TableStays DEF DropCache
<1>3. Tables'
    BY DEF DropCache, Inv, Tables, IsList, IsListing
<1> QED BY <1>1, <1>2, <1>3 DEF DropCache, Inv, ReaderRecord, ReaderSound, IsList, IsListing

-----------------------------------------------------------------------------
(* The visitors and the world around: the table and the syncs stay *)

LEMMA ActiveListing == Tables => IsListing(ActiveList)
BY DEF Tables, Plan, IsListing, ActiveList

\* A visitor goes to a step with a list.
LEMMA ReaderGoes ==
    ASSUME Inv, NEW r \in Readers, NEW pc \in {"get", "list", "set"}, NEW list, IsList(list),
           reader' = [reader EXCEPT ![r] = [pc |-> pc, list |-> list]]
    PROVE  DOMAIN reader' = Readers /\ ReaderRecord' /\ \A q \in Readers : ReaderSound(q)'
<1>1. DOMAIN reader' = Readers /\ reader'[r] = [pc |-> pc, list |-> list]
         /\ \A q \in Readers : q # r => reader'[q] = reader[q]
    BY DEF Inv
<1>2. ReaderRecord'
    BY <1>1 DEF Inv, ReaderRecord
<1>3. \A q \in Readers : ReaderSound(q)'
    BY <1>1 DEF Inv, ReaderSound, IsList, IsListing
<1> QED BY <1>1, <1>2, <1>3

LEMMA ReaderInv ==
    ASSUME Inv, NEW r \in Readers, GetCached(r) \/ ListActivePlans(r) \/ SetCached(r)
    PROVE  Inv'
<1>1. UNCHANGED <<markup, upstream, changes, plans, sync>>
    BY DEF GetCached, ListActivePlans, SetCached
<1>2. IsList(cached) /\ IsList(reader[r].list) /\ IsList(NoList)
    BY DEF Inv, Tables, ReaderSound, IsList
<1>3. IsList(cached') /\ \E list : \E pc \in {"get", "list", "set"} :
         IsList(list) /\ reader' = [reader EXCEPT ![r] = [pc |-> pc, list |-> list]]
    <2>1. CASE GetCached(r)
        <3>1. PICK pc \in {"get", "list"} : reader' = [reader EXCEPT ![r].pc = pc]
            BY <2>1 DEF GetCached
        <3>2. reader[r] = [pc |-> reader[r].pc, list |-> reader[r].list]
            BY DEF Inv, ReaderRecord
        <3>3. [reader[r] EXCEPT !.pc = pc] = [pc |-> pc, list |-> reader[r].list]
            BY <3>2
        <3>4. reader' = [reader EXCEPT ![r] = [reader[r] EXCEPT !.pc = pc]]
            BY <3>1 DEF Inv
        <3>5. reader' = [reader EXCEPT ![r] = [pc |-> pc, list |-> reader[r].list]]
            BY <3>3, <3>4, Zenon
        <3>6. cached' = cached
            BY <2>1 DEF GetCached
        <3> QED BY <3>5, <3>6, <1>2
    <2>2. CASE ListActivePlans(r)
        <3>1. IsList(ActiveList)
            BY ActiveListing DEF Inv, IsList
        <3>2. cached' = cached
            BY <2>2 DEF ListActivePlans
        <3>3. \/ reader' = [reader EXCEPT ![r] = [pc |-> "set", list |-> ActiveList]]
              \/ reader' = [reader EXCEPT ![r] = [pc |-> "get", list |-> NoList]]
            BY <2>2 DEF ListActivePlans
        <3> QED BY <3>1, <3>2, <3>3, <1>2
    <2>3. CASE SetCached(r)
        <3>1. reader' = [reader EXCEPT ![r] = [pc |-> "get", list |-> NoList]]
            BY <2>3 DEF SetCached
        <3>2. cached' \in {cached, reader[r].list}
            BY <2>3 DEF SetCached
        <3>3. IsList(cached')
            BY <3>2, <1>2
        <3> QED BY <3>1, <3>3, <1>2
    <2> QED BY <2>1, <2>2, <2>3
<1>4. DOMAIN reader' = Readers /\ ReaderRecord' /\ \A q \in Readers : ReaderSound(q)'
    BY <1>3, ReaderGoes
<1>5. NeverWithdrawn' /\ PricedByMarkup'
    BY <1>1, TableStays
<1>6. Tables'
    BY <1>1, <1>3 DEF Inv, Tables, IsList, IsListing
<1>7. sync' \in [Syncs -> SyncState] /\ \A s \in Syncs : SyncSound(s)'
    BY <1>1 DEF Inv, SyncSound, Fetched
<1> QED BY <1>4, <1>5, <1>6, <1>7 DEF Inv

LEMMA WorldInv ==
    ASSUME Inv, Expire \/ ChangeOffer \/ UNCHANGED vars
    PROVE  Inv'
<1>1. UNCHANGED <<markup, plans, sync, reader>>
    BY DEF Expire, ChangeOffer, vars
<1>2. Tables'
    <2>1. CASE Expire \/ UNCHANGED vars
        BY <2>1 DEF Expire, vars, Inv, Tables, IsList, IsListing
    <2>2. CASE ChangeOffer
        BY <2>2, CatalogAssumption DEF ChangeOffer, Inv, Tables, IsList, IsListing
    <2> QED BY <2>1, <2>2
<1>3. NeverWithdrawn' /\ PricedByMarkup'
    BY <1>1, TableStays
<1>4. sync' \in [Syncs -> SyncState] /\ \A s \in Syncs : SyncSound(s)'
    BY <1>1 DEF Inv, SyncSound, Fetched
<1>5. DOMAIN reader' = Readers /\ ReaderRecord' /\ \A q \in Readers : ReaderSound(q)'
    BY <1>1 DEF Inv, ReaderRecord, ReaderSound, IsList, IsListing
<1> QED BY <1>2, <1>3, <1>4, <1>5 DEF Inv

LEMMA NextInv == Inv /\ [Next]_vars => Inv'
BY FetchInv, UpsertInv, DeactivateInv, DropCacheInv, ReaderInv, WorldInv
   DEF Next, SyncStep, ReaderStep

\* The inductive invariant holds in every reachable state.
THEOREM Invariance == Spec => []Inv
BY InitInv, NextInv, PTL DEF Spec

\* Every variable of Catalog keeps its type.
THEOREM TypeCorrect == Spec => []TypeOK
<1>1. Inv => TypeOK
    BY DEF Inv, Tables, SyncState, SyncSound, ReaderSound, IsList, TypeOK
<1> QED BY <1>1, Invariance, PTL

\* However many syncs run at once and wherever they fail, no plan is sold
\* below wholesale or at a price that does not belong to its wholesale price.
THEOREM PriceIsSound == Spec => []PricedByMarkup
<1>1. Inv => PricedByMarkup
    BY DEF Inv
<1> QED BY <1>1, Invariance, PTL

\* No failure and no interleaving of syncs withdraws a product that
\* VaultProxies has offered at every fetch.
THEOREM OfferedStaysOnSale == Spec => []NeverWithdrawn
<1>1. Inv => NeverWithdrawn
    BY DEF Inv
<1> QED BY <1>1, Invariance, PTL

-----------------------------------------------------------------------------
(* A sync that runs alone *)

\* Such a sync is the only one to write, and what it has written stands.
Mirror(s) ==
    /\ sync[s].pc = "deactivate" => sync[s].todo = {}
    /\ sync[s].pc \in Working /\ sync[s].alone => \A t \in Syncs \ {s} : sync[t].pc \notin Working
    /\ sync[s].pc \in {"upsert", "deactivate"} /\ sync[s].alone =>
          \A c \in DOMAIN sync[s].offer \ sync[s].todo :
             plans[c].active /\ plans[c].wholesale = sync[s].offer[c]

Mirrors == \A s \in Syncs : Mirror(s)

LEMMA MirrorsInit == Init => Mirrors
<1> SUFFICES ASSUME Init PROVE Mirrors
    OBVIOUS
<1>1. \A s \in Syncs : sync[s].pc = "idle"
    BY DEF Init
<1> QED BY <1>1 DEF Mirrors, Mirror, Working

\* A sync that returns no longer mirrors anything; the others do not notice.
LEMMA EndMirrors ==
    ASSUME Inv, Mirrors, NEW s \in Syncs, End(s), plans' = plans
    PROVE  Mirrors'
<1>1. sync'[s].pc = "ended" /\ \A t \in Syncs : t # s => sync'[t] = sync[t]
    BY DEF End, Inv, SyncState
<1> QED BY <1>1 DEF Mirrors, Mirror, Working

LEMMA FetchMirrors ==
    ASSUME Inv, Mirrors, NEW s \in Syncs, Fetch(s)
    PROVE  Mirrors'
<1>1. CASE End(s)
    BY <1>1, EndMirrors DEF Fetch
<1>2. CASE ~End(s)
    <2> DEFINE others == {t \in Syncs \ {s} : sync[t].pc \in Working}
    <2>1. /\ plans' = plans
          /\ sync' = [t \in Syncs |->
                        IF t = s THEN [pc |-> "upsert", offer |-> upstream,
                                       todo |-> DOMAIN upstream, codes |-> {},
                                       alone |-> others = {}]
                        ELSE IF t \in others THEN [sync[t] EXCEPT !.alone = FALSE]
                        ELSE sync[t]]
        BY <1>2 DEF Fetch
    <2>2. Mirror(s)'
        <3>1. sync'[s].alone => \A t \in Syncs \ {s} : sync'[t].pc \notin Working
            BY <2>1
        <3>2. sync'[s].pc = "upsert" /\ sync'[s].todo = DOMAIN sync'[s].offer
            BY <2>1
        <3> QED BY <3>1, <3>2 DEF Mirror
    <2>3. ASSUME NEW t \in Syncs \ {s} PROVE Mirror(t)'
        <3>1. CASE t \in others
            <4>1. sync'[t] = [sync[t] EXCEPT !.alone = FALSE] /\ sync[t] \in SyncState
                BY <2>1, <3>1 DEF Inv
            <4>2. /\ sync'[t].pc = sync[t].pc /\ sync'[t].todo = sync[t].todo
                  /\ sync'[t].alone = FALSE
                BY <4>1 DEF SyncState
            <4> QED BY <4>2 DEF Mirrors, Mirror
        <3>2. CASE t \notin others
            <4>1. sync'[t] = sync[t] /\ sync[t].pc \notin Working
                BY <2>1, <3>2
            <4> QED BY <4>1 DEF Mirror, Working
        <3> QED BY <3>1, <3>2
    <2> QED BY <2>2, <2>3 DEF Mirrors
<1> QED BY <1>1, <1>2

\* A step of a sync at work: one that is alone is this one.
LEMMA OthersAtWork ==
    ASSUME Mirrors, NEW s \in Syncs, sync[s].pc \in Working,
           \A t \in Syncs : t # s => sync'[t] = sync[t]
    PROVE  \A t \in Syncs \ {s} : Mirror(t)'
BY DEF Mirrors, Mirror, Working

LEMMA UpsertMirrors ==
    ASSUME Inv, Mirrors, NEW s \in Syncs, Upsert(s)
    PROVE  Mirrors'
<1>1. PICK c \in sync[s].todo, o \in StoreOutcomes :
         /\ IF o # "error" THEN UpsertPlan(c, sync[s].offer[c]) ELSE UNCHANGED plans
         /\ IF o = "ok"
              THEN sync' = [sync EXCEPT ![s].todo = sync[s].todo \ {c},
                             ![s].codes = sync[s].codes \cup {c},
                             ![s].pc = IF sync[s].todo \ {c} = {} THEN "deactivate" ELSE @]
              ELSE End(s)
    BY DEF Upsert
<1>2. sync[s] \in SyncState /\ DOMAIN sync = Syncs /\ sync[s].pc = "upsert" /\ SyncSound(s)
    BY DEF Upsert, Inv
<1>3. \A t \in Syncs : t # s => sync'[t] = sync[t]
    BY <1>1, <1>2 DEF End
<1>4. \A t \in Syncs \ {s} : Mirror(t)'
    BY <1>2, <1>3, OthersAtWork DEF Working
<1>5. CASE o = "ok"
    <2>1. /\ sync'[s].offer = sync[s].offer /\ sync'[s].alone = sync[s].alone
          /\ sync'[s].todo = sync[s].todo \ {c}
          /\ sync'[s].pc = IF sync[s].todo \ {c} = {} THEN "deactivate" ELSE "upsert"
        BY <1>1, <1>2, <1>5 DEF SyncState
    <2>2. c \in Codes /\ sync[s].todo \subseteq DOMAIN sync[s].offer
        BY <1>2 DEF SyncState, SyncSound
    <2>3. /\ plans'[c].active /\ plans'[c].wholesale = sync[s].offer[c]
          /\ \A d \in Codes : d # c => plans'[d] = plans[d]
        BY <1>1, <1>5, <2>2 DEF UpsertPlan, Inv, Tables
    <2>4. DOMAIN sync[s].offer \subseteq Codes
        BY <1>2, OfferPrices DEF SyncState
    <2>5. Mirror(s)
        BY DEF Mirrors
    <2>6. sync'[s].alone => \A t \in Syncs \ {s} : sync'[t].pc \notin Working
        BY <1>2, <1>3, <2>1, <2>5 DEF Mirror, Working
    <2>7. sync'[s].alone => \A d \in DOMAIN sync'[s].offer \ sync'[s].todo :
             plans'[d].active /\ plans'[d].wholesale = sync'[s].offer[d]
        BY <1>2, <2>1, <2>3, <2>4, <2>5 DEF Mirror
    <2>8. Mirror(s)'
        BY <2>1, <2>6, <2>7 DEF Mirror
    <2> QED BY <1>4, <2>8 DEF Mirrors
<1>6. CASE o # "ok"
    <2>1. sync'[s].pc = "ended"
        BY <1>1, <1>2, <1>6 DEF End, SyncState
    <2> QED BY <1>4, <2>1 DEF Mirrors, Mirror, Working
<1> QED BY <1>5, <1>6

LEMMA DeactivateMirrors ==
    ASSUME Inv, Mirrors, NEW s \in Syncs, DeactivatePlansNotIn(s)
    PROVE  Mirrors'
<1>1. PICK pc \in {"drop", "ended"} :
         \/ pc = "ended" /\ End(s)
         \/ pc = "drop" /\ Goto(s, "drop")
    BY DEF DeactivatePlansNotIn
<1>2. sync[s] \in SyncState /\ DOMAIN sync = Syncs /\ sync[s].pc = "deactivate"
    BY DEF DeactivatePlansNotIn, Inv
<1>3. \A t \in Syncs : t # s => sync'[t] = sync[t]
    BY <1>1, <1>2 DEF End, Goto
<1>4. \A t \in Syncs \ {s} : Mirror(t)'
    BY <1>2, <1>3, OthersAtWork DEF Working
<1>5. sync'[s].pc = pc /\ (pc = "drop" => sync'[s].alone = sync[s].alone)
    BY <1>1, <1>2 DEF End, Goto, SyncState
<1>6. Mirror(s)'
    BY <1>2, <1>3, <1>5 DEF Mirrors, Mirror, Working
<1> QED BY <1>4, <1>6 DEF Mirrors

LEMMA MirrorsNext == Inv /\ Mirrors /\ [Next]_vars => Mirrors'
<1> SUFFICES ASSUME Inv, Mirrors, [Next]_vars PROVE Mirrors'
    OBVIOUS
<1>1. ASSUME NEW s \in Syncs, DropCache(s) PROVE Mirrors'
    BY <1>1, EndMirrors DEF DropCache
<1>2. ASSUME UNCHANGED <<plans, sync>> PROVE Mirrors'
    BY <1>2 DEF Mirrors, Mirror
<1>3. CASE (\E r \in Readers : GetCached(r) \/ ReaderStep(r)) \/ Expire \/ ChangeOffer
           \/ UNCHANGED vars
    BY <1>2, <1>3 DEF GetCached, ReaderStep, ListActivePlans, SetCached, Expire, ChangeOffer, vars
<1> QED BY <1>1, <1>3, FetchMirrors, UpsertMirrors, DeactivateMirrors DEF Next, SyncStep

\* A sync that no other one overlaps leaves on sale exactly what it fetched,
\* at the prices it fetched, whatever the table held before.
THEOREM AloneItMirrors == Spec => SyncMirrorsOffer
<1>1. Inv /\ Mirrors /\ [Next]_vars =>
         [\A s \in Syncs :
            sync[s].pc = "deactivate" /\ sync'[s].pc = "drop" /\ sync[s].alone =>
                \A c \in Codes :
                    /\ plans'[c].active <=> c \in DOMAIN sync[s].offer
                    /\ c \in DOMAIN sync[s].offer => plans'[c].wholesale = sync[s].offer[c]]_vars
    <2> SUFFICES ASSUME Inv, Mirrors, Next, NEW s \in Syncs, sync[s].pc = "deactivate",
                        sync'[s].pc = "drop", sync[s].alone, NEW c \in Codes
                 PROVE  /\ plans'[c].active <=> c \in DOMAIN sync[s].offer
                        /\ c \in DOMAIN sync[s].offer => plans'[c].wholesale = sync[s].offer[c]
        OBVIOUS
    <2>1. sync \in [Syncs -> SyncState]
        BY DEF Inv
    <2>2. ASSUME NEW t \in Syncs, Fetch(t) \/ SyncStep(t) PROVE t = s /\ DeactivatePlansNotIn(s)
        <3>1. CASE End(t)
            BY <2>1, <3>1 DEF End, SyncState
        <3>2. CASE Fetch(t) /\ ~End(t)
            <4>1. sync'[s].pc \in {"upsert", sync[s].pc}
                BY <2>1, <3>2 DEF Fetch, SyncState
            <4> QED BY <4>1
        <3>3. CASE ~End(t) /\ ~Fetch(t)
            <4>1. CASE t # s
                BY <2>1, <2>2, <3>3, <4>1 DEF SyncStep, Upsert, DeactivatePlansNotIn, DropCache, Goto
            <4>2. CASE t = s
                BY <2>2, <3>3, <4>2 DEF SyncStep, Upsert, DropCache
            <4> QED BY <4>1, <4>2
        <3> QED BY <3>1, <3>2, <3>3
    <2>3. sync' # sync
        OBVIOUS
    <2>4. DeactivatePlansNotIn(s)
        BY <2>2, <2>3 DEF Next, GetCached, ReaderStep, ListActivePlans, SetCached, Expire, ChangeOffer
    <2>5. ~End(s)
        BY <2>1 DEF End, SyncState
    <2>6. plans' = [d \in Codes |-> IF d \in DOMAIN sync[s].offer THEN plans[d]
                                    ELSE [plans[d] EXCEPT !.active = FALSE]]
        <3>1. sync[s].codes = DOMAIN sync[s].offer /\ sync[s].codes # {}
            BY DEF Inv, SyncSound, Working
        <3> QED BY <2>4, <2>5, <3>1 DEF DeactivatePlansNotIn
    <2>7. plans[c] \in Plan
        BY DEF Inv, Tables
    <2>8. Mirror(s)
        BY DEF Mirrors
    <2>9. c \in DOMAIN sync[s].offer =>
             plans[c].active /\ plans[c].wholesale = sync[s].offer[c]
        BY <2>8 DEF Mirror
    <2>10. CASE c \in DOMAIN sync[s].offer
        BY <2>6, <2>9, <2>10
    <2>11. CASE c \notin DOMAIN sync[s].offer
        BY <2>6, <2>7, <2>11 DEF Plan
    <2> QED BY <2>10, <2>11
<1>2. Init => Inv /\ Mirrors
    BY InitInv, MirrorsInit
<1>3. Inv /\ Mirrors /\ [Next]_vars => Inv' /\ Mirrors'
    BY NextInv, MirrorsNext
<1> QED BY <1>1, <1>2, <1>3, PTL DEF Spec, SyncMirrorsOffer
=============================================================================
