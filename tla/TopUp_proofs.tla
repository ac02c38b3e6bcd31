---------------------------- MODULE TopUp_proofs ----------------------------
(***************************************************************************)
(* Safety of top-ups for any number of customers, top-ups, amounts and     *)
(* connections and for every set of faults, and that TopUp implements      *)
(* Funding.                                                                *)
(*                                                                         *)
(* The inductive invariant has a part for each top-up (Sound: how far its  *)
(* handler, its payment row, its provider and the ledger have come, each   *)
(* told by the others) and a part for each connection (HookSound: what is  *)
(* handled was announced, and what is applied is in webhook_events).  The  *)
(* last two sections are what Billing needs of it, and what becomes of     *)
(* received money while the store answers (MoneyInHand).                   *)
(***************************************************************************)
EXTENDS TopUp, Wallet_proofs

Announced(t) == \E e \in emitted : e.topup = t

Booked(t) == HasEntry(topup[t].user, "topup", t)

\* Handler q and payment row p of a top-up; whether its provider has announced
\* anything, and that the money is there; whether the ledger has its row.
Sound(q, p, announced, received, booked) ==
    /\ p.credited <=> booked
    /\ p.status = "paid" => p.credited
    /\ p.credited => received
    /\ received => announced
    /\ announced => q.reply = "200"
    /\ q.reply = "200" => q.pc = "done" /\ p.status # "none"
    /\ p.status # "none" \/ q.pc \in {"page", "record"} => q.amount >= MinTopup
    /\ q.pc \in {"start", "record"} => p.status = "none"
    /\ q.pc = "page" => (p.status = "none" <=> q.provider = "stripe")

SoundFor(t) == Sound(topup[t], payments[t], Announced(t), Received(t), Booked(t))

AllSound == \A t \in Topups : SoundFor(t) /\ OneRow(topup[t].user, "topup", t)

Handling == [pc : {"mark", "apply"}, event : Event, live : BOOLEAN]

HookSound(d) ==
    \/ hook[d] = Idle
    \/ /\ hook[d] \in Handling
       /\ hook[d].event \in emitted
       /\ hook[d].pc = "apply" => hook[d].event \in seen

AllHooks == \A d \in Deliveries : HookSound(d)

Inv ==
    /\ TypeOK /\ NonNegative /\ LedgerChain
    /\ AllSound /\ AllHooks
    /\ StripeAckIsRecorded /\ OneApplierPerEvent

-----------------------------------------------------------------------------
LEMMA InitInv == Init => Inv
<1> SUFFICES ASSUME Init PROVE Inv
    OBVIOUS
<1> USE TopUpAssumption, AmountsAssumption
<1>1. WalletTypeOK /\ NonNegative /\ LedgerChain
    BY DEF Init, WalletInit, WalletTypeOK, NonNegative, LedgerChain, BalanceBefore
<1>2. topup \in [Topups -> TopupRequest]
    <2> DEFINE New == [pc : {"start"}, user : Users, amount : Amounts,
                       provider : Providers, live : {TRUE}, reply : {"none"}]
    <2>1. ASSUME NEW q \in New PROVE q \in TopupRequest
        <3>1. q = [pc |-> q.pc, user |-> q.user, amount |-> q.amount,
                   provider |-> q.provider, live |-> q.live, reply |-> q.reply]
            OBVIOUS
        <3>2. /\ q.pc \in {"start"} /\ q.user \in Users /\ q.amount \in Amounts
              /\ q.provider \in Providers /\ q.live \in {TRUE} /\ q.reply \in {"none"}
            OBVIOUS
        <3>3. q.live \in BOOLEAN
            BY <3>2, Zenon
        <3>4. q.pc \in {"start", "page", "record", "done", "dead"}
              /\ q.reply \in {"none", "400", "500", "502", "200"}
            BY <3>2
        <3> HIDE DEF New
        <3> QED BY <3>1, <3>2, <3>3, <3>4 DEF TopupRequest
    <2>2. topup \in [Topups -> New]
        BY DEF Init
    <2> HIDE DEF New
    <2> QED BY <2>1, <2>2
<1>3. payments \in [Topups -> Payment]
    <2>1. [status |-> "none", credited |-> FALSE] \in Payment
        BY DEF Payment, PaymentStatuses
    <2> QED BY <2>1 DEF Init
<1>4. TypeOK
    BY <1>1, <1>2, <1>3 DEF Init, TypeOK, Idle, Remote
<1>5. ASSUME NEW t \in Topups PROVE SoundFor(t) /\ OneRow(topup[t].user, "topup", t)
    <2>1. topup[t] \in TopupRequest /\ topup[t].pc = "start" /\ topup[t].reply = "none"
        BY <1>2 DEF Init
    <2>2. ~Booked(t) /\ OneRow(topup[t].user, "topup", t)
        BY <2>1 DEF Init, WalletInit, TopupRequest, Booked, HasEntry, OneRow
    <2>3. ~Announced(t) /\ ~Received(t)
        BY DEF Init, Announced, Received
    <2> QED BY <2>1, <2>2, <2>3 DEF Init, SoundFor, Sound
<1>6. AllHooks /\ StripeAckIsRecorded /\ OneApplierPerEvent
    BY DEF Init, AllHooks, HookSound, StripeAckIsRecorded, OneApplierPerEvent, Idle
<1> QED BY <1>1, <1>4, <1>5, <1>6 DEF Inv, AllSound

-----------------------------------------------------------------------------
(* POST /wallet/topup: the ledger, the events and the webhooks rest. *)

LEMMA TopupStep ==
    ASSUME Inv, NEW t \in Topups, TypeOK',
           UNCHANGED <<walletVars, seen, hook, emitted, acked>>,
           \A s \in Topups \ {t} : topup'[s] = topup[s] /\ payments'[s] = payments[s],
           topup'[t].user = topup[t].user, topup'[t].provider = topup[t].provider,
           Sound(topup'[t], payments'[t], Announced(t), Received(t), Booked(t))
    PROVE  Inv'
<1>1. NonNegative' /\ LedgerChain'
    BY WalletUnchanged DEF Inv
<1>2. ASSUME NEW s \in Topups
      PROVE  /\ Announced(s)' <=> Announced(s)
             /\ Received(s)' <=> Received(s)
             /\ Booked(s)' <=> Booked(s)
             /\ OneRow(topup[s].user, "topup", s)'
    <2>1. topup'[s].user = topup[s].user /\ OneRow(topup[s].user, "topup", s)
        BY DEF Inv, AllSound
    <2> QED BY <2>1 DEF walletVars, Announced, Received, Booked, HasEntry, IsEntry, OneRow
<1>3. ASSUME NEW s \in Topups PROVE SoundFor(s)'
    <2>1. CASE s = t
        BY <1>2, <2>1 DEF SoundFor, Sound
    <2>2. CASE s # t
        <3>1. SoundFor(s) /\ topup'[s] = topup[s] /\ payments'[s] = payments[s]
            BY <2>2 DEF Inv, AllSound
        <3> QED BY <1>2, <3>1 DEF SoundFor, Sound
    <2> QED BY <2>1, <2>2
<1>4. AllHooks' /\ OneApplierPerEvent'
    BY DEF Inv, AllHooks, HookSound, OneApplierPerEvent
<1>5. StripeAckIsRecorded'
    <2>1. ASSUME NEW e \in acked PROVE FromStripe(e)' <=> FromStripe(e)
        BY DEF Inv, TypeOK, Event, FromStripe
    <2> QED BY <2>1 DEF Inv, StripeAckIsRecorded
<1> QED BY <1>1, <1>2, <1>3, <1>4, <1>5 DEF Inv, AllSound

LEMMA StartTopupInv ==
    ASSUME Inv, NEW t \in Topups, StartTopup(t)
    PROVE  Inv'
<1>1. /\ topup[t] \in TopupRequest /\ payments[t] \in Payment
      /\ topup[t].pc = "start" /\ SoundFor(t)
    BY DEF Inv, TypeOK, AllSound, StartTopup, AtTopup
<1>2. /\ UNCHANGED <<balance, ledger, payments, seen, hook, remote, emitted, acked>>
      /\ \/ topup' = [topup EXCEPT ![t].pc = "done", ![t].reply = "400"]
         \/ topup' = [topup EXCEPT ![t].pc = "done", ![t].reply = "500"]
         \/ /\ topup' = [topup EXCEPT ![t].pc = IF topup[t].provider = "stripe"
                                                  THEN "page" ELSE "record"]
            /\ ~(topup[t].amount < MinTopup)
    BY DEF StartTopup, AnswerTopup, GotoTopup, storeVars, providerVars
<1>3. topup' \in [Topups -> TopupRequest]
    BY <1>1, <1>2 DEF Inv, TypeOK, TopupRequest
<1>4. TypeOK'
    BY <1>2, <1>3 DEF Inv, TypeOK, WalletTypeOK
<1>5. topup[t].amount \in Nat /\ MinTopup \in Nat
    BY <1>1, AmountsAssumption, TopUpAssumption DEF TopupRequest
<1>6. Sound(topup'[t], payments'[t], Announced(t), Received(t), Booked(t))
    BY <1>1, <1>2, <1>5 DEF Inv, TypeOK, SoundFor, Sound, TopupRequest, Payment
<1>7. /\ \A s \in Topups \ {t} : topup'[s] = topup[s] /\ payments'[s] = payments[s]
      /\ topup'[t].user = topup[t].user /\ topup'[t].provider = topup[t].provider
    BY <1>1, <1>2 DEF Inv, TypeOK, TopupRequest
<1> QED BY <1>2, <1>4, <1>6, <1>7, TopupStep DEF walletVars

LEMMA OpenPageInv ==
    ASSUME Inv, NEW t \in Topups, OpenPage(t)
    PROVE  Inv'
<1>1. /\ topup[t] \in TopupRequest /\ payments[t] \in Payment
      /\ topup[t].pc = "page" /\ SoundFor(t)
    BY DEF Inv, TypeOK, AllSound, OpenPage, AtTopup
<1>2. /\ UNCHANGED <<balance, ledger, payments, seen, hook, emitted, acked>>
      /\ remote' = [remote EXCEPT ![t] = "open"] \/ remote' = remote
      /\ \/ topup' = [topup EXCEPT ![t].pc = "done", ![t].reply = "502"]
         \/ /\ topup' = [topup EXCEPT ![t].pc = "record"]
            /\ topup[t].provider = "stripe"
         \/ /\ topup' = [topup EXCEPT ![t].pc = "done", ![t].reply = "200"]
            /\ topup[t].provider # "stripe"
    BY DEF OpenPage, AnswerTopup, GotoTopup, storeVars
<1>3. topup' \in [Topups -> TopupRequest] /\ remote' \in [Topups -> Remote]
    BY <1>1, <1>2 DEF Inv, TypeOK, TopupRequest, Remote
<1>4. TypeOK'
    BY <1>2, <1>3 DEF Inv, TypeOK, WalletTypeOK
<1>5. Sound(topup'[t], payments'[t], Announced(t), Received(t), Booked(t))
    BY <1>1, <1>2 DEF Inv, TypeOK, SoundFor, Sound, TopupRequest, Payment
<1>6. /\ \A s \in Topups \ {t} : topup'[s] = topup[s] /\ payments'[s] = payments[s]
      /\ topup'[t].user = topup[t].user /\ topup'[t].provider = topup[t].provider
    BY <1>1, <1>2 DEF Inv, TypeOK, TopupRequest
<1> QED BY <1>2, <1>4, <1>5, <1>6, TopupStep DEF walletVars

LEMMA RecordPaymentInv ==
    ASSUME Inv, NEW t \in Topups, RecordPayment(t)
    PROVE  Inv'
<1>1. /\ topup[t] \in TopupRequest /\ payments[t] \in Payment
      /\ topup[t].pc = "record" /\ SoundFor(t)
    BY DEF Inv, TypeOK, AllSound, RecordPayment, AtTopup
<1>2. /\ UNCHANGED <<balance, ledger, seen, hook, remote, emitted, acked>>
      /\ \/ /\ payments' \in {payments, [payments EXCEPT ![t].status = "pending"]}
            /\ topup' = [topup EXCEPT ![t].pc = "done", ![t].reply = "500"]
         \/ /\ payments' = [payments EXCEPT ![t].status = "pending"]
            /\ \/ /\ topup' = [topup EXCEPT ![t].pc = "done", ![t].reply = "200"]
                  /\ topup[t].provider = "stripe"
               \/ /\ topup' = [topup EXCEPT ![t].pc = "page"]
                  /\ topup[t].provider # "stripe"
    BY DEF RecordPayment, AnswerTopup, GotoTopup, Committed, walletVars, providerVars
<1>3. topup' \in [Topups -> TopupRequest]
    BY <1>1, <1>2 DEF Inv, TypeOK, TopupRequest
<1>4. payments' \in [Topups -> Payment]
    BY <1>1, <1>2 DEF Inv, TypeOK, Payment, PaymentStatuses
<1>5. TypeOK'
    BY <1>2, <1>3, <1>4 DEF Inv, TypeOK, WalletTypeOK
<1>6. Sound(topup'[t], payments'[t], Announced(t), Received(t), Booked(t))
    BY <1>1, <1>2 DEF Inv, TypeOK, SoundFor, Sound, TopupRequest, Payment
<1>7. /\ \A s \in Topups \ {t} : topup'[s] = topup[s] /\ payments'[s] = payments[s]
      /\ topup'[t].user = topup[t].user /\ topup'[t].provider = topup[t].provider
    BY <1>1, <1>2 DEF Inv, TypeOK, TopupRequest
<1> QED BY <1>2, <1>5, <1>6, <1>7, TopupStep DEF walletVars

LEMMA EndTopupContextInv ==
    ASSUME Inv, NEW t \in Topups, EndTopupContext(t)
    PROVE  Inv'
<1>1. topup[t] \in TopupRequest /\ payments[t] \in Payment /\ SoundFor(t)
    BY DEF Inv, TypeOK, AllSound
<1>2. /\ UNCHANGED <<balance, ledger, payments, seen, hook, remote, emitted, acked>>
      /\ topup' = [topup EXCEPT ![t].live = FALSE]
    BY DEF EndTopupContext, storeVars, providerVars
<1>3. topup' \in [Topups -> TopupRequest]
    BY <1>1, <1>2 DEF Inv, TypeOK, TopupRequest
<1>4. TypeOK'
    BY <1>2, <1>3 DEF Inv, TypeOK, WalletTypeOK
<1>5. Sound(topup'[t], payments'[t], Announced(t), Received(t), Booked(t))
    BY <1>1, <1>2 DEF Inv, TypeOK, SoundFor, Sound, TopupRequest
<1>6. /\ \A s \in Topups \ {t} : topup'[s] = topup[s] /\ payments'[s] = payments[s]
      /\ topup'[t].user = topup[t].user /\ topup'[t].provider = topup[t].provider
    BY <1>1, <1>2 DEF Inv, TypeOK, TopupRequest
<1> QED BY <1>2, <1>4, <1>5, <1>6, TopupStep DEF walletVars

-----------------------------------------------------------------------------
(* The providers *)

\* A step that leaves the payments, the ledger and the events alone.
LEMMA RowsStay ==
    ASSUME Inv, UNCHANGED <<walletVars, payments, topup, emitted>>
    PROVE  WalletTypeOK' /\ NonNegative' /\ LedgerChain' /\ AllSound'
<1>1. WalletTypeOK' /\ NonNegative' /\ LedgerChain'
    BY WalletUnchanged DEF Inv, TypeOK
<1>2. ASSUME NEW t \in Topups PROVE SoundFor(t)' /\ OneRow(topup[t].user, "topup", t)'
    <2>1. SoundFor(t) /\ OneRow(topup[t].user, "topup", t)
        BY DEF Inv, AllSound
    <2>2. /\ Announced(t)' <=> Announced(t)
          /\ Received(t)' <=> Received(t)
          /\ Booked(t)' <=> Booked(t)
          /\ OneRow(topup[t].user, "topup", t)'
        BY <2>1 DEF walletVars, Announced, Received, Booked, HasEntry, IsEntry, OneRow
    <2> QED BY <2>1, <2>2 DEF SoundFor, Sound
<1> QED BY <1>1, <1>2 DEF AllSound

\* What HookSound says of the types.
LEMMA HookTypes ==
    ASSUME AllHooks'
    PROVE  \A d \in Deliveries :
              /\ hook'[d].pc \in {"idle", "mark", "apply"}
              /\ hook'[d].pc # "idle" => hook'[d].event \in Event /\ hook'[d].live \in BOOLEAN
BY DEF AllHooks, HookSound, Handling, Idle

LEMMA AnnounceInv ==
    ASSUME Inv, NEW t \in Topups, Announce(t)
    PROVE  Inv'
<1>1. /\ UNCHANGED <<balance, ledger, payments, seen, topup, hook, acked>>
      /\ topup[t].reply = "200"
    BY DEF Announce, storeVars
<1>2. PICK type \in StripeTypes \cup NowStatuses :
         /\ remote' = [remote EXCEPT ![t] = type]
         /\ emitted' = emitted \cup {[topup |-> t, type |-> type]}
    BY DEF Announce, FirstEvents, Follows, StripeTypes, NowStatuses
<1>3. remote' \in [Topups -> Remote] /\ emitted' \subseteq Event
    BY <1>2 DEF Inv, TypeOK, Remote, Event
<1>4. TypeOK'
    BY <1>1, <1>2, <1>3 DEF Inv, TypeOK, WalletTypeOK
<1>5. NonNegative' /\ LedgerChain'
    BY <1>1, WalletUnchanged DEF Inv, walletVars
<1>6. ASSUME NEW s \in Topups PROVE SoundFor(s)' /\ OneRow(topup[s].user, "topup", s)'
    <2>1. SoundFor(s) /\ OneRow(topup[s].user, "topup", s)
        BY DEF Inv, AllSound
    <2>2. (Booked(s)' <=> Booked(s)) /\ OneRow(topup[s].user, "topup", s)'
        BY <1>1, <2>1 DEF Booked, HasEntry, IsEntry, OneRow
    <2>3. Announced(s)' <=> Announced(s) \/ s = t
        <3> DEFINE n == [topup |-> t, type |-> type]
        <3>1. n.topup = t /\ emitted' = emitted \cup {n}
            BY <1>2
        <3> HIDE DEF n
        <3> QED BY <3>1 DEF Announced
    <2>5. Received(s) => Received(s)'
        BY <1>2 DEF Received
    <2>6. s # t => (Received(s)' <=> Received(s))
        BY <1>2 DEF Received
    <2>4. Received(s)' => Announced(s)'
        BY DEF Announced, Received
    <2> QED BY <1>1, <2>1, <2>2, <2>3, <2>4, <2>5, <2>6 DEF SoundFor, Sound
<1>7. AllHooks' /\ OneApplierPerEvent' /\ StripeAckIsRecorded'
    BY <1>1, <1>2 DEF Inv, AllHooks, HookSound, OneApplierPerEvent, StripeAckIsRecorded, FromStripe
<1> QED BY <1>4, <1>5, <1>6, <1>7 DEF Inv, AllSound

LEMMA DeliverInv ==
    ASSUME Inv, NEW d \in Deliveries, NEW e \in emitted, Deliver(d, e)
    PROVE  Inv'
<1>1. /\ UNCHANGED <<balance, ledger, payments, seen, topup, remote, emitted, acked>>
      /\ hook' = [hook EXCEPT ![d] = [pc |-> "mark", event |-> e, live |-> TRUE]]
      /\ e \in Event /\ DOMAIN hook = Deliveries
    BY DEF Deliver, storeVars, providerVars, Inv, TypeOK
<1>2. [pc |-> "mark", event |-> e, live |-> TRUE] \in Handling
    BY <1>1 DEF Handling
<1>3. AllHooks' /\ OneApplierPerEvent' /\ StripeAckIsRecorded' /\ DOMAIN hook' = Deliveries
    BY <1>1, <1>2
       DEF Inv, AllHooks, HookSound, OneApplierPerEvent, StripeAckIsRecorded, FromStripe
<1>4. WalletTypeOK' /\ NonNegative' /\ LedgerChain' /\ AllSound'
    BY <1>1, RowsStay DEF walletVars
<1>5. TypeOK'
    BY <1>1, <1>3, <1>4, HookTypes DEF Inv, TypeOK
<1> QED BY <1>3, <1>4, <1>5 DEF Inv

-----------------------------------------------------------------------------
(* The webhooks *)

LEMMA EndHookContextInv ==
    ASSUME Inv, NEW d \in Deliveries, EndHookContext(d)
    PROVE  Inv'
<1>1. /\ UNCHANGED <<balance, ledger, payments, seen, topup, remote, emitted, acked>>
      /\ hook' = [hook EXCEPT ![d].live = FALSE]
      /\ hook[d] \in Handling /\ DOMAIN hook = Deliveries
    BY DEF EndHookContext, storeVars, providerVars, Inv, TypeOK, AllHooks, HookSound, Idle
<1>2. /\ hook'[d] \in Handling
      /\ hook'[d].pc = hook[d].pc /\ hook'[d].event = hook[d].event
    BY <1>1 DEF Handling
<1>3. AllHooks' /\ OneApplierPerEvent' /\ StripeAckIsRecorded' /\ DOMAIN hook' = Deliveries
    BY <1>1, <1>2
       DEF Inv, AllHooks, HookSound, OneApplierPerEvent, StripeAckIsRecorded, FromStripe, Idle
<1>4. WalletTypeOK' /\ NonNegative' /\ LedgerChain' /\ AllSound'
    BY <1>1, RowsStay DEF walletVars
<1>5. TypeOK'
    BY <1>1, <1>3, <1>4, HookTypes DEF Inv, TypeOK
<1> QED BY <1>3, <1>4, <1>5 DEF Inv

\* A connection that answers: 200 for an event of Stripe only if it is known.
LEMMA Answered ==
    ASSUME Inv, NEW d \in Deliveries, hook[d].pc # "idle",
           hook' = [hook EXCEPT ![d] = Idle],
           acked' \in {acked, acked \cup {hook[d].event}},
           seen' \in {seen, seen \cup {hook[d].event}},
           acked' # acked /\ FromStripe(hook[d].event) => hook[d].event \in seen',
           UNCHANGED <<topup, emitted>>
    PROVE  /\ AllHooks' /\ OneApplierPerEvent' /\ StripeAckIsRecorded'
           /\ DOMAIN hook' = Deliveries /\ acked' \subseteq emitted /\ seen' \subseteq Event
<1>1. /\ DOMAIN hook = Deliveries /\ hook[d].event \in emitted /\ hook[d].event \in Event
      /\ acked \subseteq emitted /\ seen \subseteq Event
    BY DEF Inv, TypeOK, AllHooks, HookSound, Idle
<1>2. AllHooks' /\ OneApplierPerEvent'
    BY <1>1 DEF Inv, AllHooks, HookSound, OneApplierPerEvent, Idle
<1>3. StripeAckIsRecorded'
    BY DEF Inv, StripeAckIsRecorded, FromStripe
<1> QED BY <1>1, <1>2, <1>3

LEMMA MarkWebhookSeenInv ==
    ASSUME Inv, NEW d \in Deliveries, MarkWebhookSeen(d)
    PROVE  Inv'
<1> DEFINE e == hook[d].event
<1>1. /\ UNCHANGED <<balance, ledger, payments, topup, remote, emitted>>
      /\ hook[d] \in Handling /\ e \in emitted /\ e \in Event
      /\ hook[d].pc = "mark" /\ DOMAIN hook = Deliveries
    BY DEF MarkWebhookSeen, walletVars, Inv, TypeOK, AllHooks, HookSound, Idle
<1>2. \/ /\ seen' = seen \cup {e} /\ e \notin seen
         /\ hook' = [hook EXCEPT ![d].pc = "apply"]
         /\ acked' = acked
      \/ /\ hook' = [hook EXCEPT ![d] = Idle]
         /\ acked' \in {acked, acked \cup {e}}
         /\ seen' \in {seen, seen \cup {e}}
         /\ acked' # acked /\ FromStripe(e) => e \in seen'
    BY DEF MarkWebhookSeen, AnswerHook, Committed
<1>3. WalletTypeOK' /\ NonNegative' /\ LedgerChain' /\ AllSound'
    BY <1>1, RowsStay DEF walletVars
<1>4. /\ AllHooks' /\ OneApplierPerEvent' /\ StripeAckIsRecorded'
      /\ DOMAIN hook' = Deliveries /\ acked' \subseteq emitted /\ seen' \subseteq Event
    <2>1. CASE hook' = [hook EXCEPT ![d] = Idle]
        <3>1. /\ acked' \in {acked, acked \cup {e}}
              /\ seen' \in {seen, seen \cup {e}}
              /\ acked' # acked /\ FromStripe(e) => e \in seen'
            <4>1. hook[d].pc = "mark" /\ hook'[d].pc = "idle"
                BY <1>1, <2>1 DEF Idle
            <4>2. hook' # [hook EXCEPT ![d].pc = "apply"]
                BY <1>1, <4>1 DEF Handling
            <4> QED BY <1>2, <4>2
        <3> QED BY <1>1, <2>1, <3>1, Answered
    <2>2. CASE /\ seen' = seen \cup {e} /\ e \notin seen
               /\ hook' = [hook EXCEPT ![d].pc = "apply"]
               /\ acked' = acked
        <3>1. /\ hook'[d] \in Handling /\ hook'[d].pc = "apply" /\ hook'[d].event = e
              /\ \A c \in Deliveries \ {d} : hook'[c] = hook[c]
            BY <1>1, <2>2 DEF Handling
        <3>2. AllHooks'
            BY <1>1, <2>2, <3>1 DEF Inv, AllHooks, HookSound, Idle
        <3>3. OneApplierPerEvent'
            BY <2>2, <3>1 DEF Inv, AllHooks, HookSound, OneApplierPerEvent, Idle
        <3> QED BY <1>1, <2>2, <3>2, <3>3 DEF Inv, TypeOK, StripeAckIsRecorded, FromStripe
    <2> QED BY <1>2, <2>1, <2>2
<1>5. TypeOK'
    BY <1>1, <1>3, <1>4, HookTypes DEF Inv, TypeOK
<1> QED BY <1>3, <1>4, <1>5 DEF Inv

\* The credit of a recorded payment that was not credited, when its money is
\* there: its owner's ledger gets its first row, and no other row changes.
LEMMA CreditStep ==
    ASSUME Inv, NEW t \in Topups, payments[t].status # "none", ~payments[t].credited,
           Received(t),
           Credit(topup[t].user, "topup", topup[t].amount, t),
           payments' = [payments EXCEPT ![t].status = "paid", ![t].credited = TRUE],
           UNCHANGED <<topup, emitted>>
    PROVE  /\ WalletTypeOK' /\ NonNegative' /\ LedgerChain' /\ AllSound'
           /\ payments' \in [Topups -> Payment]
<1>1. /\ topup[t] \in TopupRequest /\ payments[t] \in Payment
      /\ topup[t].user \in Users /\ topup[t].amount \in Int /\ t \in Refs /\ "topup" \in Kinds
      /\ WalletTypeOK
    BY AmountsAssumption, TopUpAssumption DEF Inv, TypeOK, TopupRequest, Kinds
<1>2. WalletTypeOK' /\ NonNegative' /\ LedgerChain'
    BY <1>1, CreditKeeps DEF Inv
<1>3. Move(topup[t].user, "topup", topup[t].amount, t)
    BY DEF Credit
<1>4. payments' \in [Topups -> Payment]
    BY <1>1 DEF Inv, TypeOK, Payment, PaymentStatuses
<1>5. ~HasEntry(topup[t].user, "topup", t)
    BY DEF Inv, AllSound, SoundFor, Sound, Booked
<1>6. ASSUME NEW s \in Topups PROVE SoundFor(s)' /\ OneRow(topup[s].user, "topup", s)'
    <2>1. /\ SoundFor(s) /\ OneRow(topup[s].user, "topup", s)
          /\ topup[s].user \in Users /\ s \in Refs
        BY TopUpAssumption DEF Inv, TypeOK, AllSound, TopupRequest
    <2>2. \A v \in Users : HasEntry(v, "topup", s)'
             <=> HasEntry(v, "topup", s) \/ (v = topup[t].user /\ "topup" = "topup" /\ s = t)
        BY <1>1, <1>3, <2>1, MoveEntries
    <2>3. Booked(s)' <=> Booked(s) \/ s = t
        BY <2>1, <2>2 DEF Booked, HasEntry, IsEntry
    <2>4. OneRow(topup[s].user, "topup", s)'
        <3>1. \A v \in Users : OneRow(v, "topup", s) => OneRow(v, "topup", s)'
            BY <1>1, <1>3, <1>5, MoveOneRow
        <3> QED BY <2>1, <3>1 DEF OneRow, IsEntry
    <2>5. (Announced(s)' <=> Announced(s)) /\ (Received(s)' <=> Received(s))
        BY DEF Announced, Received
    <2>6. SoundFor(s)'
        <3>1. CASE s = t
            <4>1. payments'[t].status = "paid" /\ payments'[t].credited = TRUE
                BY <1>1 DEF Inv, TypeOK, Payment
            <4> QED BY <2>1, <2>3, <2>5, <3>1, <4>1 DEF SoundFor, Sound
        <3>2. CASE s # t
            <4>1. payments'[s] = payments[s]
                BY <3>2 DEF Inv, TypeOK
            <4> QED BY <2>1, <2>3, <2>5, <3>2, <4>1 DEF SoundFor, Sound
        <3> QED BY <3>1, <3>2
    <2> QED BY <2>4, <2>6
<1> QED BY <1>2, <1>4, <1>6 DEF AllSound

LEMMA ApplyCreditInv ==
    ASSUME Inv, NEW d \in Deliveries, ApplyCredit(d)
    PROVE  Inv'
<1> DEFINE e == hook[d].event
           t == e.topup
<1>1. /\ hook[d].pc = "apply" /\ e \in emitted /\ e \in Event /\ e \in seen /\ t \in Topups
      /\ e.type \in PaidTypes
      /\ UNCHANGED <<seen, topup, remote, emitted>>
    BY DEF ApplyCredit, Credits, PaidTypes, Inv, TypeOK, AllHooks, HookSound, Idle, Event
<1>2. Received(t)
    BY <1>1 DEF Received
<1>3. /\ hook' = [hook EXCEPT ![d] = Idle]
      /\ acked' \in {acked, acked \cup {e}}
      /\ \/ payments[t].status # "none" /\ MarkPaymentPaidAndCredit(t)
         \/ UNCHANGED <<walletVars, payments>>
    BY DEF ApplyCredit, AnswerHook
<1>4. /\ AllHooks' /\ OneApplierPerEvent' /\ StripeAckIsRecorded'
      /\ DOMAIN hook' = Deliveries /\ acked' \subseteq emitted /\ seen' \subseteq Event
    BY <1>1, <1>3, Answered
<1>5. /\ WalletTypeOK' /\ NonNegative' /\ LedgerChain' /\ AllSound'
      /\ payments' \in [Topups -> Payment]
    <2>1. CASE UNCHANGED <<walletVars, payments>>
        BY <1>1, <2>1, RowsStay DEF Inv, TypeOK
    <2>2. CASE /\ payments[t].status # "none" /\ ~payments[t].credited
               /\ MarkPaymentPaidAndCredit(t)
        <3>1. /\ Credit(topup[t].user, "topup", topup[t].amount, t)
              /\ payments' = [payments EXCEPT ![t].status = "paid", ![t].credited = TRUE]
            BY <2>2 DEF MarkPaymentPaidAndCredit
        <3> HIDE DEF t
        <3> QED BY <1>1, <1>2, <2>2, <3>1, CreditStep
    <2>3. CASE payments[t].credited /\ MarkPaymentPaidAndCredit(t)
        <3>1. UNCHANGED <<walletVars, payments>>
            BY <2>3 DEF MarkPaymentPaidAndCredit
        <3> QED BY <2>1, <3>1
    <2> QED BY <1>3, <2>1, <2>2, <2>3
<1>6. TypeOK'
    BY <1>1, <1>4, <1>5, HookTypes DEF Inv, TypeOK
<1> QED BY <1>4, <1>5, <1>6 DEF Inv

LEMMA ApplyOtherInv ==
    ASSUME Inv, NEW d \in Deliveries, ApplyOther(d)
    PROVE  Inv'
<1>1. /\ hook[d].pc = "apply" /\ hook[d].event \in seen /\ hook[d].event.topup \in Topups
      /\ UNCHANGED <<balance, ledger, seen, topup, remote, emitted>>
    BY DEF ApplyOther, walletVars, Inv, TypeOK, AllHooks, HookSound, Idle, Event
<1>2. PICK t \in Topups : t = hook[d].event.topup
    BY <1>1
<1>3. PICK status \in {"failed", "expired", "refunded", "confirming"} :
         \/ payments' = payments
         \/ /\ payments[t].status # "none"
            /\ payments' = [payments EXCEPT ![t].status = status]
    BY <1>2 DEF ApplyOther, StoredStatus
<1>4. hook' = [hook EXCEPT ![d] = Idle] /\ acked' \in {acked, acked \cup {hook[d].event}}
    BY DEF ApplyOther, AnswerHook
<1>5. /\ AllHooks' /\ OneApplierPerEvent' /\ StripeAckIsRecorded'
      /\ DOMAIN hook' = Deliveries /\ acked' \subseteq emitted /\ seen' \subseteq Event
    BY <1>1, <1>4, Answered
<1>6. payments' \in [Topups -> Payment]
    BY <1>3 DEF Inv, TypeOK, Payment, PaymentStatuses
<1>7. WalletTypeOK' /\ NonNegative' /\ LedgerChain'
    BY <1>1, WalletUnchanged DEF walletVars, Inv, TypeOK
<1>8. ASSUME NEW s \in Topups PROVE SoundFor(s)' /\ OneRow(topup[s].user, "topup", s)'
    <2>1. SoundFor(s) /\ OneRow(topup[s].user, "topup", s) /\ payments[s] \in Payment
        BY DEF Inv, TypeOK, AllSound
    <2>2. /\ Announced(s)' <=> Announced(s)
          /\ Received(s)' <=> Received(s)
          /\ Booked(s)' <=> Booked(s)
          /\ OneRow(topup[s].user, "topup", s)'
        BY <1>1, <2>1 DEF Announced, Received, Booked, HasEntry, IsEntry, OneRow
    <2>3. \/ payments'[s] = payments[s]
          \/ /\ payments'[s].credited = payments[s].credited
             /\ payments[s].status # "none"
             /\ payments'[s].status \in {"failed", "expired", "refunded", "confirming"}
        BY <1>3, <2>1 DEF Inv, TypeOK, Payment
    <2> QED BY <1>1, <2>1, <2>2, <2>3 DEF SoundFor, Sound
<1>9. TypeOK'
    BY <1>1, <1>5, <1>6, <1>7, HookTypes DEF Inv, TypeOK
<1> QED BY <1>5, <1>7, <1>8, <1>9 DEF Inv, AllSound

LEMMA RestartInv ==
    ASSUME Inv, Restart
    PROVE  Inv'
<1>1. /\ UNCHANGED <<balance, ledger, payments, seen, remote, emitted, acked>>
      /\ hook' = [d \in Deliveries |-> Idle]
      /\ topup' = [t \in Topups |-> IF topup[t].pc \in {"page", "record"}
                                      THEN [topup[t] EXCEPT !.pc = "dead"] ELSE topup[t]]
    BY DEF Restart, storeVars, providerVars
<1>2. ASSUME NEW t \in Topups
      PROVE  /\ topup[t] \in TopupRequest /\ topup'[t] \in TopupRequest
             /\ topup'[t].user = topup[t].user /\ topup'[t].amount = topup[t].amount
             /\ topup'[t].provider = topup[t].provider /\ topup'[t].reply = topup[t].reply
             /\ \/ topup'[t].pc = topup[t].pc
                \/ topup'[t].pc = "dead" /\ topup[t].pc \in {"page", "record"}
    BY <1>1 DEF Inv, TypeOK, TopupRequest
<1>3. topup' \in [Topups -> TopupRequest]
    BY <1>1, <1>2
<1>4. WalletTypeOK' /\ NonNegative' /\ LedgerChain'
    BY <1>1, WalletUnchanged DEF walletVars, Inv, TypeOK
<1>5. AllHooks' /\ OneApplierPerEvent'
    BY <1>1 DEF AllHooks, HookSound, OneApplierPerEvent, Idle
<1>6. StripeAckIsRecorded'
    <2>1. \A e \in acked : FromStripe(e)' <=> FromStripe(e)
        BY <1>2 DEF Inv, TypeOK, Event, FromStripe
    <2> QED BY <1>1, <2>1 DEF Inv, StripeAckIsRecorded
<1>7. ASSUME NEW t \in Topups PROVE SoundFor(t)' /\ OneRow(topup[t].user, "topup", t)'
    <2>1. SoundFor(t) /\ OneRow(topup[t].user, "topup", t)
        BY DEF Inv, AllSound
    <2>2. /\ Announced(t)' <=> Announced(t)
          /\ Received(t)' <=> Received(t)
          /\ Booked(t)' <=> Booked(t)
          /\ OneRow(topup[t].user, "topup", t)'
        BY <1>1, <1>2, <2>1 DEF Announced, Received, Booked, HasEntry, IsEntry, OneRow
    <2> QED BY <1>1, <1>2, <2>1, <2>2 DEF SoundFor, Sound
<1>8. TypeOK'
    BY <1>1, <1>3, <1>4, <1>5, HookTypes DEF Inv, TypeOK
<1> QED BY <1>4, <1>5, <1>6, <1>7, <1>8 DEF Inv, AllSound

-----------------------------------------------------------------------------
LEMMA NextInv == Inv /\ [Next]_vars => Inv'
<1> SUFFICES ASSUME Inv, [Next]_vars PROVE Inv'
    OBVIOUS
<1>1. ASSUME NEW t \in Topups,
             StartTopup(t) \/ OpenPage(t) \/ RecordPayment(t) \/ EndTopupContext(t) \/ Announce(t)
      PROVE  Inv'
    BY <1>1, StartTopupInv, OpenPageInv, RecordPaymentInv, EndTopupContextInv, AnnounceInv
<1>2. ASSUME NEW d \in Deliveries, HookStep(d) \/ EndHookContext(d)
      PROVE  Inv'
    BY <1>2, MarkWebhookSeenInv, ApplyCreditInv, ApplyOtherInv, EndHookContextInv DEF HookStep
<1>3. ASSUME NEW d \in Deliveries, NEW e \in emitted, Deliver(d, e)
      PROVE  Inv'
    BY <1>3, DeliverInv
<1>4. CASE Restart
    BY <1>4, RestartInv
<1>5. CASE UNCHANGED vars
    <2>1. UNCHANGED <<balance, ledger, payments, seen, topup, hook, remote, emitted, acked>>
        BY <1>5 DEF vars
    <2>2. WalletTypeOK' /\ NonNegative' /\ LedgerChain' /\ AllSound'
        BY <2>1, RowsStay DEF walletVars
    <2>3. AllHooks' /\ OneApplierPerEvent' /\ StripeAckIsRecorded'
        BY <2>1 DEF Inv, AllHooks, HookSound, OneApplierPerEvent, StripeAckIsRecorded, FromStripe
    <2>4. TypeOK'
        BY <2>1, <2>2 DEF Inv, TypeOK
    <2> QED BY <2>2, <2>3, <2>4 DEF Inv
<1> QED BY <1>1, <1>2, <1>3, <1>4, <1>5 DEF Next

\* The inductive invariant holds in every reachable state.
THEOREM Invariance == Spec => []Inv
BY InitInv, NextInv, PTL DEF Spec

\* Every variable of TopUp keeps its type.
THEOREM TypeCorrect == Spec => []TypeOK
<1>1. Inv => TypeOK
    BY DEF Inv
<1> QED BY <1>1, Invariance, PTL

\* Whatever is delivered twice, late or at once, the flag, the status and the
\* ledger agree, and no top-up has two rows: it is credited at most once.
THEOREM FlagIsTrue == Spec => []FlagMatchesLedger
<1>1. Inv => FlagMatchesLedger
    BY DEF Inv, AllSound, SoundFor, Sound, Booked, OneRow, FlagMatchesLedger
<1> QED BY <1>1, Invariance, PTL

\* Stripe is never told to stop while its event is unknown.
THEOREM StripeAckSound == Spec => []StripeAckIsRecorded
<1>1. Inv => StripeAckIsRecorded
    BY DEF Inv
<1> QED BY <1>1, Invariance, PTL

\* No two connections apply the same event at the same time, however many
\* there are: the insert into webhook_events lets one of them pass.
THEOREM AppliedByOne == Spec => []OneApplierPerEvent
<1>1. Inv => OneApplierPerEvent
    BY DEF Inv
<1> QED BY <1>1, Invariance, PTL

-----------------------------------------------------------------------------
(* TopUp implements Funding.  Owner, Asked and Stage are the refinement      *)
(* mapping of Contract.                                                      *)

StageOf(t) ==
    IF payments[t].credited THEN "credited"
    ELSE IF Received(t) THEN "received"
    ELSE IF payments[t].status # "none" THEN "recorded" ELSE "new"

Owner == [t \in Topups |-> topup[t].user]
Asked == [t \in Topups |-> topup[t].amount]
Stage == [t \in Topups |-> StageOf(t)]

\* No handler changes whose top-up it is, or its amount.
LEMMA TermsStay ==
    ASSUME Inv, [Next]_vars
    PROVE  Owner' = Owner /\ Asked' = Asked
<1>1. ASSUME NEW t \in Topups PROVE topup'[t].user = topup[t].user /\ topup'[t].amount = topup[t].amount
    <2>1. topup \in [Topups -> TopupRequest]
        BY DEF Inv, TypeOK
    <2>2. CASE UNCHANGED topup
        BY <2>2
    <2>3. ASSUME NEW s \in Topups, StartTopup(s) \/ OpenPage(s) \/ RecordPayment(s) \/ EndTopupContext(s)
          PROVE  /\ topup'[t].user = topup[t].user
                 /\ topup'[t].amount = topup[t].amount
        <3>1. \E pc \in {"page", "record", "done"}, reply \in {"400", "500", "502", "200"} :
                 \/ topup' = [topup EXCEPT ![s].pc = pc]
                 \/ topup' = [topup EXCEPT ![s].pc = pc, ![s].reply = reply]
                 \/ topup' = [topup EXCEPT ![s].live = FALSE]
            BY <2>3 DEF StartTopup, OpenPage, RecordPayment, EndTopupContext, AnswerTopup, GotoTopup
        <3> QED BY <2>1, <3>1 DEF TopupRequest
    <2>4. CASE Restart
        BY <2>1, <2>4 DEF Restart, TopupRequest
    <2>5. \/ UNCHANGED topup \/ Restart
          \/ \E s \in Topups : StartTopup(s) \/ OpenPage(s) \/ RecordPayment(s) \/ EndTopupContext(s)
        BY DEF Next, vars, Announce, HookStep, MarkWebhookSeen, ApplyCredit, ApplyOther,
               EndHookContext, Deliver
    <2> QED BY <2>2, <2>3, <2>4, <2>5
<1> QED BY <1>1 DEF Owner, Asked

LEMMA StepIsFunding ==
    ASSUME Inv, Inv', [Next]_vars
    PROVE  \/ UNCHANGED <<balance, Stage>>
           \/ \E t \in Topups :
                 \/ /\ StageOf(t) = "new" /\ Asked[t] > 0
                    /\ Stage' = [Stage EXCEPT ![t] = "recorded"] /\ UNCHANGED balance
                 \/ /\ StageOf(t) = "recorded"
                    /\ Stage' = [Stage EXCEPT ![t] = "received"] /\ UNCHANGED balance
                 \/ /\ StageOf(t) = "received"
                    /\ Stage' = [Stage EXCEPT ![t] = "credited"]
                    /\ balance' = [balance EXCEPT ![Owner[t]] = @ + Asked[t]]
<1>1. CASE UNCHANGED <<balance, payments, emitted>>
    BY <1>1 DEF Stage, StageOf, Received
<1>2. ASSUME NEW t \in Topups, RecordPayment(t)
      PROVE  \/ UNCHANGED <<balance, Stage>>
             \/ /\ StageOf(t) = "new" /\ Asked[t] > 0
                /\ Stage' = [Stage EXCEPT ![t] = "recorded"] /\ UNCHANGED balance
    <2>1. /\ UNCHANGED <<balance, emitted>>
          /\ payments' = payments \/ payments' = [payments EXCEPT ![t].status = "pending"]
          /\ topup[t].pc = "record" /\ payments[t] \in Payment /\ SoundFor(t)
          /\ topup[t] \in TopupRequest
        BY <1>2 DEF RecordPayment, AtTopup, walletVars, providerVars, Inv, TypeOK, AllSound
    <2>2. /\ ~payments[t].credited /\ ~Received(t) /\ payments[t].status = "none"
          /\ topup[t].amount >= MinTopup
        BY <2>1 DEF SoundFor, Sound
    <2>3. StageOf(t) = "new" /\ Asked[t] > 0
        BY <2>1, <2>2, AmountsAssumption, TopUpAssumption DEF StageOf, Asked, TopupRequest
    <2>4. CASE payments' = payments
        BY <2>1, <2>4 DEF Stage, StageOf, Received
    <2>5. CASE payments' = [payments EXCEPT ![t].status = "pending"]
        <3>1. ASSUME NEW s \in Topups
              PROVE  StageOf(s)' = IF s = t THEN "recorded" ELSE StageOf(s)
            BY <2>1, <2>2, <2>5 DEF StageOf, Received, Inv, TypeOK, Payment
        <3>2. Stage' = [Stage EXCEPT ![t] = "recorded"]
            BY <3>1 DEF Stage
        <3> QED BY <2>1, <2>3, <3>2
    <2> QED BY <2>1, <2>4, <2>5
<1>3. ASSUME NEW t \in Topups, Announce(t)
      PROVE  \/ UNCHANGED <<balance, Stage>>
             \/ /\ StageOf(t) = "recorded"
                /\ Stage' = [Stage EXCEPT ![t] = "received"] /\ UNCHANGED balance
    <2>1. /\ UNCHANGED <<balance, payments>> /\ SoundFor(t)
          /\ topup[t].reply = "200"
          /\ \E type : emitted' = emitted \cup {[topup |-> t, type |-> type]}
        BY <1>3 DEF Announce, storeVars, Inv, AllSound
    <2>2. ASSUME NEW s \in Topups \ {t} PROVE StageOf(s)' = StageOf(s)
        <3>1. Received(s)' <=> Received(s)
            BY <2>1, <2>2 DEF Received
        <3> QED BY <2>1, <3>1 DEF StageOf
    <2>3. Received(t) => Received(t)'
        BY <2>1 DEF Received
    <2>4. payments[t].credited => Received(t)
        BY <2>1 DEF SoundFor, Sound
    <2>5. payments[t].status # "none"
        BY <2>1 DEF SoundFor, Sound
    <2>6. CASE Received(t)' <=> Received(t)
        <3>1. StageOf(t)' = StageOf(t)
            BY <2>1, <2>6 DEF StageOf
        <3> QED BY <2>1, <2>2, <3>1 DEF Stage
    <2>7. CASE Received(t)' /\ ~Received(t)
        <3>1. StageOf(t) = "recorded" /\ StageOf(t)' = "received"
            BY <2>1, <2>4, <2>5, <2>7 DEF StageOf
        <3>2. Stage' = [Stage EXCEPT ![t] = "received"]
            BY <2>2, <3>1 DEF Stage
        <3> QED BY <2>1, <3>1, <3>2
    <2> QED BY <2>3, <2>6, <2>7
<1>4. ASSUME NEW d \in Deliveries, ApplyCredit(d)
      PROVE  \/ UNCHANGED <<balance, Stage>>
             \/ \E t \in Topups :
                   /\ StageOf(t) = "received"
                   /\ Stage' = [Stage EXCEPT ![t] = "credited"]
                   /\ balance' = [balance EXCEPT ![Owner[t]] = @ + Asked[t]]
    <2>1. hook[d].pc = "apply" /\ hook[d].event \in emitted /\ hook[d].event.topup \in Topups
          /\ hook[d].event.type \in PaidTypes /\ UNCHANGED emitted
        BY <1>4 DEF ApplyCredit, Credits, PaidTypes, Inv, TypeOK, AllHooks, HookSound, Idle, Event
    <2>2. PICK t \in Topups : t = hook[d].event.topup
        BY <2>1
    <2>3. MarkPaymentPaidAndCredit(t) \/ UNCHANGED <<walletVars, payments>>
        BY <1>4, <2>2 DEF ApplyCredit
    <2>4. CASE UNCHANGED <<walletVars, payments>> \/ payments[t].credited
        <3>1. UNCHANGED <<balance, payments>>
            BY <2>3, <2>4 DEF MarkPaymentPaidAndCredit, walletVars
        <3> QED BY <2>1, <3>1 DEF Stage, StageOf, Received
    <2>5. CASE MarkPaymentPaidAndCredit(t) /\ ~payments[t].credited
        <3>1. /\ balance' = [balance EXCEPT ![topup[t].user] = @ + topup[t].amount]
              /\ payments' = [payments EXCEPT ![t].status = "paid", ![t].credited = TRUE]
            BY <2>5 DEF MarkPaymentPaidAndCredit, Credit, Move
        <3>2. Received(t)
            BY <2>1, <2>2 DEF Received
        <3>3. ASSUME NEW s \in Topups
              PROVE  StageOf(s)' = IF s = t THEN "credited" ELSE StageOf(s)
            BY <2>1, <3>1 DEF StageOf, Received, Inv, TypeOK, Payment
        <3>4. Stage' = [Stage EXCEPT ![t] = "credited"] /\ StageOf(t) = "received"
            BY <2>5, <3>2, <3>3 DEF Stage, StageOf
        <3>5. balance' = [balance EXCEPT ![Owner[t]] = @ + Asked[t]]
            BY <3>1 DEF Owner, Asked
        <3> QED BY <3>4, <3>5
    <2> QED BY <2>3, <2>4, <2>5
<1>5. ASSUME NEW d \in Deliveries, ApplyOther(d)
      PROVE  UNCHANGED <<balance, Stage>>
    <2>1. UNCHANGED <<balance, emitted>>
        BY <1>5 DEF ApplyOther, walletVars
    <2>2. PICK t \in Topups, status \in {"failed", "expired", "refunded", "confirming"} :
             \/ payments' = payments
             \/ /\ payments[t].status # "none"
                /\ payments' = [payments EXCEPT ![t].status = status]
        BY <1>5 DEF ApplyOther, StoredStatus, Inv, TypeOK, AllHooks, HookSound, Idle, Event
    <2>3. ASSUME NEW s \in Topups PROVE StageOf(s)' = StageOf(s)
        BY <2>1, <2>2 DEF StageOf, Received, Inv, TypeOK, Payment
    <2> QED BY <2>1, <2>3 DEF Stage
<1>6. \/ UNCHANGED <<balance, payments, emitted>>
      \/ \E t \in Topups : RecordPayment(t) \/ Announce(t)
      \/ \E d \in Deliveries : ApplyCredit(d) \/ ApplyOther(d)
    BY DEF Next, vars, storeVars, walletVars, providerVars, StartTopup, OpenPage, EndTopupContext,
           HookStep, MarkWebhookSeen, EndHookContext, Deliver, Restart
<1> QED BY <1>1, <1>2, <1>3, <1>4, <1>5, <1>6

\* TopUp keeps the promise of Funding, for any number of top-ups and
\* connections: recorded, received and credited in this order, each once, and
\* the wallets move by the amounts of the credited top-ups only.
THEOREM FundingKept == Spec => KeepsFundingContract
<1>1. Init => Contract!Init
    <2> SUFFICES ASSUME Init PROVE Contract!Init
        OBVIOUS
    <2>1. Inv
        BY InitInv
    <2>2. /\ balance = [u \in Users |-> 0]
          /\ Owner \in [Topups -> Users] /\ Asked \in [Topups -> Nat]
        BY <2>1, AmountsAssumption DEF Init, WalletInit, Inv, TypeOK, TopupRequest, Owner, Asked
    <2>3. Stage = [t \in Topups |-> "new"]
        BY DEF Init, Stage, StageOf, Received
    <2> QED BY <2>2, <2>3 DEF Contract!Init, Stage, StageOf, Owner, Asked
<1>2. ASSUME Inv, Inv', [Next]_vars
      PROVE  [Contract!Next]_<<balance, Owner, Asked, Stage>>
    <2>1. Owner' = Owner /\ Asked' = Asked
        BY <1>2, TermsStay
    <2>2. ASSUME NEW t \in Topups, StageOf(t) = "new" /\ Asked[t] > 0,
                 Stage' = [Stage EXCEPT ![t] = "recorded"], UNCHANGED balance
          PROVE  Contract!Record(t)
        BY <2>1, <2>2 DEF Contract!Record, Stage, StageOf, Owner, Asked
    <2>3. ASSUME NEW t \in Topups, StageOf(t) = "recorded",
                 Stage' = [Stage EXCEPT ![t] = "received"], UNCHANGED balance
          PROVE  Contract!Receive(t)
        BY <2>1, <2>3 DEF Contract!Receive, Stage, StageOf, Owner, Asked
    <2>4. ASSUME NEW t \in Topups, StageOf(t) = "received",
                 Stage' = [Stage EXCEPT ![t] = "credited"],
                 balance' = [balance EXCEPT ![Owner[t]] = @ + Asked[t]]
          PROVE  Contract!Credit(t)
        BY <2>1, <2>4 DEF Contract!Credit, Stage, StageOf, Owner, Asked
    <2> QED BY <1>2, <2>1, <2>2, <2>3, <2>4, StepIsFunding DEF Contract!Next
<1> QED BY <1>1, <1>2, Invariance, PTL
        DEF Spec, KeepsFundingContract, Contract!Spec, Contract!fundingVars, Stage, StageOf, Owner, Asked

-----------------------------------------------------------------------------
(* Facts for Billing, where the wallet is shared with orders.                *)

\* The money a step of TopUp moves: none, or the credit of one payment.
Credited(t) ==
    /\ ~payments[t].credited
    /\ Credit(topup[t].user, "topup", topup[t].amount, t)
    /\ payments'[t].credited
    /\ \A s \in Topups \ {t} : payments'[s].credited = payments[s].credited

NothingCredited ==
    UNCHANGED walletVars /\ \A t \in Topups : payments'[t].credited = payments[t].credited

LEMMA TopupMoves ==
    ASSUME Inv, [Next]_vars
    PROVE  NothingCredited \/ \E t \in Topups : Credited(t)
<1>0. payments \in [Topups -> Payment]
    BY DEF Inv, TypeOK
<1>1. ASSUME NEW t \in Topups, RecordPayment(t)
      PROVE  NothingCredited
    <2>1. payments' = payments \/ payments' = [payments EXCEPT ![t].status = "pending"]
        BY <1>1 DEF RecordPayment
    <2>2. UNCHANGED walletVars
        BY <1>1 DEF RecordPayment, walletVars
    <2> QED BY <1>0, <2>1, <2>2 DEF Payment, NothingCredited
<1>2. ASSUME NEW d \in Deliveries, ApplyOther(d)
      PROVE  NothingCredited
    <2>1. payments' = payments
          \/ payments' = [payments EXCEPT ![hook[d].event.topup].status = StoredStatus(hook[d].event.type)]
        BY <1>2 DEF ApplyOther
    <2>2. UNCHANGED walletVars
        BY <1>2 DEF ApplyOther, walletVars
    <2> QED BY <1>0, <2>1, <2>2 DEF Payment, NothingCredited
<1>3. ASSUME NEW d \in Deliveries, ApplyCredit(d)
      PROVE  NothingCredited \/ \E t \in Topups : Credited(t)
    <2>1. hook[d].event.topup \in Topups
        BY <1>3 DEF ApplyCredit, Inv, TypeOK, Event
    <2>2. PICK t \in Topups : t = hook[d].event.topup
        BY <2>1
    <2>3. CASE UNCHANGED <<walletVars, payments>>
        BY <2>3 DEF NothingCredited
    <2>4. CASE /\ ~payments[t].credited
               /\ Credit(topup[t].user, "topup", topup[t].amount, t)
               /\ payments' = [payments EXCEPT ![t].status = "paid", ![t].credited = TRUE]
        BY <1>0, <2>4 DEF Payment, Credited
    <2> QED BY <1>3, <2>2, <2>3, <2>4 DEF ApplyCredit, MarkPaymentPaidAndCredit
<1>4. CASE UNCHANGED <<walletVars, payments>>
    BY <1>4 DEF NothingCredited
<1>5. \/ UNCHANGED <<walletVars, payments>>
      \/ \E t \in Topups : RecordPayment(t)
      \/ \E d \in Deliveries : ApplyOther(d) \/ ApplyCredit(d)
    BY DEF Next, vars, walletVars, storeVars, StartTopup, OpenPage, EndTopupContext, Announce, HookStep,
           MarkWebhookSeen, EndHookContext, Deliver, Restart
<1> QED BY <1>1, <1>2, <1>3, <1>4, <1>5

\* A wallet is not moved by top-ups alone: a row of another kind, a debit or a
\* refund, disturbs no top-up.
LEMMA OtherRows ==
    ASSUME Inv, UNCHANGED <<payments, seen, topup, hook, remote, emitted, acked>>,
           NEW u \in Users, NEW kind \in {"debit", "refund"}, NEW amount \in Int, NEW ref \in Refs,
           Move(u, kind, amount, ref), NonNegative'
    PROVE  Inv'
<1>1. WalletTypeOK /\ LedgerChain /\ kind \in Kinds
    BY DEF Inv, TypeOK, Kinds
<1>2. WalletTypeOK' /\ LedgerChain'
    BY <1>1, MoveType, MoveChain
<1>3. ASSUME NEW t \in Topups PROVE SoundFor(t)' /\ OneRow(topup[t].user, "topup", t)'
    <2>1. /\ SoundFor(t) /\ OneRow(topup[t].user, "topup", t) /\ topup[t].user \in Users
        BY DEF Inv, AllSound, TypeOK, TopupRequest
    <2>2. PICK v \in Users : v = topup[t].user
        BY <2>1
    <2>3. HasEntry(v, "topup", t)' <=> HasEntry(v, "topup", t)
        BY <1>1, MoveEntries
    <2>4. OneRow(v, "topup", t)'
        BY <1>1, <2>1, <2>2, MoveOneRow
    <2>5. Booked(t)' <=> Booked(t)
        BY <2>2, <2>3 DEF Booked, HasEntry, IsEntry
    <2>6. (Announced(t)' <=> Announced(t)) /\ (Received(t)' <=> Received(t))
        BY DEF Announced, Received
    <2>7. SoundFor(t)'
        BY <2>1, <2>5, <2>6 DEF SoundFor, Sound
    <2>8. OneRow(topup[t].user, "topup", t)'
        BY <2>2, <2>4 DEF OneRow, IsEntry
    <2> QED BY <2>7, <2>8
<1>4. AllHooks' /\ OneApplierPerEvent' /\ StripeAckIsRecorded'
    BY DEF Inv, AllHooks, HookSound, OneApplierPerEvent, StripeAckIsRecorded, FromStripe
<1>5. TypeOK'
    BY <1>2 DEF Inv, TypeOK
<1> QED BY <1>2, <1>3, <1>4, <1>5 DEF Inv, AllSound

-----------------------------------------------------------------------------
(* Top-ups when the store answers.                                           *)

\* A store call succeeds and a handler is not cut short.
StoreAnswers == {"db", "ack", "ctx", "crash"} \cap Faults = {}

Applying(e) == \E d \in Deliveries : hook[d].pc = "apply" /\ hook[d].event = e

MoneyInHand ==
    /\ \A d \in Deliveries : hook[d].pc # "idle" => hook[d].live
    /\ acked \subseteq seen
    /\ \A e \in seen : Credits(e) => payments[e.topup].credited \/ Applying(e)

\* What is credited stays credited.
LEMMA CreditedStays ==
    ASSUME Inv, [Next]_vars, NEW t \in Topups, payments[t].credited
    PROVE  payments'[t].credited
BY TopupMoves DEF NothingCredited, Credited

LEMMA MoneyInHandNext ==
    ASSUME Inv, Inv', [Next]_vars, StoreAnswers, MoneyInHand
    PROVE  MoneyInHand'
<1>0. /\ DOMAIN hook = Deliveries /\ seen \subseteq Event
      /\ \A e \in Event : payments[e.topup].credited => payments'[e.topup].credited
    BY CreditedStays DEF Inv, TypeOK, Event
<1>1. ASSUME NEW d \in Deliveries, MarkWebhookSeen(d) PROVE MoneyInHand'
    <2> DEFINE e == hook[d].event
    <2>1. /\ hook[d].pc = "mark" /\ hook[d].live /\ e \in Event
          /\ hook[d] \in Handling
        BY <1>1 DEF MarkWebhookSeen, MoneyInHand, Inv, TypeOK, AllHooks, HookSound, Idle
    <2>2. /\ seen' = seen \cup {e}
          /\ \/ hook' = [hook EXCEPT ![d].pc = "apply"] /\ UNCHANGED acked
             \/ /\ e \in seen /\ hook' = [hook EXCEPT ![d] = Idle]
                /\ acked' \in {acked, acked \cup {e}}
        BY <1>1, <2>1 DEF MarkWebhookSeen, StoreOutcomes, StoreAnswers, Committed, AnswerHook
    <2> HIDE DEF e
    <2>3. \A c \in Deliveries : hook'[c].pc # "idle" => hook'[c].live
        BY <1>0, <2>1, <2>2 DEF MoneyInHand, Idle, Handling
    <2>4. acked' \subseteq seen'
        BY <2>2 DEF MoneyInHand
    <2>5. ASSUME NEW f \in seen', Credits(f)
          PROVE  payments'[f.topup].credited \/ Applying(f)'
        <3>1. CASE f \in seen
            <4>1. ASSUME NEW c \in Deliveries, hook[c].pc = "apply", hook[c].event = f
                  PROVE  hook'[c] = hook[c]
                BY <1>0, <2>1, <2>2, <4>1
            <4> QED BY <1>0, <2>5, <3>1, <4>1 DEF MoneyInHand, Applying
        <3>2. CASE f \notin seen
            <4>1. f = e /\ hook'[d].pc = "apply" /\ hook'[d].event = hook[d].event
                BY <1>0, <2>1, <2>2, <3>2 DEF Handling
            <4> QED BY <4>1 DEF Applying, e
        <3> QED BY <3>1, <3>2
    <2> QED BY <2>3, <2>4, <2>5 DEF MoneyInHand, Applying, Credits
<1>2. ASSUME NEW d \in Deliveries, ApplyCredit(d) \/ ApplyOther(d) PROVE MoneyInHand'
    <2> DEFINE e == hook[d].event
    <2>1. /\ hook[d].pc = "apply" /\ hook[d].live /\ e \in seen /\ e \in emitted /\ e.topup \in Topups
        BY <1>2 DEF ApplyCredit, ApplyOther, MoneyInHand, Inv, TypeOK, AllHooks, HookSound, Idle, Event
    <2>2. /\ UNCHANGED seen /\ hook' = [hook EXCEPT ![d] = Idle]
          /\ acked' \in {acked, acked \cup {e}}
        BY <1>2 DEF ApplyCredit, ApplyOther, AnswerHook
    <2>3. Credits(e) => payments'[e.topup].credited
        <3> SUFFICES ASSUME Credits(e) PROVE payments'[e.topup].credited
            OBVIOUS
        <3>1. payments[e.topup].status # "none"
            BY <2>1 DEF Inv, AllSound, SoundFor, Sound, Announced
        <3>2. MarkPaymentPaidAndCredit(e.topup)
            BY <1>2, <2>1, <3>1 DEF ApplyCredit, ApplyOther, StoreOutcomes, StoreAnswers, Committed
        <3> QED BY <2>1, <3>2 DEF MarkPaymentPaidAndCredit, Inv, TypeOK, Payment
    <2> HIDE DEF e
    <2>4. ASSUME NEW f \in seen, Credits(f)
          PROVE  payments'[f.topup].credited \/ Applying(f)'
        <3>1. ASSUME NEW c \in Deliveries \ {d}
              PROVE  hook'[c] = hook[c]
            BY <1>0, <2>2
        <3> QED BY <1>0, <2>3, <2>4, <3>1 DEF MoneyInHand, Applying, e
    <2>5. \A c \in Deliveries : hook'[c].pc # "idle" => hook'[c].live
        BY <1>0, <2>2 DEF MoneyInHand, Idle
    <2> QED BY <2>1, <2>2, <2>4, <2>5 DEF MoneyInHand, Applying, Credits
<1>3. ASSUME NEW d \in Deliveries, NEW e \in emitted, Deliver(d, e) PROVE MoneyInHand'
    <2>1. /\ hook[d].pc = "idle" /\ UNCHANGED <<seen, acked>>
          /\ hook' = [hook EXCEPT ![d] = [pc |-> "mark", event |-> e, live |-> TRUE]]
        BY <1>3 DEF Deliver, storeVars, providerVars
    <2>2. \A c \in Deliveries : hook[c].pc = "apply" => hook'[c] = hook[c]
        BY <1>0, <2>1
    <2>3. \A c \in Deliveries : hook'[c].pc # "idle" => hook'[c].live
        BY <1>0, <2>1 DEF MoneyInHand
    <2> QED BY <1>0, <2>1, <2>2, <2>3 DEF MoneyInHand, Applying, Credits
<1>4. CASE UNCHANGED <<seen, hook, acked>>
    BY <1>0, <1>4 DEF MoneyInHand, Applying, Credits
<1>5. \/ UNCHANGED <<seen, hook, acked>>
      \/ \E d \in Deliveries : MarkWebhookSeen(d) \/ ApplyCredit(d) \/ ApplyOther(d)
      \/ \E d \in Deliveries, e \in emitted : Deliver(d, e)
    BY DEF Next, vars, storeVars, providerVars, StartTopup, OpenPage, RecordPayment, EndTopupContext,
           Announce, HookStep, EndHookContext, Restart, StoreAnswers
<1> QED BY <1>1, <1>2, <1>3, <1>4, <1>5

\* Money is not dropped between the two transactions of a webhook: while the
\* store answers and the server runs, an event that says it is there and that
\* is in webhook_events, or for which a provider was told to stop, has its
\* payment credited or is being applied by a handler.  All ReceivedIsCredited
\* adds is that providers deliver and handlers run on (billing_handlers.go,
\* 119-146 and 163-186).
THEOREM KnownMoneyIsInHand ==
    ASSUME StoreAnswers
    PROVE  Spec => [](\A e \in seen \cup acked :
                         Credits(e) => payments[e.topup].credited \/ Applying(e))
<1>1. Init => MoneyInHand
    BY DEF Init, MoneyInHand, Idle
<1>2. Inv /\ Inv' /\ MoneyInHand /\ [Next]_vars => MoneyInHand'
    BY MoneyInHandNext
<1>3. MoneyInHand => \A e \in seen \cup acked :
                        Credits(e) => payments[e.topup].credited \/ Applying(e)
    BY DEF MoneyInHand
<1> QED BY <1>1, <1>2, <1>3, Invariance, PTL DEF Spec
=============================================================================
