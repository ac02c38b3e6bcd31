------------------------- MODULE RateLimiter_proofs ---------------------------
(***************************************************************************)
(* What RateLimiter grants, and that it implements TokenBucket, for every  *)
(* burst, every rate, every number of requests under way, and whatever     *)
(* their delays and their servers' clocks.                                 *)
(***************************************************************************)
EXTENDS RateLimiter, TLAPS

\* A key is dropped no earlier than it expires, if it was not full anyway.
DroppedLate == ~held => tokens = Capacity \/ clock >= expires

\* What is still in the bucket counts against the bound, too.
Budget == granted + tokens <= Capacity + Rate * (ts - opened + setBack + early)

Inv == TypeOK /\ DroppedLate /\ Budget

-----------------------------------------------------------------------------
\* Rounded up, Capacity / Rate seconds fill the bucket.
LEMMA TtlFills ==
    /\ Ttl \in Nat \ {0}
    /\ Rate * (Ttl - 1) >= Capacity
<1> DEFINE q == (Capacity + Rate - 1) \div Rate
<1>1. Capacity \in Nat \ {0} /\ Rate \in Nat \ {0}
    BY RateLimiterAssumption
<1>2. q \in Nat /\ Rate * q <= Capacity + Rate - 1 /\ Capacity + Rate - 1 < Rate * (q + 1)
    BY <1>1, SMT
<1>3. Rate * (q + 1) = Rate * q + Rate
    BY <1>1, <1>2, SMT
<1>4. Rate * q >= Capacity
    BY <1>1, <1>2, <1>3, SMT
<1>5. Ttl = q + 1
    BY DEF Ttl
<1> QED BY <1>1, <1>2, <1>4, <1>5, SMT

-----------------------------------------------------------------------------
\* A request finds in the bucket, dropped or not, what it would find in one
\* that is never dropped if it were as many seconds younger as it is later
\* than Excess allows.
LEMMA FindsTheLevel ==
    ASSUME Inv, NEW c \in Calls, call[c] # Idle
    PROVE  LET now == call[c]
               e == Excess(now)
           IN
           /\ now \in Nat /\ e \in Nat
           /\ Refilled(now) \in 0 .. Capacity
           /\ Refilled(now) = Bucket!LevelAt(now + e)
           /\ now >= ts => Refilled(now) <= tokens + Rate * ((now - ts) + e)
           /\ now < ts => Refilled(now) <= tokens + Rate * e
<1> DEFINE now == call[c]
           e == Excess(now)
<1>1. /\ now \in Nat /\ clock \in Nat /\ expires \in Nat
      /\ tokens \in 0 .. Capacity /\ ts \in Nat
      /\ Capacity \in Nat \ {0} /\ Rate \in Nat \ {0}
      /\ held \in BOOLEAN
      /\ Ttl \in Nat \ {0}
    BY RateLimiterAssumption, TtlFills DEF Inv, TypeOK
<1>2. e \in Nat /\ (held => e = 0)
      /\ (~held => e >= (clock - now) - (expires - Ttl - ts) - 1)
    BY <1>1, SMT DEF Excess
<1>3. \A a \in Nat : Rate * a \in Nat
    BY <1>1, SMT
<1>4. CASE held
    <2>1. e = 0 /\ now + e = now /\ Rate * e = 0
        BY <1>1, <1>2, <1>4, SMT
    <2>2. ASSUME now > ts PROVE Rate * (now - ts) \in Nat /\ (now - ts) + e = now - ts
        BY <1>1, <1>3, <2>1, <2>2, SMT
    <2>3. CASE now > ts
        <3>1. /\ Refilled(now) \in 0 .. Capacity
              /\ Refilled(now) <= tokens + Rate * (now - ts)
              /\ Bucket!LevelAt(now) = Refilled(now)
            <4> HIDE DEF e, now
            <4> QED BY <1>1, <1>4, <2>2, <2>3, SMT DEF Refilled, Bucket!LevelAt
        <3> QED BY <1>1, <2>1, <2>2, <2>3, <3>1, SMT
    <2>4. CASE now <= ts
        <3>1. Refilled(now) = tokens /\ Bucket!LevelAt(now) = tokens
            BY <1>1, <1>4, <2>4, SMT DEF Refilled, Bucket!LevelAt
        <3>2. ASSUME now >= ts PROVE Rate * ((now - ts) + e) = 0
            <4>1. (now - ts) + e = 0
                BY <1>1, <2>1, <2>4, <3>2, SMT
            <4> QED BY <1>1, <4>1, SMT
        <3> QED BY <1>1, <2>1, <3>1, <3>2, SMT
    <2> QED BY <1>1, <2>3, <2>4, SMT
<1>5. CASE ~held
    <2>1. Refilled(now) = Capacity
        BY <1>5 DEF Refilled
    <2>2. CASE tokens = Capacity
        <3>1. Bucket!LevelAt(now + e) = Capacity
            <4> DEFINE n == now + e
            <4>1. n \in Nat /\ (n > ts => Rate * (n - ts) \in Nat)
                BY <1>1, <1>2, <1>3, SMT
            <4> HIDE DEF n
            <4>2. Bucket!LevelAt(n) = Capacity
                BY <1>1, <2>2, <4>1, SMT DEF Bucket!LevelAt
            <4> QED BY <4>2 DEF n
        <3>2. Rate * e \in Nat /\ (now >= ts => Rate * ((now - ts) + e) \in Nat)
            BY <1>1, <1>2, <1>3, SMT
        <3> QED BY <1>1, <1>2, <2>1, <2>2, <3>1, <3>2, SMT
    <2>3. CASE tokens # Capacity
        <3>1. clock >= expires
            BY <1>5, <2>3 DEF Inv, DroppedLate
        <3>2. (now + e) - ts >= Ttl - 1 /\ Ttl - 1 \in Nat
            BY <1>1, <1>2, <1>5, <3>1, SMT
        <3>3. \A a, b \in Nat : b >= a => Rate * b >= Rate * a
            BY <1>1, SMT
        <3>4. ASSUME NEW a \in Nat, a >= Ttl - 1 PROVE Rate * a \in Nat /\ Rate * a >= Capacity
            BY <1>1, <1>3, <3>2, <3>3, <3>4, TtlFills, SMT
        <3>5. (now + e) - ts \in Nat /\ Rate * ((now + e) - ts) >= Capacity
            BY <1>1, <1>2, <3>2, <3>4, SMT
        <3>6. now + e > ts
            BY <1>1, <1>2, <3>2, <3>5, SMT
        <3>7. Bucket!LevelAt(now + e) = Capacity
            <4> DEFINE n == now + e
            <4>1. n \in Nat /\ n > ts /\ Rate * (n - ts) \in Int /\ Rate * (n - ts) >= Capacity
                BY <1>1, <1>2, <1>3, <3>5, <3>6, SMT
            <4> HIDE DEF n
            <4>2. Bucket!LevelAt(n) = Capacity
                BY <1>1, <4>1, SMT DEF Bucket!LevelAt
            <4> QED BY <4>2 DEF n
        <3>8. now >= ts => (now - ts) + e = (now + e) - ts
            BY <1>1, <1>2, SMT
        <3>9. ASSUME now < ts PROVE Rate * e \in Nat /\ Rate * e >= Capacity
            <4>1. e \in Nat /\ e >= Ttl - 1
                BY <1>1, <1>2, <3>2, <3>9, SMT
            <4> HIDE DEF e
            <4> QED BY <3>4, <4>1
        <3>10. now >= ts => Capacity <= tokens + Rate * ((now - ts) + e)
            BY <1>1, <1>3, <3>5, <3>8, SMT
        <3>11. now < ts => Capacity <= tokens + Rate * e
            BY <1>1, <3>9, SMT
        <3> QED BY <1>1, <1>2, <2>1, <3>7, <3>10, <3>11, SMT
    <2> QED BY <2>2, <2>3
<1> QED BY <1>4, <1>5, <1>1

\* The first bucket is full and nothing has been granted.
LEMMA InitInv == Init => Inv
<1> SUFFICES ASSUME Init PROVE Inv
    OBVIOUS
<1>1. Capacity \in Nat \ {0} /\ Rate \in Nat \ {0} /\ Ttl \in Nat
    BY RateLimiterAssumption, TtlFills
<1>2. Rate * (ts - opened + setBack + early) = 0
    BY <1>1, SMT DEF Init
<1>3. TypeOK
    <2>1. tokens \in 0 .. Capacity
        BY <1>1, SMT DEF Init
    <2>2. call \in [Calls -> Nat \cup {Idle}]
        BY DEF Init
    <2>3. held \in BOOLEAN
        BY DEF Init
    <2>4. /\ clock \in Nat /\ ts \in Nat /\ expires \in Nat /\ granted \in Nat
          /\ opened \in Nat /\ setBack \in Nat /\ early \in Nat
        BY <1>1, SMT DEF Init
    <2> QED BY <2>1, <2>2, <2>3, <2>4 DEF TypeOK
<1>4. DroppedLate
    BY DEF Init, DroppedLate
<1>5. Budget
    BY <1>1, <1>2, SMT DEF Init, Budget
<1> QED BY <1>3, <1>4, <1>5 DEF Inv

\* What is taken out of the bucket is what is granted: the sum stays within a
\* bound that grows by the refill (the arithmetic of the script's last lines).
LEMMA SpendKeepsBudget ==
    ASSUME NEW g \in Int, NEW t \in Int, NEW r \in Int, NEW g2 \in Int, NEW t2 \in Int,
           NEW cap \in Int, NEW bound \in Int, NEW gain \in Int,
           g + t <= cap + bound, g2 + t2 = g + r, r <= t + gain
    PROVE  g2 + t2 <= cap + (gain + bound)
OBVIOUS

\* A run of the script keeps the invariant, whatever its request carries.
LEMMA ScriptInv ==
    ASSUME Inv, NEW c \in Calls, Script(c), call' \in [Calls -> Nat \cup {Idle}]
    PROVE  Inv'
<1> DEFINE now == call[c]
           e == Excess(now)
           R == Refilled(now)
<1>1. /\ now \in Nat /\ e \in Nat
      /\ R \in 0 .. Capacity
      /\ now >= ts => R <= tokens + Rate * ((now - ts) + e)
      /\ now < ts => R <= tokens + Rate * e
    BY FindsTheLevel DEF Script
<1>2. /\ Capacity \in Nat \ {0} /\ Rate \in Nat \ {0}
      /\ clock \in Nat /\ ts \in Nat /\ granted \in Nat /\ opened \in Nat
      /\ setBack \in Nat /\ early \in Nat
      /\ tokens \in 0 .. Capacity /\ Ttl \in Nat
    BY RateLimiterAssumption, TtlFills DEF Inv, TypeOK
<1>3. /\ tokens' \in 0 .. Capacity /\ granted' \in Nat
      /\ granted' + tokens' = granted + R
    <2>1. /\ tokens' = IF R >= 1 THEN R - 1 ELSE R
          /\ granted' = IF R >= 1 THEN granted + 1 ELSE granted
        BY DEF Script
    <2> HIDE DEF R, now, e
    <2> QED BY <1>1, <1>2, <2>1, SMT
<1>4. /\ ts' = now /\ opened' = opened /\ clock' = clock
      /\ setBack' = IF now < ts THEN setBack + (ts - now) ELSE setBack
      /\ early' = early + e
      /\ expires' = clock + Ttl /\ held' = TRUE
    BY DEF Script
<1> HIDE DEF now, e, R
<1>5. TypeOK'
    <2>1. setBack' \in Nat /\ early' \in Nat
        BY <1>1, <1>2, <1>4, SMT
    <2>2. expires' \in Nat
        BY <1>2, <1>4, SMT
    <2> QED BY <1>1, <1>2, <1>3, <1>4, <2>1, <2>2 DEF Inv, TypeOK
<1>6. DroppedLate'
    BY <1>4 DEF DroppedLate
<1>7. Budget'
    <2> DEFINE bound == Rate * (ts - opened + setBack + early)
    <2>1. granted + tokens <= Capacity + bound
        BY DEF Inv, Budget
    <2>2. /\ granted \in Int /\ tokens \in Int /\ R \in Int /\ granted' \in Int
          /\ tokens' \in Int /\ Capacity \in Int /\ bound \in Int
          /\ Rate * ((now - ts) + e) \in Int /\ Rate * e \in Int
        BY <1>1, <1>2, <1>3, SMT
    <2>3. CASE now < ts
        <3>1. ts' - opened' + setBack' + early' = e + (ts - opened + setBack + early)
            BY <1>1, <1>2, <1>4, <2>3, SMT
        <3>2. Rate * (e + (ts - opened + setBack + early)) = Rate * e + bound
            BY <1>1, <1>2, SMT
        <3>3. granted' + tokens' <= Capacity + (Rate * e + bound)
            BY <1>1, <1>3, <2>1, <2>2, <2>3, SpendKeepsBudget
        <3> QED BY <3>1, <3>2, <3>3 DEF Budget
    <2>4. CASE now >= ts
        <3>1. ts' - opened' + setBack' + early'
                = ((now - ts) + e) + (ts - opened + setBack + early)
            BY <1>1, <1>2, <1>4, <2>4, SMT
        <3>2. Rate * (((now - ts) + e) + (ts - opened + setBack + early))
                = Rate * ((now - ts) + e) + bound
            BY <1>1, <1>2, SMT
        <3>3. granted' + tokens' <= Capacity + (Rate * ((now - ts) + e) + bound)
            <4> DEFINE gain == Rate * ((now - ts) + e)
            <4>1. gain \in Int /\ R <= tokens + gain
                BY <1>1, <2>2, <2>4
            <4> HIDE DEF gain, bound
            <4>2. granted' + tokens' <= Capacity + (gain + bound)
                BY <1>3, <2>1, <2>2, <4>1, SpendKeepsBudget
            <4> QED BY <4>2 DEF gain
        <3> QED BY <3>1, <3>2, <3>3 DEF Budget
    <2> QED BY <1>1, <1>2, <2>3, <2>4, SMT
<1> QED BY <1>5, <1>6, <1>7 DEF Inv

\* Every step of the limiter, of Redis and of the clock keeps the invariant.
LEMMA NextInv ==
    ASSUME Inv, [Next]_vars
    PROVE  Inv'
<1> USE RateLimiterAssumption
<1>1. ASSUME NEW c \in Calls, ReadClock(c) PROVE Inv'
    <2>1. PICK skew \in Skews : clock + skew >= 0 /\ call' = [call EXCEPT ![c] = clock + skew]
        BY <1>1 DEF ReadClock
    <2>2. clock + skew \in Nat
        BY <2>1, SMT DEF Inv, TypeOK
    <2>3. call' \in [Calls -> Nat \cup {Idle}]
        BY <2>1, <2>2 DEF Inv, TypeOK
    <2> QED BY <1>1, <2>3 DEF ReadClock, Inv, TypeOK, DroppedLate, Budget
<1>2. ASSUME NEW c \in Calls, Decide(c) \/ Resend(c) PROVE Inv'
    <2>1. Script(c) /\ call' \in [Calls -> Nat \cup {Idle}]
        BY <1>2 DEF Decide, Resend, Inv, TypeOK
    <2> QED BY <2>1, ScriptInv
<1>3. ASSUME NEW c \in Calls, FailOpen(c) PROVE Inv'
    BY <1>3 DEF FailOpen, Inv, TypeOK, DroppedLate, Budget
<1>4. CASE Forget
    BY <1>4 DEF Forget, Inv, TypeOK, DroppedLate, Budget
<1>5. CASE Tick
    BY <1>5, SMT DEF Tick, Inv, TypeOK, DroppedLate, Budget
<1>6. CASE OpenWindow
    <2>1. Rate * (ts' - opened' + setBack' + early') = 0
        BY <1>6, SMT DEF OpenWindow, Inv, TypeOK
    <2> QED BY <1>6, <2>1, SMT DEF OpenWindow, Inv, TypeOK, DroppedLate, Budget
<1>7. CASE UNCHANGED vars
    BY <1>7 DEF vars, Inv, TypeOK, DroppedLate, Budget
<1> QED BY <1>1, <1>2, <1>3, <1>4, <1>5, <1>6, <1>7 DEF Next

\* The invariant holds in every reachable state of the limiter.
THEOREM Invariance == Spec => []Inv
BY InitInv, NextInv, PTL DEF Spec

\* The limiter's variables keep their types; above all, the bucket never
\* holds less than nothing or more than the burst.
THEOREM TypeCorrect == Spec => []TypeOK
<1>1. Inv => TypeOK
    BY DEF Inv
<1> QED BY <1>1, Invariance, PTL

\* No window of time is granted more than the burst and its refill: the
\* claim of the comment on rateLimit, with the exact price of late requests
\* and of clocks that differ.
THEOREM GrantsAreBounded == Spec => []WithinRate
<1>1. ASSUME Inv PROVE WithinRate
    <2>1. Rate * (ts - opened + setBack + early) \in Int
        BY <1>1, RateLimiterAssumption, SMT DEF Inv, TypeOK
    <2> QED BY <1>1, <2>1, RateLimiterAssumption, SMT DEF Inv, TypeOK, Budget, WithinRate
<1> QED BY <1>1, Invariance, PTL

\* The limiter implements the bucket that never forgets; what a dropped key
\* changes is credited to the request that is late, and to no other.
THEOREM ImplementsBucket == Spec => ForgettingIsHarmless
<1>1. Init => Bucket!Init
    BY DEF Init, Bucket!Init
<1>2. ASSUME Inv, [Next]_vars PROVE [Bucket!Take \/ Bucket!Recount]_<<tokens, ts, early>>
    <2>1. ASSUME NEW c \in Calls, Script(c) PROVE Bucket!Take
        <3> DEFINE e == Excess(call[c])
                   R == Refilled(call[c])
        <3>1. /\ call[c] \in Nat /\ ts' = call[c] /\ e \in Nat
              /\ R \in 0 .. Capacity
              /\ R = Bucket!LevelAt(call[c] + e)
            BY <1>2, <2>1, FindsTheLevel DEF Script
        <3>2. /\ tokens' = IF R >= 1 THEN R - 1 ELSE R
              /\ early' = early + e
            BY <2>1 DEF Script
        <3>3. Capacity \in Nat /\ early \in Nat
            BY <1>2, RateLimiterAssumption DEF Inv, TypeOK
        <3> HIDE DEF e, R
        <3>4. early' - early = e
            BY <3>1, <3>2, <3>3, SMT
        <3>5. tokens' = IF R > 0 THEN R - 1 ELSE 0
            BY <3>1, <3>2, <3>3, SMT
        <3> QED BY <3>1, <3>4, <3>5 DEF Bucket!Take
    <2>2. ASSUME NEW c \in Calls, ReadClock(c) \/ FailOpen(c)
          PROVE  UNCHANGED <<tokens, ts, early>>
        BY <2>2 DEF ReadClock, FailOpen
    <2>3. CASE Forget \/ Tick \/ UNCHANGED vars
        BY <2>3 DEF Forget, Tick, vars
    <2>4. CASE OpenWindow
        BY <2>4 DEF OpenWindow, Bucket!Recount
    <2>5. ASSUME NEW c \in Calls, Decide(c) \/ Resend(c) PROVE Bucket!Take
        BY <2>1, <2>5 DEF Decide, Resend
    <2> QED BY <1>2, <2>2, <2>3, <2>4, <2>5 DEF Next
<1> QED BY <1>1, <1>2, Invariance, PTL DEF Spec, ForgettingIsHarmless, Bucket!Spec, Bucket!bucketVars
=============================================================================
