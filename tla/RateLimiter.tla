----------------------------- MODULE RateLimiter ------------------------------
(***************************************************************************)
(* The rate limiter: middleware rateLimit and cache.Allow with its Lua     *)
(* token bucket, for one scope and one identity (buckets share nothing).   *)
(*                                                                         *)
(* A request reads the clock of its server, in whole seconds, and then     *)
(* sends the script to Redis, which runs scripts one at a time.  Nothing   *)
(* bounds how late it arrives there (the client waits for seconds and      *)
(* sends again, with the second it has read), and the servers' clocks need *)
(* not agree with each other or with that of Redis: scripts may run in any *)
(* order of their seconds.  Redis drops the key by its own, exact clock,   *)
(* so within the second in which it expires a script may or may not find   *)
(* it.                                                                     *)
(***************************************************************************)
EXTENDS Integers

CONSTANTS
    Calls,          \* requests that may be under way at the same time
    Capacity,       \* the burst: 10 for login and register, 120 for the API
    Rate,           \* tokens per second: 1 and 2
    Skews,          \* by how many seconds a server's clock may differ from Redis'
    MaxTime,        \* bound on the clock
    MaxLost         \* bound on the seconds that late requests cost in a window

ASSUME RateLimiterAssumption ==
    /\ Capacity \in Nat \ {0}
    /\ Rate \in Nat \ {0}
    /\ Skews \subseteq Int
    /\ MaxTime \in Nat
    /\ MaxLost \in Nat

VARIABLES
    clock,          \* the second of Redis' clock
    held,           \* whether Redis has the key
    tokens, ts,     \* the fields of the hash; what they were when it was dropped
    expires,        \* the second in which the key expires
    call,           \* the second each request has read, or Idle
    granted,        \* auxiliary: tokens taken since the window was opened
    opened,         \* auxiliary: ts when the window was opened
    setBack,        \* auxiliary: seconds ts has been turned back since then
    early           \* auxiliary: seconds a dropped key has been missed too early

vars == <<clock, held, tokens, ts, expires, call, granted, opened, setBack, early>>

Idle == -1

TypeOK ==
    /\ clock \in Nat
    /\ held \in BOOLEAN
    /\ tokens \in 0 .. Capacity
    /\ ts \in Nat
    /\ expires \in Nat
    /\ call \in [Calls -> Nat \cup {Idle}]
    /\ granted \in Nat
    /\ opened \in Nat
    /\ setBack \in Nat
    /\ early \in Nat

\* Mutant: the division rounds down.
TtlFloor == Capacity \div Rate + 1

\* The argument of EXPIRE: ceil(capacity / rate) + 1.
Ttl == (Capacity + Rate - 1) \div Rate + 1

\* There is no key: the bucket is as full as one last used long ago.
Init ==
    /\ clock = 0
    /\ held = FALSE
    /\ tokens = Capacity
    /\ ts = 0
    /\ expires = Ttl
    /\ call = [c \in Calls |-> Idle]
    /\ granted = 0
    /\ opened = 0
    /\ setBack = 0
    /\ early = 0

-----------------------------------------------------------------------------
\* cache.Allow reads the clock of its server.
ReadClock(c) ==
    /\ call[c] = Idle
    /\ \E skew \in Skews :
         /\ clock + skew >= 0
         /\ call' = [call EXCEPT ![c] = clock + skew]
    /\ UNCHANGED <<clock, held, tokens, ts, expires, granted, opened, setBack, early>>

\* Mutant: a time difference below zero takes tokens away.
RefilledNegative(now) ==
    IF ~held \/ tokens + Rate * (now - ts) > Capacity THEN Capacity
    ELSE tokens + Rate * (now - ts)

\* Mutant: the bucket has no brim.
RefilledUncapped(now) ==
    IF ~held THEN Capacity
    ELSE IF now <= ts THEN tokens ELSE tokens + Rate * (now - ts)

\* The tokens the script counts with: a missing key is a full bucket.
Refilled(now) ==
    IF ~held THEN Capacity
    ELSE IF now <= ts THEN tokens
    ELSE IF tokens + Rate * (now - ts) > Capacity THEN Capacity
    ELSE tokens + Rate * (now - ts)

\* By how much a request is later than the one that has written the bucket,
\* beyond the second that EXPIRE allows for: late is how far its second lies
\* behind Redis' clock, and the bucket was written at expires - Ttl.
Excess(now) ==
    LET late == clock - now
        lateBefore == expires - Ttl - ts
    IN  IF held \/ late <= lateBefore + 1 THEN 0 ELSE late - lateBefore - 1

\* The script runs for request c, as one step.
Script(c) ==
    LET now == call[c] IN
    /\ call[c] # Idle
    /\ held => clock <= expires
    /\ tokens' = IF Refilled(now) >= 1 THEN Refilled(now) - 1 ELSE Refilled(now)
    /\ granted' = IF Refilled(now) >= 1 THEN granted + 1 ELSE granted
    /\ setBack' = IF now < ts THEN setBack + (ts - now) ELSE setBack
    /\ early' = early + Excess(now)
    /\ setBack' + early' <= MaxLost
    /\ ts' = now
    /\ expires' = clock + Ttl
    /\ held' = TRUE
    /\ UNCHANGED <<clock, opened>>

\* The request is let through or answered 429; or the script has run but its
\* answer is lost and the request is let through.
Decide(c) ==
    /\ Script(c)
    /\ call' = [call EXCEPT ![c] = Idle]

\* The script has run, its answer is lost, and the client sends it again.
Resend(c) ==
    /\ Script(c)
    /\ UNCHANGED call

\* Redis cannot be reached: the request is let through.
FailOpen(c) ==
    /\ call[c] # Idle
    /\ call' = [call EXCEPT ![c] = Idle]
    /\ UNCHANGED <<clock, held, tokens, ts, expires, granted, opened, setBack, early>>

\* Redis drops the key.
Forget ==
    /\ held
    /\ clock >= expires
    /\ held' = FALSE
    /\ UNCHANGED <<clock, tokens, ts, expires, call, granted, opened, setBack, early>>

Tick ==
    /\ clock < MaxTime
    /\ clock' = clock + 1
    /\ UNCHANGED <<held, tokens, ts, expires, call, granted, opened, setBack, early>>

\* An observer begins to count, at any time.
OpenWindow ==
    /\ granted' = 0
    /\ opened' = ts
    /\ setBack' = 0
    /\ early' = 0
    /\ UNCHANGED <<clock, held, tokens, ts, expires, call>>

Next ==
    \/ \E c \in Calls : ReadClock(c) \/ Decide(c) \/ Resend(c) \/ FailOpen(c)
    \/ Forget \/ Tick \/ OpenWindow

Spec == Init /\ [][Next]_vars
-----------------------------------------------------------------------------
\* In any window the limiter takes no more tokens than the burst and Rate per
\* second of it (rateLimit: "capacity = burst, refill = sustained
\* requests/second"), but for what late requests and clocks that differ cost:
\* Rate for every second the bucket's clock is turned back, and for every
\* second, beyond the one EXPIRE allows for, that a request which finds the
\* key dropped is later than the one before it.  Nothing else is granted.
WithinRate == granted <= Capacity + Rate * (ts - opened + setBack + early)

\* The limiter decides as a bucket that is kept for ever: by the time EXPIRE
\* has passed it would be full again.  Only a request that is later than the
\* one before it by more than a second notices that the key was dropped, and
\* it gains no more than the refill of that excess (the script's EXPIRE).
Bucket == INSTANCE TokenBucket WITH level <- tokens, at <- ts, ahead <- early

ForgettingIsHarmless == Bucket!Spec
=============================================================================
