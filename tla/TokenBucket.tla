----------------------------- MODULE TokenBucket ------------------------------
(***************************************************************************)
(* A token bucket that never forgets: it holds Capacity tokens at first,   *)
(* gains Rate of them per second up to Capacity, and every request takes   *)
(* one if there is one.  A request that carries an earlier second than the *)
(* one before it gains nothing and turns the bucket's clock back.  A       *)
(* request may be credited with seconds it does not carry; ahead counts    *)
(* them all.                                                               *)
(*                                                                         *)
(* RateLimiter, whose bucket is dropped when it has not been used for a    *)
(* while, implements this module.                                          *)
(***************************************************************************)
EXTENDS Integers

CONSTANTS Capacity, Rate

VARIABLES
    level,      \* the tokens in the bucket
    at,         \* the second of the latest request
    ahead       \* the seconds requests have been credited with

bucketVars == <<level, at, ahead>>

Init == level = Capacity /\ at \in Nat /\ ahead = 0

\* The tokens a request finds that counts as one of second now.
LevelAt(now) ==
    IF now <= at THEN level
    ELSE IF level + Rate * (now - at) < Capacity THEN level + Rate * (now - at) ELSE Capacity

Take ==
    /\ at' \in Nat
    /\ ahead' - ahead \in Nat
    /\ LET found == LevelAt(at' + (ahead' - ahead))
       IN  level' = IF found > 0 THEN found - 1 ELSE 0

\* The count of credited seconds begins anew.
Recount == ahead' = 0 /\ UNCHANGED <<level, at>>

Spec == Init /\ [][Take \/ Recount]_bucketVars
=============================================================================
