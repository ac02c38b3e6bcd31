------------------------------ MODULE Purchase ------------------------------
(***************************************************************************)
(* What the shop promises about one order, whatever fails on the way: the  *)
(* wallet of the customer who placed it is charged at most once and never  *)
(* overdrawn; a charged order is afterwards fulfilled or refunded, never   *)
(* both and neither twice; a refund gives that same wallet exactly what    *)
(* the charge took.  Nothing else moves money.                             *)
(*                                                                         *)
(* OrderFlow implements this module.                                       *)
(***************************************************************************)
EXTENDS Integers

CONSTANTS Users, Orders

VARIABLES
    funds,      \* what each wallet holds
    payer,      \* the customer of each order
    paid,       \* what the shop has taken for the order and not given back
    phase       \* how far the order has come

purchaseVars == <<funds, payer, paid, phase>>

Phases == {"open", "charged", "fulfilled", "refunded"}

Init ==
    /\ funds \in [Users -> Nat]
    /\ payer \in [Orders -> Users]
    /\ paid = [o \in Orders |-> 0]
    /\ phase = [o \in Orders |-> "open"]

Charge(o) ==
    /\ phase[o] = "open"
    /\ phase' = [phase EXCEPT ![o] = "charged"]
    /\ paid' \in [Orders -> Nat]
    /\ paid' = [paid EXCEPT ![o] = paid'[o]]
    /\ paid'[o] \in 1 .. funds[payer[o]]
    /\ funds' = [funds EXCEPT ![payer[o]] = @ - paid'[o]]
    /\ UNCHANGED payer

Fulfil(o) ==
    /\ phase[o] = "charged"
    /\ phase' = [phase EXCEPT ![o] = "fulfilled"]
    /\ UNCHANGED <<funds, payer, paid>>

Refund(o) ==
    /\ phase[o] = "charged"
    /\ phase' = [phase EXCEPT ![o] = "refunded"]
    /\ funds' = [funds EXCEPT ![payer[o]] = @ + paid[o]]
    /\ paid' = [paid EXCEPT ![o] = 0]
    /\ UNCHANGED payer

Next == \E o \in Orders : Charge(o) \/ Fulfil(o) \/ Refund(o)

Spec == Init /\ [][Next]_purchaseVars
=============================================================================
