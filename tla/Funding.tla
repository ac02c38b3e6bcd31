------------------------------ MODULE Funding -------------------------------
(***************************************************************************)
(* What the shop promises about one top-up: it is on record, with its      *)
(* owner and its amount, before the customer's money can arrive, and money *)
(* that has arrived is put into the owner's wallet at most once and to the *)
(* cent.  Nothing else moves money.                                        *)
(*                                                                         *)
(* TopUp implements this module.                                           *)
(***************************************************************************)
EXTENDS Integers

CONSTANTS Users, Topups

VARIABLES
    funds,      \* what each wallet holds
    owner,      \* whose top-up it is
    amount,     \* what the customer is asked to pay
    stage       \* how far the top-up has come

fundingVars == <<funds, owner, amount, stage>>

Stages == {"new", "recorded", "received", "credited"}

Init ==
    /\ funds \in [Users -> Nat]
    /\ owner \in [Topups -> Users]
    /\ amount \in [Topups -> Nat]
    /\ stage = [t \in Topups |-> "new"]

Record(t) ==
    /\ stage[t] = "new"
    /\ amount[t] > 0
    /\ stage' = [stage EXCEPT ![t] = "recorded"]
    /\ UNCHANGED <<funds, owner, amount>>

Receive(t) ==
    /\ stage[t] = "recorded"
    /\ stage' = [stage EXCEPT ![t] = "received"]
    /\ UNCHANGED <<funds, owner, amount>>

Credit(t) ==
    /\ stage[t] = "received"
    /\ stage' = [stage EXCEPT ![t] = "credited"]
    /\ funds' = [funds EXCEPT ![owner[t]] = @ + amount[t]]
    /\ UNCHANGED <<owner, amount>>

Next == \E t \in Topups : Record(t) \/ Receive(t) \/ Credit(t)

Spec == Init /\ [][Next]_fundingVars
=============================================================================
