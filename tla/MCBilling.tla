----------------------------- MODULE MCBilling ------------------------------
(***************************************************************************)
(* Billing on a small instance.  The constants are in the .cfg file.       *)
(***************************************************************************)
EXTENDS Billing
=============================================================================
