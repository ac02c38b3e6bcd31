----------------------------- MODULE MCWalletTx -----------------------------
(***************************************************************************)
(* Two users, two payment references, three concurrent transactions with  *)
(* amounts 1 and 2.                                                        *)
(***************************************************************************)
EXTENDS WalletTx

=============================================================================
