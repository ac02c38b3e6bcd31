------------------------------ MODULE MCTopUp -------------------------------
(***************************************************************************)
(* TopUp on a small instance.  The constants are in the .cfg files.        *)
(***************************************************************************)
EXTENDS TopUp, TLC

\* Customers and connections are interchangeable.  Not used with liveness.
Symmetric == Permutations(Users) \cup Permutations(Deliveries)
=============================================================================
