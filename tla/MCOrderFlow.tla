---------------------------- MODULE MCOrderFlow -----------------------------
(***************************************************************************)
(* OrderFlow on a small instance.  The constants are in the .cfg files.    *)
(***************************************************************************)
EXTENDS OrderFlow, TLC

\* Requests and customers are interchangeable.  Not used with liveness.
Symmetric == Permutations(Requests) \cup Permutations(Users)
=============================================================================
