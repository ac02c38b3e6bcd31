------------------------------ MODULE MCCatalog -------------------------------
(***************************************************************************)
(* Catalog on a small instance: two syncs, one reader, one seeded code     *)
(* and one new one.  With a markup of 1.15, 13 cents become 14.95 and are  *)
(* rounded up, and 50 cents become 57.5 and fall short of it as float64.   *)
(***************************************************************************)
EXTENDS Catalog

MCFallShort == {<<50, 115>>}
=============================================================================
