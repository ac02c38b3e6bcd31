------------------------------ MODULE MCSessions ------------------------------
(***************************************************************************)
(* Sessions on small instances: tab t1 loads two pages, any other tab one. *)
(***************************************************************************)
EXTENDS Sessions

CONSTANTS t1, p1, p2

MCTabOf == [p \in Pages |-> IF p \in {p1, p2} THEN t1 ELSE CHOOSE t \in Tabs : t # t1]
=============================================================================
