----------------------------- MODULE MCBrowser ------------------------------
EXTENDS Browser, TLC

\* The second version withdraws a plan, and changes the terms of the other.
MCCatalogues == << (1 :> [price |-> 3, min |-> 1]) @@ (2 :> [price |-> 3, min |-> 1]),
                   (2 :> [price |-> 1, min |-> 2]) >>
To(routes, faults) == [routes |-> routes, faults |-> faults]
MCVisits == { To({"login", "register"}, {"net"}), To({"login", "settings"}, AllFaults),
              To({"pricing", "register"}, {"api", "expire"}),
              To({"orders"}, AllFaults), To({"orders", "overview"}, {"net"}),
              To({"proxies"}, AllFaults), To({"billing", "overview"}, {"net", "expire"}) }
MCOffers == {{"stripe", "nowpayments"}, {"nowpayments"}, {}}
=============================================================================
