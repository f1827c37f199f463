------------------------ MODULE MCPurchaseLifecycle ------------------------
(***************************************************************************)
(* Small instances of PurchaseLifecycle.                                   *)
(***************************************************************************)
EXTENDS PurchaseLifecycle, TLC
CONSTANTS c1, c2, k1, k2, k3, k4

MCTwoProducts == [o \in Orders |-> IF o = "o1" THEN "cup" ELSE "mug"]
MCOneProduct == [o \in Orders |-> "cup"]
MCClients == {c1, c2}
MCTwoKeys == {k1, k2}
MCFourKeys == {k1, k2, k3, k4}
MCSymmetry == Permutations(Clients) \cup Permutations(Keys)
============================================================================
