---------------------------- MODULE MCRepricing ----------------------------
EXTENDS Repricing, TLC

A == "a"
B == "b"
Seller(p, l) == [price |-> p, later |-> l]
Seen(r) == [rivals |-> r, complete |-> TRUE]

\* Pressure from below, slower sellers, a tariff border just under the market,
\* and a scan that missed sellers.
MCMarkets == {Seen(<<Seller(2215, 0)>>),
              Seen(<<Seller(2206, 3), Seller(2216, 1), Seller(2240, 0)>>),
              Seen(<<Seller(3010, 0)>>),
              [rivals |-> <<Seller(2300, 0)>>, complete |-> FALSE]}
MCCosts == {[kind |-> "inventory", unit |-> 1520], [kind |-> "inventory", unit |-> 1500], [kind |-> "supplier", unit |-> 1505]}
MCStock == [kind |-> "inventory", unit |-> 1500]
MCStarts == {A :> 2208 @@ B :> 2214, A :> 2214 @@ B :> 2208}
=============================================================================
