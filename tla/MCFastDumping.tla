--------------------------- MODULE MCFastDumping ---------------------------
(***************************************************************************)
(* Small instances of FastDumping.                                         *)
(***************************************************************************)
EXTENDS FastDumping
CONSTANTS j1, j2, j3, r1

\* Behaviours are followed up to the first answer on a changed row.
BeforeRace == ~raced

MCJobs == {j1, j2, j3}
\* A rival above the floor, with an own row and without.
MCTwoMarkets == {[ok |-> TRUE, own |-> 4, rival |-> 4],
                 [ok |-> TRUE, own |-> 0, rival |-> 4]}
\* The supplier changes the cost and the delivery time.
MCSupplierOffers == {[cost |-> 1, days |-> 1], [cost |-> 3, days |-> 2]}
============================================================================
