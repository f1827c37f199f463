----------------------------- MODULE MCFastAgent -----------------------------
(***************************************************************************)
(* FastAgent for TLC: one worker for all stages, as it is when             *)
(* KASPI_FAST_DUMPING_CONCURRENCY is 1, one outside seller that delivers   *)
(* late and another shop of the owner beside ours, pages of two offers.    *)
(***************************************************************************)
EXTENDS FastAgent

MCLanes == {"all"}
MCRivals == {"rival", "peer"}
MCPeers == {"peer"}
\* Ours comes tomorrow, the rival says two weeks, the other shop nothing readable.
MCPromised == [own   |-> {[plain |-> TRUE, days |-> 1]},
               rival |-> {[plain |-> FALSE, days |-> 14], [plain |-> FALSE, days |-> 20]},
               peer  |-> {[plain |-> TRUE, days |-> 90]}]
MCPrices == 1..3
MCAtFirst == [own |-> 3, rival |-> 2, peer |-> 1]
MCStarts == {[prices |-> MCAtFirst, units |-> 2, days |-> 0],
             [prices |-> MCAtFirst, units |-> 1, days |-> 1]}
=============================================================================
