-------------------------- MODULE MCInventoryFifo --------------------------
(***************************************************************************)
(* Small instances of InventoryFifo.                                       *)
(***************************************************************************)
EXTENDS InventoryFifo

MCOrderOf == [l \in Lines |-> IF l = 1 THEN "o1" ELSE "o2"]
\* Both lines name the same card; the second card is reached by relinking.
MCOneCard == [l \in Lines |-> "cup"]
\* The first order may want two units, which one batch need not cover.
MCTwoAndOne == [l \in Lines |-> IF l = 1 THEN {2} ELSE {1}]
\* The first order may be cancelled, the second is handed over and may come
\* back.
MCStatuses == [o \in Orders |->
  IF o = "o1" THEN {"accepted", "cancelled"}
              ELSE {"shipping", "returned"}]
\* Nothing is promised after a line was served late.
BeforeLate == ~late
============================================================================
