------------------------ MODULE MCMonitorScheduler ------------------------
(***************************************************************************)
(* Small instances of MonitorScheduler.                                    *)
(***************************************************************************)
EXTENDS MonitorScheduler
CONSTANTS k1, k2, k3

MCProducts == {"p1", "p2"}
MCSuppliers == {"ozon", "wb"}
MCSupplierOf == [p \in MCProducts |-> IF p = "p1" THEN "ozon" ELSE "wb"]
MCOneTarget == {"t1"}
MCInitialSource == [t \in Targets |-> "p1"]
MCJitter == [t \in Targets |-> IF t = "t1" THEN 1 ELSE 2]
MCBlockFor == [o \in HardSignals |-> IF o = "captcha" THEN 2 ELSE 1]
MCTokens == {k1, k2, k3}
===========================================================================
