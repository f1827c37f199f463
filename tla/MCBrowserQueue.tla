--------------------------- MODULE MCBrowserQueue ---------------------------
EXTENDS BrowserQueue
CONSTANTS a, b, o1, o2, wb, w1, w2
MCInitial == [t \in {a, b} |-> IF t = a THEN o1 ELSE NoSource]

\* Bound: two requests of the operator, or one with one mishap.
FewTroubles == asks + mishaps <= 2
=============================================================================
