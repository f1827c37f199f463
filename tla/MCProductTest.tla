--------------------------- MODULE MCProductTest ---------------------------
(***************************************************************************)
(* Small instance of ProductTest: a supplier page there is or is not, and  *)
(* two tokens, which tell a lapsed lease from a new one.                   *)
(***************************************************************************)
EXTENDS ProductTest

CONSTANTS t1, t2, u1
MCTokens == {t1, t2}
MCUrls == {u1}
=============================================================================
