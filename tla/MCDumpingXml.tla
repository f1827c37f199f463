---------------------------- MODULE MCDumpingXml ----------------------------
(***************************************************************************)
(* Small instance of DumpingXml: two lease tokens are enough for one late  *)
(* answer besides the lease on record.                                     *)
(***************************************************************************)
EXTENDS DumpingXml

CONSTANTS t1, t2
MCTokens == {t1, t2}
=============================================================================
