--------------------------- MODULE MCOrderLedger ---------------------------
(* OrderLedger with two orders of up to two contracts; see the cfg files. *)
EXTENDS OrderLedger
=============================================================================
