----------------------------- MODULE MCQuotaLoop -----------------------------
(* Instances of QuotaLoop for TLC; the constants are in the .cfg files. *)
EXTENDS QuotaLoop
=============================================================================
