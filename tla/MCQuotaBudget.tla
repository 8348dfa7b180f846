--------------------------- MODULE MCQuotaBudget ---------------------------
(* The quota with a window of two buckets and shares of one or two requests. *)
EXTENDS QuotaBudget

============================================================================
