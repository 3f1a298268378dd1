--------------------------- MODULE MCQuotaSource ---------------------------
(***************************************************************************)
(* QuotaSource in half-second ticks where times are short (get 0.5 s, wait *)
(* 1 s, join 2 s); the minute-long ones keep their order and the ratio     *)
(* load_config demands.                                                    *)
(***************************************************************************)
EXTENDS QuotaSource
=============================================================================
