-------------------------------- MODULE MCRate --------------------------------
(***************************************************************************)
(* RateReport with a window of three entries and a status line every       *)
(* second tick.                                                            *)
(***************************************************************************)
EXTENDS RateReport
=============================================================================
