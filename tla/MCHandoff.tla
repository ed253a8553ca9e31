------------------------------ MODULE MCHandoff ------------------------------
(***************************************************************************)
(* Instances of ShareHandoff for TLC: the configurations choose how many   *)
(* connections there are, which session they run and whether --mine-time   *)
(* is given.                                                               *)
(***************************************************************************)
EXTENDS ShareHandoff
=============================================================================
