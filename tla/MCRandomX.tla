----------------------------- MODULE MCRandomX -----------------------------
(***************************************************************************)
(* Instances of RandomXData for TLC.                                       *)
(***************************************************************************)
EXTENDS RandomXData

\* The user's pool enters two more epochs while the program runs, the dev pool none.
Epochs == [k \in Kinds |-> IF k = "user" THEN 3 ELSE 1]
=============================================================================
