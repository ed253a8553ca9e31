------------------------------- MODULE MCXelis -------------------------------
(***************************************************************************)
(* XelisSession with 90 s as three ticks and 60 s as two.                  *)
(***************************************************************************)
EXTENDS XelisSession
=============================================================================
