------------------------------ MODULE MCFraming ------------------------------
(***************************************************************************)
(* The answer to mining.subscribe, a job sent before the authorization,    *)
(* the answer to mining.authorize, and five more packets: jobs, and the    *)
(* answers to two submitted shares, of which the second makes its handler  *)
(* throw.  The fifth packet is longer than Limit.                          *)
(***************************************************************************)
EXTENDS LineFraming
MCEndOf == <<2, 5, 7, 10, 16, 18, 21, 23>>
=============================================================================
