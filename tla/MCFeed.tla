-------------------------------- MODULE MCFeed --------------------------------
(***************************************************************************)
(* JobFeed on small instances.  Miners write nothing the sessions or other *)
(* miners read, so one of them shows every behaviour of any of them.       *)
(***************************************************************************)
EXTENDS JobFeed
=============================================================================
