------------------------------- MODULE MCNonce -------------------------------
(***************************************************************************)
(* NonceSpace with two threads, words of a few bits and counts that wrap   *)
(* around within the run.                                                  *)
(***************************************************************************)
EXTENDS NonceSpace

\* Two where a count of the thread's own goes on over copies: one to copy again while
\* the dev connection is not up, one for its first job.
BumpsByStyle ==
  [s \in {"shared", "sharedReset", "perJob", "perCopy"} |->
     IF s = "perJob" THEN 2 ELSE 1]
=============================================================================
