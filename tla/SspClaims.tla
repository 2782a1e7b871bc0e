------------------------------- MODULE SspClaims -------------------------------
(***************************************************************************)
(* What a comment of ssp.c says of the registry and the code does not do   *)
(* for clients that print before they wait.                                *)
(***************************************************************************)
EXTENDS MCSsp

PrintEarly == {{"prints early"}}

\* ssp.c:257: when ssp_print runs every subprocess has finished, so it has no
\* concurrency problem.  A known child that ended before the print or ends while
\* ssp_unknown runs is reaped there with its status dropped: the next ssp_wait
\* takes the -1 that the entry was created with for an invalid status.
WaitFindsEveryStatus == process # "1"
================================================================================
