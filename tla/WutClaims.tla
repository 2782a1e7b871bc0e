------------------------------- MODULE WutClaims -------------------------------
(***************************************************************************)
(* What a test beside wut.c says of the library and the code does not do.  *)
(***************************************************************************)
EXTENDS Wut

\* tests/rosiepie-1.c:18: the thread that cancelled a blocked thread continues
\* to execute, as the thread it is.  wut_cancel unlinks an entry that is not
\* linked, and its old neighbour becomes the first of the queue.
CallerKeepsRunning == process # "corrupt"
================================================================================
