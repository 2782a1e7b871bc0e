----------------------------- MODULE WutRefinement -----------------------------
(***************************************************************************)
(* The library, for clients that cancel ready threads only, implements     *)
(* UserThreads.                                                            *)
(***************************************************************************)
EXTENDS Wut

\* No slot but the one it was given holds a thread (SlotsHoldTheirThread).
InTable(t) == threads[id[t]] = t

\* The codes of UserThreads: live, unborn, a status, collected.
AbstractStatus(t) == IF t > threads_count THEN -2
                     ELSE IF state[t] < 0 THEN -1
                     ELSE IF InTable(t)   THEN state[t]
                                          ELSE -3

\* joining[t] is only meaningful in a live thread: a cancelled one left it.
AbstractTarget(t) ==
    IF joining[t] >= 0 /\ state[t] < 0 THEN threads[joining[t]] ELSE t

Promise ==
    INSTANCE UserThreads WITH
        Main   <- 1,
        Codes  <- {0, CancelledStatus} \cup {status % 256 : status \in Statuses},
        ready  <- ReadyThreads,
        status <- [t \in Thread |-> AbstractStatus(t)],
        target <- [t \in Thread |-> AbstractTarget(t)],
        taken  <- {t \in Created : block_id[t] >= 0 \/ ~InTable(t)},
        over   <- process # "running"

\* Each call does what UserThreads says, or changes nothing: queue order, who is
\* woken when, and which thread's end is reported to whom.
ImplementsUserThreads == Promise!Spec
================================================================================
