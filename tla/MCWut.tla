--------------------------------- MODULE MCWut ---------------------------------
(***************************************************************************)
(* Instances of Wut for TLC.                                               *)
(***************************************************************************)
EXTENDS WutRefinement

\* Two states that differ only in the links an entry kept when it was unlinked.
\* A client that cancels ready threads only never makes the library follow such
\* links again (QueueIsTheReadyThreads), so they tell no behaviours apart.
LinkedView ==
    <<threads, threads_count, threads_capacity, id, block_id, state, ent,
      ReadyThreads, [t \in Ready |-> ready_queue.prev[t]], ready_queue.prev[0],
      running, joining, ret, process>>

\* One state for each way the process can end, and none for the value that the
\* last call returned, which no guard reads.
RunningView ==
    IF process = "running"
    THEN <<threads, threads_count, threads_capacity, id, block_id, state, ent,
           ready_queue, running, joining>>
    ELSE <<process>>
================================================================================
