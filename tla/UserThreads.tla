------------------------------ MODULE UserThreads ------------------------------
(***************************************************************************)
(* What the user-thread library promises, with no table, ids, links or     *)
(* contexts: threads take turns in the order of a queue, a thread ends     *)
(* once, with one status, and at most one other thread is told of it.      *)
(***************************************************************************)
EXTENDS Integers, Sequences, SequencesExt

CONSTANTS Thread,  \* the threads there can be
          Main,    \* the main thread
          Codes    \* the statuses a thread can end with

Live == -1
Unborn == -2
Collected == -3

VARIABLES ready,   \* the threads that can run; the first one is running
          status,  \* Unborn, Live, a code, or Collected
          target,  \* the thread another thread is joining, or that thread itself
          taken,   \* the threads somebody joins, or has joined
          over     \* the process is gone

vars == <<ready, status, target, taken, over>>

Init == /\ ready = <<Main>>
        /\ status = [t \in Thread |-> IF t = Main THEN Live ELSE Unborn]
        /\ target = [t \in Thread |-> t]
        /\ taken = {}
        /\ over = FALSE

self == ready[1]
Calling == ~over /\ target[self] = self
Ended(t) == status[t] \in Codes

\* The thread waiting for t, as a sequence of at most one.
Joiner(t) ==
    LET waiting == {w \in Thread : w # t /\ target[w] = t /\ status[w] = Live}
    IN  IF waiting = {} THEN <<>> ELSE <<CHOOSE w \in waiting : TRUE>>

Create(t) == /\ Calling
             /\ status[t] = Unborn
             /\ status' = [status EXCEPT ![t] = Live]
             /\ ready' = Append(ready, t)
             /\ UNCHANGED <<target, taken, over>>

\* t exits or is cancelled: its joiner can run again, after all the others.
End(t, code) ==
    /\ Calling
    /\ \E k \in DOMAIN ready : /\ ready[k] = t
                               /\ ready' = RemoveAt(ready, k) \o Joiner(t)
    /\ status' = [status EXCEPT ![t] = code]
    /\ target' = [target EXCEPT ![t] = t]
    /\ over' = (ready' = <<>>)
    /\ UNCHANGED taken

\* Nobody is left to run when every thread waits for another one.
JoinLive(t) ==
    /\ Calling
    /\ t # self /\ status[t] = Live /\ t \notin taken
    /\ target' = [target EXCEPT ![self] = t]
    /\ taken' = taken \cup {t}
    /\ ready' = Tail(ready)
    /\ over' = (ready' = <<>>)
    /\ UNCHANGED status

JoinEnded(t) ==
    /\ Calling
    /\ Ended(t) /\ t \notin taken
    /\ status' = [status EXCEPT ![t] = Collected]
    /\ taken' = taken \cup {t}
    /\ UNCHANGED <<ready, target, over>>

\* A join that had to wait collects the status in the joiner's next turn.
JoinReturns ==
    /\ ~over
    /\ target[self] # self /\ Ended(target[self])
    /\ status' = [status EXCEPT ![target[self]] = Collected]
    /\ target' = [target EXCEPT ![self] = self]
    /\ UNCHANGED <<ready, taken, over>>

Yield == /\ Calling
         /\ ready' = Append(Tail(ready), self)
         /\ UNCHANGED <<status, target, taken, over>>

Stop == over' = TRUE /\ UNCHANGED <<ready, status, target, taken>>

Next == \/ \E t \in Thread : \/ Create(t) \/ JoinLive(t) \/ JoinEnded(t)
                             \/ \E code \in Codes : End(t, code)
        \/ JoinReturns \/ Yield \/ Stop

Spec == Init /\ [][Next]_vars
================================================================================
