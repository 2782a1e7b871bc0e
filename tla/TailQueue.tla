------------------------------- MODULE TailQueue -------------------------------
(***************************************************************************)
(* The TAILQ macros of <sys/queue.h>, as wut.c uses them for ready_queue.  *)
(* The header is not part of the repository, so the module is external: it *)
(* states what the macros do to the link fields, on any argument, linked   *)
(* or not.                                                                 *)
(*                                                                         *)
(* Elements are numbered 1..n and node 0 stands for the queue head.        *)
(*   next[0]  is tqh_first       prev[0]  is tqh_last                      *)
(*   next[e]  is e->tqe_next     prev[e]  is e->tqe_prev                   *)
(* A tqe_prev or tqh_last is the address of a next field, and is           *)
(* represented by the node that owns the field; the null pointer is 0 too. *)
(* With that encoding the two branches of TAILQ_REMOVE are one assignment. *)
(***************************************************************************)
EXTENDS Integers, FiniteSets

\* TAILQ_FIRST, TAILQ_NEXT and TAILQ_EMPTY.
First(q) == q.next[0]
Successor(q, e) == q.next[e]
IsEmpty(q) == First(q) = 0

\* TAILQ_INSERT_TAIL.  The second update of next sees the first one, as in
\* the macro: inserting the last element again makes it its own successor.
InsertTail(q, e) ==
    [next |-> [q.next EXCEPT ![e] = 0, ![q.prev[0]] = e],
     prev |-> [q.prev EXCEPT ![e] = q.prev[0], ![0] = e]]

\* TAILQ_REMOVE.  Whatever the element's links say is believed: an element
\* that is no longer linked still has its old links, and they are used.
Remove(q, e) ==
    [next |-> [q.next EXCEPT ![q.prev[e]] = q.next[e]],
     prev |-> [q.prev EXCEPT ![q.next[e]] = q.prev[e]]]

\* TAILQ_INIT over the given elements.
EmptyQueue(Elements) ==
    [next |-> [n \in {0} \cup Elements |-> 0],
     prev |-> [n \in {0} \cup Elements |-> 0]]

\* TAILQ_FOREACH: the elements in the order a traversal meets them, cut off
\* after one more step than there are elements (then the links are cyclic).
Traversal(q) ==
    LET steps == 1 .. Cardinality(DOMAIN q.next)
        node[k \in steps] ==
            IF k = 1 THEN First(q)
            ELSE IF node[k - 1] = 0 THEN 0 ELSE Successor(q, node[k - 1])
    IN  [k \in 1 .. Cardinality({j \in steps : node[j] # 0}) |-> node[k]]

\* Links agree in both directions on the nodes of S, and stay inside S.
Doubly(q, S) ==
    \A n \in S : /\ q.next[n] \in S /\ q.prev[q.next[n]] = n
                 /\ q.prev[n] \in S /\ q.next[q.prev[n]] = n
================================================================================
