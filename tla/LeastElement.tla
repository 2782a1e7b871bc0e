------------------------------ MODULE LeastElement ------------------------------
(***************************************************************************)
(* The fact behind the two linear searches for a free place, of wut.c and  *)
(* pages.c: each returns the least number of a set, if it has one.         *)
(***************************************************************************)
EXTENDS Integers, WellFoundedInduction, TLAPS

\* A non-empty set of natural numbers has a least element: what the search
\* loops of min_available_id and vms_new_page find.
LEMMA LeastExists ==
    ASSUME NEW S, S \subseteq Nat, S # {}
    PROVE  \E i \in S : \A j \in S : i <= j
<1>1. \E i \in S : \A j \in S : ~ (<<j, i>> \in OpToRel(<, Nat))
  BY NatLessThanWellFounded, WFMin
<1>2. PICK i \in S : \A j \in S : ~ (<<j, i>> \in OpToRel(<, Nat))
  BY <1>1
<1>3. ASSUME NEW j \in S, j < i PROVE <<j, i>> \in OpToRel(<, Nat)
  <2>1. j \in Nat /\ i \in Nat /\ j < i
    BY <1>2, <1>3
  <2> QED BY <2>1, Zenon DEF OpToRel
<1>4. \A j \in S : ~(j < i)
  BY <1>2, <1>3
<1>5. \A j \in S : i <= j
  BY <1>4
<1> QED BY <1>5
================================================================================
