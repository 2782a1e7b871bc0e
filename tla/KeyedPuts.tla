------------------------------- MODULE KeyedPuts -------------------------------
(***************************************************************************)
(* What the hash tables of pht promise their callers: a table is a map     *)
(* that starts empty, each call to add takes effect once and at one        *)
(* instant, the last one for a key decides its value, and the map is       *)
(* cleared only when every call has taken effect.                          *)
(***************************************************************************)
EXTENDS Integers

CONSTANTS Call, Key

VARIABLES
    key,   \* the key of each call to come
    done,  \* the calls that have taken effect on the present table
    map    \* the values of the keys that are present

vars == <<key, done, map>>

NoCalls == [c \in {} |-> 0]

Init == key = NoCalls /\ done = {} /\ map = NoCalls

Prepare ==
    /\ key = NoCalls
    /\ \E calls \in SUBSET Call : key' \in [calls -> Key]
    /\ UNCHANGED <<done, map>>

Put(c) ==
    /\ c \in DOMAIN key \ done
    /\ done' = done \cup {c}
    /\ map' = [k \in DOMAIN map \cup {key[c]} |-> IF k = key[c] THEN c ELSE map[k]]
    /\ UNCHANGED key

Clear ==
    /\ done = DOMAIN key
    /\ done' = {} /\ map' = NoCalls
    /\ UNCHANGED key

Next == Prepare \/ Clear \/ \E c \in Call : Put(c)

Spec == Init /\ [][Next]_vars
================================================================================
