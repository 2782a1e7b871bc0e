----------------------------- MODULE AddressSpaces -----------------------------
(***************************************************************************)
(* What forked address spaces promise: each one is a private map from      *)
(* virtual addresses to ints, a fork is a snapshot, and an access fails    *)
(* only where the space has no such permission, or when memory runs out.   *)
(***************************************************************************)
EXTENDS Integers

CONSTANTS Address,     \* virtual addresses
          Name,        \* names of address spaces
          Value,       \* ints
          Permissions  \* a mapped address: a set of "read" and "write"

VARIABLES
    contents,  \* contents[s][a]: what space s holds at the address a it maps
    perms,     \* perms[s][a]: what space s may do there
    current,   \* the space of the accesses
    outcome    \* "running", "faulted" or "stopped"

vars == <<contents, perms, current, outcome>>

Spaces == DOMAIN contents

Init ==
    \E s \in Name, mapped \in SUBSET Address :
        /\ contents = [n \in {s} |-> [a \in mapped |-> 0]]
        /\ \E p \in [mapped -> Permissions] : perms = [n \in {s} |-> p]
        /\ current = s
        /\ outcome = "running"

Fork(new) ==
    /\ outcome = "running"
    /\ new \notin Spaces
    /\ contents' = [s \in Spaces \cup {new} |->
                       IF s = new THEN contents[current] ELSE contents[s]]
    /\ perms' = [s \in Spaces \cup {new} |->
                    IF s = new THEN perms[current] ELSE perms[s]]
    /\ UNCHANGED <<current, outcome>>

Allowed(a, kind) == a \in DOMAIN perms[current] /\ kind \in perms[current][a]

Write(a, value) ==
    /\ outcome = "running"
    /\ Allowed(a, "write")
    /\ contents' = [contents EXCEPT ![current][a] = value]
    /\ UNCHANGED <<perms, current, outcome>>

Fault(a, kind) ==
    /\ outcome = "running"
    /\ ~Allowed(a, kind)
    /\ outcome' = "faulted"
    /\ UNCHANGED <<contents, perms, current>>

Stop == /\ outcome = "running"
        /\ outcome' = "stopped"
        /\ UNCHANGED <<contents, perms, current>>

Switch(s) == /\ outcome = "running"
             /\ s \in Spaces
             /\ current' = s
             /\ UNCHANGED <<contents, perms, outcome>>

Discard(s) ==
    /\ outcome = "running"
    /\ s \in Spaces \ {current}
    /\ contents' = [r \in Spaces \ {s} |-> contents[r]]
    /\ perms' = [r \in Spaces \ {s} |-> perms[r]]
    /\ UNCHANGED <<current, outcome>>

Next == \/ \E s \in Name : Fork(s) \/ Switch(s) \/ Discard(s)
        \/ \E a \in Address : \/ \E value \in Value : Write(a, value)
                              \/ \E kind \in {"read", "write"} : Fault(a, kind)
        \/ Stop

Spec == Init /\ [][Next]_vars
================================================================================
