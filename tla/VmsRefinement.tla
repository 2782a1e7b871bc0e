----------------------------- MODULE VmsRefinement -----------------------------
(***************************************************************************)
(* The simulator, for clients of one kind of fork, implements              *)
(* AddressSpaces: a space is named by its root table, and a copy-on-write  *)
(* mark stands for the permission to write.                                *)
(***************************************************************************)
EXTENDS Vms

PermsOf(word) == {kind \in {"read", "write"} :
                     \/ kind = "read" /\ word.read
                     \/ kind = "write" /\ (word.write \/ word.custom)}

Promise ==
    INSTANCE AddressSpaces WITH
        Address     <- VirtualAddresses,
        Name        <- Page,
        Value       <- Values,
        Permissions <- SUBSET {"read", "write"},
        contents    <- [r \in roots |->
                           [p \in Paths(r) |-> memory[PageAt(r, p)][0].value]],
        perms       <- [r \in roots |-> [p \in Paths(r) |-> PermsOf(EntryAt(r, p))]],
        current     <- root_page_table,
        outcome     <- CASE process = "running" -> "running"
                         [] process = "EFAULT"  -> "faulted"
                         [] OTHER               -> "stopped"

\* Forked spaces are independent, every write is seen by the space that made it
\* and by no other, and an access fails only without permission or memory.
ImplementsAddressSpaces == Promise!Spec
================================================================================
