------------------------------- MODULE VmsClaims -------------------------------
(***************************************************************************)
(* What a test of vms says of the forks and the code does not do in a      *)
(* sequence of calls that no test makes.                                   *)
(***************************************************************************)
EXTENDS MCVms

\* tests/copy-1.c:39 (R4): a value written in a forked space is stored there.
\* vms_fork_copy copies the copy-on-write marks of its source to entries of new
\* pages, whose count is 0, and the page fault handler turns those writes away.
ForkedSpacesCanBeWritten ==
    [][\A path \in Paths(root_page_table) : \A value \in Values :
          LET word == EntryAt(root_page_table, path)
          IN  (word.write \/ word.custom) /\ vms_write(path, value)
                  => process' # "EFAULT"]_vars
================================================================================
