--------------------------------- MODULE Pages ---------------------------------
(***************************************************************************)
(* The page pool of vms/src/pages.c: MAX_PAGES pages of one mapping, each  *)
(* free or allocated, handed out lowest first and zeroed when freed.       *)
(* A page is named by its index.                                           *)
(***************************************************************************)
EXTENDS Integers, FiniteSets

CONSTANTS
    MaxPages,  \* MAX_PAGES
    Contents,  \* what a page can hold
    ZeroPage   \* the contents of a page of zeroes

ASSUME PagesAssumption == MaxPages \in Nat \ {0} /\ ZeroPage \in Contents

Page == 0 .. MaxPages - 1

VARIABLES
    allocated,   \* allocated[i]: page i is handed out
    used_pages,  \* the counter vms_get_used_pages returns
    memory,      \* the contents of the pages
    process      \* "running", or what the process exited with

pageVars == <<allocated, used_pages, memory, process>>

Free == {i \in Page : ~allocated[i]}

\* The page the next vms_new_page returns.
LowestFree == CHOOSE i \in Free : \A j \in Free : i <= j

\* vms_init: an anonymous mapping is zero.
PagesInit ==
    /\ allocated = [i \in Page |-> FALSE]
    /\ used_pages = 0
    /\ memory = [i \in Page |-> ZeroPage]
    /\ process = "running"

Dies(status) ==
    /\ process' = status
    /\ UNCHANGED <<allocated, used_pages, memory>>

NewPageFound ==
    /\ Free # {}
    /\ allocated' = [allocated EXCEPT ![LowestFree] = TRUE]
    /\ used_pages' = used_pages + 1
    /\ UNCHANGED <<memory, process>>

vms_new_page ==
    /\ process = "running"
    /\ NewPageFound \/ (Free = {} /\ Dies("ENOMEM"))

FreePageCleared(i) ==
    /\ allocated[i]
    /\ allocated' = [allocated EXCEPT ![i] = FALSE]
    /\ memory' = [memory EXCEPT ![i] = ZeroPage]
    /\ used_pages' = used_pages - 1
    /\ UNCHANGED process

\* Freeing a page twice fails the assertion.
vms_free_page(i) ==
    /\ process = "running"
    /\ FreePageCleared(i) \/ (~allocated[i] /\ Dies("SIGABRT"))

\* The client stores into a page that it holds.
Store(i, contents) ==
    /\ process = "running"
    /\ allocated[i]
    /\ memory' = [memory EXCEPT ![i] = contents]
    /\ UNCHANGED <<allocated, used_pages, process>>

PagesEnded == process # "running" /\ UNCHANGED pageVars

PagesNext ==
    \/ vms_new_page
    \/ \E i \in Page : vms_free_page(i) \/ \E c \in Contents : Store(i, c)
    \/ PagesEnded

PagesSpec == PagesInit /\ [][PagesNext]_pageVars

--------------------------------------------------------------------------------
PagesTypeOK ==
    /\ allocated \in [Page -> BOOLEAN]
    /\ used_pages \in 0 .. MaxPages
    /\ memory \in [Page -> Contents]
    /\ process \in {"running", "ENOMEM", "SIGABRT"}

\* The counter that the fork guards and the tests read is the number of pages
\* handed out: vms_new_page and vms_free_page keep it in step with allocated.
UsedPagesIsExact == used_pages = Cardinality({i \in Page : allocated[i]})

\* A page is zero whenever it is free, so a new page is zero: the forks write
\* only the valid entries of a new table and rely on the others being invalid.
FreePagesAreZero == \A i \in Free : memory[i] = ZeroPage
================================================================================
