---------------------------------- MODULE Vms ----------------------------------
(***************************************************************************)
(* The virtual memory simulator vms/src: three-level page tables in the    *)
(* page pool, the MMU with its page fault handler, and the two forks, one  *)
(* that copies every page and one that copies on write.                    *)
(*                                                                         *)
(* Memory is words in pages.  A word is read as a page table entry or as   *)
(* an int: the entry's flags and page number and the int are its fields,   *)
(* and a zero word is an invalid entry.  Entries name pages by index: the  *)
(* ppn is the page's address shifted, and pages are aligned.  A virtual    *)
(* address is a path <<i2, i1, i0>> of table indexes; every access has     *)
(* offset 0.                                                               *)
(***************************************************************************)
EXTENDS Integers, Sequences, FiniteSets

CONSTANTS
    MaxPages,      \* MAX_PAGES
    Index,         \* the entries of a table: an initial segment of 0 .. 511
    Values,        \* the ints clients write; 0 is one of them
    InitialPaths,  \* the sets of virtual pages a client may map before it forks
    InitialPerms,  \* how it maps a page: a set of sets of "read" and "write"
    MaxCount,      \* bound: a fork that makes a sharers' count larger is left out
    Clients        \* kinds of client: sets of "copy", "cow" and "discard"

ASSUME VmsAssumption ==
    /\ MaxPages \in Nat \ {0}
    /\ Index \subseteq 0 .. 511 /\ 0 \in Index
    /\ 0 \in Values
    /\ InitialPaths \subseteq SUBSET (Index \X Index \X Index)
    /\ InitialPerms \subseteq SUBSET {"read", "write"}
    /\ MaxCount \in Nat
    /\ Clients \subseteq SUBSET {"copy", "cow", "discard"}

Words == [valid : BOOLEAN, read : BOOLEAN, write : BOOLEAN, custom : BOOLEAN,
          ppn : 0 .. MaxPages - 1, value : Values]
ZeroWord == [valid |-> FALSE, read |-> FALSE, write |-> FALSE, custom |-> FALSE,
             ppn |-> 0, value |-> 0]

VARIABLES
    allocated, used_pages, memory, process,  \* see Pages
    ref_num,          \* sharers of a page, as the forks and the handler count
    root_page_table,  \* the root table the MMU walks
    roots,            \* the root tables the client holds
    client            \* which of the calls in Clients it makes

INSTANCE Pages WITH Contents <- [Index -> Words],
                    ZeroPage <- [i \in Index |-> ZeroWord]

vars == <<allocated, used_pages, memory, process, ref_num, root_page_table, roots,
          client>>

--------------------------------------------------------------------------------
(* Trees of tables: the positions in a tree are <<>> (the root table) and   *)
(* the valid index sequences of length 1 (L1 tables), 2 (L0) and 3 (pages). *)

Positions == UNION {[1 .. n -> Index] : n \in 0 .. 3}

Extend(pos, i) == Append(pos, i)
Parent(pos) == SubSeq(pos, 1, Len(pos) - 1)

\* The page of the position, reached by following ppns from the root.
PageAt(root, pos) ==
    LET at[n \in 0 .. Len(pos)] ==
            IF n = 0 THEN root ELSE memory[at[n - 1]][pos[n]].ppn
    IN  at[Len(pos)]

\* The word a position is entered by, in its parent's table.
EntryAt(root, pos) == memory[PageAt(root, Parent(pos))][pos[Len(pos)]]

ValidAt(root, pos) ==
    \A n \in 1 .. Len(pos) : EntryAt(root, SubSeq(pos, 1, n)).valid

Tree(root) == {pos \in Positions : ValidAt(root, pos)}
Paths(root) == {pos \in Tree(root) : Len(pos) = 3}

\* The order in which the three nested loops of the forks meet the positions.
Precedes(p, q) ==
    \/ Len(p) < Len(q) /\ p = SubSeq(q, 1, Len(p))
    \/ \E n \in 1 .. Len(p) : /\ n <= Len(q) /\ p[n] < q[n]
                              /\ \A m \in 1 .. n - 1 : p[m] = q[m]

\* The page that the n-th of several calls of vms_new_page returns.
FirstFreeAgain(n) ==  \* mutant: the pages are not marked as they are handed out
    CHOOSE i \in Free : \A j \in Free : i <= j
NthFree(n) == CHOOSE i \in Free : Cardinality({j \in Free : j < i}) = n - 1

\* The pages allocated for the positions of S, in the order of the loops.
NewPages(S) == [pos \in S |-> NthFree(1 + Cardinality({p \in S : Precedes(p, pos)}))]
PositionOf(new, page) == CHOOSE pos \in DOMAIN new : new[pos] = page
NewPageSet(new) == {new[pos] : pos \in DOMAIN new}

\* The new pages are allocated.
Allocate(pages) ==
    /\ allocated' = [i \in Page |-> allocated[i] \/ i \in pages]
    /\ used_pages' = used_pages + Cardinality(pages)

--------------------------------------------------------------------------------
\* The client's set-up, as in the tests: tables for its paths, data pages of
\* zeroes with the permissions of its choice, and the root table set.
Prefixes(S) == {<<>>} \cup {SubSeq(p, 1, n) : p \in S, n \in 1 .. 3}

TableWord(page, perms) ==
    [ZeroWord EXCEPT !.valid = TRUE, !.ppn = page,
                     !.read = "read" \in perms, !.write = "write" \in perms]

Init ==
    \E paths \in InitialPaths : \E perm \in [paths -> InitialPerms] :
        LET S == Prefixes(paths)
            new == [pos \in S |-> Cardinality({p \in S : Precedes(p, pos)})]
        IN  /\ Cardinality(S) <= MaxPages
            /\ allocated = [i \in Page |-> i < Cardinality(S)]
            /\ used_pages = Cardinality(S)
            /\ memory = [page \in Page |-> [i \in Index |->
                    IF \E pos \in S : Len(pos) < 3 /\ new[pos] = page
                                      /\ Extend(pos, i) \in S
                    THEN LET sub == Extend(PositionOf(new, page), i)
                         IN  TableWord(new[sub],
                                       IF Len(sub) = 3 THEN perm[sub] ELSE {})
                    ELSE ZeroWord]]
            /\ ref_num = [i \in Page |-> 0]
            /\ root_page_table = new[<<>>]
            /\ roots = {new[<<>>]}
            /\ client \in Clients
            /\ process = "running"

--------------------------------------------------------------------------------
\* The process exits with an error.
Exits(status) ==
    /\ process' = status
    /\ UNCHANGED <<allocated, used_pages, memory, ref_num, root_page_table, roots>>

\* The forks are refused when more than half of the pages are in use.  Past this
\* guard vms_new_page always finds a page: that is the invariant ForksHaveRoom,
\* so that exit of vms_new_page has no step in the forks below.
ForkRefusedWhenFull == used_pages >= MaxPages  \* mutant: the guard is not halved
ForkRefused == used_pages > MaxPages \div 2

\* entry_copy into a word of a new page, which is zero.
entry_copy(src, page) == [src EXCEPT !.ppn = page]

\* The tables and pages of vms_fork_copy: a copy of each.
CopiedTablesOnly(new) ==  \* mutant: the L0 entries keep the old pages
    [page \in Page |->
        IF page \notin NewPageSet(new) THEN memory[page]
        ELSE LET pos == PositionOf(new, page)
                 src == memory[PageAt(root_page_table, pos)]
             IN  [i \in Index |->
                      IF src[i].valid /\ Len(pos) < 2
                      THEN entry_copy(src[i], new[Extend(pos, i)]) ELSE src[i]]]
CopiedMemory(new) ==
    [page \in Page |->
        IF page \notin NewPageSet(new) THEN memory[page]
        ELSE LET pos == PositionOf(new, page)
                 src == memory[PageAt(root_page_table, pos)]
             IN  IF Len(pos) = 3 THEN src
                 ELSE [i \in Index |->
                          IF src[i].valid
                          THEN entry_copy(src[i], new[Extend(pos, i)])
                          ELSE memory[page][i]]]

vms_fork_copy ==
    LET new == NewPages(Tree(root_page_table))
    IN  /\ process = "running" /\ "copy" \in client
        /\ \/ ForkRefused /\ Exits("refused")
           \/ /\ ~ForkRefused
              /\ Cardinality(DOMAIN new) <= Cardinality(Free)
              /\ Allocate(NewPageSet(new))
              /\ memory' = CopiedMemory(new)
              /\ roots' = roots \cup {new[<<>>]}
              /\ UNCHANGED <<process, ref_num, root_page_table>>

\* A word of an L0 table after the copy-on-write fork, in both tables.
LeftWritable(word) == word  \* mutant: the write flags stay set
Protect(word) == IF word.valid /\ word.write
                 THEN [word EXCEPT !.write = FALSE, !.custom = TRUE]
                 ELSE word

TablePositions(root) == {pos \in Tree(root) : Len(pos) < 3}
L0Tables(root) == {PageAt(root, pos) : pos \in {p \in Tree(root) : Len(p) = 2}}

\* The tables of vms_fork_copy_on_write: new L2, L1 and L0 tables, whose L0
\* entries share the pages of the old ones.
SharedMemory(new) ==
    [page \in Page |->
        IF page \in L0Tables(root_page_table)
        THEN [i \in Index |-> Protect(memory[page][i])]
        ELSE IF page \notin NewPageSet(new) THEN memory[page]
        ELSE LET pos == PositionOf(new, page)
                 src == memory[PageAt(root_page_table, pos)]
             IN  [i \in Index |->
                     IF ~src[i].valid THEN memory[page][i]
                     ELSE IF Len(pos) = 2
                     THEN Protect(entry_copy(src[i], src[i].ppn))
                     ELSE entry_copy(src[i], new[Extend(pos, i)])]]

\* A fork adds two to the count of each page it shares.
CountedOnce(root) ==  \* mutant: one for the child, none for the parent
    [page \in Page |->
        ref_num[page]
        + Cardinality({path \in Paths(root) : PageAt(root, path) = page})]
CountedShares(root) ==
    [page \in Page |->
        ref_num[page]
        + 2 * Cardinality({path \in Paths(root) : PageAt(root, path) = page})]

vms_fork_copy_on_write ==
    LET new == NewPages(TablePositions(root_page_table))
    IN  /\ process = "running" /\ "cow" \in client
        /\ \A page \in Page : CountedShares(root_page_table)[page] <= MaxCount
        /\ \/ ForkRefused /\ Exits("refused")
           \/ /\ ~ForkRefused
              /\ Cardinality(DOMAIN new) <= Cardinality(Free)
              /\ Allocate(NewPageSet(new))
              /\ memory' = SharedMemory(new)
              /\ ref_num' = CountedShares(root_page_table)
              /\ roots' = roots \cup {new[<<>>]}
              /\ UNCHANGED <<process, root_page_table>>

--------------------------------------------------------------------------------
(* The MMU and the page fault handler, as functions of a machine: the part  *)
(* of the state a fault can change.                                         *)

Machine == [allocated |-> allocated, used_pages |-> used_pages,
            memory |-> memory, ref_num |-> ref_num, full |-> FALSE]

\* A copy-on-write mark is taken off: the entry is writable again.
RestoredAlways(word) == [word EXCEPT !.write = TRUE]  \* mutant: the mark is ignored
Restored(word) ==
    IF word.custom THEN [word EXCEPT !.write = TRUE, !.custom = FALSE] ELSE word

\* The last sharer, by the count: it gets the page itself.
TakesOver(m, l0, i) == [m EXCEPT !.memory[l0][i] = Restored(@)]

\* One of several sharers, by the count: it gets a copy.  Three mutants: the
\* copy's count goes down, the copy stays free, the copy is not counted as used.
LowestIn(m) == CHOOSE p \in Page : /\ ~m.allocated[p]
                                   /\ \A q \in Page : ~m.allocated[q] => p <= q
CopyCountedDown(m, l0, i) ==
    LET src == m.memory[l0][i].ppn
        dst == LowestIn(m)
    IN  IF \A p \in Page : m.allocated[p] THEN [m EXCEPT !.full = TRUE]
        ELSE [m EXCEPT !.allocated[dst] = TRUE, !.used_pages = @ + 1,
                       !.memory[l0][i] = [Restored(@) EXCEPT !.ppn = dst],
                       !.memory[dst] = m.memory[src],
                       !.ref_num[src] = @ - 1, !.ref_num[dst] = @ - 1]
CopyLeftFree(m, l0, i) ==
    LET src == m.memory[l0][i].ppn
        dst == LowestIn(m)
    IN  IF \A p \in Page : m.allocated[p] THEN [m EXCEPT !.full = TRUE]
        ELSE [m EXCEPT !.used_pages = @ + 1,
                       !.memory[l0][i] = [Restored(@) EXCEPT !.ppn = dst],
                       !.memory[dst] = m.memory[src],
                       !.ref_num[src] = @ - 1, !.ref_num[dst] = @ + 1]
CopyNotUsed(m, l0, i) ==
    LET src == m.memory[l0][i].ppn
        dst == LowestIn(m)
    IN  IF \A p \in Page : m.allocated[p] THEN [m EXCEPT !.full = TRUE]
        ELSE [m EXCEPT !.allocated[dst] = TRUE,
                       !.memory[l0][i] = [Restored(@) EXCEPT !.ppn = dst],
                       !.memory[dst] = m.memory[src],
                       !.ref_num[src] = @ - 1, !.ref_num[dst] = @ + 1]
CopiesPage(m, l0, i) ==
    LET src == m.memory[l0][i].ppn
        dst == LowestIn(m)
    IN  IF \A p \in Page : m.allocated[p] THEN [m EXCEPT !.full = TRUE]
        ELSE [m EXCEPT !.allocated[dst] = TRUE,
                       !.used_pages = @ + 1,
                       !.memory[l0][i] = [Restored(@) EXCEPT !.ppn = dst],
                       !.memory[dst] = m.memory[src],
                       !.ref_num[src] = @ - 1,
                       !.ref_num[dst] = @ + 1]

page_fault_handler(m, l0, i) ==
    LET word == m.memory[l0][i]
        count == m.ref_num[word.ppn]
    IN  IF ~word.valid \/ word.write \/ count <= 0 THEN m
        ELSE IF count = 1 THEN TakesOver(m, l0, i)
        ELSE CopiesPage(m, l0, i)

\* A fault at level 0; the upper levels' entries have neither flag, and fault
\* when they are invalid only, which the handler leaves as it is.
Faults(word) == ~word.valid \/ (~word.read /\ ~word.write)

L0Of(path) == PageAt(root_page_table, Parent(path))

\* The machine after the MMU's walk, which tries the handler once.
AfterWalk(path) ==
    LET l0 == L0Of(path)
    IN  IF Faults(memory[l0][path[3]])
        THEN page_fault_handler(Machine, l0, path[3]) ELSE Machine

\* An access of a kind, "read" or "write", needs that permission; the handler is tried once more without it.
AfterAccess(path, kind) ==
    LET l0 == L0Of(path)
        m == AfterWalk(path)
    IN  IF m.full \/ Faults(m.memory[l0][path[3]]) \/ m.memory[l0][path[3]][kind]
        THEN m ELSE page_fault_handler(m, l0, path[3])

\* The access goes through, or a fault is fatal, or the pool is empty.
Completes(path, kind) ==
    LET m == AfterAccess(path, kind)
        word == m.memory[L0Of(path)][path[3]]
    IN  ValidAt(root_page_table, path) /\ ~m.full /\ ~Faults(word) /\ word[kind]

RunsOut(path, kind) ==
    ValidAt(root_page_table, path) /\ AfterAccess(path, kind).full

Fails(path, kind) ==
    \/ RunsOut(path, kind) /\ Exits("ENOMEM")
    \/ /\ ~RunsOut(path, kind) /\ ~Completes(path, kind)
       /\ Exits("EFAULT")

BecomesMachine(m) == /\ allocated' = m.allocated
                     /\ used_pages' = m.used_pages
                     /\ ref_num' = m.ref_num

VirtualAddresses == Index \X Index \X Index

vms_write(path, value) ==
    LET m == AfterAccess(path, "write")
        page == m.memory[L0Of(path)][path[3]].ppn
    IN  /\ process = "running"
        /\ \/ /\ Completes(path, "write")
              /\ BecomesMachine(m)
              /\ memory' = [m.memory EXCEPT ![page][0].value = value]
              /\ UNCHANGED <<process, root_page_table, roots>>
           \/ Fails(path, "write")

vms_read(path) ==
    LET m == AfterAccess(path, "read")
    IN  /\ process = "running"
        /\ \/ /\ Completes(path, "read")
              /\ BecomesMachine(m)
              /\ memory' = m.memory
              /\ UNCHANGED <<process, root_page_table, roots>>
           \/ Fails(path, "read")

vms_set_root_page_table(root) ==
    /\ process = "running"
    /\ root \in roots \ {root_page_table}
    /\ root_page_table' = root
    /\ UNCHANGED <<allocated, used_pages, memory, process, ref_num, roots>>

\* The client is done with an address space: it frees, page by page, the tables
\* and the pages no other of its spaces maps.
PagesOf(root) == {PageAt(root, pos) : pos \in Tree(root)}

Discard(root) ==
    LET freed == PagesOf(root) \ UNION {PagesOf(r) : r \in roots \ {root}}
    IN  /\ process = "running" /\ "discard" \in client
        /\ root \in roots \ {root_page_table}
        /\ allocated' = [i \in Page |-> allocated[i] /\ i \notin freed]
        /\ memory' = [i \in Page |-> IF i \in freed THEN [j \in Index |-> ZeroWord]
                                     ELSE memory[i]]
        /\ used_pages' = used_pages - Cardinality(freed)
        /\ roots' = roots \ {root}
        /\ UNCHANGED <<process, ref_num, root_page_table>>

VmsEnded == process # "running" /\ UNCHANGED vars

Next ==
    /\ \/ vms_fork_copy \/ vms_fork_copy_on_write
       \/ \E path \in VirtualAddresses :
              vms_read(path) \/ \E value \in Values : vms_write(path, value)
       \/ \E root \in Page : vms_set_root_page_table(root) \/ Discard(root)
       \/ VmsEnded
    /\ UNCHANGED client

Spec == Init /\ [][Next]_vars

--------------------------------------------------------------------------------
TypeOK ==
    /\ allocated \in [Page -> BOOLEAN]
    /\ used_pages \in 0 .. MaxPages
    /\ memory \in [Page -> [Index -> Words]]
    /\ process \in {"running", "refused", "EFAULT", "ENOMEM"}
    /\ ref_num \in [Page -> Nat]
    /\ roots \subseteq Page
    /\ root_page_table \in roots
    /\ client \in Clients

\* The places where a data page is mapped: a root and a path.
Mappings(page) == UNION {{<<root, path>> : path \in {p \in Paths(root) :
                                                     PageAt(root, p) = page}}
                         : root \in roots}
MappedWord(m) == EntryAt(m[1], m[2])
DataPages == UNION {{PageAt(root, path) : path \in Paths(root)} : root \in roots}
TablePages(root) == {PageAt(root, pos) : pos \in TablePositions(root)}

\* A page that one space can write is mapped nowhere else: whatever forks and
\* faults came before, a write is seen through one path of one space.
WritablePagesArePrivate ==
    \A page \in DataPages :
        (\E m \in Mappings(page) : MappedWord(m).write)
            => Cardinality(Mappings(page)) = 1

\* The count of a page that waits for a copy on write is never below the number
\* of its sharers: the handler's "last sharer" really is the last, and it never
\* turns away the write of a page that was writable.
CountsCoverSharers ==
    \A page \in DataPages :
        (\E m \in Mappings(page) : MappedWord(m).custom)
            => ref_num[page] >= Cardinality(Mappings(page))

\* Every page in a space's tree is allocated, and its tables belong to no other
\* space and are no data pages.
TablesArePrivate ==
    /\ \A root \in roots : \A page \in PagesOf(root) : allocated[page]
    /\ \A root \in roots : \A page \in TablePages(root) :
           /\ page \notin DataPages
           /\ \A other \in roots \ {root} : page \notin TablePages(other)

\* A fork that passes the guard of half the pool never runs out of pages when
\* it is half done.
ForksHaveRoom ==
    ~ForkRefused =>
        \A root \in roots : Cardinality(Tree(root)) <= Cardinality(Free)

\* Every allocated page is in some space's tree.
NoPageLeaks ==
    process = "running" => {i \in Page : allocated[i]} = UNION {PagesOf(r) : r \in roots}

\* Copying forks and discards lose no page and free none that is in use.
CopiesDoNotLeak == "cow" \notin client => NoPageLeaks
================================================================================
