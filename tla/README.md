# Verification of the kernel-modules programs

The repository holds five small programs, each a rewrite of an operating-system
mechanism in user space: a thread library (`wut`), a virtual memory simulator
(`vms`), a concurrent hash table (`pht`), a subprocess registry (`ssp`) and a
process lister (`tps`). They share no code and never talk to each other, so the
development is one family of modules per program. This page is the inventory of
the programs, what each module stands for, and what the runs and the
proofs show.

## 1. Inventory

| program | state | operations | what is hard |
|---|---|---|---|
| `wut/src/wut.c` | table of thread control blocks (TCBs) with its capacity and a count of creations, a TAILQ of ready entries, one context per thread, a scheduler context | `wut_init`, `wut_create`, `wut_id`, `wut_cancel`, `wut_join`, `wut_yield`, `wut_exit`, the return of a thread's function | coroutines: every call may switch, ids are reused, a join is half done while others run, entries keep their links after they are unlinked |
| `vms/src` | a pool of pages with a counter, page tables in those pages, the root the MMU walks, `ref_num` per page | `vms_new_page`, `vms_free_page`, `vms_read`, `vms_write` with page faults, `vms_fork_copy`, `vms_fork_copy_on_write` | sharing after several forks, counts that only approximate the sharers, marks on both sides of a share, exhaustion in the middle of a fork |
| `pht/src` | three hash tables: no lock, one lock, one lock per bucket | `add_entry`, `contains`, `get_value`, `destroy`; a tester of many threads | locks held across early returns, reads beside writes |
| `ssp/src/ssp.c` | an array of processes with pid, status and name, and its size; the kernel's children | `ssp_create`, `ssp_get_status`, `ssp_send_signal`, `ssp_wait`, `ssp_print` with the reaping of adopted children | children end at any time, a status can be taken by one `waitpid` only, pids come back |
| `tps/src/main.c` | a directory stream and one descriptor | one pass over `/proc` | processes vanish between two system calls |

The build trees (`pht/build`, `*/cmake-build-debug`), the graders and the tests
are not part of the system. The tests and the comments are read as documents:
what they say of the code is compared with what it does.

**Interactions.** In `wut` the components are the table, the queue and the
contexts; every public function touches all three, and `wut_exit`, the return of a
function and the scheduler call each other. In `vms` the forks and the fault
handler of `vms.c` use the pool of `pages.c` and the entries of `pte.c` and
`page_table.c`; the MMU calls the handler back, once when its walk faults and once when
the permission is missing. In `pht` the threads of the tester share a table; in
`ssp` the program shares its children with the kernel.

**What makes each component correct**

* `wut` table: a slot holds the thread whose id it is; creation finds a slot; the slot of
  a joined thread waits for its joiner.
* `wut` queue: exactly the threads that can run, once each, the caller first, in
  the order the library promises; every one gets its turn.
* `wut` joins: a blocked thread and its target name each other; the end of the
  target wakes the joiner, which still finds the status.
* `vms` pool: the counter is exact, and a page is zero when it is handed out.
* `vms` spaces: a fork is a snapshot, a write is seen in one space only, an access
  fails only without permission or without memory; nothing leaks.
* `pht`: every add takes effect once, in one instant, whatever the interleaving; no
  entry is doubled, missing or leaked; with distinct keys the program ends.
* `ssp`: every child's status is recorded once and kept, an id keeps its process, and
  every call returns.
* `tps`: a line is true of some process of the pass, a process that stays is listed, no
  descriptor leaks, the pass ends.

`PROJECT.json` lists the hazards line by line, each with the properties that watch it.

## 2. Modules

| module | stands for |
|---|---|
| `TailQueue` | the `TAILQ` macros of `<sys/queue.h>` (not in the repository) on raw link fields, including removal of an unlinked and insertion of a linked element |
| `Wut` | `wut.c`: state, one action per call, invariants, liveness |
| `UserThreads` | the abstract library: a queue, statuses, who joins whom |
| `WutRefinement`, `MCWut` | the mapping from `Wut` to `UserThreads`; the instances for TLC |
| `WutClaims` | a claim of a test that the code refutes |
| `WutProofs` | theorems about `Wut`: for every client the types and the table; for clients that cancel ready threads only the queue, the joins, and that the library is `UserThreads` |
| `Pages` | `pages.c` |
| `PageTables`, `MCPageTables` | `pte.c` and `page_table.c` bit for bit, with the pool; the instance |
| `LeastElement` | the lemma behind the linear searches of `wut` and `vms`, and behind the inductions of the proofs |
| `Vms` | `vms.c`, `mmu.c`, the entries and walks of `pte.c` and `page_table.c` |
| `AddressSpaces` | the abstract memory: private maps, snapshots, permissions |
| `VmsRefinement`, `MCVms` | the mapping from `Vms` to `AddressSpaces`; the instances |
| `VmsClaims` | a claim of a test that the code refutes |
| `PageTablesProofs` | theorems about `Pages` and `PageTables`: the pool, entries and addresses |
| `VmsProofs` | theorems about `Vms`: the pool, the tables, room for the forks |
| `VmsSharingProofs` | theorems about `Vms`: what spaces share, and that they are `AddressSpaces` |
| `Pht`, `MCPht` | the three tables of `pht/src` and the tester that fills them; the instance |
| `KeyedPuts` | the abstract table: a map, and each call takes effect once |
| `PhtProofs` | theorems about `Pht`, and that each table is `KeyedPuts` |
| `Ssp`, `MCSsp` | `ssp.c` and the kernel's processes; the instance |
| `SspClaims` | a claim of a comment that the code refutes |
| `SspProofs` | theorems about `Ssp`: the table, the statuses, the reasons to stop, the streams |
| `Tps`, `MCTps` | `tps/src/main.c` and `/proc`; the instance |
| `TpsProofs` | theorems about `Tps`: descriptors, lines, processes that last |

### Wut

TCBs are never freed, so they are numbered by creation; 0 is NULL; a TCB and its
queue entry share a number, and `ent[t]` says whether `th->ent` is set. The
queue is kept as its `next` and `prev` links because `wut_cancel` unlinks entries
that are not in the queue. A call is one action up to its switch, since nothing
preempts it; `JoinReturns` is the half of `wut_join` after the switch and is taken
first thing when the joiner's context is resumed. `wut_exit` and the scheduler are
one action, `Exit`, because no client code runs between them; `RunReturns` is the
same entered through `uc_link`.

`running` is the context that executes and `HeadThread` the first queue entry,
which is who the library believes is executing. Where the two part the model
stops with `process = "corrupt"`; a null pointer that is followed is `"segv"`, a read
past the table that is followed `"undefined"`, an endless traversal `"hung"`.

`CancelTargets` is the discipline of the client: which threads it cancels. The
library is wrong for clients that cancel blocked threads (section 5), so the
properties come in two groups: the table's, for every client, and the others, for
clients that cancel ready threads only.

### Vms

Memory is physical: pages of words, where a word is an entry (flags and page) or an
int. The forks compute the new pages in the order of the nested loops, with the
lowest free page for each, as `vms_new_page` does. A fork is one action, because the
simulator is sequential and the only way out in the middle is an empty pool, which
`ForksHaveRoom` excludes. A read or write is one action with both tries of the
handler: `AfterWalk` is the try of the walk, `AfterAccess` the one for the permission.
`Discard` is a client that frees the pages no other of its spaces maps. `Init` is the tests' set-up, of
any mapped pages for which the pool has room; it is client code and maps to none of the
simulator's lines.

`client` is the kind of client, chosen at the start and never changed: the passing runs
keep the two forks apart since mixing them is wrong (section 5).

### PageTables

A word of 64 bits is the set of the numbers of its bits that are 1, so the shifts and
masks of `pte.c` are set operations and nothing is truncated by hand. `entry` is one
word that a client holds, `asked` what it last asked of each field: `EntryIsItsRecord`
says that the two agree, which is the licence for `Vms` to keep an entry as a record. The
word may start with any bits set (`Clutter`): a client may have stored them.

### Pht

`main` is the program, `pc[t]` a thread inside the add of its entry `j[t]`. An add is six
steps: lock, search and update, allocate, read the head of the list, write the head,
unlock; `AddUpdates` is the early return that keeps the lock. The value added with a key
is the index of the key, which names the call and the entry it allocates. A bucket is a
set of entries; the read and the write of `SLIST_INSERT_HEAD` are kept apart (`rest`),
so that an insertion without the lock would lose entries. The destructor of v2 frees
an address inside the array of buckets: the process aborts or goes on, both are outcomes.
A product of the arguments above `UINT32_MAX` ends in `"undefined"`.

### Ssp

A call of `ssp_wait` and of `ssp_print` is one step per entry or per `waitpid`, since
children end between them; the other calls are one step. `child[p]` is what the kernel
has of a pid: free, running, zombie, reaped. `Adopts` is a descendant whose parent
ended. `client` is the discipline of the caller: a client that does not print early
calls `ssp_print` when none of its own children waits to be reaped, and none ends
before `ssp_unknown` is done; a client that does not signal any id names the last
process, which is the one `ssp_send_signal` always signals. The runs of sections 3 and
5 show the registry right for the first discipline and wrong for the second.

### Tps

One action per system call, with processes starting and exiting between them. `lasting`
and `seen` are history variables for the properties. `PrintProcName` of the
code writes one char past its padding for every pid (`main.c:47`). The array is of variable
length and compilers round it up to the alignment of the stack, so that the char falls into
the rounding and nothing is seen of it; only for five digits or more, where the array is of
no elements or of a negative number, is there no such room, and the outcome `"undefined"`.

## 3. Runs

| run | question | bounds |
|---|---|---|
| `Wut_anyclient` | is the table right whatever is cancelled? | 4 threads in a life, table of 2 that grows to 4 and 8, one status (257, cut to 1) |
| `Wut_disciplined` | queue, joins, statuses, crashes; is it `UserThreads`? | the same |
| `Wut_progress` | turns and joins end | 3 threads, with fairness |
| `PageTables` | is a 64-bit entry the record `Vms` takes it for? | 4 pages whose addresses differ in low and high bits, a zero word and one with bits set in and around each field |
| `Vms_spaces` | both forks, spaces as private maps | 14 pages, tables of 2 entries, 1 or 2 data pages with any permissions: up to 3 copy-on-write spaces, 2 copied ones |
| `Vms_reuse` | copy on write, discarded spaces, pages used again | 9 pages, 1 data page |
| `Pht` | arguments, tables, threads; is each table `KeyedPuts`? | 4-bit unsigned ints, 2 threads of 2 keys, 3 of 1, 1 of 3, none; 4 strings in 2 buckets, any choice of keys |
| `Ssp` | entries, statuses, streams; calls return | 3 pids, created or adopted; a table of 1 entry that grows to 2 and 4; exit statuses 0 and 255, and 137 for a SIGKILL |
| `Tps` | lines, descriptors; the pass ends | 3 pids of 2 names, one of the pids wide, batches of 2 |
| `WutClaims_caller`, `VmsClaims_write`, `SspClaims_print` | three refuted claims | 3 threads; 18 pages; 2 pids |

No run checks the type invariants of `Wut`, `Pages`, `PageTables` and `Pht`, nor that `main`
is alone when it counts (`MainIsAlone`): they are theorems. That of `Vms` is both.

Why these bounds are enough to be worth something: four threads let a chain of
two joins, a third thread that ends and a fourth that takes its slot coexist, and
with a table of two slots every expansion and every reuse happens; three spaces
are the first number where `ref_num` and the sharers differ; in a pool of nine pages a
discarded space, a new fork and two copies fit, so that pages come back with an old count. In `Pht` two
threads of two keys in two buckets let two adds meet in one bucket, in two, and on one
key; the third thread waits for both. A width of four bits puts the overflow of the
product and of the parser within reach. A table of `Ssp` that doubles twice has entries from before
the first growth in the second. `MaxThreads` bounds the
creations in the life of the process (a guard of `wut_create`), `MaxCount` bounds the sum
a fork may reach, `MaxEntries` of `Ssp` the entries a client creates, `Batch` of `Tps` what the
kernel hands out at once; nothing else is cut.

Two views shrink the state. `LinkedView` leaves out the links of entries that are not
in the queue; a disciplined client never has them followed, which is what
`QueueIsTheReadyThreads` says. `RunningView` merges the ended states and leaves out
`ret`, which no guard reads and none of that run's invariants constrains beyond being
an integer.

**Fairness.** In `Wut_progress`, a coroutine that never gives up starves the others
by design, so progress is stated for cooperative clients: weak fairness of
`GivesUp`, the running thread yields or ends while another is queued, and of
`JoinReturns`, which is library code that runs as soon as its context does. Creations
are finite because of the bound. In `Pht` the operating system runs `main` and every
thread that can run: weak fairness of each. A lock is free again before two threads
want it for ever, because each thread adds finitely often, so no strong fairness is
needed. In `Ssp` a call goes on while it can and children end, without which
`ssp_wait` may wait by design. In `Tps` `main` goes on; nothing is assumed of other
processes, and `PassEnds` holds while they start and exit for ever.

## 4. Proofs

`WutProofs` proves, for every `MaxThreads`, `InitialCapacity`, `Statuses` and
`CancelTargets`:

* `TypeCorrect`: `TypeOK` holds in every reachable state;
* `TableIsRight`: `SlotsHoldTheirThread`;
* `CreationNeverFails`: `CreationFindsSlot`, so `die("no available thread")` is
  unreachable.

They follow from one inductive invariant, `SlotInv`: the types, the table's ids, and
`CallerIsFirst`, which the steps need because every call reads its caller off the queue
(`wut_yield` must find a non-empty queue after its switch, `wut_join` must write the id of
a real thread). `CreationFindsSlot` is not inductive: it is derived. When the table was
just expanded, the first new slot is empty; otherwise there are more slots than threads
ever created, and by the pigeonhole principle a full table would hold a thread twice,
against `SlotsHoldTheirThread`. The search loop returns a least empty slot, which exists
by `LeastExists`.

These three hold with no restriction on clients.

The second part of `WutProofs` proves the rest of the safety of `Wut`, for every
`MaxThreads`, `InitialCapacity` and `Statuses`, from `CancelTargets \subseteq {"ready"}`:

* `ReadyQueueIsRight`: `QueueIsTheReadyThreads`;
* `JoinsAreMutual`, `JoinFindsStatus`: `JoinersAndTargetsAgree`, `WokenJoinerFindsStatus`;
* `CrashMeansDeadlock`, `LinksStaySound`: `OnlyDeadlockCrashes`, `LinksNeverCorrupt`;
* `JoinersKeepSlots`: the action property `JoinedSlotsAreKept`;
* `LibraryKeepsPromise`: `ImplementsUserThreads`, the refinement.

The inductive invariant is `QueueInv`. Its part on the queue is `Linked(q, S)`: there is a
numbering `f` of the entries such that the links lead from `f[k]` to `f[k + 1]` and back,
from the head to the head. `Doubly`, the links agreeing in both directions, is not enough:
it also holds of a queue with a second cycle beside it that no traversal meets.
`LinkedInsert`, `LinkedRemove` and `LinkedTraversal` say what the macros do to a list, and
that `TAILQ_FOREACH` meets its entries once, in order. Its part on the joins is `JoinInv`,
which adds to the checked invariants what the steps need: a thread has its entry exactly
while it lives, a live thread has its slot, and a thread not yet created joins nobody. The
heart of it is `ThreadEnds`, shared by `wut_exit` and `wut_cancel`: the joiner moves from
`BlockedJoinsLive` to `WokenFindsEnded` as its target moves from live to ended. A join
that takes a status (`SlotEmptied`) disturbs nobody because the ended thread names one
joiner only, and the ids of live threads are distinct. A cancel finds no queued thread to
unclaim, since the thread it cancels is ready and a claimed joiner is blocked.

`LibraryKeepsPromise` maps the links to a sequence: by `OrderOfList` the sequence that
`WutRefinement` reads off the links is the numbering of `Linked`, so that `InsertOrder`
and `RemoveOrder` turn the two macros into `Append` and `RemoveAt`. Then each call has a
lemma of its own (`CreateImplements` to `YieldImplements`) that names the action of
`UserThreads` it is, or shows that nothing the client sees has changed. The invariant is
`QueueInv` with `EndedWithCode`, that a status in the table is one that some thread passed
to `wut_exit`, cut to a byte, or that of a return or of a cancel. The proof found that the
mapping of the statuses was once written with overlapping cases, which TLC resolves by
their order and the logic does not.

`PageTablesProofs` first proves of `Pages`, for every `MaxPages` and `Contents`, that the
counter is the number of pages handed out (`CounterIsExact`), that free pages are zero
(`NewPagesAreZero`) and the types (`PagesTypeCorrect`). `PoolInv` leaves the range of the
counter out, which is not inductive on its own, and gets it from its meaning: it is the
cardinality of a subset of the pages.

Then it proves, for every number of pages, every address and every word, that an entry is
its record (`EntriesAreRecords`), that no operation writes outside its field
(`NoOtherBitIsWritten`), the types (`TablesTypeCorrect`), and that the three indexes and
the offset of a virtual address determine its 39 bits (`AddressesAreSplit`). The heart is
`PpnIsKept` and `PageIsKept`: the number comes back from the word and the page's address
from the number, whatever the word held. It rests on `PageTablesAssumption`, that `mmap`
returns aligned addresses below bit 47.

`VmsProofs` proves, for every pool, every set of table indexes up to 512, every client and
every `MaxCount`, `TypesHold`, `UsedPagesAreCounted`, `NewPagesAreZero`,
`TablesStayPrivate` and `ForksNeverRunOut`, each stating the invariant a run checks. The
inductive invariant `SpaceInv` (`SpacesInvariant`) is the types, the counter, the zero
pages, and

* `Held`: the page of every position of every space's tree is allocated;
* `Apart`: no two positions have one page, except one path of two spaces when it leads to
  data.

`Apart` is what makes a write local: a page has one place, so that a changed entry of a
table changes one space at one path. A tree is a recursive walk over memory; the proofs
determine it from the root down (`Leads`: a set of positions and a map to pages that agree
with memory entry by entry; there is only one, `TreesAreAsLed`). `ForkedAs` says what a
fork of either kind does to trees, so that one lemma shows that both keep `SpaceInv`. That
the new pages are distinct needs the order of the nested loops, which is coded in numbers
of base 513. `ForksHaveRoom` is derived: by `Apart`, `PageAt` is an injection of a tree
into the allocated pages, which are no more than the free ones when the fork is not
refused.

`VmsSharingProofs` proves what the spaces share, and the refinement. Every step is one of
six moves (`StepMoves`): nothing changes in what a space maps, a fork that copies, a fork
that shares, a write in place, a write that copies, a discard. The inductive invariant
`SharingInv` (`SharingInvariant`) is

* `Private`: an entry that two spaces have in common is not writable in either;
* `Counted`: `ref_num` covers the sharers of every page that is shared at all. It holds
  for every client, because a fork adds two per page and a copy takes one off, and it is
  why a handler that reads a count of 1 has the last sharer before it;
* `Marked`: a copy-on-write mark means that its page was counted, unless the client also
  copies: `vms_fork_copy` copies marks to pages whose count is 0, which is the finding of
  `VmsClaims_write`;
* `Kept`: without the fork on write no count moves and each allocated page is in some
  space.

From it follow `CopiesAreKept` and `WritesStayPrivate` for every client, and, for clients
that do not mix the two forks, `CountsAreKept` and `SpacesKeepPromise`:
`CountsCoverSharers` and `ImplementsAddressSpaces`. Under the refinement a mark counts as
the permission to write, which is right as long as a marked page can still be had
(`Marked`); the contents of a space are those of its data pages, and `Private` keeps a
write out of the others.

`PhtProofs` proves, for every width of the unsigned int, every hash, number of threads and
command line, its theorems from `PhtInvHolds`: `TypesAreKept`, `LocksExclude`,
`KeysAreUnique`, `NothingLeaks`, `MainRunsAlone`, `NoneAreMissing`, `NumbersAreRead` and
`AddsArePuts`. The inductive invariant `PhtInv` joins to `OneEntryPerKey` and
`HeapIsTheTable`

* `TypeInv` and `DataInv`: the types, and that there is a key for each call;
* `PlaceInv`: where `main` and the threads can be together (only a started thread is
  anywhere, and none is anywhere while `main` counts);
* `LockInv`: a thread inside an add owns the lock of its bucket, which is why two threads
  are never in one bucket, and why what a thread found by its search stays true;
* `AddInv`: a thread about to insert has no match in its bucket, its own entry is
  allocated and not listed, and after it has read the head, `rest` is the bucket still;
* `FoundInv`: the keys of all calls that have returned or are about to unlock are in the
  table. `NothingMissing` follows when all have.

`AddsArePuts` is the refinement `ImplementsPuts`, from `PutsInv`: `PhtInv`, that every
call is over when `main` counts (`RoundInv`), and that an entry has its value before it is
in its list (`ValueInv`). An add takes effect where its entry is linked or its value
overwritten, and at no other step; what a table maps is then changed at one key, because
the key has no other entry there (`OnlyMatch`), and no step of another thread is between
the search and the link, by `LockInv`. Freeing the table is one step of `KeyedPuts`, when
all calls are over.

A thread is told from the index of its entry by `EntryHasThread`, which is unique division
by `size`. `NumbersAreRead` is `ArgumentsAreRead`, that the parser neither wraps around
nor refuses a number that fits. Its proof is an induction over the digits; since the
library's induction theorems cannot be used, it goes over a set of numbers (`UpTo`), or by
the least character at which the claim could fail (`CurrentType`). Digits are read from
the front and struck off from the end: `ShortNumbers` keeps what has been read below what
`UINT32_MAX` leaves after as many digits as are still to come, so that only the last digit
can overflow (`NumbersFit`); from there `ParsedSays` strikes the digits off again, and
`FittingIsRead` is the converse. It assumes `MaxDigitsAssumption`, that `MaxDigits` is the
number of digits of `UintMax`, as 10 is that of `UINT32_MAX`.

`SspProofs` proves, for every number of pids, streams and exit statuses, from `PidsReturn
= FALSE`, five theorems:

* `Distinct`, `Keeping`: `EntriesAreDistinct` and the action property `EntriesAreKept`,
  for every client. `TableInv` adds that an entry's process was forked and has a status
  only once it was reaped; a pid forked or adopted now is free before, so that it is in no
  entry yet.
* `TrueStatuses`: `StatusesAreTrue`, for clients that do not print early. The loop of
  `ssp_unknown` may reap any child; `PrintInv` says that while it runs no known child is a
  zombie, and `WaitInv` that `ssp_wait` leaves no entry behind it without its status.
* `Stops`: `OnlyForkFails`, for clients that besides signal the last process only.
* `StreamsAsked`: `StreamsAreAsAsked`, with no assumption at all. The three `dup2` are
  read in their order, one lemma for each descriptor that may be overwritten.

`TpsProofs` proves, for every set of pids and names, batch and population, `Descriptors`,
`Lines` and `Lasting`. The inductive invariant has a part for each thing the pass holds:
the count of descriptors is a function of the place in the program (`FdsInv`); the entry
in hand is below the position of the directory and below every entry still in the buffer
(`EntryInv`), so that the pids printed increase; the status file is that of the entry in
hand, until its process exits (`FileInv`); and a process that lasts is ahead of the
position, in the buffer, in hand, or printed (`ListedInv`).

Assumptions: for `Pages`, `PagesAssumption`; for `Wut`, `WutAssumption`, that is a
positive bound and capacity, integer statuses and three kinds of targets; for the second
part also the client discipline, without which `WutClaims_caller` shows the properties to
fail. For `Vms`, `VmsAssumption`: a pool, tables of 512 entries at most, an int 0; where
it is named, that no client mixes the two forks, without which `VmsClaims_write` shows a
write refused that `AddressSpaces` grants, and which the instances `OneKindOfFork` and
`CowAndDiscard` of the runs meet.

For `Pht`, `PhtAssumption` and `MaxDigitsAssumption`: a hash into the buckets, a width
with its number of digits, command lines of character codes. For `Ssp`, `SspAssumption`,
and the two habits of clients where they are named: `SspClaims_print` shows
the status that a client loses by printing early. A pid that comes back, which
`PidsReturn` allows, the code confuses with the old process. For `Tps`, `TpsAssumption`:
pids are positive and no name is the number 0.

Only model-checked, because the provers cannot reach it: liveness under fairness
(`ReadyThreadRuns`, `JoinOfEndedReturns`, `TesterEnds`, `CallsReturn`, `PassEnds`), which
needs `ENABLED`. Every other property of the passing runs is a theorem. The three refuted
claims of section 5 are runs only: what they refute is false.

## 5. What the code does and its documents do not say

Three claims are refuted by a run each:

* `WutClaims_caller`: cancelling a blocked thread corrupts the ready queue, and the caller
  goes on as another thread (`wut.c:277`; `tests/rosiepie-1.c:18` has it continue).
* `VmsClaims_write`: a copying fork of a copy-on-write space cannot be written
  (`vms.c:69`; `tests/copy-1.c:39` has the value modified).
* `SspClaims_print`: `ssp_print` before `ssp_wait` drops the status of a child that has ended, and
  `ssp_wait` then exits (`ssp.c:249`; the comment at 256 says there is no problem).

Other disagreements are visible in the models, without a run of their own:

* `wut_cancel` of a thread blocked in a join leaves its id in the target's `block_id` when
  the target is blocked too (`wut.c:264`; `tests/rosiepie-1.c:15`). A stale `block_id` can
  even make the scheduler queue an ended thread (`wut.c:201`).
* An id equal to the capacity passes the bound checks (`wut.c:261`, `293`;
  `tests/student-a.c:51`); `Wut` ends in `"undefined"`.
* The comment at `wut.c:344` says that a thread that ended with a status above 0, and that
  nobody joins, has its slot taken and overwritten; `min_available_id` takes empty slots
  only (`wut.c:94`). `JoinedSlotsAreKept` says nothing of such a slot, for which code and
  comment differ: it is of threads that live or have a joiner, as the comment's line 343 is.
* Each copy-on-write fork adds 2 to the count of a page; from the second fork on the last sharer
  copies as well and the page it leaves is lost (`vms.c:152`; `tests/cow-5.c:80`).
* With equal keys the tester of `pht` waits for ever (`hash-table-v1.c:90`): `TesterEnds`
  is stated for distinct ones. Random strings of seven letters are seldom equal.
* `ssp_send_signal` ignores its `id` (`ssp.c:171`).

## 6. What could come next

A weaker discipline for `Wut` than cancelling ready threads only, under which a cancel of a
thread that waits for a ready one is still right; what a mix of the two forks of `Vms` still
promises, beyond `SharingInvariant`, for reads and for the writes that are not refused;
`TesterEnds` by a measure of the calls that are left, proved step by step, with only the fairness
left to TLC.

## 7. Not modelled

* `wut`: stacks and their mapping, valgrind registration, debug output.
* `vms`: the offset inside a page; a mapping that fails.
* `pht`: `get_value` beside an add, which the program never calls; `bernstein_hash`, which
  is any function; timing and output; a failing `calloc`; the default arguments. The
  order of the entries of a bucket, which no result depends on.
* `ssp`: names, the format of `ssp_print`, a failing `malloc` or `execvp`, signals other than SIGKILL,
  pids that come back (`PidsReturn`, which the code confuses with the old process), and
  ids that `ssp_create` did not return. A negative one reads before the table. For an unused
  one of the table `ssp_get_status` calls `waitpid(-1)` (`ssp.c:159`), which reaps any child,
  known or adopted, and records its status in the empty entry, where no later call looks for
  it; if the child was a known one, `ssp_wait` then exits as in `SspClaims_print`. A client has no reason to ask for one,
  and no test does.
* `tps`: the text of a status file beyond the name, a failing `close`, output. Opening the
  status file of a running process does not fail (it is readable by all, and one descriptor is
  free): with `hidepid` or a full table of descriptors the code leaves the line out
  (`main.c:80`), and `LastingAreListed` would not hold.
* The tests, graders and drivers of each program, which are clients: what they say is
  compared with the code, they are not translated.
* The build trees. `pht/cmake-build-debug` and `vms/cmake-build-debug` hold, among generated
  makefiles, two copies of CMake's compiler identification source, which is no part of the
  programs; `pht/build` holds a ninja file.
