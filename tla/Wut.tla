---------------------------------- MODULE Wut ----------------------------------
(***************************************************************************)
(* The user-thread library wut/src/wut.c: a table of thread control blocks *)
(* (TCBs), a FIFO ready queue and a scheduler context, driven by the calls *)
(* wut_create, wut_cancel, wut_join, wut_yield and wut_exit.               *)
(*                                                                         *)
(* Threads are coroutines: nothing preempts a call, so each call of the    *)
(* running thread is one action up to its context switch.  The part of     *)
(* wut_join that follows the switch is an action of its own, JoinReturns,  *)
(* taken as soon as the joiner's context is resumed.                       *)
(*                                                                         *)
(* TCBs are never freed; they are numbered by their creation, TCB 1 being  *)
(* the main thread's, and 0 is the null pointer.  A TCB and its only queue *)
(* entry have the same number.                                             *)
(***************************************************************************)
EXTENDS Integers, Sequences, FiniteSets, TailQueue

CONSTANTS
    MaxThreads,       \* bound: threads created during the life of the process
    InitialCapacity,  \* entries of the table after wut_init (10 in the source)
    Statuses,         \* the arguments threads pass to wut_exit
    CancelTargets     \* client discipline: kinds of threads it cancels

ASSUME WutAssumption ==
    /\ MaxThreads \in Nat \ {0}
    /\ InitialCapacity \in Nat \ {0}
    /\ Statuses \subseteq Int
    /\ CancelTargets \subseteq {"ready", "blocked", "exited"}

NULL == 0
Thread == 1 .. MaxThreads
Alive == -1
Blocked == -2
CancelledStatus == 128

VARIABLES
    threads,           \* the table: slot -> TCB or NULL
    threads_count,     \* number of create_thread calls so far
    threads_capacity,  \* number of slots
    id, block_id, state, ent,  \* the TCB fields; ent[t]: th->ent is not NULL
    ready_queue,       \* the TAILQ of entries
    running,           \* the TCB whose context the processor executes
    joining,           \* the argument of the wut_join a context is inside, or -1
    ret,               \* what the latest call returned (a yield: will return)
    process            \* "running", or how the process ended

tcbs == <<id, block_id, state, ent>>
table == <<threads, threads_count, threads_capacity>>
vars == <<threads, threads_count, threads_capacity, id, block_id, state, ent,
          ready_queue, running, joining, ret, process>>

Slots == 0 .. threads_capacity - 1
Created == 1 .. threads_count
HeadThread == First(ready_queue)
ReadyThreads == Traversal(ready_queue)

\* The id the caller of wut_id is told: that of the queue's first entry.
wut_id == id[HeadThread]

\* What a TCB's state field says.
Kind(t) == CASE state[t] = Alive   -> "ready"
             [] state[t] = Blocked -> "blocked"
             [] OTHER              -> "exited"

--------------------------------------------------------------------------------
\* wut_init: ten empty slots, the main thread in slot 0 and alone in the queue.
Init ==
    /\ threads = [i \in 0 .. InitialCapacity - 1 |-> IF i = 0 THEN 1 ELSE NULL]
    /\ threads_count = 1
    /\ threads_capacity = InitialCapacity
    /\ id = [t \in Thread |-> 0]
    /\ block_id = [t \in Thread |-> -1]
    /\ state = [t \in Thread |-> Alive]
    /\ ent = [t \in Thread |-> t = 1]
    /\ ready_queue = InsertTail(EmptyQueue(Thread), 1)
    /\ running = 1
    /\ joining = [t \in Thread |-> -1]
    /\ ret = 0
    /\ process = "running"

\* The running context is in the client's code, about to make a call.
CanCall == process = "running" /\ joining[running] = -1

\* A call that returns to its caller without a switch.  Every later call works
\* on the queue's first entry; once that is not the caller's, the library acts
\* for the wrong thread, and the model ends the process as "corrupt".
ReturnToCaller(queue, value) ==
    /\ ret' = value
    /\ running' = running
    /\ process' = IF First(queue) = running THEN process ELSE "corrupt"

\* A null pointer is dereferenced; what the call wrote before is of no interest.
Segfault ==
    /\ process' = "segv"
    /\ UNCHANGED <<threads, threads_count, threads_capacity, id, block_id, state,
                   ent, ready_queue, running, joining, ret>>

--------------------------------------------------------------------------------
\* threads_expand: twice the slots, the new ones empty.
ThreadsExpandUncleared ==  \* mutant: the new slots keep what realloc left
    [i \in 0 .. 2 * threads_capacity - 1 |-> threads[i % threads_capacity]]
ThreadsExpand ==
    [i \in 0 .. 2 * threads_capacity - 1 |->
        IF i < threads_capacity THEN threads[i] ELSE NULL]

\* The table wut_create allocates from.  threads_count never goes down, so
\* the table may grow although some of its slots are empty.
RoomyTableLate ==  \* mutant: > for >=
    IF threads_count > threads_capacity THEN ThreadsExpand ELSE threads
RoomyTable ==
    IF threads_count >= threads_capacity THEN ThreadsExpand ELSE threads
RoomyCapacity ==
    IF threads_count >= threads_capacity THEN 2 * threads_capacity
                                         ELSE threads_capacity

EmptySlots(tab) == {i \in DOMAIN tab : tab[i] = NULL}

\* min_available_id, for a table that has an empty slot.
MinAvailableId(tab) ==
    CHOOSE i \in EmptySlots(tab) : \A j \in EmptySlots(tab) : i <= j

\* wut_create: a new TCB in the lowest empty slot, its entry last in the queue.
wut_create ==
    LET new == threads_count + 1
        slot == MinAvailableId(RoomyTable)
    IN  /\ CanCall
        /\ threads_count < MaxThreads
        /\ EmptySlots(RoomyTable) # {}
        /\ threads' = [RoomyTable EXCEPT ![slot] = new]
        /\ threads_count' = new
        /\ threads_capacity' = RoomyCapacity
        /\ id' = [id EXCEPT ![new] = slot]
        /\ block_id' = [block_id EXCEPT ![new] = -1]
        /\ state' = [state EXCEPT ![new] = Alive]
        /\ ent' = [ent EXCEPT ![new] = TRUE]
        /\ ready_queue' = InsertTail(ready_queue, new)
        /\ ReturnToCaller(ready_queue', slot)
        /\ UNCHANGED joining

\* die(): malloc, realloc or mmap failed, or min_available_id found nothing.
CreateDies ==
    /\ CanCall
    /\ process' = "died"
    /\ UNCHANGED <<table, tcbs, ready_queue, running, joining, ret>>
--------------------------------------------------------------------------------
\* Waking the thread in slot w makes its entry the last one of the queue.  The
\* slot may be empty, or its TCB stripped of its entry: then the wake faults.
HasEntry(t) == t # NULL /\ ent[t]
WakeFaults(w) == w >= 0 /\ ~HasEntry(threads[w])

QueueAfterNoWake(w) == ready_queue  \* mutant: the joiner is not queued
QueueAfterWake(w) ==
    IF w >= 0 THEN InsertTail(ready_queue, threads[w]) ELSE ready_queue

\* s with the thread of slot w (if any) alive again.
StateAfterNoWake(s, w) == s  \* mutant: the joiner stays marked as blocked
StateAfterWake(s, w) == IF w >= 0 THEN [s EXCEPT ![threads[w]] = Alive] ELSE s

\* wut_exit and the scheduler it switches to: record the low byte of the status,
\* wake the joiner, drop the entry, and switch to the new first thread, or end
\* the process if there is none.
Exit(status) ==
    LET self == HeadThread
        waiter == block_id[self]
        queue == Remove(QueueAfterWake(waiter), self)
    IN  /\ CanCall
        /\ \/ WakeFaults(waiter) /\ Segfault
           \/ /\ ~WakeFaults(waiter)
              /\ state' = StateAfterWake([state EXCEPT ![self] = status % 256],
                                         waiter)
              /\ ent' = [ent EXCEPT ![self] = FALSE]
              /\ ready_queue' = queue
              /\ IF IsEmpty(queue)
                 THEN process' = "exited" /\ running' = running
                 ELSE process' = process /\ running' = First(queue)
              /\ UNCHANGED <<table, id, block_id, joining, ret>>

wut_exit == \E status \in Statuses : Exit(status)

\* The function a thread was created with returns: its context links to the
\* scheduler, which exits the first thread with status 0 if it is not ended yet.
RunReturns ==
    /\ running # 1
    /\ Exit(IF state[running] < 0 THEN 0 ELSE state[running])

\* The main thread returns from main (or the test from test()): exit(0).
MainReturns ==
    /\ CanCall
    /\ running = 1
    /\ process' = "exited"
    /\ UNCHANGED <<table, tcbs, ready_queue, running, joining, ret>>
--------------------------------------------------------------------------------
\* The ids a client may pass: any slot, and one or two values beyond each end.
ArgumentIds == -1 .. threads_capacity + 1

\* No call gets past these values: outside the table, empty, or the caller.
\* The bound check lets threads_capacity through.
RejectedIdNotCaller(i) ==  \* mutant: the caller's own id is accepted
    i < 0 \/ i > threads_capacity \/ (i \in Slots /\ threads[i] = NULL)
RejectedId(i) ==
    \/ i < 0 \/ i > threads_capacity
    \/ i \in Slots /\ (threads[i] = NULL \/ id[HeadThread] = i)

ReturnsError ==
    /\ ret' = -1
    /\ UNCHANGED <<table, tcbs, ready_queue, running, joining, process>>

\* threads[threads_capacity] is read: the word after the array may be null, and
\* the call fails as it should, or anything else, and it is followed.
ReadsPastTable(i) ==
    /\ CanCall
    /\ i = threads_capacity
    /\ \/ ReturnsError
       \/ /\ process' = "undefined"
          /\ UNCHANGED <<table, tcbs, ready_queue, running, joining, ret>>

\* The first queued thread whose joiner is thread i stops having a joiner.  A
\* blocked thread with that joiner is not in the queue, and is not found.
BlockIdAfterCancel(i) ==
    LET hits == {k \in DOMAIN ReadyThreads : block_id[ReadyThreads[k]] = i}
    IN  IF hits = {} THEN block_id
        ELSE LET k == CHOOSE k \in hits : \A m \in hits : k <= m
             IN  [block_id EXCEPT ![ReadyThreads[k]] = -1]

\* The links are cyclic and no queued thread has that joiner: no end is met.
SearchHangs(i) ==
    Len(ReadyThreads) > MaxThreads /\ BlockIdAfterCancel(i) = block_id

\* A call of wut_cancel for a thread in the table.
Cancellable(i) == /\ CanCall
                  /\ i \in Slots /\ ~RejectedId(i)
                  /\ Kind(threads[i]) \in CancelTargets

\* The joiner of the cancelled thread, which is woken.
CancelWakes(i) == BlockIdAfterCancel(i)[threads[i]]

\* The entry is unlinked whether or not it is in the queue.
Cancels(i) ==
    LET t == threads[i]
    IN  /\ Cancellable(i) /\ ~SearchHangs(i)
        /\ ~WakeFaults(CancelWakes(i)) /\ ent[t]
        /\ block_id' = BlockIdAfterCancel(i)
        /\ state' = [StateAfterWake(state, CancelWakes(i))
                        EXCEPT ![t] = CancelledStatus]
        /\ ent' = [ent EXCEPT ![t] = FALSE]
        /\ ready_queue' = Remove(QueueAfterWake(CancelWakes(i)), t)
        /\ ReturnToCaller(ready_queue', 0)
        /\ UNCHANGED <<table, id, joining>>

\* After delete_thread a TCB has no entry to unlink.
CancelFaults(i) == /\ Cancellable(i) /\ ~SearchHangs(i)
                   /\ WakeFaults(CancelWakes(i)) \/ ~ent[threads[i]]
                   /\ Segfault

CancelHangs(i) ==
    /\ Cancellable(i) /\ SearchHangs(i)
    /\ process' = "hung"
    /\ UNCHANGED <<table, tcbs, ready_queue, running, joining, ret>>

CancelFails(i) == CanCall /\ RejectedId(i) /\ ReturnsError

wut_cancel ==
    \E i \in ArgumentIds : \/ Cancels(i) \/ CancelFaults(i) \/ CancelHangs(i)
                           \/ CancelFails(i) \/ ReadsPastTable(i)
--------------------------------------------------------------------------------
\* wut_join refuses, besides those ids, a thread that has a joiner already.
ClaimedWhileLive(i) ==  \* mutant: the joiner is checked after the status
    /\ i \in Slots /\ threads[i] # NULL
    /\ block_id[threads[i]] >= 0 /\ state[threads[i]] < 0
NeverClaimed(i) == FALSE  \* mutant: the second join is not refused
Claimed(i) == i \in Slots /\ threads[i] # NULL /\ block_id[threads[i]] >= 0

JoinFails(i) == CanCall /\ (RejectedId(i) \/ Claimed(i)) /\ ReturnsError

Joinable(i) == CanCall /\ i \in Slots /\ ~RejectedId(i) /\ ~Claimed(i)

\* The thread has ended: its slot is emptied and its status returned at once.
JoinReaps(i) ==
    /\ Joinable(i)
    /\ state[threads[i]] >= 0
    /\ threads' = [threads EXCEPT ![i] = NULL]
    /\ ret' = state[threads[i]]
    /\ UNCHANGED <<threads_count, threads_capacity, tcbs, ready_queue, running,
                   joining, process>>

\* The caller leaves the queue and the next thread runs.  When there is none,
\* TAILQ_FIRST is null and new_head->val faults.
JoinBlocks(i) ==
    LET self == HeadThread
        queue == Remove(ready_queue, self)
    IN  /\ Joinable(i)
        /\ state[threads[i]] < 0
        /\ state' = [state EXCEPT ![self] = Blocked]
        /\ block_id' = [block_id EXCEPT ![threads[i]] = id[self]]
        /\ ready_queue' = queue
        /\ joining' = [joining EXCEPT ![self] = i]
        /\ IF IsEmpty(queue)
           THEN process' = "segv" /\ running' = running
           ELSE process' = process /\ running' = First(queue)
        /\ UNCHANGED <<table, id, ent, ret>>

\* The rest of wut_join, when the joiner's context is resumed.
JoinReturns ==
    LET i == joining[running]
    IN  /\ process = "running"
        /\ i >= 0
        /\ \/ threads[i] = NULL /\ Segfault
           \/ /\ threads[i] # NULL
              /\ ret' = state[threads[i]]
              /\ threads' = [threads EXCEPT ![i] = NULL]
              /\ joining' = [joining EXCEPT ![running] = -1]
              /\ UNCHANGED <<threads_count, threads_capacity, tcbs, ready_queue,
                             running, process>>

wut_join ==
    \E i \in ArgumentIds :
        JoinFails(i) \/ JoinReaps(i) \/ JoinBlocks(i) \/ ReadsPastTable(i)

--------------------------------------------------------------------------------
\* wut_yield: the caller goes from the front of the queue to its end.
YieldSwitches ==
    LET queue == InsertTail(Remove(ready_queue, HeadThread), HeadThread)
    IN  /\ CanCall
        /\ Successor(ready_queue, HeadThread) # NULL
        /\ ready_queue' = queue
        /\ running' = First(queue)
        /\ ret' = 0
        /\ UNCHANGED <<table, tcbs, joining, process>>

YieldFails ==
    CanCall /\ Successor(ready_queue, HeadThread) = NULL /\ ReturnsError

wut_yield == YieldSwitches \/ YieldFails

\* The process is gone.
Ended == process # "running" /\ UNCHANGED vars

Next == \/ wut_create \/ CreateDies
        \/ wut_exit \/ RunReturns \/ MainReturns
        \/ wut_cancel
        \/ wut_join \/ JoinReturns
        \/ wut_yield
        \/ Ended

Spec == Init /\ [][Next]_vars

\* A cooperative client: the thread that runs does not run for ever while
\* another one is ready; and the library carries on after a switch.
GivesUp == /\ Successor(ready_queue, HeadThread) # NULL
           /\ YieldSwitches \/ wut_exit \/ RunReturns
Fairness == WF_vars(GivesUp) /\ WF_vars(JoinReturns)
FairSpec == Spec /\ Fairness

--------------------------------------------------------------------------------
\* Types of the variables; only a created thread is in the table or the queue.
Nodes == {NULL} \cup Thread
TypeOK ==
    /\ threads_count \in Thread
    /\ threads_capacity \in Nat
    /\ threads \in [Slots -> {NULL} \cup Created]
    /\ id \in [Thread -> Slots]
    /\ block_id \in [Thread -> Slots \cup {-1}]
    /\ state \in [Thread -> -2 .. 255]
    /\ ent \in [Thread -> BOOLEAN]
    /\ ready_queue \in [next : [Nodes -> {NULL} \cup Created],
                       prev : [Nodes -> {NULL} \cup Created]]
    /\ running \in Created
    /\ joining \in [Thread -> Slots \cup {-1}]
    /\ ret \in Int
    /\ process \in {"running", "exited", "segv", "corrupt", "undefined", "hung",
                    "died"}

\* A slot holds the thread that was given its number, whatever clients cancel
\* and join: no two slots share a TCB, and the id wut_create returned is the one
\* wut_id, wut_join and wut_cancel find the thread under.
SlotsHoldTheirThread ==
    \A i \in Slots : threads[i] # NULL => id[threads[i]] = i

\* create_thread always finds a slot: its "no available thread" death cannot
\* happen, although wut_create compares the capacity with a count of threads
\* ever created and not with the slots in use.
CreationFindsSlot == EmptySlots(RoomyTable) # {}

--------------------------------------------------------------------------------
\* The properties below are of clients that cancel no blocked thread and no
\* exited one (CancelTargets is {"ready"}).

Ready == {t \in Created : state[t] = Alive}
Live  == {t \in Created : state[t] < 0}

\* While the program runs, the links form one consistent queue of exactly the
\* threads that are alive, each met once, with the caller at its front.
QueueIsTheReadyThreads ==
    process = "running" =>
        /\ HeadThread = running
        /\ Doubly(ready_queue, {NULL} \cup Ready)
        /\ {ReadyThreads[k] : k \in DOMAIN ReadyThreads} = Ready
        /\ Len(ReadyThreads) = Cardinality(Ready)

\* t is the thread the blocked or just woken thread w joins.
Joins(w, t) == joining[w] >= 0 /\ threads[joining[w]] = t

\* A blocked thread joins a thread that has not ended and that names it as the
\* one to wake; and a thread that has not ended names only a thread that is
\* blocked on it.  So an exit wakes its joiner, and nobody else.
JoinersAndTargetsAgree ==
    process = "running" =>
        /\ \A w \in Live : state[w] = Blocked =>
               \E t \in Live : Joins(w, t) /\ block_id[t] = id[w]
        /\ \A t \in Live : block_id[t] >= 0 =>
               LET w == threads[block_id[t]]
               IN  w \in Live /\ state[w] = Blocked /\ Joins(w, t)

\* A joiner that was woken finds its target in the table, ended, and claimed by
\* nobody else: what wut_join reads after the switch is still there.
WokenJoinerFindsStatus ==
    process = "running" =>
        \A w \in Ready : joining[w] >= 0 =>
            LET t == threads[joining[w]]
            IN  t # NULL /\ state[t] >= 0 /\ block_id[t] = id[w]

\* Only threads that all wait for each other crash the library: TAILQ_FIRST of
\* the empty queue in wut_join is the one null pointer that is followed.
OnlyDeadlockCrashes == process = "segv" => Ready = {}

\* The library never loses its caller, nor walks a broken queue for ever.
LinksNeverCorrupt == process \notin {"corrupt", "hung"}

\* The thread in slot i lives, or a joiner is named that is to be told its status.
SlotWanted(i) == /\ threads[i] # NULL
                 /\ state[threads[i]] < 0 \/ block_id[threads[i]] >= 0

\* That joiner, resumed, empties the slot and returns the status of the thread.
JoinerTakes(i) == /\ joining[running] = i
                  /\ id[running] = block_id[threads[i]]
                  /\ threads'[i] = NULL
                  /\ state[threads[i]] >= 0
                  /\ ret' = state[threads[i]]

\* The slot of a thread that lives, or that another thread joins, changes only
\* when that joiner takes it: no second join and no creation gets in between the
\* end of the thread and the return of its join (wut.c:293, 320).  Of a thread
\* that has ended and that nobody joins, nothing is said here.
JoinedSlotsAreKept ==
    [][\A i \in Slots :
          SlotWanted(i) /\ threads'[i] # threads[i] => JoinerTakes(i)]_vars

\* Every thread in the ready queue gets its turn, unless it is cancelled or the
\* process ends: the queue is FIFO and each turn ends.
ReadyThreadRuns ==
    \A t \in Thread :
        (process = "running" /\ t \in Ready)
            ~> (running = t \/ state[t] # Alive \/ process # "running")

\* Once the target of a join has ended, the join returns.
JoinOfEndedReturns ==
    \A w \in Thread :
        (process = "running" /\ \E t \in Thread : Joins(w, t) /\ state[t] >= 0)
            ~> (joining[w] = -1 \/ state[w] >= 0 \/ process # "running")
================================================================================
