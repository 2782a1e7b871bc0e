------------------------------- MODULE WutProofs -------------------------------
(***************************************************************************)
(* Theorems about Wut, for every number of threads, capacity and set of    *)
(* statuses.  The first part holds whatever threads clients cancel.  The   *)
(* second is about clients that cancel ready threads only: the links form  *)
(* one list of the ready threads, joiners and targets name each other, the *)
(* library's null pointers are followed in a deadlock only, and every call *)
(* does what UserThreads promises.                                         *)
(***************************************************************************)
EXTENDS WutRefinement, LeastElement, TLAPS, FiniteSetTheorems, SequenceTheorems

--------------------------------------------------------------------------------
(* Lemmas about the queue operators and the table.                          *)

\* The queue macros write only nodes they were given or found in the links.
LEMMA QueueTypes ==
    ASSUME NEW N, NULL \in N, NEW R \in SUBSET N, NULL \in R,
           NEW q \in [next : [N -> R], prev : [N -> R]]
    PROVE  /\ \A e \in R : InsertTail(q, e) \in [next : [N -> R], prev : [N -> R]]
           /\ \A e \in N : Remove(q, e) \in [next : [N -> R], prev : [N -> R]]
           /\ First(q) \in R
BY DEF InsertTail, Remove, First, NULL

--------------------------------------------------------------------------------
(* The invariant: besides the types and the table's ids, the thread that    *)
(* executes is the queue's first one, for it is what each call works on.    *)

\* While the program runs, the caller's entry is at the front of the queue.
CallerIsFirst == process = "running" => HeadThread = running

SlotInv == TypeOK /\ SlotsHoldTheirThread /\ CallerIsFirst

Queues(Refs) == [next : [Nodes -> Refs], prev : [Nodes -> Refs]]

\* TypeOK's types, with the derived ones the steps use.
LEMMA Types ==
    ASSUME SlotInv
    PROVE  /\ Created \subseteq Thread /\ NULL \notin Created /\ 1 \in Thread
           /\ threads_capacity \in Nat \ {0}
           /\ Slots \subseteq Nat
           /\ HeadThread \in {NULL} \cup Created
           /\ ready_queue \in Queues({NULL} \cup Created)
           /\ {NULL} \cup Created \subseteq Nodes /\ NULL \in Nodes
<1>1. Created \subseteq Thread /\ NULL \notin Created /\ 1 \in Thread
  BY WutAssumption DEF SlotInv, TypeOK, Created, Thread, NULL
<1>2. threads_capacity \in Nat \ {0}
  <2>1. id[1] \in Slots /\ threads_capacity \in Nat
    BY <1>1 DEF SlotInv, TypeOK
  <2> QED BY <2>1 DEF Slots
<1>3. Slots \subseteq Nat
  BY <1>2 DEF Slots
<1>4. {NULL} \cup Created \subseteq Nodes /\ NULL \in Nodes
  BY <1>1 DEF Nodes
<1>5. ready_queue \in Queues({NULL} \cup Created)
  BY DEF SlotInv, TypeOK, Queues
<1>6. HeadThread \in {NULL} \cup Created
  BY <1>4, <1>5 DEF Queues, HeadThread, First, NULL
<1> QED BY <1>1, <1>2, <1>3, <1>4, <1>5, <1>6

\* The table wut_create allocates from: the old slots are as they were, and the
\* new ones, if it was expanded, are empty.
LEMMA RoomyTableType ==
    ASSUME SlotInv
    PROVE  /\ RoomyCapacity \in Nat /\ RoomyCapacity >= threads_capacity
           /\ RoomyTable \in [0 .. RoomyCapacity - 1 -> {NULL} \cup Created]
           /\ Slots \subseteq DOMAIN RoomyTable
           /\ \A i \in DOMAIN RoomyTable :
                 RoomyTable[i] = IF i \in Slots THEN threads[i] ELSE NULL
<1>1. /\ threads \in [Slots -> {NULL} \cup Created]
      /\ threads_capacity \in Nat \ {0}
      /\ threads_count \in Nat
  BY Types DEF SlotInv, TypeOK, Thread
<1>2. CASE threads_count >= threads_capacity
  BY <1>1, <1>2 DEF RoomyTable, RoomyCapacity, ThreadsExpand, Slots
<1>3. CASE ~(threads_count >= threads_capacity)
  BY <1>1, <1>3 DEF RoomyTable, RoomyCapacity, Slots
<1> QED BY <1>2, <1>3

\* The table has an empty slot.  Unless it was just expanded it has more slots
\* than threads were ever created, and no two slots hold the same thread.
LEMMA RoomyTableHasRoom ==
    ASSUME SlotInv
    PROVE  CreationFindsSlot
<1>1. /\ threads \in [Slots -> {NULL} \cup Created]
      /\ threads_capacity \in Nat \ {0}
      /\ threads_count \in Nat \ {0}
  BY Types DEF SlotInv, TypeOK, Thread
<1>2. CASE threads_count >= threads_capacity
  <2>1. threads_capacity \in DOMAIN RoomyTable /\ threads_capacity \notin Slots
    BY <1>1, <1>2, RoomyTableType DEF Slots, RoomyCapacity
  <2>2. RoomyTable[threads_capacity] = NULL
    BY <2>1, RoomyTableType
  <2> QED BY <2>1, <2>2 DEF CreationFindsSlot, EmptySlots
<1>3. CASE threads_count < threads_capacity
  <2> SUFFICES ASSUME \A i \in Slots : threads[i] # NULL PROVE FALSE
    <3>1. RoomyTable = threads
      BY <1>1, <1>3 DEF RoomyTable
    <3>2. DOMAIN threads = Slots
      BY <1>1
    <3> QED BY <3>1, <3>2 DEF CreationFindsSlot, EmptySlots
  <2>1. threads \in [Slots -> Created]
    BY <1>1
  <2>2. IsFiniteSet(Slots) /\ Cardinality(Slots) = threads_capacity
    BY <1>1, FS_Interval DEF Slots
  <2>3. IsFiniteSet(Created) /\ Cardinality(Created) = threads_count
    BY <1>1, FS_Interval DEF Created
  <2>4. PICK i \in Slots, j \in Slots : i # j /\ threads[i] = threads[j]
    <3>1. Cardinality(Created) < Cardinality(Slots)
      BY <1>3, <2>2, <2>3
    <3> QED BY <2>1, <2>2, <2>3, <3>1, FS_PigeonHole
  <2>5. id[threads[i]] = i /\ id[threads[j]] = j
    BY DEF SlotInv, SlotsHoldTheirThread
  <2> QED BY <2>4, <2>5
<1> QED BY <1>1, <1>2, <1>3

\* min_available_id returns an empty slot.
LEMMA MinAvailableIdIsEmpty ==
    ASSUME SlotInv
    PROVE  MinAvailableId(RoomyTable) \in EmptySlots(RoomyTable)
<1> DEFINE S == EmptySlots(RoomyTable)
<1>1. S # {}
  BY RoomyTableHasRoom DEF CreationFindsSlot
<1>2. S \subseteq Nat
  <2>1. DOMAIN RoomyTable \subseteq Nat
    BY RoomyTableType
  <2> QED BY <2>1 DEF EmptySlots
<1>3. \E i \in S : \A j \in S : i <= j
  <2> HIDE DEF S
  <2> QED BY <1>1, <1>2, LeastExists
<1> QED BY <1>3, Zenon DEF MinAvailableId

--------------------------------------------------------------------------------
(* The initial states and each action preserve SlotInv.                     *)

LEMMA InitSlotInv == Init => SlotInv
<1> SUFFICES ASSUME Init PROVE SlotInv
  OBVIOUS
<1> USE DEF Init
<1>1. 1 \in Thread /\ Created = {1} /\ 0 \in Slots
  BY WutAssumption DEF Thread, Created, Slots
<1>2. ready_queue \in Queues({NULL} \cup Created)
  BY <1>1 DEF InsertTail, EmptyQueue, Queues, Nodes, NULL, Thread
<1>3. HeadThread = 1
  BY <1>1 DEF HeadThread, First, InsertTail, EmptyQueue
<1>4. threads \in [Slots -> {NULL} \cup Created]
  BY <1>1 DEF Slots
<1>5. TypeOK
  BY <1>1, <1>2, <1>4, WutAssumption DEF TypeOK, Queues, Slots, Alive
<1>6. SlotsHoldTheirThread
  BY <1>1, WutAssumption DEF SlotsHoldTheirThread, Slots, NULL
<1> QED BY <1>3, <1>5, <1>6 DEF SlotInv, CallerIsFirst

\* What waking the thread of a slot leaves: the queue and the states still have
\* their types.
LEMMA WakeTypes ==
    ASSUME SlotInv, NEW w \in Slots \cup {-1},
           NEW s \in [Thread -> -2 .. 255]
    PROVE  /\ QueueAfterWake(w) \in Queues({NULL} \cup Created)
           /\ StateAfterWake(s, w) \in [Thread -> -2 .. 255]
<1>1. w >= 0 => w \in Slots /\ threads[w] \in {NULL} \cup Created
  BY Types DEF SlotInv, TypeOK
<1>2. QueueAfterWake(w) \in Queues({NULL} \cup Created)
  BY <1>1, Types, QueueTypes DEF QueueAfterWake, Queues
<1>3. StateAfterWake(s, w) \in [Thread -> -2 .. 255]
  <2>1. Alive \in -2 .. 255
    BY DEF Alive
  <2> QED BY <2>1 DEF StateAfterWake
<1> QED BY <1>2, <1>3

\* An action that leaves the table alone keeps the table's part of SlotInv.
LEMMA TableUnchanged ==
    ASSUME SlotInv, UNCHANGED <<table, id>>
    PROVE  /\ Created' = Created /\ Slots' = Slots
           /\ SlotsHoldTheirThread'
           /\ threads_count' \in Thread /\ threads_capacity' \in Nat
           /\ threads' \in [Slots' -> {NULL} \cup Created']
           /\ id' \in [Thread -> Slots']
BY DEF SlotInv, TypeOK, table, Created, Slots, SlotsHoldTheirThread

\* A call that only returns a value, or only ends the process.
LEMMA OnlyRetOrProcess ==
    ASSUME SlotInv, UNCHANGED <<table, tcbs, ready_queue, running, joining>>,
           ret' \in Int,
           process' \in {"running", "exited", "segv", "corrupt", "undefined",
                         "hung", "died"},
           process' = "running" => process = "running"
    PROVE  SlotInv'
<1>1. /\ Created' = Created /\ Slots' = Slots
      /\ SlotsHoldTheirThread'
  BY TableUnchanged DEF tcbs
<1>2. TypeOK'
  BY <1>1, TableUnchanged DEF SlotInv, TypeOK, tcbs
<1>3. CallerIsFirst'
  BY DEF SlotInv, CallerIsFirst, HeadThread
<1> QED BY <1>1, <1>2, <1>3 DEF SlotInv

LEMMA CreateSlotInv ==
    ASSUME SlotInv, wut_create
    PROVE  SlotInv'
<1> DEFINE new == threads_count + 1
           slot == MinAvailableId(RoomyTable)
<1> USE DEF wut_create
<1>1. /\ slot \in DOMAIN RoomyTable /\ RoomyTable[slot] = NULL
      /\ slot \in 0 .. RoomyCapacity - 1
      /\ slot \in Slots => threads[slot] = NULL
  BY MinAvailableIdIsEmpty, RoomyTableType DEF EmptySlots
<1>2. new \in Thread /\ Created' = Created \cup {new} /\ new \notin Created
  <2>1. threads_count \in 1 .. MaxThreads /\ MaxThreads \in Nat
        /\ threads_count < MaxThreads /\ threads_count' = threads_count + 1
    BY WutAssumption DEF SlotInv, TypeOK, Thread
  <2> QED BY <2>1 DEF Thread, Created
<1>3. Slots' = 0 .. RoomyCapacity - 1 /\ Slots \subseteq Slots'
  BY Types, RoomyTableType DEF Slots
<1>4. threads' \in [Slots' -> {NULL} \cup Created']
  BY <1>1, <1>2, <1>3, RoomyTableType
<1>5. id' \in [Thread -> Slots']
  BY <1>1, <1>2, <1>3 DEF SlotInv, TypeOK
<1>6. ready_queue' \in Queues({NULL} \cup Created')
  <2>1. ready_queue \in Queues({NULL} \cup Created')
    BY <1>2, Types DEF Queues
  <2>2. {NULL} \cup Created' \subseteq Nodes /\ new \in {NULL} \cup Created'
    BY <1>2, Types DEF Nodes
  <2> QED BY <2>1, <2>2, Types, QueueTypes DEF Queues
<1>7. running' = running /\ process' \in {process, "corrupt"} /\ ret' = slot
      /\ (process' = "running" => HeadThread' = running')
  BY DEF ReturnToCaller, CanCall, HeadThread
<1>8. TypeOK'
  <2>1. slot \in Int
    BY <1>1
  <2> HIDE DEF slot
  <2>2. block_id' \in [Thread -> Slots' \cup {-1}]
    BY <1>3 DEF SlotInv, TypeOK
  <2>3. joining' \in [Thread -> Slots' \cup {-1}]
    BY <1>3 DEF SlotInv, TypeOK
  <2>4. state' \in [Thread -> -2 .. 255] /\ ent' \in [Thread -> BOOLEAN]
    <3>1. Alive \in -2 .. 255
      BY DEF Alive
    <3> QED BY <3>1 DEF SlotInv, TypeOK
  <2>5. threads_count' \in Thread /\ threads_capacity' \in Nat
    BY <1>2, RoomyTableType
  <2>6. running' \in Created' /\ ret' \in Int
        /\ process' \in {"running", "exited", "segv", "corrupt", "undefined",
                         "hung", "died"}
    BY <1>2, <1>7, <2>1 DEF SlotInv, TypeOK
  <2> QED BY <1>4, <1>5, <1>6, <2>2, <2>3, <2>4, <2>5, <2>6 DEF TypeOK, Queues
<1>9. SlotsHoldTheirThread'
  <2> SUFFICES ASSUME NEW i \in Slots', threads'[i] # NULL
               PROVE  id'[threads'[i]] = i
    BY DEF SlotsHoldTheirThread
  <2>1. id' = [id EXCEPT ![new] = slot] /\ id \in [Thread -> Slots]
    BY DEF SlotInv, TypeOK
  <2>2. CASE i = slot
    BY <1>1, <1>2, <2>1, <2>2, RoomyTableType
  <2>3. CASE i # slot
    <3>1. threads'[i] = RoomyTable[i] /\ i \in DOMAIN RoomyTable
      BY <1>3, <2>3, RoomyTableType
    <3>2. i \in Slots /\ threads[i] # NULL /\ threads'[i] = threads[i]
      BY <3>1, RoomyTableType
    <3>3. threads[i] \in Created /\ threads[i] # new
      BY <1>2, <3>2 DEF SlotInv, TypeOK
    <3> QED BY <2>1, <3>2, <3>3, Types DEF SlotInv, SlotsHoldTheirThread
  <2> QED BY <2>2, <2>3
<1> QED BY <1>7, <1>8, <1>9 DEF SlotInv, CallerIsFirst

\* An action that ends the process with a fault changes nothing else.
LEMMA SegfaultSlotInv ==
    ASSUME SlotInv, Segfault
    PROVE  SlotInv'
BY OnlyRetOrProcess DEF Segfault, table, tcbs, SlotInv, TypeOK

\* A call that returns an error.
LEMMA ReturnsErrorSlotInv ==
    ASSUME SlotInv, ReturnsError
    PROVE  SlotInv'
BY OnlyRetOrProcess DEF ReturnsError, SlotInv, TypeOK

LEMMA ExitSlotInv ==
    ASSUME SlotInv, NEW status \in Int, Exit(status)
    PROVE  SlotInv'
<1> DEFINE waiter == block_id[HeadThread]
           queue == Remove(QueueAfterWake(waiter), HeadThread)
<1>1. CASE Segfault
  BY <1>1, SegfaultSlotInv
<1>2. CASE ~Segfault
  <2>1. /\ state' = StateAfterWake([state EXCEPT ![HeadThread] = status % 256],
                                   waiter)
        /\ ent' = [ent EXCEPT ![HeadThread] = FALSE]
        /\ ready_queue' = queue
        /\ IF IsEmpty(queue)
           THEN process' = "exited" /\ running' = running
           ELSE process' = process /\ running' = First(queue)
        /\ UNCHANGED <<table, id, block_id, joining, ret>>
    BY <1>2 DEF Exit
  <2>2. HeadThread \in Created /\ waiter \in Slots \cup {-1}
    BY Types DEF Exit, CanCall, SlotInv, CallerIsFirst, TypeOK
  <2>3. /\ Created' = Created /\ Slots' = Slots /\ SlotsHoldTheirThread'
        /\ threads_count' \in Thread /\ threads_capacity' \in Nat
        /\ threads' \in [Slots' -> {NULL} \cup Created']
        /\ id' \in [Thread -> Slots']
    BY <2>1, TableUnchanged
  <2>4. QueueAfterWake(waiter) \in Queues({NULL} \cup Created)
    BY <2>2, WakeTypes DEF SlotInv, TypeOK
  <2>5. queue \in Queues({NULL} \cup Created) /\ First(queue) \in {NULL} \cup Created
    BY <2>2, <2>4, Types, QueueTypes DEF Queues
  <2>6. [state EXCEPT ![HeadThread] = status % 256] \in [Thread -> -2 .. 255]
    <3>1. status % 256 \in -2 .. 255
      OBVIOUS
    <3> QED BY <3>1 DEF SlotInv, TypeOK
  <2>7. state' \in [Thread -> -2 .. 255]
    BY <2>1, <2>2, <2>6, WakeTypes
  <2>8. running' \in Created /\ process' \in {process, "exited"}
        /\ (process' = "running" => First(queue) = running')
    BY <2>1, <2>5 DEF SlotInv, TypeOK, IsEmpty, NULL, Exit, CanCall
  <2>9. TypeOK'
    <3> HIDE DEF queue, waiter
    <3> QED BY <2>1, <2>3, <2>5, <2>7, <2>8 DEF SlotInv, TypeOK, Queues
  <2>10. CallerIsFirst'
    BY <2>1, <2>8 DEF CallerIsFirst, HeadThread
  <2> QED BY <2>3, <2>9, <2>10 DEF SlotInv
<1> QED BY <1>1, <1>2

LEMMA CancelSlotInv ==
    ASSUME SlotInv, wut_cancel
    PROVE  SlotInv'
<1>1. PICK i \in ArgumentIds : \/ Cancels(i) \/ CancelFaults(i) \/ CancelHangs(i)
                               \/ CancelFails(i) \/ ReadsPastTable(i)
  BY DEF wut_cancel
<1>2. CASE Cancels(i)
  <2> DEFINE t == threads[i]
             queue == Remove(QueueAfterWake(CancelWakes(i)), t)
  <2>1. i \in Slots /\ t \in {NULL} \cup Created /\ t # NULL
    BY <1>2 DEF Cancels, Cancellable, RejectedId, SlotInv, TypeOK
  <2>2. BlockIdAfterCancel(i) \in [Thread -> Slots \cup {-1}]
    BY DEF BlockIdAfterCancel, SlotInv, TypeOK
  <2>3. CancelWakes(i) \in Slots \cup {-1}
    BY <2>1, <2>2, Types DEF CancelWakes
  <2>4. /\ QueueAfterWake(CancelWakes(i)) \in Queues({NULL} \cup Created)
        /\ StateAfterWake(state, CancelWakes(i)) \in [Thread -> -2 .. 255]
    BY <2>3, WakeTypes DEF SlotInv, TypeOK
  <2>5. queue \in Queues({NULL} \cup Created)
    BY <2>1, <2>4, Types, QueueTypes DEF Queues
  <2>6. /\ block_id' = BlockIdAfterCancel(i)
        /\ state' = [StateAfterWake(state, CancelWakes(i))
                        EXCEPT ![t] = CancelledStatus]
        /\ ent' = [ent EXCEPT ![t] = FALSE]
        /\ ready_queue' = queue
        /\ running' = running /\ ret' = 0
        /\ process' \in {process, "corrupt"}
        /\ (process' = "running" => First(queue) = running)
        /\ UNCHANGED <<table, id, joining>>
    BY <1>2 DEF Cancels, ReturnToCaller, Cancellable, CanCall
  <2>7. state' \in [Thread -> -2 .. 255]
    <3>1. CancelledStatus \in -2 .. 255
      BY DEF CancelledStatus
    <3> QED BY <2>4, <2>6, <3>1
  <2>8. /\ Created' = Created /\ Slots' = Slots /\ SlotsHoldTheirThread'
        /\ threads_count' \in Thread /\ threads_capacity' \in Nat
        /\ threads' \in [Slots' -> {NULL} \cup Created']
        /\ id' \in [Thread -> Slots']
    BY <2>6, TableUnchanged
  <2>9. TypeOK'
    <3> HIDE DEF queue, t
    <3> QED BY <2>2, <2>5, <2>6, <2>7, <2>8 DEF SlotInv, TypeOK, Queues
  <2>10. CallerIsFirst'
    BY <2>6 DEF CallerIsFirst, HeadThread
  <2> QED BY <2>8, <2>9, <2>10 DEF SlotInv
<1>3. CASE CancelFaults(i)
  BY <1>3, SegfaultSlotInv DEF CancelFaults
<1>4. CASE CancelHangs(i)
  BY <1>4, OnlyRetOrProcess DEF CancelHangs, SlotInv, TypeOK
<1>5. CASE CancelFails(i)
  BY <1>5, ReturnsErrorSlotInv DEF CancelFails
<1>6. CASE ReadsPastTable(i)
  BY <1>6, ReturnsErrorSlotInv, OnlyRetOrProcess DEF ReadsPastTable, SlotInv, TypeOK
<1> QED BY <1>1, <1>2, <1>3, <1>4, <1>5, <1>6

\* Emptying one slot of the table, as both ends of wut_join do.
LEMMA EmptiedSlot ==
    ASSUME SlotInv, NEW i \in Slots,
           threads' = [threads EXCEPT ![i] = NULL],
           UNCHANGED <<threads_count, threads_capacity, tcbs>>
    PROVE  /\ Created' = Created /\ Slots' = Slots
           /\ SlotsHoldTheirThread'
           /\ threads' \in [Slots' -> {NULL} \cup Created']
<1>1. Created' = Created /\ Slots' = Slots
  BY DEF Created, Slots
<1>2. threads' \in [Slots' -> {NULL} \cup Created']
  BY <1>1 DEF SlotInv, TypeOK
<1>3. SlotsHoldTheirThread'
  BY <1>1 DEF SlotInv, TypeOK, SlotsHoldTheirThread, tcbs
<1> QED BY <1>1, <1>2, <1>3

LEMMA JoinSlotInv ==
    ASSUME SlotInv, wut_join
    PROVE  SlotInv'
<1>1. PICK i \in ArgumentIds :
          JoinFails(i) \/ JoinReaps(i) \/ JoinBlocks(i) \/ ReadsPastTable(i)
  BY DEF wut_join
<1>2. CASE JoinFails(i)
  BY <1>2, ReturnsErrorSlotInv DEF JoinFails
<1>3. CASE JoinReaps(i)
  <2>1. i \in Slots /\ threads[i] \in Created
    BY <1>3 DEF JoinReaps, Joinable, RejectedId, SlotInv, TypeOK
  <2>2. state[threads[i]] \in Int
    <3>1. threads[i] \in Thread
      BY <2>1, Types
    <3>2. state[threads[i]] \in -2 .. 255
      BY <3>1 DEF SlotInv, TypeOK
    <3> QED BY <3>2
  <2>3. /\ Created' = Created /\ Slots' = Slots /\ SlotsHoldTheirThread'
        /\ threads' \in [Slots' -> {NULL} \cup Created']
    BY <1>3, <2>1, EmptiedSlot DEF JoinReaps
  <2>4. TypeOK'
    BY <1>3, <2>2, <2>3 DEF JoinReaps, SlotInv, TypeOK, tcbs
  <2>5. CallerIsFirst'
    BY <1>3 DEF JoinReaps, SlotInv, CallerIsFirst, HeadThread
  <2> QED BY <2>3, <2>4, <2>5 DEF SlotInv
<1>4. CASE JoinBlocks(i)
  <2> DEFINE queue == Remove(ready_queue, HeadThread)
  <2>1. /\ i \in Slots
        /\ state' = [state EXCEPT ![HeadThread] = Blocked]
        /\ block_id' = [block_id EXCEPT ![threads[i]] = id[HeadThread]]
        /\ ready_queue' = queue
        /\ joining' = [joining EXCEPT ![HeadThread] = i]
        /\ IF IsEmpty(queue)
           THEN process' = "segv" /\ running' = running
           ELSE process' = process /\ running' = First(queue)
        /\ UNCHANGED <<table, id, ent, ret>>
    BY <1>4 DEF JoinBlocks, Joinable
  <2>2. HeadThread \in Created /\ id[HeadThread] \in Slots /\ process = "running"
    BY <1>4, Types
    DEF JoinBlocks, Joinable, CanCall, SlotInv, CallerIsFirst, TypeOK
  <2>3. queue \in Queues({NULL} \cup Created) /\ First(queue) \in {NULL} \cup Created
    BY <2>2, Types, QueueTypes DEF Queues
  <2>4. state' \in [Thread -> -2 .. 255]
    <3>1. Blocked \in -2 .. 255
      BY DEF Blocked
    <3> QED BY <2>1, <3>1 DEF SlotInv, TypeOK
  <2>5. block_id' \in [Thread -> Slots \cup {-1}]
    BY <2>1, <2>2 DEF SlotInv, TypeOK
  <2>6. joining' \in [Thread -> Slots \cup {-1}]
    BY <2>1 DEF SlotInv, TypeOK
  <2>7. running' \in Created /\ process' \in {"running", "segv"}
        /\ (process' = "running" => First(queue) = running')
    BY <2>1, <2>2, <2>3 DEF SlotInv, TypeOK, IsEmpty, NULL
  <2>8. /\ Created' = Created /\ Slots' = Slots /\ SlotsHoldTheirThread'
        /\ threads_count' \in Thread /\ threads_capacity' \in Nat
        /\ threads' \in [Slots' -> {NULL} \cup Created']
        /\ id' \in [Thread -> Slots']
    BY <2>1, TableUnchanged
  <2>9. TypeOK'
    <3> HIDE DEF queue
    <3> QED BY <2>1, <2>3, <2>4, <2>5, <2>6, <2>7, <2>8 DEF SlotInv, TypeOK, Queues
  <2>10. CallerIsFirst'
    BY <2>1, <2>7 DEF CallerIsFirst, HeadThread
  <2> QED BY <2>8, <2>9, <2>10 DEF SlotInv
<1>5. CASE ReadsPastTable(i)
  BY <1>5, ReturnsErrorSlotInv, OnlyRetOrProcess DEF ReadsPastTable, SlotInv, TypeOK
<1> QED BY <1>1, <1>2, <1>3, <1>4, <1>5

LEMMA JoinReturnsSlotInv ==
    ASSUME SlotInv, JoinReturns
    PROVE  SlotInv'
<1> DEFINE i == joining[running]
<1>1. running \in Thread /\ i \in Slots
  BY Types DEF JoinReturns, SlotInv, TypeOK
<1>2. CASE Segfault
  BY <1>2, SegfaultSlotInv
<1>3. CASE ~Segfault
  <2>1. /\ threads[i] # NULL
        /\ ret' = state[threads[i]]
        /\ threads' = [threads EXCEPT ![i] = NULL]
        /\ joining' = [joining EXCEPT ![running] = -1]
        /\ UNCHANGED <<threads_count, threads_capacity, tcbs, ready_queue,
                       running, process>>
    BY <1>3 DEF JoinReturns
  <2>2. ret' \in Int
    BY <1>1, <2>1, Types DEF SlotInv, TypeOK
  <2>3. /\ Created' = Created /\ Slots' = Slots /\ SlotsHoldTheirThread'
        /\ threads' \in [Slots' -> {NULL} \cup Created']
    BY <1>1, <2>1, EmptiedSlot
  <2>4. joining' \in [Thread -> Slots \cup {-1}]
    BY <2>1 DEF SlotInv, TypeOK
  <2>5. TypeOK'
    BY <2>1, <2>2, <2>3, <2>4 DEF SlotInv, TypeOK, tcbs
  <2>6. CallerIsFirst'
    BY <2>1 DEF SlotInv, CallerIsFirst, HeadThread
  <2> QED BY <2>3, <2>5, <2>6 DEF SlotInv
<1> QED BY <1>2, <1>3

LEMMA YieldSlotInv ==
    ASSUME SlotInv, wut_yield
    PROVE  SlotInv'
<1>1. CASE YieldFails
  BY <1>1, ReturnsErrorSlotInv DEF YieldFails
<1>2. CASE YieldSwitches
  <2> DEFINE h == HeadThread
             removed == Remove(ready_queue, h)
             queue == InsertTail(removed, h)
  <2>1. h \in Created /\ Successor(ready_queue, h) # NULL
    BY <1>2 DEF YieldSwitches, CanCall, SlotInv, CallerIsFirst, TypeOK
  <2>2. removed \in Queues({NULL} \cup Created)
    BY <2>1, Types, QueueTypes DEF Queues
  <2>3. queue \in Queues({NULL} \cup Created)
    <3> HIDE DEF removed
    <3> QED BY <2>1, <2>2, Types, QueueTypes DEF Queues
  <2>4. First(queue) # NULL
    BY <2>1, <2>2, Types
    DEF First, Successor, InsertTail, Remove, Queues, HeadThread, NULL
  <2>5. First(queue) \in Created
    <3> HIDE DEF queue
    <3> QED BY <2>3, <2>4, Types DEF First, Queues, NULL
  <2>6. /\ ready_queue' = queue /\ running' = First(queue) /\ ret' = 0
        /\ UNCHANGED <<table, tcbs, joining, process>>
    BY <1>2 DEF YieldSwitches
  <2>7. /\ Created' = Created /\ Slots' = Slots /\ SlotsHoldTheirThread'
        /\ threads_count' \in Thread /\ threads_capacity' \in Nat
        /\ threads' \in [Slots' -> {NULL} \cup Created']
        /\ id' \in [Thread -> Slots']
    BY <2>6, TableUnchanged DEF tcbs
  <2>8. TypeOK'
    <3> HIDE DEF queue
    <3> QED BY <2>3, <2>5, <2>6, <2>7 DEF SlotInv, TypeOK, Queues, tcbs
  <2>9. CallerIsFirst'
    BY <2>6 DEF CallerIsFirst, HeadThread
  <2> QED BY <2>7, <2>8, <2>9 DEF SlotInv
<1> QED BY <1>1, <1>2 DEF wut_yield

\* SlotInv is inductive.
LEMMA StepSlotInv == SlotInv /\ [Next]_vars => SlotInv'
<1> SUFFICES ASSUME SlotInv, [Next]_vars PROVE SlotInv'
  OBVIOUS
<1>1. CASE wut_create
  BY <1>1, CreateSlotInv
<1>2. CASE CreateDies
  BY <1>2, OnlyRetOrProcess DEF CreateDies, SlotInv, TypeOK
<1>3. CASE wut_exit
  BY <1>3, ExitSlotInv, WutAssumption DEF wut_exit
<1>4. CASE RunReturns
  <2>1. state[running] \in Int
    BY Types DEF SlotInv, TypeOK
  <2> QED BY <1>4, <2>1, ExitSlotInv DEF RunReturns
<1>5. CASE MainReturns
  BY <1>5, OnlyRetOrProcess DEF MainReturns, SlotInv, TypeOK
<1>6. CASE wut_cancel
  BY <1>6, CancelSlotInv
<1>7. CASE wut_join
  BY <1>7, JoinSlotInv
<1>8. CASE JoinReturns
  BY <1>8, JoinReturnsSlotInv
<1>9. CASE wut_yield
  BY <1>9, YieldSlotInv
<1>10. CASE UNCHANGED vars
  BY <1>10, OnlyRetOrProcess DEF vars, table, tcbs, SlotInv, TypeOK
<1> QED BY <1>1, <1>2, <1>3, <1>4, <1>5, <1>6, <1>7, <1>8, <1>9, <1>10
        DEF Next, Ended

--------------------------------------------------------------------------------
(* The theorems.                                                            *)

\* SlotInv holds in every reachable state, whatever clients cancel.
THEOREM SlotInvHolds == Spec => []SlotInv
BY InitSlotInv, StepSlotInv, PTL DEF Spec

\* Every variable keeps its type: no call of any client puts an id outside the
\* table, or a thread that was not created, in the table, a link or a field.
THEOREM TypeCorrect == Spec => []TypeOK
<1>1. SlotInv => TypeOK
  BY DEF SlotInv
<1> QED BY <1>1, SlotInvHolds, PTL

\* Each slot holds the thread whose id it is, for clients that cancel and join
\* in any order: creations, expansions and reuse never mix two threads' slots.
THEOREM TableIsRight == Spec => []SlotsHoldTheirThread
<1>1. SlotInv => SlotsHoldTheirThread
  BY DEF SlotInv
<1> QED BY <1>1, SlotInvHolds, PTL

\* wut_create always finds a slot, so the death at the end of min_available_id
\* is unreachable: a table that is not expanded has more slots than threads
\* were ever created, and a thread is in at most one of them.
THEOREM CreationNeverFails == Spec => []CreationFindsSlot
<1>1. SlotInv => CreationFindsSlot
  BY RoomyTableHasRoom
<1> QED BY <1>1, SlotInvHolds, PTL

--------------------------------------------------------------------------------
(* Lists.  Linked(q, S) says what Doubly does not: the links form one list   *)
(* that starts and ends at the head and visits every element of S once.      *)

\* f[1], ..., f[n] are the entries in order; f[0] and f[n + 1] are the head.
Lists(q, n, f) ==
    /\ f \in [0 .. n + 1 -> Nodes]
    /\ f[0] = NULL /\ f[n + 1] = NULL
    /\ \A k \in 1 .. n : f[k] # NULL
    /\ \A j, k \in 1 .. n : f[j] = f[k] => j = k
    /\ \A k \in 0 .. n : q.next[f[k]] = f[k + 1] /\ q.prev[f[k + 1]] = f[k]

Entries(n, f) == {f[k] : k \in 1 .. n}

Linked(q, S) ==
    \E n \in Nat : \E f \in [0 .. n + 1 -> Nodes] : Lists(q, n, f) /\ Entries(n, f) = S

\* The first entry of a list, and the links of a list in both directions.
LEMMA LinkedEnds ==
    ASSUME NEW q, NEW S, Linked(q, S)
    PROVE  /\ S \subseteq Nodes \ {NULL}
           /\ First(q) = NULL <=> S = {}
           /\ First(q) # NULL => First(q) \in S
           /\ Doubly(q, {NULL} \cup S)
<1>0. PICK n \in Nat :
          \E f \in [0 .. n + 1 -> Nodes] : Lists(q, n, f) /\ Entries(n, f) = S
  BY DEF Linked
<1>1. PICK f \in [0 .. n + 1 -> Nodes] : Lists(q, n, f) /\ Entries(n, f) = S
  BY <1>0
<1>2. S \subseteq Nodes \ {NULL}
  BY <1>1 DEF Lists, Entries
<1>3. First(q) = f[1]
  BY <1>1 DEF Lists, First, NULL
<1>4. First(q) = NULL <=> S = {}
  <2>1. CASE n = 0
    BY <1>1, <1>3, <2>1 DEF Lists, Entries
  <2>2. CASE n > 0
    <3>1. 1 \in 1 .. n
      BY <2>2
    <3> QED BY <1>1, <1>3, <3>1 DEF Lists, Entries
  <2> QED BY <2>1, <2>2
<1>5. First(q) # NULL => First(q) \in S
  <2>1. CASE n = 0
    BY <1>1, <1>3, <2>1 DEF Lists
  <2>2. CASE n > 0
    <3>1. 1 \in 1 .. n
      BY <2>2
    <3> QED BY <1>1, <1>3, <3>1 DEF Entries
  <2> QED BY <2>1, <2>2
<1>6. \A k \in 0 .. n + 1 : f[k] \in {NULL} \cup S
  BY <1>1 DEF Lists, Entries
<1>7. \A x \in {NULL} \cup S : \E k \in 0 .. n : x = f[k]
  BY <1>1 DEF Lists, Entries
<1>8. \A x \in {NULL} \cup S : \E k \in 0 .. n : x = f[k + 1]
  <2> SUFFICES ASSUME NEW x \in {NULL} \cup S PROVE \E k \in 0 .. n : x = f[k + 1]
    OBVIOUS
  <2>1. CASE x = NULL
    BY <1>1, <2>1 DEF Lists
  <2>2. CASE x # NULL
    <3>1. PICK k \in 1 .. n : x = f[k]
      BY <1>1, <2>2 DEF Entries
    <3>2. k - 1 \in 0 .. n /\ x = f[(k - 1) + 1]
      BY <3>1
    <3> QED BY <3>2
  <2> QED BY <2>1, <2>2
<1>9. ASSUME NEW x \in {NULL} \cup S
      PROVE  /\ q.next[x] \in {NULL} \cup S /\ q.prev[q.next[x]] = x
             /\ q.prev[x] \in {NULL} \cup S /\ q.next[q.prev[x]] = x
  <2>1. PICK k \in 0 .. n : x = f[k]
    BY <1>7
  <2>2. PICK j \in 0 .. n : x = f[j + 1]
    BY <1>8
  <2>3. q.next[x] = f[k + 1] /\ q.prev[f[k + 1]] = x /\ k + 1 \in 0 .. n + 1
    BY <1>1, <2>1 DEF Lists
  <2>4. q.prev[x] = f[j] /\ q.next[f[j]] = x /\ j \in 0 .. n + 1
    BY <1>1, <2>2 DEF Lists
  <2> QED BY <1>6, <2>3, <2>4
<1>10. Doubly(q, {NULL} \cup S)
  BY <1>9 DEF Doubly
<1> QED BY <1>2, <1>4, <1>5, <1>10

\* The list f of n entries with one more entry, or without its j-th one.
Appended(n, f, e) ==
    [k \in 0 .. n + 2 |-> IF k <= n THEN f[k] ELSE IF k = n + 1 THEN e ELSE NULL]
Without(n, f, j) == [k \in 0 .. n |-> IF k < j THEN f[k] ELSE f[k + 1]]

\* An entry that is not in the list is added after the last one.
LEMMA ListInsert ==
    ASSUME NEW q \in Queues(Nodes), NEW n \in Nat, NEW f \in [0 .. n + 1 -> Nodes],
           Lists(q, n, f), NEW e \in Nodes \ {NULL}, e \notin Entries(n, f)
    PROVE  /\ Lists(InsertTail(q, e), n + 1, Appended(n, f, e))
           /\ Entries(n + 1, Appended(n, f, e)) = Entries(n, f) \cup {e}
           /\ Appended(n, f, e) \in [0 .. (n + 1) + 1 -> Nodes]
<1> DEFINE r == InsertTail(q, e)
           g == [k \in 0 .. n + 2 |-> IF k <= n THEN f[k]
                                      ELSE IF k = n + 1 THEN e ELSE NULL]
<1>1. Lists(q, n, f)
  OBVIOUS
<1>2. q.prev[0] = f[n] /\ NULL = 0
  BY <1>1 DEF Lists, NULL
<1>3. /\ r.next = [q.next EXCEPT ![e] = 0, ![f[n]] = e]
      /\ r.prev = [q.prev EXCEPT ![e] = f[n], ![0] = e]
  BY <1>2 DEF InsertTail
<1>4. \A k \in 0 .. n : f[k] \in Nodes /\ f[k] # e
  BY <1>1 DEF Lists, Entries
<1>5. \A j, k \in 0 .. n : f[j] = f[k] => j = k
  BY <1>1 DEF Lists
<1>6. q.next \in [Nodes -> Nodes] /\ q.prev \in [Nodes -> Nodes]
  BY DEF Queues
<1>7. \A k \in 0 .. n + 1 : r.next[g[k]] = g[k + 1] /\ r.prev[g[k + 1]] = g[k]
  <2> SUFFICES ASSUME NEW k \in 0 .. n + 1
               PROVE  r.next[g[k]] = g[k + 1] /\ r.prev[g[k + 1]] = g[k]
    OBVIOUS
  <2> HIDE DEF r
  <2>1. CASE k < n
    <3>1. g[k] = f[k] /\ g[k + 1] = f[k + 1] /\ k + 1 \in 1 .. n
      BY <2>1
    <3>2. f[k] # f[n] /\ f[k] # e /\ f[k + 1] # NULL /\ f[k + 1] # e
      BY <1>1, <1>4, <1>5, <2>1, <3>1 DEF Lists
    <3>3. q.next[f[k]] = f[k + 1] /\ q.prev[f[k + 1]] = f[k]
      BY <1>1, <2>1 DEF Lists
    <3> QED BY <1>2, <1>3, <1>4, <1>6, <3>1, <3>2, <3>3
  <2>2. CASE k = n
    <3>1. g[k] = f[n] /\ g[k + 1] = e /\ f[n] # e /\ f[n] \in Nodes
      BY <1>4, <2>2
    <3> QED BY <1>2, <1>3, <1>6, <3>1
  <2>3. CASE k = n + 1
    <3>1. g[k] = e /\ g[k + 1] = NULL /\ f[n] # e /\ NULL \in Nodes
      BY <1>4, <2>3 DEF Nodes
    <3> QED BY <1>2, <1>3, <1>6, <3>1
  <2> QED BY <2>1, <2>2, <2>3
<1>8. g \in [0 .. (n + 1) + 1 -> Nodes]
  BY <1>4 DEF Nodes
<1>9. Lists(r, n + 1, g)
  <2>1. g[0] = NULL /\ g[(n + 1) + 1] = NULL
    BY <1>1 DEF Lists
  <2>2. \A k \in 1 .. n + 1 : g[k] # NULL
    BY <1>1 DEF Lists
  <2>3. \A j, k \in 1 .. n + 1 : g[j] = g[k] => j = k
    BY <1>4, <1>5
  <2> HIDE DEF g, r
  <2> QED BY <1>7, <1>8, <2>1, <2>2, <2>3 DEF Lists
<1>10. Entries(n + 1, g) = Entries(n, f) \cup {e}
  <2>1. \A k \in 1 .. n : g[k] = f[k]
    OBVIOUS
  <2>2. g[n + 1] = e /\ n + 1 \in 1 .. n + 1
    OBVIOUS
  <2> HIDE DEF g
  <2> QED BY <1>1, <2>1, <2>2 DEF Entries
<1>11. g = Appended(n, f, e)
  BY DEF Appended
<1> HIDE DEF g
<1> QED BY <1>8, <1>9, <1>10, <1>11

LEMMA LinkedInsert ==
    ASSUME NEW S, NEW q \in Queues(Nodes), Linked(q, S),
           NEW e \in Nodes \ {NULL}, e \notin S
    PROVE  /\ Linked(InsertTail(q, e), S \cup {e})
           /\ First(InsertTail(q, e)) = IF S = {} THEN e ELSE First(q)
<1>0. PICK n \in Nat :
          \E f \in [0 .. n + 1 -> Nodes] : Lists(q, n, f) /\ Entries(n, f) = S
  BY DEF Linked
<1>1. PICK f \in [0 .. n + 1 -> Nodes] : Lists(q, n, f) /\ Entries(n, f) = S
  BY <1>0
<1> DEFINE r == InsertTail(q, e)
           g == Appended(n, f, e)
<1>2. /\ Lists(r, n + 1, g) /\ Entries(n + 1, g) = S \cup {e}
      /\ g \in [0 .. (n + 1) + 1 -> Nodes]
  BY <1>1, ListInsert
<1>3. Linked(r, S \cup {e})
  <2> HIDE DEF g, r
  <2>1. n + 1 \in Nat
    OBVIOUS
  <2> QED BY <1>2, <2>1 DEF Linked
<1>4. First(r) = IF S = {} THEN e ELSE First(q)
  <2>1. First(r) = g[1] /\ First(q) = f[1]
    <3> HIDE DEF g, r
    <3> QED BY <1>1, <1>2 DEF Lists, First, NULL
  <2>2. n = 0 <=> S = {}
    <3>1. n > 0 => 1 \in 1 .. n
      OBVIOUS
    <3> QED BY <1>1, <3>1 DEF Entries
  <2>3. CASE n = 0
    BY <2>1, <2>2, <2>3 DEF Appended
  <2>4. CASE n > 0
    BY <2>1, <2>2, <2>4 DEF Appended
  <2> QED BY <2>3, <2>4
<1> QED BY <1>3, <1>4

\* An entry of the list is taken out.
LEMMA ListRemove ==
    ASSUME NEW q \in Queues(Nodes), NEW n \in Nat, NEW f \in [0 .. n + 1 -> Nodes],
           Lists(q, n, f), NEW j \in 1 .. n
    PROVE  /\ Lists(Remove(q, f[j]), n - 1, Without(n, f, j))
           /\ Entries(n - 1, Without(n, f, j)) = Entries(n, f) \ {f[j]}
           /\ Without(n, f, j) \in [0 .. (n - 1) + 1 -> Nodes] /\ n - 1 \in Nat
<1> DEFINE e == f[j]
           S == Entries(n, f)
           r == Remove(q, e)
           g == [k \in 0 .. n |-> IF k < j THEN f[k] ELSE f[k + 1]]
<1>1. Lists(q, n, f) /\ Entries(n, f) = S
  OBVIOUS
<1>2. e = f[j]
  OBVIOUS
<1> HIDE DEF e, S
<1>3. q.prev[e] = f[j - 1] /\ q.next[e] = f[j + 1]
  <2>1. q.next[f[j]] = f[j + 1]
    BY <1>1 DEF Lists
  <2>2. j - 1 \in 0 .. n /\ (j - 1) + 1 = j
    OBVIOUS
  <2>3. q.prev[f[(j - 1) + 1]] = f[j - 1]
    BY <1>1, <2>2 DEF Lists
  <2> QED BY <1>2, <2>1, <2>2, <2>3
<1>4. /\ r.next = [q.next EXCEPT ![f[j - 1]] = f[j + 1]]
      /\ r.prev = [q.prev EXCEPT ![f[j + 1]] = f[j - 1]]
  BY <1>3 DEF Remove
<1>5. \A i, k \in 0 .. n : f[i] = f[k] => i = k
  BY <1>1 DEF Lists
<1>6. \A i, k \in 1 .. n + 1 : f[i] = f[k] => i = k
  BY <1>1 DEF Lists
<1>7. \A k \in 0 .. n + 1 : f[k] \in Nodes
  OBVIOUS
<1>8. q.next \in [Nodes -> Nodes] /\ q.prev \in [Nodes -> Nodes]
  BY DEF Queues
<1>9. \A k \in 0 .. n : q.next[f[k]] = f[k + 1] /\ q.prev[f[k + 1]] = f[k]
  BY <1>1 DEF Lists
<1>10. \A k \in 0 .. n - 1 : r.next[g[k]] = g[k + 1] /\ r.prev[g[k + 1]] = g[k]
  <2> SUFFICES ASSUME NEW k \in 0 .. n - 1
               PROVE  r.next[g[k]] = g[k + 1] /\ r.prev[g[k + 1]] = g[k]
    OBVIOUS
  <2> HIDE DEF r
  <2>1. CASE k < j - 1
    <3>1. g[k] = f[k] /\ g[k + 1] = f[k + 1]
      BY <2>1
    <3>2. f[k] # f[j - 1] /\ f[k + 1] # f[j + 1]
      BY <1>5, <1>6, <2>1
    <3> HIDE DEF g
    <3> QED BY <1>4, <1>7, <1>8, <1>9, <3>1, <3>2
  <2>2. CASE k = j - 1
    <3>1. g[k] = f[j - 1] /\ g[k + 1] = f[j + 1]
      BY <2>2
    <3>2. f[j - 1] \in Nodes /\ f[j + 1] \in Nodes
      BY <1>7
    <3> HIDE DEF g
    <3> QED BY <1>4, <1>8, <3>1, <3>2
  <2>3. CASE k >= j
    <3>1. g[k] = f[k + 1] /\ g[k + 1] = f[(k + 1) + 1]
      BY <2>3
    <3>2. f[k + 1] # f[j - 1] /\ f[(k + 1) + 1] # f[j + 1]
      BY <1>5, <1>6, <2>3
    <3>3. k + 1 \in 0 .. n /\ (k + 1) + 1 \in 0 .. n + 1
      OBVIOUS
    <3>4. q.next[f[k + 1]] = f[(k + 1) + 1] /\ q.prev[f[(k + 1) + 1]] = f[k + 1]
      BY <1>9, <3>3
    <3>5. f[k + 1] \in Nodes /\ f[(k + 1) + 1] \in Nodes
      BY <1>7, <3>3
    <3> HIDE DEF g
    <3> QED BY <1>4, <1>8, <3>1, <3>2, <3>4, <3>5
  <2> QED BY <2>1, <2>2, <2>3
<1>11. g \in [0 .. (n - 1) + 1 -> Nodes] /\ n - 1 \in Nat
  BY <1>7
<1>12. Lists(r, n - 1, g)
  <2>1. g[0] = NULL /\ g[(n - 1) + 1] = NULL
    BY <1>1 DEF Lists
  <2>2. \A k \in 1 .. n - 1 : g[k] # NULL
    BY <1>1 DEF Lists
  <2>3. \A i, k \in 1 .. n - 1 : g[i] = g[k] => i = k
    BY <1>6
  <2> HIDE DEF g, r
  <2> QED BY <1>10, <1>11, <2>1, <2>2, <2>3 DEF Lists
<1>13. Entries(n - 1, g) = S \ {e}
  <2>1. \A k \in 1 .. n - 1 : g[k] \in S /\ g[k] # e
    BY <1>1, <1>2, <1>6 DEF Entries
  <2>2. ASSUME NEW x \in S, x # e PROVE \E k \in 1 .. n - 1 : x = g[k]
    <3>1. PICK i \in 1 .. n : x = f[i] /\ i # j
      BY <1>1, <1>2, <2>2 DEF Entries
    <3>2. CASE i < j
      <4>1. i \in 1 .. n - 1 /\ g[i] = x
        BY <3>1, <3>2
      <4> QED BY <4>1
    <3>3. CASE i > j
      <4>1. i - 1 \in 1 .. n - 1 /\ g[i - 1] = x
        BY <3>1, <3>3
      <4> QED BY <4>1
    <3> QED BY <3>1, <3>2, <3>3
  <2> HIDE DEF g
  <2> QED BY <2>1, <2>2 DEF Entries
<1>14. g = Without(n, f, j)
  BY DEF Without
<1> HIDE DEF g
<1> QED BY <1>11, <1>12, <1>13, <1>14 DEF e, S

\* The first entry stays first unless it is the one that is taken out.
LEMMA LinkedRemove ==
    ASSUME NEW S, NEW q \in Queues(Nodes), Linked(q, S), NEW e \in S
    PROVE  /\ Linked(Remove(q, e), S \ {e})
           /\ e # First(q) => First(Remove(q, e)) = First(q)
<1>0. PICK n \in Nat :
          \E f \in [0 .. n + 1 -> Nodes] : Lists(q, n, f) /\ Entries(n, f) = S
  BY DEF Linked
<1>1. PICK f \in [0 .. n + 1 -> Nodes] : Lists(q, n, f) /\ Entries(n, f) = S
  BY <1>0
<1>2. PICK j \in 1 .. n : e = f[j]
  BY <1>1 DEF Entries
<1> DEFINE r == Remove(q, e)
           g == Without(n, f, j)
<1>3. /\ Lists(r, n - 1, g) /\ Entries(n - 1, g) = S \ {e}
      /\ g \in [0 .. (n - 1) + 1 -> Nodes] /\ n - 1 \in Nat
  BY <1>1, <1>2, ListRemove
<1>4. Linked(r, S \ {e})
  <2> HIDE DEF g, r
  <2> QED BY <1>3 DEF Linked
<1>5. ASSUME e # First(q) PROVE First(r) = First(q)
  <2>1. First(q) = f[1]
    BY <1>1 DEF Lists, First, NULL
  <2>2. First(r) = g[1]
    <3> HIDE DEF g, r
    <3> QED BY <1>3 DEF Lists, First, NULL
  <2>3. j > 1
    BY <1>2, <1>5, <2>1
  <2> QED BY <2>1, <2>2, <2>3 DEF Without
<1> QED BY <1>4, <1>5

\* A list has no more entries than there are threads.
LEMMA LinkedLength ==
    ASSUME NEW q, NEW n \in Nat, NEW f, Lists(q, n, f)
    PROVE  /\ n <= MaxThreads
           /\ IsFiniteSet(Entries(n, f)) /\ Cardinality(Entries(n, f)) = n
<1>1. IsFiniteSet(1 .. n) /\ Cardinality(1 .. n) = n
  BY FS_Interval
<1>2. IsFiniteSet(Thread) /\ Cardinality(Thread) = MaxThreads
  BY FS_Interval, WutAssumption DEF Thread
<1> DEFINE g == [k \in 1 .. n |-> f[k]]
<1>3. /\ g \in [1 .. n -> Thread]
      /\ \A j, k \in 1 .. n : g[j] = g[k] => j = k
  <2>1. \A k \in 1 .. n : k \in 0 .. n + 1 /\ f[k] \in Nodes /\ f[k] # NULL
    BY DEF Lists
  <2> QED BY <2>1 DEF Lists, Nodes
<1>4. n <= MaxThreads
  <2> SUFFICES ASSUME MaxThreads < n PROVE FALSE
    BY WutAssumption
  <2>1. \E j, k \in 1 .. n : j # k /\ g[j] = g[k]
    <3> HIDE DEF g
    <3> QED BY <1>1, <1>2, <1>3, FS_PigeonHole
  <2> HIDE DEF g
  <2> QED BY <1>3, <2>1
<1>5. g \in Bijection(1 .. n, Entries(n, f))
  BY <1>3 DEF Bijection, Injection, Surjection, IsInjective, Entries
<1>6. ExistsBijection(1 .. n, Entries(n, f))
  BY <1>5 DEF ExistsBijection
<1> QED BY <1>1, <1>4, <1>6, FS_Bijection

\* Traversal, with its steps numbered up to N.
WalkStep(q, N, g) ==
    [k \in 1 .. N |-> IF k = 1 THEN First(q)
                      ELSE IF g[k - 1] = 0 THEN 0 ELSE Successor(q, g[k - 1])]
Walk(q, N) == CHOOSE g : g = WalkStep(q, N, g)

\* A walk of enough steps along a list meets its entries in order, then the end.
LEMMA LinkedWalk ==
    ASSUME NEW q, NEW n \in Nat, NEW f, Lists(q, n, f), NEW N \in Nat, n < N
    PROVE  \A k \in 1 .. N : Walk(q, N)[k] = IF k <= n THEN f[k] ELSE 0
<1> DEFINE node == Walk(q, N)
           h == [k \in 1 .. N |-> IF k <= n THEN f[k] ELSE 0]
<1>1. ASSUME NEW k \in 1 .. N
      PROVE  h[k] = IF k = 1 THEN First(q)
                    ELSE IF h[k - 1] = 0 THEN 0 ELSE Successor(q, h[k - 1])
  <2>1. CASE k = 1
    BY <2>1 DEF Lists, First, NULL
  <2>2. CASE k > 1 /\ k - 1 <= n
    <3>1. k - 1 \in 1 .. N /\ k - 1 \in 1 .. n
      BY <2>2
    <3>2. h[k - 1] = f[k - 1] /\ f[k - 1] # 0
      BY <3>1 DEF Lists, NULL
    <3>3. q.next[f[k - 1]] = f[k]
      <4>1. k - 1 \in 0 .. n /\ (k - 1) + 1 = k
        BY <3>1
      <4> QED BY <4>1 DEF Lists
    <3>4. h[k] = f[k]
      <4>1. CASE k <= n
        BY <4>1
      <4>2. CASE k = n + 1
        BY <4>2 DEF Lists, NULL
      <4> QED BY <2>2, <4>1, <4>2
    <3> HIDE DEF h
    <3> QED BY <2>2, <3>2, <3>3, <3>4 DEF Successor
  <2>3. CASE k > 1 /\ k - 1 > n
    <3>1. k - 1 \in 1 .. N
      BY <2>3
    <3> QED BY <2>3, <3>1
  <2> QED BY <2>1, <2>2, <2>3
<1>2. h = WalkStep(q, N, h)
  BY <1>1 DEF WalkStep
<1>3. node = WalkStep(q, N, node)
  <2> HIDE DEF h
  <2> QED BY <1>2, Zenon DEF Walk
<1>4. ASSUME NEW k \in 1 .. N
      PROVE  node[k] = IF k = 1 THEN First(q)
                       ELSE IF node[k - 1] = 0 THEN 0 ELSE Successor(q, node[k - 1])
  <2> HIDE DEF node
  <2> QED BY <1>3 DEF WalkStep
<1> HIDE DEF node
<1>5. \A k \in 1 .. N : node[k] = h[k]
  <2> DEFINE wrong == {k \in 1 .. N : node[k] # h[k]}
  <2> SUFFICES ASSUME wrong # {} PROVE FALSE
    OBVIOUS
  <2>1. PICK k \in wrong : \A j \in wrong : k <= j
    <3>1. wrong \subseteq Nat
      OBVIOUS
    <3> HIDE DEF wrong
    <3> QED BY <3>1, LeastExists
  <2> HIDE DEF h
  <2>2. k \in 1 .. N /\ node[k] # h[k]
    OBVIOUS
  <2>3. k # 1 => k - 1 \in 1 .. N /\ k - 1 \notin wrong
    BY <2>1, <2>2
  <2> QED BY <1>1, <1>4, <2>2, <2>3
<1> QED BY <1>5 DEF node

\* TAILQ_FOREACH ends, and meets the entries of the list once each, in order.
LEMMA LinkedTraversal ==
    ASSUME NEW q \in Queues(Nodes), NEW n \in Nat, NEW f, Lists(q, n, f)
    PROVE  Traversal(q) = [k \in 1 .. n |-> f[k]]
<1> DEFINE N == Cardinality(DOMAIN q.next)
           met == {j \in 1 .. N : Walk(q, N)[j] # 0}
<1>1. Traversal(q) = [k \in 1 .. Cardinality(met) |-> Walk(q, N)[k]]
  BY DEF Traversal, Walk, WalkStep
<1>2. N \in Nat /\ n < N
  <2>1. DOMAIN q.next = Nodes
    BY DEF Queues
  <2>2. Nodes = 0 .. MaxThreads
    BY WutAssumption DEF Nodes, Thread, NULL
  <2>3. Cardinality(0 .. MaxThreads) = MaxThreads + 1
    BY FS_Interval, WutAssumption
  <2>4. N = MaxThreads + 1
    BY <2>1, <2>2, <2>3
  <2> HIDE DEF N
  <2> QED BY <2>4, LinkedLength, WutAssumption
<1> HIDE DEF N
<1>3. \A k \in 1 .. N : Walk(q, N)[k] = IF k <= n THEN f[k] ELSE 0
  BY <1>2, LinkedWalk
<1>4. met = 1 .. n
  <2>1. \A k \in 1 .. n : f[k] # 0
    BY DEF Lists, NULL
  <2> QED BY <1>2, <1>3, <2>1
<1> HIDE DEF met
<1>5. Cardinality(met) = n
  <2>1. Cardinality(1 .. n) = n
    BY FS_Interval
  <2> QED BY <1>4, <2>1
<1>6. \A k \in 1 .. n : Walk(q, N)[k] = f[k]
  BY <1>2, <1>3
<1> QED BY <1>1, <1>5, <1>6

\* A sequence without its j-th element.
LEMMA RemovedAt ==
    ASSUME NEW N, NEW s \in Seq(N), NEW j \in 1 .. Len(s)
    PROVE  SubSeq(s, 1, j - 1) \o SubSeq(s, j + 1, Len(s))
               = [k \in 1 .. Len(s) - 1 |-> IF k < j THEN s[k] ELSE s[k + 1]]
<1> DEFINE n == Len(s)
           a == SubSeq(s, 1, j - 1)
           b == SubSeq(s, j + 1, n)
<1>0. n \in Nat /\ j \in 1 .. n
  OBVIOUS
<1>1. a \in Seq(N) /\ Len(a) = j - 1 /\ \A k \in 1 .. j - 1 : a[k] = s[k]
  OBVIOUS
<1>2. b \in Seq(N) /\ Len(b) = n - j /\ \A k \in 1 .. n - j : b[k] = s[k + j]
  OBVIOUS
<1> DEFINE c == a \o b
<1> HIDE DEF a, b, n
<1>3. /\ c \in Seq(N) /\ Len(c) = Len(a) + Len(b)
      /\ \A k \in 1 .. Len(a) + Len(b) :
            c[k] = IF k <= Len(a) THEN a[k] ELSE b[k - Len(a)]
  BY <1>1, <1>2, ConcatProperties
<1>4. Len(c) = n - 1
  BY <1>0, <1>1, <1>2, <1>3
<1> HIDE DEF c
<1>5. ASSUME NEW k \in 1 .. n - 1
      PROVE  c[k] = IF k < j THEN s[k] ELSE s[k + 1]
  <2>0. k \in Int /\ j \in Int
    BY <1>0
  <2>1. c[k] = IF k <= j - 1 THEN a[k] ELSE b[k - (j - 1)]
    BY <1>0, <1>1, <1>2, <1>3
  <2>2. CASE k < j
    BY <1>0, <1>1, <2>1, <2>2
  <2>3. CASE k >= j
    <3>1. k - (j - 1) \in 1 .. n - j
      BY <1>0, <2>3
    <3>2. b[k - (j - 1)] = s[(k - (j - 1)) + j]
      BY <1>2, <3>1
    <3>3. (k - (j - 1)) + j = k + 1
      BY <1>0
    <3> QED BY <1>0, <2>1, <2>3, <3>2, <3>3
  <2> QED BY <2>0, <2>2, <2>3
<1>6. c = [k \in 1 .. n - 1 |-> IF k < j THEN s[k] ELSE s[k + 1]]
  BY <1>0, <1>3, <1>4, <1>5
<1> QED BY <1>6 DEF a, b, c, n

LEMMA RemovedBefore ==
    ASSUME NEW N, NEW s \in Seq(N), NEW u \in Seq(N), NEW j \in 1 .. Len(s)
    PROVE  SubSeq(s \o u, 1, j - 1) \o SubSeq(s \o u, j + 1, Len(s \o u))
               = (SubSeq(s, 1, j - 1) \o SubSeq(s, j + 1, Len(s))) \o u
<1> DEFINE n == Len(s)
           m == Len(u)
           x == s \o u
           r == [k \in 1 .. n - 1 |-> IF k < j THEN s[k] ELSE s[k + 1]]
           y == r \o u
           z == [k \in 1 .. n + m - 1 |-> IF k < j THEN x[k] ELSE x[k + 1]]
<1>1. n \in Nat /\ m \in Nat /\ j \in 1 .. n
  OBVIOUS
<1>2. /\ x \in Seq(N) /\ Len(x) = n + m
      /\ \A k \in 1 .. n + m : x[k] = IF k <= n THEN s[k] ELSE u[k - n]
  BY ConcatProperties
<1>3. /\ r \in Seq(N) /\ Len(r) = n - 1
      /\ \A k \in 1 .. n - 1 : r[k] = IF k < j THEN s[k] ELSE s[k + 1]
  OBVIOUS
<1>4. /\ SubSeq(x, 1, j - 1) \o SubSeq(x, j + 1, Len(x)) = z
      /\ SubSeq(s, 1, j - 1) \o SubSeq(s, j + 1, Len(s)) = r
  <2>1. j \in 1 .. Len(x)
    <3> HIDE DEF x, n, m
    <3> QED BY <1>1, <1>2
  <2>2. SubSeq(s, 1, j - 1) \o SubSeq(s, j + 1, Len(s)) = r
    BY RemovedAt
  <2> HIDE DEF x, r, n, m
  <2>3. SubSeq(x, 1, j - 1) \o SubSeq(x, j + 1, Len(x))
            = [k \in 1 .. Len(x) - 1 |-> IF k < j THEN x[k] ELSE x[k + 1]]
    BY <1>2, <2>1, RemovedAt
  <2>4. Len(x) - 1 = n + m - 1
    BY <1>1, <1>2
  <2> QED BY <2>2, <2>3, <2>4
<1> HIDE DEF n, m, x, r
<1>5. /\ y \in Seq(N) /\ Len(y) = (n - 1) + m
      /\ \A k \in 1 .. (n - 1) + m : y[k] = IF k <= n - 1 THEN r[k] ELSE u[k - (n - 1)]
  BY <1>3, ConcatProperties DEF m
<1> HIDE DEF y
<1>6. ASSUME NEW k \in 1 .. n + m - 1
      PROVE  y[k] = IF k < j THEN x[k] ELSE x[k + 1]
  <2>0. k \in Int /\ j \in Int /\ k \in 1 .. (n - 1) + m
    BY <1>1
  <2>1. CASE k < j
    <3>1. k \in 1 .. n - 1 /\ k <= n - 1 /\ k \in 1 .. n + m /\ k <= n
      BY <1>1, <2>0, <2>1
    <3>2. y[k] = r[k] /\ r[k] = s[k] /\ x[k] = s[k]
      BY <1>2, <1>3, <1>5, <2>0, <2>1, <3>1
    <3> QED BY <2>1, <3>2
  <2>2. CASE j <= k /\ k <= n - 1
    <3>1. k \in 1 .. n - 1 /\ k + 1 \in 1 .. n + m /\ k + 1 <= n /\ ~(k < j)
      BY <1>1, <2>0, <2>2
    <3>2. y[k] = r[k]
      BY <1>5, <2>0, <2>2
    <3>3. r[k] = s[k + 1]
      BY <1>3, <3>1
    <3>4. x[k + 1] = s[k + 1]
      BY <1>2, <3>1
    <3> QED BY <3>1, <3>2, <3>3, <3>4
  <2>3. CASE k > n - 1
    <3>1. y[k] = u[k - (n - 1)]
      BY <1>1, <1>5, <2>0, <2>3
    <3>2. k + 1 \in 1 .. n + m /\ ~(k + 1 <= n) /\ ~(k < j)
      BY <1>1, <2>0, <2>3
    <3>3. x[k + 1] = u[(k + 1) - n]
      BY <1>2, <3>2
    <3>4. (k + 1) - n = k - (n - 1)
      BY <1>1, <2>0
    <3> QED BY <3>1, <3>2, <3>3, <3>4
  <2> QED BY <1>1, <2>0, <2>1, <2>2, <2>3
<1>7. y = z
  <2>1. n + m - 1 = (n - 1) + m
    BY <1>1
  <2> QED BY <1>5, <1>6, <2>1
<1> QED BY <1>4, <1>7 DEF x, y

\* What the two macros do to the order in which a traversal meets the entries.
LEMMA InsertOrder ==
    ASSUME NEW S, NEW q \in Queues(Nodes), Linked(q, S),
           NEW e \in Nodes \ {NULL}, e \notin S
    PROVE  Traversal(InsertTail(q, e)) = Append(Traversal(q), e)
<1>0. PICK n \in Nat :
          \E f \in [0 .. n + 1 -> Nodes] : Lists(q, n, f) /\ Entries(n, f) = S
  BY DEF Linked
<1>1. PICK f \in [0 .. n + 1 -> Nodes] : Lists(q, n, f) /\ Entries(n, f) = S
  BY <1>0
<1> DEFINE r == InsertTail(q, e)
           g == Appended(n, f, e)
<1>2. Lists(r, n + 1, g) /\ n + 1 \in Nat
  BY <1>1, ListInsert
<1>3. r \in Queues(Nodes)
  BY QueueTypes DEF Queues, Nodes
<1>4. Traversal(q) = [k \in 1 .. n |-> f[k]]
  BY <1>1, LinkedTraversal
<1>5. Traversal(r) = [k \in 1 .. n + 1 |-> g[k]]
  <2> HIDE DEF r, g
  <2> QED BY <1>2, <1>3, LinkedTraversal
<1>6. \A k \in 1 .. n + 1 : g[k] = IF k <= n THEN f[k] ELSE e
  BY DEF Appended
<1> HIDE DEF r, g
<1>7. Append([k \in 1 .. n |-> f[k]], e) = [k \in 1 .. n + 1 |-> IF k <= n THEN f[k] ELSE e]
  OBVIOUS
<1> QED BY <1>4, <1>5, <1>6, <1>7 DEF r

LEMMA RemoveOrder ==
    ASSUME NEW S, NEW q \in Queues(Nodes), Linked(q, S), NEW e \in S
    PROVE  \E k \in DOMAIN Traversal(q) :
               /\ Traversal(q)[k] = e
               /\ Traversal(Remove(q, e)) =
                      SubSeq(Traversal(q), 1, k - 1)
                          \o SubSeq(Traversal(q), k + 1, Len(Traversal(q)))
               /\ e = First(q) => Traversal(Remove(q, e)) = Tail(Traversal(q))
<1>0. PICK n \in Nat :
          \E f \in [0 .. n + 1 -> Nodes] : Lists(q, n, f) /\ Entries(n, f) = S
  BY DEF Linked
<1>1. PICK f \in [0 .. n + 1 -> Nodes] : Lists(q, n, f) /\ Entries(n, f) = S
  BY <1>0
<1>2. PICK j \in 1 .. n : e = f[j]
  BY <1>1 DEF Entries
<1> DEFINE r == Remove(q, e)
           g == Without(n, f, j)
           s == [k \in 1 .. n |-> f[k]]
<1>3. Lists(r, n - 1, g) /\ n - 1 \in Nat
  BY <1>1, <1>2, ListRemove
<1>4. r \in Queues(Nodes)
  <2>1. e \in Nodes /\ NULL \in Nodes
    BY <1>2 DEF Nodes
  <2> QED BY <2>1, QueueTypes DEF Queues
<1>5. Traversal(q) = s
  BY <1>1, LinkedTraversal
<1>6. Traversal(r) = [k \in 1 .. n - 1 |-> g[k]]
  <2> HIDE DEF r, g
  <2> QED BY <1>3, <1>4, LinkedTraversal
<1>7. \A k \in 1 .. n - 1 : g[k] = IF k < j THEN s[k] ELSE s[k + 1]
  BY DEF Without
<1>8. s \in Seq(Nodes) /\ Len(s) = n /\ DOMAIN s = 1 .. n /\ s[j] = e
  BY <1>2
<1>9. e = First(q) => j = 1
  <2>1. First(q) = f[1] /\ 1 \in 1 .. n
    BY <1>1 DEF Lists, First, NULL
  <2> QED BY <1>1, <1>2, <2>1 DEF Lists
<1> HIDE DEF r, g, s
<1>10. SubSeq(s, 1, j - 1) \o SubSeq(s, j + 1, Len(s))
           = [k \in 1 .. Len(s) - 1 |-> IF k < j THEN s[k] ELSE s[k + 1]]
  BY <1>8, RemovedAt
<1>11. Traversal(r) = SubSeq(s, 1, j - 1) \o SubSeq(s, j + 1, Len(s))
  BY <1>6, <1>7, <1>8, <1>10
<1>12. ASSUME e = First(q) PROVE Traversal(r) = Tail(s)
  <2>1. \A k \in 1 .. n - 1 : g[k] = s[k + 1]
    BY <1>7, <1>9, <1>12
  <2>2. Tail(s) = [k \in 1 .. n - 1 |-> s[k + 1]]
    BY <1>8
  <2> QED BY <1>6, <2>1, <2>2
<1> QED BY <1>5, <1>8, <1>11, <1>12 DEF r

\* The order is empty when the list is, and begins with the list's first entry.
LEMMA OrderOfList ==
    ASSUME NEW S, NEW q \in Queues(Nodes), Linked(q, S)
    PROVE  /\ Traversal(q) \in Seq(Nodes)
           /\ Traversal(q) = <<>> <=> S = {}
           /\ S # {} => Traversal(q)[1] = First(q)
<1>0. PICK n \in Nat :
          \E f \in [0 .. n + 1 -> Nodes] : Lists(q, n, f) /\ Entries(n, f) = S
  BY DEF Linked
<1>1. PICK f \in [0 .. n + 1 -> Nodes] : Lists(q, n, f) /\ Entries(n, f) = S
  BY <1>0
<1>2. Traversal(q) = [k \in 1 .. n |-> f[k]]
  BY <1>1, LinkedTraversal
<1>3. First(q) = f[1]
  BY <1>1 DEF Lists, First, NULL
<1>4. n = 0 <=> S = {}
  <2>1. S = {f[k] : k \in 1 .. n}
    BY <1>1 DEF Entries
  <2>2. n # 0 => 1 \in 1 .. n
    OBVIOUS
  <2>3. n = 0 => 1 .. n = {}
    OBVIOUS
  <2> QED BY <2>1, <2>2, <2>3
<1>5. Traversal(q) \in Seq(Nodes) /\ Len(Traversal(q)) = n
  BY <1>2
<1> QED BY <1>2, <1>3, <1>4, <1>5

\* What a call learns of the queue while it holds the ready threads.
LEMMA ReadyQueue ==
    ASSUME SlotInv, Linked(ready_queue, Ready)
    PROVE  /\ {ReadyThreads[k] : k \in DOMAIN ReadyThreads} = Ready
           /\ Len(ReadyThreads) = Cardinality(Ready)
           /\ Len(ReadyThreads) <= MaxThreads
           /\ HeadThread = NULL <=> Ready = {}
           /\ HeadThread # NULL => HeadThread \in Ready
<1>0. PICK n \in Nat : \E f \in [0 .. n + 1 -> Nodes] :
          Lists(ready_queue, n, f) /\ Entries(n, f) = Ready
  BY DEF Linked
<1>1. PICK f \in [0 .. n + 1 -> Nodes] :
          Lists(ready_queue, n, f) /\ Entries(n, f) = Ready
  BY <1>0
<1>2. ready_queue \in Queues(Nodes)
  BY Types DEF Queues
<1>3. ReadyThreads = [k \in 1 .. n |-> f[k]]
  BY <1>1, <1>2, LinkedTraversal DEF ReadyThreads
<1>4. {ReadyThreads[k] : k \in DOMAIN ReadyThreads} = Ready
  BY <1>1, <1>3 DEF Entries
<1>5. Len(ReadyThreads) = n
  BY <1>3
<1>6. n = Cardinality(Ready) /\ n <= MaxThreads
  BY <1>1, LinkedLength
<1> QED BY <1>4, <1>5, <1>6, LinkedEnds DEF HeadThread

--------------------------------------------------------------------------------
(* The invariant of disciplined clients.                                     *)

\* While the program runs: the queue is a list of the ready threads, exactly the
\* live threads have an entry and their slot, an unborn thread joins nobody,
\* and joiners and targets agree before and after the target's end.
EntriesAndSlots ==
    /\ \A t \in Created : ent[t] <=> t \in Live
    /\ \A t \in Live : threads[id[t]] = t
    /\ \A t \in Thread \ Created : joining[t] = -1

BlockedJoinsLive ==
    \A w \in Live : state[w] = Blocked =>
        \E t \in Live : Joins(w, t) /\ block_id[t] = id[w]

LiveNamesJoiner ==
    \A t \in Live : block_id[t] >= 0 =>
        LET w == threads[block_id[t]]
        IN  w \in Live /\ state[w] = Blocked /\ Joins(w, t)

WokenFindsEnded ==
    \A w \in Ready : joining[w] >= 0 =>
        LET t == threads[joining[w]]
        IN  t # NULL /\ state[t] >= 0 /\ block_id[t] = id[w]

JoinInv == EntriesAndSlots /\ BlockedJoinsLive /\ LiveNamesJoiner /\ WokenFindsEnded

QueueInv ==
    /\ SlotInv
    /\ LinksNeverCorrupt
    /\ OnlyDeadlockCrashes
    /\ process = "running" => Linked(ready_queue, Ready) /\ JoinInv

\* The caller is ready, has a slot, and is no joiner unless it was just woken.
LEMMA Caller ==
    ASSUME QueueInv, process = "running"
    PROVE  /\ SlotInv /\ Linked(ready_queue, Ready) /\ JoinInv
           /\ HeadThread = running /\ running \in Ready /\ running \in Live
           /\ running \in Created /\ running \in Thread
           /\ ready_queue \in Queues(Nodes)
           /\ Ready \subseteq Live /\ Live \subseteq Created /\ Created \subseteq Thread
<1>1. SlotInv /\ Linked(ready_queue, Ready) /\ JoinInv
  BY DEF QueueInv
<1>2. HeadThread = running /\ running \in Created
  BY <1>1 DEF SlotInv, CallerIsFirst, TypeOK
<1>3. Created \subseteq Thread /\ NULL \notin Created
  BY <1>1, Types
<1>4. HeadThread # NULL
  BY <1>2, <1>3
<1>5. running \in Ready
  BY <1>1, <1>2, <1>4, ReadyQueue
<1>6. Ready \subseteq Live
  BY DEF Ready, Live, Alive
<1>7. ready_queue \in Queues(Nodes)
  BY <1>1, Types DEF Queues
<1> QED BY <1>1, <1>2, <1>3, <1>5, <1>6, <1>7 DEF Live

\* Every step that ends the process otherwise than by a fault or a corruption.
LEMMA EndsQueueInv ==
    ASSUME QueueInv, SlotInv', process' \notin {"running", "segv", "corrupt", "hung"}
    PROVE  QueueInv'
BY DEF QueueInv, LinksNeverCorrupt, OnlyDeadlockCrashes

\* JoinInv says nothing of the queue, nor of whose turn it is.
LEMMA UnchangedJoinInv ==
    ASSUME UNCHANGED <<table, tcbs, joining>>
    PROVE  Created' = Created /\ Live' = Live /\ Ready' = Ready /\ (JoinInv => JoinInv')
<1>1. Created' = Created /\ Live' = Live /\ Ready' = Ready
  BY DEF Created, Live, Ready, table, tcbs
<1>2. ASSUME JoinInv PROVE JoinInv'
  <2>1. EntriesAndSlots' /\ BlockedJoinsLive'
    BY <1>1, <1>2 DEF JoinInv, EntriesAndSlots, BlockedJoinsLive, Joins, table, tcbs
  <2>2. LiveNamesJoiner' /\ WokenFindsEnded'
    BY <1>1, <1>2 DEF JoinInv, LiveNamesJoiner, WokenFindsEnded, Joins, table, tcbs
  <2> QED BY <2>1, <2>2 DEF JoinInv
<1> QED BY <1>1, <1>2

\* Every step that leaves the threads and the queue as they are.
LEMMA UnchangedQueueInv ==
    ASSUME QueueInv, SlotInv',
           UNCHANGED <<table, tcbs, ready_queue, joining, process>>
    PROVE  QueueInv'
<1>1. Created' = Created /\ Live' = Live /\ Ready' = Ready /\ (JoinInv => JoinInv')
  BY UnchangedJoinInv
<1>2. (LinksNeverCorrupt /\ OnlyDeadlockCrashes)'
  BY <1>1 DEF QueueInv, LinksNeverCorrupt, OnlyDeadlockCrashes
<1>3. ASSUME process = "running" PROVE Linked(ready_queue, Ready)' /\ JoinInv'
  BY <1>1, <1>3 DEF QueueInv
<1> QED BY <1>2, <1>3 DEF QueueInv

\* A step after which the process still runs.
LEMMA RunsOn ==
    ASSUME SlotInv', process' = "running", Linked(ready_queue, Ready)', JoinInv'
    PROVE  QueueInv'
BY DEF QueueInv, LinksNeverCorrupt, OnlyDeadlockCrashes

--------------------------------------------------------------------------------
(* The actions.                                                              *)

LEMMA InitQueueInv == Init => QueueInv
<1> SUFFICES ASSUME Init PROVE QueueInv
  OBVIOUS
<1>1. SlotInv
  BY InitSlotInv
<1>2. Created = {1} /\ Ready = {1} /\ Live = {1} /\ 1 \in Thread
  BY WutAssumption DEF Init, Created, Ready, Live, Thread, Alive
<1>3. Linked(ready_queue, Ready)
  <2> DEFINE q == EmptyQueue(Thread)
             f == [k \in 0 .. 0 + 1 |-> NULL]
  <2>1. q \in Queues(Nodes)
    BY DEF EmptyQueue, Queues, Nodes, NULL
  <2>2. Lists(q, 0, f) /\ Entries(0, f) = {}
    BY DEF Lists, Entries, EmptyQueue, NULL, Nodes
  <2>3. Linked(q, {})
    <3>1. f \in [0 .. 0 + 1 -> Nodes] /\ 0 \in Nat
      BY DEF Nodes
    <3> HIDE DEF f, q
    <3> QED BY <2>2, <3>1 DEF Linked
  <2>4. 1 \in Nodes \ {NULL}
    BY <1>2 DEF Nodes, NULL
  <2>5. Linked(InsertTail(q, 1), {} \cup {1})
    <3> HIDE DEF q
    <3> QED BY <2>1, <2>3, <2>4, LinkedInsert
  <2> QED BY <1>2, <2>5 DEF Init
<1>4. JoinInv
  <2>1. /\ id[1] = 0 /\ threads[0] = 1
        /\ state[1] = -1 /\ block_id[1] = -1
        /\ \A t \in Thread : joining[t] = -1
    BY <1>2, WutAssumption DEF Init, Alive
  <2>2. EntriesAndSlots
    <3>1. ent[1]
      BY <1>2, Zenon DEF Init
    <3> QED BY <1>2, <2>1, <3>1 DEF EntriesAndSlots
  <2>3. BlockedJoinsLive /\ LiveNamesJoiner /\ WokenFindsEnded
    BY <1>2, <2>1 DEF BlockedJoinsLive, LiveNamesJoiner, WokenFindsEnded, Blocked
  <2> QED BY <2>2, <2>3 DEF JoinInv
<1> QED BY <1>1, <1>3, <1>4 DEF QueueInv, LinksNeverCorrupt, OnlyDeadlockCrashes, Init

\* A thread is created in a slot that no thread refers to.
LEMMA ThreadCreated ==
    ASSUME QueueInv, SlotInv', wut_create,
           NEW new, new = threads_count + 1,
           NEW slot, slot = MinAvailableId(RoomyTable)
    PROVE  /\ process = "running" /\ CanCall
           /\ ready_queue' = InsertTail(ready_queue, new)
           /\ ReturnToCaller(ready_queue', slot) /\ joining' = joining
           /\ new \in Thread /\ Created' = Created \cup {new} /\ new \notin Created
           /\ threads_count' = new
           /\ state'[new] = Alive /\ block_id'[new] = -1 /\ id'[new] = slot
           /\ ent'[new] = TRUE /\ joining[new] = -1
           /\ \A t \in Created : /\ state'[t] = state[t] /\ block_id'[t] = block_id[t]
                                 /\ id'[t] = id[t] /\ ent'[t] = ent[t]
           /\ Ready' = Ready \cup {new} /\ Live' = Live \cup {new}
           /\ threads'[slot] = new
           /\ \A i \in Slots : threads[i] # NULL => threads'[i] = threads[i]
           /\ \A i \in Slots : threads'[i] \in {threads[i], new}
<1>1. /\ slot \in DOMAIN RoomyTable /\ RoomyTable[slot] = NULL
      /\ slot \in 0 .. RoomyCapacity - 1
      /\ slot \in Slots => threads[slot] = NULL
  BY MinAvailableIdIsEmpty, RoomyTableType DEF EmptySlots, QueueInv
<1>2. process = "running" /\ CanCall
  BY DEF wut_create, CanCall
<1>3. /\ SlotInv /\ Linked(ready_queue, Ready) /\ JoinInv
      /\ HeadThread = running /\ running \in Ready
      /\ ready_queue \in Queues(Nodes)
      /\ Ready \subseteq Live /\ Live \subseteq Created /\ Created \subseteq Thread
  BY <1>2, Caller
<1>4. /\ threads' = [RoomyTable EXCEPT ![slot] = new]
      /\ id' = [id EXCEPT ![new] = slot]
      /\ block_id' = [block_id EXCEPT ![new] = -1]
      /\ state' = [state EXCEPT ![new] = Alive]
      /\ ent' = [ent EXCEPT ![new] = TRUE]
      /\ ready_queue' = InsertTail(ready_queue, new)
      /\ ReturnToCaller(ready_queue', slot)
      /\ joining' = joining /\ threads_count' = new
      /\ threads_count < MaxThreads
  BY DEF wut_create
<1>5. new \in Thread /\ Created' = Created \cup {new} /\ new \notin Created
  <2>1. threads_count \in 1 .. MaxThreads /\ MaxThreads \in Nat
    BY <1>3, WutAssumption DEF SlotInv, TypeOK, Thread
  <2> QED BY <1>4, <2>1 DEF Thread, Created
<1>6. /\ state \in [Thread -> -2 .. 255] /\ id \in [Thread -> Slots]
      /\ block_id \in [Thread -> Slots \cup {-1}] /\ ent \in [Thread -> BOOLEAN]
      /\ joining \in [Thread -> Slots \cup {-1}]
      /\ threads \in [Slots -> {NULL} \cup Created]
  BY <1>3 DEF SlotInv, TypeOK
<1>7. /\ state'[new] = Alive /\ block_id'[new] = -1 /\ id'[new] = slot
      /\ ent'[new] = TRUE /\ joining[new] = -1
      /\ \A t \in Created : /\ state'[t] = state[t] /\ block_id'[t] = block_id[t]
                            /\ id'[t] = id[t] /\ ent'[t] = ent[t]
  BY <1>3, <1>4, <1>5, <1>6 DEF JoinInv, EntriesAndSlots
<1>8. Ready' = Ready \cup {new} /\ Live' = Live \cup {new}
  BY <1>5, <1>7 DEF Ready, Live, Alive
<1>9. /\ threads'[slot] = new
      /\ \A i \in Slots : threads[i] # NULL => threads'[i] = threads[i]
      /\ \A i \in Slots : threads'[i] \in {threads[i], new}
  <2>1. Slots \subseteq DOMAIN RoomyTable
        /\ \A i \in Slots : RoomyTable[i] = threads[i]
    BY <1>3, RoomyTableType
  <2> QED BY <1>1, <1>4, <2>1
<1> QED BY <1>2, <1>4, <1>5, <1>7, <1>8, <1>9

LEMMA CreateQueueInv ==
    ASSUME QueueInv, SlotInv', wut_create
    PROVE  QueueInv'
<1> DEFINE new == threads_count + 1
           slot == MinAvailableId(RoomyTable)
<1>2. process = "running" /\ CanCall
  BY DEF wut_create, CanCall
<1>3. /\ SlotInv /\ Linked(ready_queue, Ready) /\ JoinInv
      /\ HeadThread = running /\ running \in Ready
      /\ ready_queue \in Queues(Nodes)
      /\ Ready \subseteq Live /\ Live \subseteq Created /\ Created \subseteq Thread
  BY <1>2, Caller
<1>4. /\ ready_queue' = InsertTail(ready_queue, new)
      /\ ReturnToCaller(ready_queue', slot) /\ joining' = joining
      /\ new \in Thread /\ Created' = Created \cup {new} /\ new \notin Created
      /\ state'[new] = Alive /\ block_id'[new] = -1 /\ id'[new] = slot
      /\ ent'[new] = TRUE /\ joining[new] = -1
      /\ \A t \in Created : /\ state'[t] = state[t] /\ block_id'[t] = block_id[t]
                            /\ id'[t] = id[t] /\ ent'[t] = ent[t]
      /\ Ready' = Ready \cup {new} /\ Live' = Live \cup {new}
      /\ threads'[slot] = new
      /\ \A i \in Slots : threads[i] # NULL => threads'[i] = threads[i]
  BY ThreadCreated
<1> HIDE DEF new, slot
<1>5. new \in Thread /\ Created' = Created \cup {new} /\ new \notin Created
  BY <1>4
<1>6. /\ state \in [Thread -> -2 .. 255] /\ id \in [Thread -> Slots]
      /\ block_id \in [Thread -> Slots \cup {-1}] /\ ent \in [Thread -> BOOLEAN]
      /\ joining \in [Thread -> Slots \cup {-1}]
      /\ threads \in [Slots -> {NULL} \cup Created]
  BY <1>3 DEF SlotInv, TypeOK
<1>7. /\ state'[new] = Alive /\ block_id'[new] = -1 /\ id'[new] = slot
      /\ ent'[new] = TRUE /\ joining[new] = -1
      /\ \A t \in Created : /\ state'[t] = state[t] /\ block_id'[t] = block_id[t]
                            /\ id'[t] = id[t] /\ ent'[t] = ent[t]
  BY <1>4
<1>8. Ready' = Ready \cup {new} /\ Live' = Live \cup {new}
  BY <1>4
<1>9. /\ threads'[slot] = new
      /\ \A i \in Slots : threads[i] # NULL => threads'[i] = threads[i]
  BY <1>4
<1>10. Linked(ready_queue, Ready)' /\ First(ready_queue') = running
  <2>1. new \in Nodes \ {NULL} /\ new \notin Ready
    BY <1>3, <1>5, Types DEF Nodes, Thread, NULL
  <2>2. Linked(InsertTail(ready_queue, new), Ready \cup {new})
        /\ First(InsertTail(ready_queue, new)) = First(ready_queue)
    BY <1>3, <2>1, LinkedInsert
  <2> QED BY <1>3, <1>4, <1>8, <2>2 DEF HeadThread
<1>11. process' = "running"
  BY <1>2, <1>4, <1>10 DEF ReturnToCaller
<1>12. JoinInv'
  <2>1. EntriesAndSlots'
    <3>1. \A t \in Created' : ent'[t] <=> t \in Live'
      BY <1>3, <1>5, <1>7, <1>8 DEF JoinInv, EntriesAndSlots
    <3>2. \A t \in Live' : threads'[id'[t]] = t
      <4>1. \A t \in Live : id[t] \in Slots /\ threads[id[t]] = t /\ t # NULL
        BY <1>3, <1>6, Types DEF JoinInv, EntriesAndSlots
      <4> QED BY <1>3, <1>7, <1>8, <1>9, <4>1
    <3>3. \A t \in Thread \ Created' : joining'[t] = -1
      BY <1>3, <1>4, <1>5 DEF JoinInv, EntriesAndSlots
    <3> QED BY <3>1, <3>2, <3>3 DEF EntriesAndSlots
  <2>2. ASSUME NEW w \in Created, NEW t \in Created, Joins(w, t) PROVE Joins(w, t)'
    <3>1. joining[w] \in Slots /\ threads[joining[w]] = t /\ t # NULL
      BY <1>3, <1>6, <2>2, Types DEF Joins
    <3> QED BY <1>4, <1>9, <2>2, <3>1 DEF Joins
  <2>3. BlockedJoinsLive'
    <3> SUFFICES ASSUME NEW w \in Live', state'[w] = Blocked
                 PROVE  \E t \in Live' : Joins(w, t)' /\ block_id'[t] = id'[w]
      BY DEF BlockedJoinsLive
    <3>1. w \in Live /\ state[w] = Blocked
      BY <1>3, <1>7, <1>8 DEF Alive, Blocked
    <3>2. PICK t \in Live : Joins(w, t) /\ block_id[t] = id[w]
      BY <1>3, <3>1 DEF JoinInv, BlockedJoinsLive
    <3> QED BY <1>3, <1>7, <1>8, <2>2, <3>1, <3>2
  <2>4. LiveNamesJoiner'
    <3> SUFFICES ASSUME NEW t \in Live', block_id'[t] >= 0
                 PROVE  /\ threads'[block_id'[t]] \in Live'
                        /\ state'[threads'[block_id'[t]]] = Blocked
                        /\ Joins(threads[block_id[t]], t)'
                        /\ threads'[block_id'[t]] = threads[block_id[t]]
      BY DEF LiveNamesJoiner, Joins
    <3>1. t \in Live /\ block_id[t] >= 0 /\ block_id'[t] = block_id[t]
      BY <1>3, <1>7, <1>8
    <3>2. block_id[t] \in Slots
      BY <1>3, <1>6, <3>1
    <3>3. /\ threads[block_id[t]] \in Live
          /\ state[threads[block_id[t]]] = Blocked
          /\ Joins(threads[block_id[t]], t)
      BY <1>3, <3>1 DEF JoinInv, LiveNamesJoiner
    <3>4. threads[block_id[t]] # NULL
      BY <1>3, <3>3, Types
    <3> QED BY <1>3, <1>7, <1>8, <1>9, <2>2, <3>1, <3>2, <3>3, <3>4
  <2>5. WokenFindsEnded'
    <3> SUFFICES ASSUME NEW w \in Ready', joining'[w] >= 0
                 PROVE  LET t == threads'[joining'[w]]
                        IN  t # NULL /\ state'[t] >= 0 /\ block_id'[t] = id'[w]
      BY DEF WokenFindsEnded
    <3>1. w \in Ready /\ joining[w] \in Slots /\ joining[w] >= 0
      BY <1>3, <1>4, <1>6, <1>7, <1>8
    <3>2. /\ threads[joining[w]] # NULL /\ threads[joining[w]] \in Created
          /\ state[threads[joining[w]]] >= 0
          /\ block_id[threads[joining[w]]] = id[w]
      BY <1>3, <1>6, <3>1 DEF JoinInv, WokenFindsEnded
    <3>3. threads'[joining'[w]] = threads[joining[w]]
      BY <1>4, <1>9, <3>1, <3>2
    <3>4. id'[w] = id[w]
      BY <1>3, <1>7, <3>1
    <3> QED BY <1>7, <3>2, <3>3, <3>4
  <2> QED BY <2>1, <2>3, <2>4, <2>5 DEF JoinInv
<1> QED BY <1>10, <1>11, <1>12, RunsOn

\* The joiner of a live thread is blocked in that join, and has its entry.
LEMMA LiveJoiner ==
    ASSUME QueueInv, process = "running", NEW e \in Live, block_id[e] >= 0
    PROVE  LET w == threads[block_id[e]]
           IN  /\ w \in Live /\ state[w] = Blocked /\ Joins(w, e)
               /\ w \in Nodes \ {NULL} /\ w \notin Ready /\ ent[w]
               /\ block_id[e] \in Slots /\ id[w] = block_id[e]
<1> DEFINE w == threads[block_id[e]]
<1>1. /\ SlotInv /\ JoinInv /\ Live \subseteq Created /\ Created \subseteq Thread
  BY Caller
<1>2. w \in Live /\ state[w] = Blocked /\ Joins(w, e)
  BY <1>1 DEF JoinInv, LiveNamesJoiner
<1>3. w \in Nodes \ {NULL} /\ w # NULL
  BY <1>1, <1>2, Types DEF Nodes
<1>4. w \notin Ready
  BY <1>2 DEF Ready, Alive, Blocked
<1>5. ent[w]
  <2>1. w \in Created
    BY <1>1, <1>2
  <2> HIDE DEF w
  <2> QED BY <1>1, <1>2, <2>1 DEF JoinInv, EntriesAndSlots
<1>6. block_id[e] \in Slots
  BY <1>1 DEF SlotInv, TypeOK
<1>7. id[w] = block_id[e]
  BY <1>1, <1>3, <1>6 DEF SlotInv, SlotsHoldTheirThread
<1> QED BY <1>2, <1>3, <1>4, <1>5, <1>6, <1>7

\* So the wake that the end of a thread causes never follows a null pointer.
LEMMA WakeIsSafe ==
    ASSUME QueueInv, process = "running", NEW e \in Live
    PROVE  ~WakeFaults(block_id[e])
BY LiveJoiner DEF WakeFaults, HasEntry

\* A ready thread ends, by wut_exit or a cancel, and its joiner is woken.
LEMMA ThreadEnds ==
    ASSUME QueueInv, process = "running", SlotInv', NEW e \in Ready, NEW code \in 0 .. 255,
           UNCHANGED <<table, id, block_id, joining>>,
           state' = [StateAfterWake(state, block_id[e]) EXCEPT ![e] = code],
           ent' = [ent EXCEPT ![e] = FALSE],
           ready_queue' = Remove(QueueAfterWake(block_id[e]), e)
    PROVE  /\ Linked(ready_queue, Ready)' /\ JoinInv'
           /\ e # HeadThread => HeadThread' = HeadThread
<1>1. /\ SlotInv /\ Linked(ready_queue, Ready) /\ JoinInv
      /\ HeadThread = running /\ running \in Ready
      /\ ready_queue \in Queues(Nodes)
      /\ Ready \subseteq Live /\ Live \subseteq Created /\ Created \subseteq Thread
  BY Caller
<1>2. /\ state \in [Thread -> -2 .. 255] /\ id \in [Thread -> Slots]
      /\ block_id \in [Thread -> Slots \cup {-1}] /\ ent \in [Thread -> BOOLEAN]
      /\ joining \in [Thread -> Slots \cup {-1}]
      /\ threads \in [Slots -> {NULL} \cup Created]
  BY <1>1 DEF SlotInv, TypeOK
<1>3. Created' = Created /\ Slots' = Slots
  BY DEF Created, Slots, table
<1> DEFINE w == threads[block_id[e]]
           woken == IF block_id[e] >= 0 THEN {w} ELSE {}
<1>4. ASSUME block_id[e] >= 0
      PROVE  /\ w \in Live /\ w # e /\ w \notin Ready /\ state[w] = Blocked
             /\ Joins(w, e) /\ id[w] = block_id[e] /\ w \in Nodes \ {NULL}
  BY <1>1, <1>4, LiveJoiner
<1>5. woken \subseteq Live \ Ready /\ e \notin woken
  BY <1>1, <1>4
<1>6. /\ state'[e] = code
      /\ \A t \in Thread : t # e => state'[t] = IF t \in woken THEN Alive ELSE state[t]
  <2>1. CASE block_id[e] >= 0
    BY <1>1, <1>2, <1>4, <2>1 DEF StateAfterWake
  <2>2. CASE ~(block_id[e] >= 0)
    BY <1>1, <1>2, <2>2 DEF StateAfterWake
  <2> QED BY <2>1, <2>2
<1>7. woken = {} \/ (block_id[e] >= 0 /\ woken = {w})
  OBVIOUS
<1>8. Linked(ready_queue', (Ready \cup woken) \ {e})
      /\ (e # HeadThread => HeadThread' = HeadThread)
  <2> DEFINE q == QueueAfterWake(block_id[e])
  <2>1. q \in Queues(Nodes) /\ Linked(q, Ready \cup woken) /\ First(q) = First(ready_queue)
    <3>1. CASE block_id[e] >= 0
      <4>1. q = InsertTail(ready_queue, w) /\ woken = {w}
        BY <3>1 DEF QueueAfterWake
      <4>2. /\ Linked(InsertTail(ready_queue, w), Ready \cup {w})
            /\ First(InsertTail(ready_queue, w)) = First(ready_queue)
        <5> HIDE DEF w
        <5> QED BY <1>1, <1>4, <3>1, LinkedInsert
      <4>3. InsertTail(ready_queue, w) \in Queues(Nodes)
        <5> HIDE DEF w
        <5> QED BY <1>1, <1>4, <3>1, QueueTypes DEF Queues, Nodes
      <4> QED BY <4>1, <4>2, <4>3
    <3>2. CASE ~(block_id[e] >= 0)
      BY <1>1, <3>2 DEF QueueAfterWake
    <3> QED BY <3>1, <3>2
  <2> HIDE DEF q, woken
  <2>2. Linked(Remove(q, e), (Ready \cup woken) \ {e})
        /\ (e # First(q) => First(Remove(q, e)) = First(q))
    <3>1. e \in Ready \cup woken
      OBVIOUS
    <3> QED BY <2>1, <3>1, LinkedRemove
  <2> QED BY <2>1, <2>2 DEF HeadThread, q
<1>9. Ready' = (Ready \cup woken) \ {e} /\ Live' = Live \ {e}
  <2>1. woken \subseteq Created /\ e \in Created
    BY <1>1, <1>5
  <2> HIDE DEF woken
  <2>2. \A t \in Created : state'[t] = Alive <=> t \in (Ready \cup woken) \ {e}
    BY <1>1, <1>6, <2>1 DEF Ready, Alive
  <2>3. \A t \in Created : state'[t] < 0 <=> t \in Live \ {e}
    BY <1>1, <1>5, <1>6, <2>1 DEF Live, Alive
  <2>4. Ready' = (Ready \cup woken) \ {e}
    BY <1>1, <1>3, <2>1, <2>2 DEF Ready
  <2>5. Live' = Live \ {e}
    BY <1>3, <2>3 DEF Live
  <2> QED BY <2>4, <2>5
<1>10. EntriesAndSlots'
  <2>1. \A t \in Created' : ent'[t] <=> t \in Live'
    BY <1>1, <1>2, <1>3, <1>9 DEF JoinInv, EntriesAndSlots
  <2>2. \A t \in Live' : threads'[id'[t]] = t
    BY <1>1, <1>9 DEF JoinInv, EntriesAndSlots, table
  <2>3. \A t \in Thread \ Created' : joining'[t] = -1
    BY <1>1, <1>3 DEF JoinInv, EntriesAndSlots
  <2> QED BY <2>1, <2>2, <2>3 DEF EntriesAndSlots
<1>11. \A u, t : Joins(u, t)' <=> Joins(u, t)
  BY DEF Joins, table
<1>12. BlockedJoinsLive'
  <2> SUFFICES ASSUME NEW u \in Live', state'[u] = Blocked
               PROVE  \E t \in Live' : Joins(u, t)' /\ block_id'[t] = id'[u]
    BY DEF BlockedJoinsLive
  <2>1. u \in Live /\ u \in Thread /\ u # e
    BY <1>1, <1>9
  <2>2. state[u] = Blocked /\ u \notin woken
    <3> HIDE DEF woken
    <3> QED BY <1>6, <2>1 DEF Alive, Blocked
  <2>3. PICK t \in Live : Joins(u, t) /\ block_id[t] = id[u]
    BY <1>1, <2>1, <2>2 DEF JoinInv, BlockedJoinsLive
  <2>4. t # e
    <3> SUFFICES ASSUME t = e PROVE FALSE
      OBVIOUS
    <3>1. block_id[e] = id[u] /\ id[u] \in Slots /\ threads[id[u]] = u
      BY <1>1, <1>2, <2>1, <2>3 DEF JoinInv, EntriesAndSlots
    <3>2. block_id[e] >= 0
      BY <1>1, <3>1, Types
    <3> QED BY <2>2, <3>1, <3>2
  <2> QED BY <1>9, <1>11, <2>3, <2>4
<1>13. LiveNamesJoiner'
  <2> SUFFICES ASSUME NEW t \in Live', block_id'[t] >= 0
               PROVE  /\ threads'[block_id'[t]] \in Live'
                      /\ state'[threads'[block_id'[t]]] = Blocked
                      /\ joining'[threads'[block_id'[t]]] >= 0
                      /\ threads'[joining'[threads'[block_id'[t]]]] = t
    BY DEF LiveNamesJoiner, Joins
  <2> DEFINE u == threads[block_id[t]]
  <2>1. t \in Live /\ t # e /\ block_id[t] >= 0 /\ threads'[block_id'[t]] = u
    BY <1>9 DEF table
  <2>2. u \in Live /\ state[u] = Blocked /\ Joins(u, t)
    BY <1>1, <2>1 DEF JoinInv, LiveNamesJoiner
  <2> HIDE DEF u
  <2>3. u # e /\ u \in Thread
    BY <1>1, <2>2 DEF Ready, Alive, Blocked
  <2>4. u \notin woken
    <3> SUFFICES ASSUME u \in woken PROVE FALSE
      OBVIOUS
    <3>1. Joins(u, e)
      BY <1>4
    <3> QED BY <2>1, <2>2, <3>1 DEF Joins
  <2>5. state'[u] = Blocked
    <3> HIDE DEF woken
    <3> QED BY <1>6, <2>2, <2>3, <2>4
  <2>6. joining'[u] >= 0 /\ threads'[joining'[u]] = t
    BY <2>2 DEF Joins, table
  <2> QED BY <1>9, <2>1, <2>2, <2>3, <2>5, <2>6
<1>14. WokenFindsEnded'
  <2> SUFFICES ASSUME NEW u \in Ready', joining'[u] >= 0
               PROVE  LET t == threads'[joining'[u]]
                      IN  t # NULL /\ state'[t] >= 0 /\ block_id'[t] = id'[u]
    BY DEF WokenFindsEnded
  <2> DEFINE t == threads[joining[u]]
  <2>1. threads'[joining'[u]] = t /\ u \in (Ready \cup woken) \ {e}
    BY <1>9 DEF table
  <2>2. CASE u \in Ready
    <3>1. t # NULL /\ state[t] >= 0 /\ block_id[t] = id[u]
      BY <1>1, <2>2 DEF JoinInv, WokenFindsEnded
    <3>2. u \in Thread /\ joining[u] \in Slots
      BY <1>1, <1>2, <2>2, Types
    <3>3. t \in Created
      BY <1>2, <3>1, <3>2
    <3> HIDE DEF t, woken
    <3>4. t # e /\ t \notin woken /\ t \in Thread
      <4>1. t \notin Live
        <5>1. ~(state[t] < 0)
          BY <1>1, <1>2, <3>1, <3>3
        <5> QED BY <5>1 DEF Live
      <4>2. e \in Live /\ woken \subseteq Live /\ t \in Thread
        BY <1>1, <1>5, <3>3
      <4> QED BY <4>1, <4>2
    <3> QED BY <1>6, <2>1, <3>1, <3>4
  <2>3. CASE u \in woken
    <3>1. block_id[e] >= 0 /\ u = w
      BY <2>3
    <3>2. t = e /\ id[u] = block_id[e]
      BY <1>4, <3>1 DEF Joins
    <3>3. e # NULL
      BY <1>1, Types
    <3> HIDE DEF t
    <3> QED BY <1>6, <2>1, <3>2, <3>3
  <2> QED BY <2>1, <2>2, <2>3
<1>15. Linked(ready_queue, Ready)'
  <2> HIDE DEF woken
  <2> QED BY <1>8, <1>9
<1> QED BY <1>8, <1>10, <1>12, <1>13, <1>14, <1>15 DEF JoinInv

\* wut_exit and the return of a thread's function: the caller ends.
LEMMA CallerEnds ==
    ASSUME QueueInv, NEW status \in Int, Exit(status)
    PROVE  /\ process = "running" /\ CanCall /\ HeadThread \in Ready
           /\ state' = [StateAfterWake(state, block_id[HeadThread])
                            EXCEPT ![HeadThread] = status % 256]
           /\ ent' = [ent EXCEPT ![HeadThread] = FALSE]
           /\ ready_queue' = Remove(QueueAfterWake(block_id[HeadThread]), HeadThread)
           /\ IF IsEmpty(ready_queue')
              THEN process' = "exited" /\ running' = running
              ELSE process' = process /\ running' = First(ready_queue')
           /\ UNCHANGED <<table, id, block_id, joining, ret>>
           /\ status % 256 \in 0 .. 255
<1> DEFINE self == HeadThread
           waiter == block_id[self]
           queue == Remove(QueueAfterWake(waiter), self)
<1>1. process = "running" /\ CanCall
  BY DEF Exit, CanCall
<1>2. SlotInv /\ self \in Ready /\ self \in Live /\ self \in Thread
  BY <1>1, Caller
<1>3. ~WakeFaults(waiter)
  BY <1>1, <1>2, WakeIsSafe
<1>4. /\ state' = StateAfterWake([state EXCEPT ![self] = status % 256], waiter)
      /\ ent' = [ent EXCEPT ![self] = FALSE]
      /\ ready_queue' = queue
      /\ IF IsEmpty(queue)
         THEN process' = "exited" /\ running' = running
         ELSE process' = process /\ running' = First(queue)
      /\ UNCHANGED <<table, id, block_id, joining, ret>>
  BY <1>3 DEF Exit
<1>5. state' = [StateAfterWake(state, waiter) EXCEPT ![self] = status % 256]
  <2>1. state \in [Thread -> -2 .. 255]
    BY <1>2 DEF SlotInv, TypeOK
  <2>2. CASE waiter >= 0
    <3>1. threads[waiter] # self /\ threads[waiter] \in Live
      BY <1>1, <1>2, <2>2, LiveJoiner
    <3> HIDE DEF self, waiter
    <3> QED BY <1>4, <2>1, <2>2, <3>1 DEF StateAfterWake
  <2>3. CASE ~(waiter >= 0)
    BY <1>4, <2>3 DEF StateAfterWake
  <2> QED BY <2>2, <2>3
<1>6. status % 256 \in 0 .. 255
  OBVIOUS
<1> QED BY <1>1, <1>2, <1>4, <1>5, <1>6

LEMMA ExitQueueInv ==
    ASSUME QueueInv, SlotInv', NEW status \in Int, Exit(status)
    PROVE  QueueInv'
<1>1. PICK e \in Ready : e = HeadThread
  BY CallerEnds
<1>2. Linked(ready_queue, Ready)' /\ JoinInv'
  BY <1>1, CallerEnds, ThreadEnds
<1>3. CASE process' = "exited"
  BY <1>3, EndsQueueInv
<1>4. CASE process' = "running"
  BY <1>2, <1>4, RunsOn
<1> QED BY <1>3, <1>4, CallerEnds

\* wut_cancel of a ready thread: no queued thread names it as its joiner, so its
\* search changes nothing, and the thread that is unlinked is in the queue.
LEMMA TargetEnds ==
    ASSUME CancelTargets \subseteq {"ready"}, QueueInv, NEW i,
           Cancels(i) \/ CancelFaults(i) \/ CancelHangs(i)
    PROVE  /\ process = "running" /\ CanCall
           /\ threads[i] \in Ready /\ threads[i] # HeadThread
           /\ block_id' = block_id
           /\ state' = [StateAfterWake(state, block_id[threads[i]])
                            EXCEPT ![threads[i]] = CancelledStatus]
           /\ ent' = [ent EXCEPT ![threads[i]] = FALSE]
           /\ ready_queue' = Remove(QueueAfterWake(block_id[threads[i]]), threads[i])
           /\ ReturnToCaller(ready_queue', 0)
           /\ UNCHANGED <<table, id, joining>>
           /\ CancelledStatus \in 0 .. 255
<1> DEFINE t == threads[i]
<1>1. Cancellable(i) /\ process = "running"
  BY DEF Cancels, CancelFaults, CancelHangs, Cancellable, CanCall
<1>2. /\ SlotInv /\ Linked(ready_queue, Ready) /\ JoinInv
      /\ HeadThread = running /\ Ready \subseteq Live /\ Live \subseteq Created
      /\ Created \subseteq Thread
  BY <1>1, Caller
<1>3. i \in Slots /\ i >= 0 /\ t # NULL /\ id[HeadThread] # i /\ t \in Created
  BY <1>1, <1>2, Types DEF Cancellable, RejectedId, SlotInv, TypeOK
<1>4. t \in Ready /\ t \in Live
  <2>1. Kind(t) = "ready"
    BY <1>1 DEF Cancellable
  <2>2. state[t] = Alive
    BY <2>1 DEF Kind
  <2> QED BY <1>2, <1>3, <2>2 DEF Ready
<1>5. t # HeadThread
  BY <1>2, <1>3 DEF SlotInv, SlotsHoldTheirThread
<1>6. BlockIdAfterCancel(i) = block_id
  <2>1. \A k \in DOMAIN ReadyThreads : ReadyThreads[k] \in Live
    BY <1>2, ReadyQueue
  <2>2. ASSUME NEW u \in Live, block_id[u] = i PROVE FALSE
    <3>1. state[t] = Blocked
      BY <1>2, <1>3, <2>2 DEF JoinInv, LiveNamesJoiner
    <3> QED BY <1>4, <3>1 DEF Ready, Alive, Blocked
  <2> QED BY <2>1, <2>2 DEF BlockIdAfterCancel
<1>7. CancelWakes(i) = block_id[t]
  BY <1>6 DEF CancelWakes
<1>8. ~WakeFaults(CancelWakes(i)) /\ ent[t] /\ ~SearchHangs(i)
  <2>1. ~WakeFaults(block_id[t])
    BY <1>1, <1>4, WakeIsSafe
  <2>2. ent[t]
    BY <1>2, <1>3, <1>4 DEF JoinInv, EntriesAndSlots
  <2>3. ~(Len(ReadyThreads) > MaxThreads)
    <3>1. Len(ReadyThreads) <= MaxThreads /\ Len(ReadyThreads) \in Nat
      BY <1>2, ReadyQueue
    <3> QED BY <3>1, WutAssumption
  <2> QED BY <1>7, <2>1, <2>2, <2>3 DEF SearchHangs
<1>9. /\ block_id' = block_id
      /\ state' = [StateAfterWake(state, block_id[t]) EXCEPT ![t] = CancelledStatus]
      /\ ent' = [ent EXCEPT ![t] = FALSE]
      /\ ready_queue' = Remove(QueueAfterWake(block_id[t]), t)
      /\ ReturnToCaller(ready_queue', 0)
      /\ UNCHANGED <<table, id, joining>>
  BY <1>6, <1>7, <1>8 DEF Cancels, CancelFaults, CancelHangs
<1>10. CancelledStatus \in 0 .. 255 /\ CanCall
  BY <1>1 DEF CancelledStatus, Cancellable
<1> QED BY <1>1, <1>4, <1>5, <1>9, <1>10

\* The process runs on after the cancel: the caller stays first.
LEMMA CancelRunsOn ==
    ASSUME CancelTargets \subseteq {"ready"}, QueueInv, SlotInv', NEW i,
           Cancels(i) \/ CancelFaults(i) \/ CancelHangs(i)
    PROVE  /\ Linked(ready_queue, Ready)' /\ JoinInv'
           /\ process' = "running" /\ HeadThread' = running
<1>1. PICK t \in Ready : t = threads[i]
  BY TargetEnds
<1>2. Linked(ready_queue, Ready)' /\ JoinInv' /\ HeadThread' = HeadThread
  BY <1>1, TargetEnds, ThreadEnds
<1>3. HeadThread = running
  BY TargetEnds, Caller
<1> QED BY <1>2, <1>3, TargetEnds DEF ReturnToCaller, HeadThread

LEMMA CancelQueueInv ==
    ASSUME CancelTargets \subseteq {"ready"}, QueueInv, SlotInv', wut_cancel
    PROVE  QueueInv'
<1>1. PICK i \in ArgumentIds : \/ Cancels(i) \/ CancelFaults(i) \/ CancelHangs(i)
                               \/ CancelFails(i) \/ ReadsPastTable(i)
  BY DEF wut_cancel
<1>2. CASE CancelFails(i) \/ ReadsPastTable(i)
  BY <1>2, EndsQueueInv, UnchangedQueueInv
  DEF CancelFails, ReadsPastTable, ReturnsError
<1>3. CASE Cancels(i) \/ CancelFaults(i) \/ CancelHangs(i)
  BY <1>3, CancelRunsOn, RunsOn
<1> QED BY <1>1, <1>2, <1>3

\* The slot of an ended thread is emptied, when no woken joiner is left that
\* would look there: nobody else refers to it.
LEMMA SlotEmptied ==
    ASSUME QueueInv, process = "running", SlotInv', NEW i \in Slots,
           threads[i] \in Created, state[threads[i]] >= 0,
           threads' = [threads EXCEPT ![i] = NULL],
           UNCHANGED <<threads_count, threads_capacity, tcbs, ready_queue>>,
           \A w \in Thread : joining'[w] = joining[w] \/ (w \in Ready /\ joining'[w] = -1),
           \A w \in Ready : joining'[w] # i
    PROVE  Linked(ready_queue, Ready)' /\ JoinInv'
<1>1. /\ SlotInv /\ Linked(ready_queue, Ready) /\ JoinInv
      /\ Ready \subseteq Live /\ Live \subseteq Created /\ Created \subseteq Thread
  BY Caller
<1>2. Created' = Created /\ Live' = Live /\ Ready' = Ready
  BY DEF Created, Live, Ready, tcbs
<1>3. /\ threads \in [Slots -> {NULL} \cup Created] /\ id \in [Thread -> Slots]
      /\ block_id \in [Thread -> Slots \cup {-1}]
      /\ joining \in [Thread -> Slots \cup {-1}]
      /\ joining' \in [Thread -> Slots \cup {-1}]
  BY <1>1 DEF SlotInv, TypeOK, Slots
<1>4. threads[i] \notin Live /\ NULL \notin Live
  <2>1. state[threads[i]] \in Int
    <3>1. state \in [Thread -> -2 .. 255] /\ threads[i] \in Thread
      BY <1>1 DEF SlotInv, TypeOK
    <3> QED BY <3>1
  <2>2. ~(state[threads[i]] < 0)
    BY <2>1
  <2> QED BY <1>1, <2>2, Types DEF Live
<1>5. \A j \in Slots : threads[j] \in Live => threads'[j] = threads[j]
  BY <1>3, <1>4
<1>6. Linked(ready_queue, Ready)'
  BY <1>1, <1>2
<1>7. EntriesAndSlots'
  <2>1. \A t \in Live : threads'[id[t]] = t
    BY <1>1, <1>3, <1>5 DEF JoinInv, EntriesAndSlots
  <2>2. \A t \in Thread \ Created : joining'[t] = -1
    BY <1>1 DEF JoinInv, EntriesAndSlots
  <2>3. \A t \in Created : ent[t] <=> t \in Live
    BY <1>1 DEF JoinInv, EntriesAndSlots
  <2> QED BY <1>2, <2>1, <2>2, <2>3 DEF EntriesAndSlots, tcbs
<1>8. ASSUME NEW w \in Live, state[w] = Blocked, NEW t \in Live, Joins(w, t)
      PROVE  joining'[w] >= 0 /\ threads'[joining'[w]] = t
  <2>1. w \notin Ready
    BY <1>8 DEF Ready, Alive, Blocked
  <2>2. joining'[w] = joining[w] /\ joining[w] \in Slots
    BY <1>1, <1>3, <1>8, <2>1 DEF Joins
  <2> QED BY <1>5, <1>8, <2>2 DEF Joins
<1>9. BlockedJoinsLive'
  <2> SUFFICES ASSUME NEW w \in Live, state[w] = Blocked
               PROVE  \E t \in Live : /\ joining'[w] >= 0 /\ threads'[joining'[w]] = t
                                      /\ block_id[t] = id[w]
    BY <1>2 DEF BlockedJoinsLive, Joins, tcbs
  <2> QED BY <1>1, <1>8 DEF JoinInv, BlockedJoinsLive
<1>10. LiveNamesJoiner'
  <2> SUFFICES ASSUME NEW t \in Live, block_id[t] >= 0
               PROVE  /\ threads'[block_id[t]] \in Live
                      /\ state[threads'[block_id[t]]] = Blocked
                      /\ joining'[threads'[block_id[t]]] >= 0
                      /\ threads'[joining'[threads'[block_id[t]]]] = t
    BY <1>2 DEF LiveNamesJoiner, Joins, tcbs
  <2>1. /\ threads[block_id[t]] \in Live /\ state[threads[block_id[t]]] = Blocked
        /\ Joins(threads[block_id[t]], t)
    BY <1>1 DEF JoinInv, LiveNamesJoiner
  <2>2. block_id[t] \in Slots
    BY <1>1, <1>3
  <2> QED BY <1>5, <1>8, <2>1, <2>2
<1>11. WokenFindsEnded'
  <2> SUFFICES ASSUME NEW w \in Ready, joining'[w] >= 0
               PROVE  /\ threads'[joining'[w]] # NULL
                      /\ state[threads'[joining'[w]]] >= 0
                      /\ block_id[threads'[joining'[w]]] = id[w]
    BY <1>2 DEF WokenFindsEnded, tcbs
  <2>1. joining'[w] = joining[w] /\ joining[w] \in Slots /\ joining[w] # i
    BY <1>1, <1>3
  <2>2. threads'[joining'[w]] = threads[joining[w]]
    BY <1>3, <2>1
  <2> QED BY <1>1, <2>1, <2>2 DEF JoinInv, WokenFindsEnded
<1> QED BY <1>6, <1>7, <1>9, <1>10, <1>11 DEF JoinInv

\* wut_join of an ended thread that nobody joined: a woken joiner of the slot
\* would be named by it.
LEMMA ReapQueueInv ==
    ASSUME QueueInv, SlotInv', NEW i, JoinReaps(i)
    PROVE  QueueInv'
<1>1. process = "running" /\ i \in Slots /\ ~RejectedId(i) /\ ~Claimed(i)
  BY DEF JoinReaps, Joinable, CanCall
<1>2. SlotInv /\ JoinInv /\ Ready \subseteq Thread
  BY <1>1, Caller
<1>3. threads[i] \in Created /\ state[threads[i]] >= 0
  BY <1>1, <1>2 DEF JoinReaps, RejectedId, SlotInv, TypeOK
<1>4. ASSUME NEW w \in Ready PROVE joining[w] # i
  <2> SUFFICES ASSUME joining[w] = i PROVE FALSE
    OBVIOUS
  <2>1. i >= 0 /\ id[w] \in Nat
    <3>1. Slots \subseteq Nat
      BY <1>2, Types
    <3>2. id[w] \in Slots
      BY <1>2, <1>4 DEF SlotInv, TypeOK
    <3>3. i \in Nat /\ id[w] \in Nat
      BY <1>1, <3>1, <3>2
    <3> QED BY <3>3
  <2>2. block_id[threads[i]] = id[w] /\ threads[i] # NULL
    BY <1>2, <1>4, <2>1 DEF JoinInv, WokenFindsEnded
  <2> QED BY <1>1, <2>1, <2>2 DEF Claimed
<1>5. Linked(ready_queue, Ready)' /\ JoinInv'
  BY <1>1, <1>3, <1>4, SlotEmptied DEF JoinReaps
<1> QED BY <1>1, <1>5, RunsOn DEF JoinReaps

\* The rest of wut_join: the slot still holds the thread that was joined, and no
\* other woken joiner looks there, for the thread names only one.
LEMMA JoinReturnsQueueInv ==
    ASSUME QueueInv, SlotInv', JoinReturns
    PROVE  QueueInv'
<1> DEFINE i == joining[running]
<1>1. process = "running" /\ i >= 0
  BY DEF JoinReturns
<1>2. SlotInv /\ JoinInv /\ running \in Ready /\ Ready \subseteq Live
      /\ Live \subseteq Created /\ Created \subseteq Thread
  BY <1>1, Caller
<1>3. joining \in [Thread -> Slots \cup {-1}] /\ i \in Slots
  BY <1>1, <1>2 DEF SlotInv, TypeOK
<1>4. threads[i] # NULL /\ state[threads[i]] >= 0 /\ block_id[threads[i]] = id[running]
  BY <1>1, <1>2 DEF JoinInv, WokenFindsEnded
<1>5. threads[i] \in Created
  BY <1>2, <1>3, <1>4 DEF SlotInv, TypeOK
<1>6. /\ threads' = [threads EXCEPT ![i] = NULL]
      /\ joining' = [joining EXCEPT ![running] = -1]
      /\ UNCHANGED <<threads_count, threads_capacity, tcbs, ready_queue, process>>
  BY <1>4 DEF JoinReturns
<1>7. ASSUME NEW w \in Ready PROVE joining'[w] # i
  <2>1. CASE w = running
    BY <1>1, <1>2, <1>3, <1>6, <2>1
  <2>2. CASE w # running
    <3> SUFFICES ASSUME joining[w] = i PROVE FALSE
      BY <1>2, <1>3, <1>6, <2>2
    <3>1. block_id[threads[i]] = id[w]
      BY <1>1, <1>2, <1>7 DEF JoinInv, WokenFindsEnded
    <3>2. threads[id[w]] = w /\ threads[id[running]] = running
      BY <1>2 DEF JoinInv, EntriesAndSlots
    <3> QED BY <1>4, <2>2, <3>1, <3>2
  <2> QED BY <2>1, <2>2
<1>8. \A w \in Thread : joining'[w] = joining[w] \/ (w \in Ready /\ joining'[w] = -1)
  BY <1>2, <1>3, <1>6
<1>9. Linked(ready_queue, Ready)' /\ JoinInv'
  <2> HIDE DEF i
  <2> QED BY <1>1, <1>3, <1>4, <1>5, <1>6, <1>7, <1>8, SlotEmptied
<1> QED BY <1>1, <1>6, <1>9, RunsOn

\* wut_join of a live thread that nobody joined: the caller is blocked on it and
\* leaves the queue.  If it was alone there, the library follows a null pointer.
LEMMA BlockQueueInv ==
    ASSUME QueueInv, SlotInv', NEW i, JoinBlocks(i)
    PROVE  QueueInv'
<1> DEFINE self == HeadThread
           t == threads[i]
           queue == Remove(ready_queue, self)
<1>1. /\ process = "running" /\ joining[running] = -1
      /\ i \in Slots /\ ~RejectedId(i) /\ ~Claimed(i) /\ state[t] < 0
  BY DEF JoinBlocks, Joinable, CanCall
<1>2. /\ SlotInv /\ Linked(ready_queue, Ready) /\ JoinInv
      /\ self = running /\ self \in Ready
      /\ ready_queue \in Queues(Nodes)
      /\ Ready \subseteq Live /\ Live \subseteq Created /\ Created \subseteq Thread
  BY <1>1, Caller
<1>3. /\ threads \in [Slots -> {NULL} \cup Created] /\ id \in [Thread -> Slots]
      /\ block_id \in [Thread -> Slots \cup {-1}] /\ Slots \subseteq Nat
      /\ joining \in [Thread -> Slots \cup {-1}]
      /\ state \in [Thread -> -2 .. 255]
  BY <1>2, Types DEF SlotInv, TypeOK
<1>4. t \in Live /\ t # self /\ block_id[t] = -1
  <2>1. t \in Created /\ id[self] # i
    BY <1>1, <1>2, <1>3 DEF RejectedId
  <2>2. t # NULL /\ id[t] = i
    BY <1>1, <1>2, <2>1, Types DEF SlotInv, SlotsHoldTheirThread
  <2>3. block_id[t] = -1
    <3>1. ~(block_id[t] >= 0)
      BY <1>1, <2>2 DEF Claimed
    <3>2. block_id[t] \in Nat \cup {-1}
      BY <1>2, <1>3, <2>1
    <3> QED BY <3>1, <3>2
  <2> QED BY <1>1, <2>1, <2>2, <2>3 DEF Live
<1>5. /\ state' = [state EXCEPT ![self] = Blocked]
      /\ block_id' = [block_id EXCEPT ![t] = id[self]]
      /\ ready_queue' = queue
      /\ joining' = [joining EXCEPT ![self] = i]
      /\ IF IsEmpty(queue)
         THEN process' = "segv" /\ running' = running
         ELSE process' = process /\ running' = First(queue)
      /\ UNCHANGED <<table, id, ent, ret>>
  BY DEF JoinBlocks
<1>6. Linked(queue, Ready \ {self})
  BY <1>2, LinkedRemove
<1> HIDE DEF self, t
<1>7. /\ state'[self] = Blocked /\ joining'[self] = i /\ block_id'[t] = id[self]
      /\ threads' = threads /\ id' = id /\ ent' = ent
      /\ \A u \in Thread : u # self => state'[u] = state[u] /\ joining'[u] = joining[u]
      /\ \A u \in Thread : u # t => block_id'[u] = block_id[u]
  BY <1>2, <1>3, <1>4, <1>5 DEF table
<1>8. Created' = Created /\ Ready' = Ready \ {self} /\ Live' = Live
  <2>1. Created' = Created
    BY <1>5 DEF Created, table
  <2> QED BY <1>2, <1>7, <2>1 DEF Ready, Live, Alive, Blocked
<1>9. CASE IsEmpty(queue)
  <2>1. Ready' = {}
    <3> HIDE DEF queue
    <3> QED BY <1>6, <1>8, <1>9, LinkedEnds DEF IsEmpty, NULL
  <2> QED BY <1>5, <1>9, <2>1 DEF QueueInv, LinksNeverCorrupt, OnlyDeadlockCrashes
<1>10. CASE ~IsEmpty(queue)
  <2>1. process' = "running"
    BY <1>1, <1>5, <1>10
  <2>2. Linked(ready_queue, Ready)'
    BY <1>5, <1>6, <1>8
  <2>3. EntriesAndSlots'
    BY <1>2, <1>7, <1>8 DEF JoinInv, EntriesAndSlots
  <2>4. BlockedJoinsLive'
    <3> SUFFICES ASSUME NEW w \in Live, state'[w] = Blocked
                 PROVE  \E v \in Live : /\ joining'[w] >= 0 /\ threads'[joining'[w]] = v
                                        /\ block_id'[v] = id'[w]
      BY <1>8 DEF BlockedJoinsLive, Joins
    <3>1. CASE w = self
      <4>1. threads[i] = t /\ i >= 0
        BY <1>1, <1>3 DEF t
      <4> QED BY <1>4, <1>7, <3>1, <4>1
    <3>2. CASE w # self
      <4>1. w \in Thread /\ state[w] = Blocked /\ joining'[w] = joining[w]
        BY <1>2, <1>7, <3>2
      <4>2. PICK v \in Live : Joins(w, v) /\ block_id[v] = id[w]
        BY <1>2, <4>1 DEF JoinInv, BlockedJoinsLive
      <4>3. id[w] # -1
        BY <1>3, <4>1
      <4>4. block_id'[v] = id'[w]
        BY <1>2, <1>4, <1>7, <4>2, <4>3
      <4> QED BY <1>7, <4>1, <4>2, <4>4 DEF Joins
    <3> QED BY <3>1, <3>2
  <2>5. LiveNamesJoiner'
    <3> SUFFICES ASSUME NEW v \in Live, block_id'[v] >= 0
                 PROVE  /\ threads'[block_id'[v]] \in Live
                        /\ state'[threads'[block_id'[v]]] = Blocked
                        /\ joining'[threads'[block_id'[v]]] >= 0
                        /\ threads'[joining'[threads'[block_id'[v]]]] = v
      BY <1>8 DEF LiveNamesJoiner, Joins
    <3>1. CASE v = t
      <4>1. threads'[block_id'[v]] = self
        BY <1>2, <1>7, <3>1 DEF JoinInv, EntriesAndSlots
      <4>2. threads[i] = t /\ i >= 0
        BY <1>1, <1>3 DEF t
      <4> QED BY <1>2, <1>7, <3>1, <4>1, <4>2
    <3>2. CASE v # t
      <4> DEFINE u == threads[block_id[v]]
      <4>1. block_id'[v] = block_id[v] /\ threads'[block_id'[v]] = u
        BY <1>2, <1>7, <3>2
      <4>2. u \in Live /\ state[u] = Blocked /\ Joins(u, v)
        BY <1>2, <4>1 DEF JoinInv, LiveNamesJoiner
      <4> HIDE DEF u
      <4>3. u # self /\ u \in Thread
        BY <1>2, <4>2 DEF Ready, Alive, Blocked
      <4>4. state'[u] = Blocked /\ joining'[u] = joining[u]
        BY <1>7, <4>2, <4>3
      <4> QED BY <1>7, <4>1, <4>2, <4>4 DEF Joins
    <3> QED BY <3>1, <3>2
  <2>6. WokenFindsEnded'
    <3> SUFFICES ASSUME NEW w \in Ready, w # self, joining'[w] >= 0
                 PROVE  /\ threads'[joining'[w]] # NULL
                        /\ state'[threads'[joining'[w]]] >= 0
                        /\ block_id'[threads'[joining'[w]]] = id'[w]
      BY <1>8 DEF WokenFindsEnded
    <3> DEFINE v == threads[joining[w]]
    <3>1. joining'[w] = joining[w] /\ joining[w] \in Slots /\ v \in {NULL} \cup Created
      <4>1. w \in Thread
        BY <1>2
      <4>2. joining'[w] = joining[w] /\ joining[w] \in Slots \cup {-1}
        BY <1>3, <1>7, <4>1
      <4>3. joining[w] \in Slots
        BY <4>2
      <4> QED BY <1>3, <4>2, <4>3
    <3>2. v # NULL /\ state[v] >= 0 /\ block_id[v] = id[w]
      BY <1>2, <3>1 DEF JoinInv, WokenFindsEnded
    <3>3. v \notin Live /\ v \in Thread
      <4>1. v \in Thread
        BY <1>2, <3>1, <3>2
      <4> HIDE DEF v
      <4>2. ~(state[v] < 0)
        BY <1>3, <3>2, <4>1
      <4> QED BY <4>1, <4>2 DEF Live
    <3>4. threads'[joining'[w]] = v
      BY <1>7, <3>1
    <3> HIDE DEF v
    <3> QED BY <1>2, <1>4, <1>7, <3>2, <3>3, <3>4
  <2>7. JoinInv'
    BY <2>3, <2>4, <2>5, <2>6 DEF JoinInv
  <2> QED BY <2>1, <2>2, <2>7, RunsOn
<1> QED BY <1>9, <1>10

LEMMA JoinQueueInv ==
    ASSUME QueueInv, SlotInv', wut_join
    PROVE  QueueInv'
<1>1. PICK i \in ArgumentIds :
          JoinFails(i) \/ JoinReaps(i) \/ JoinBlocks(i) \/ ReadsPastTable(i)
  BY DEF wut_join
<1>2. CASE JoinFails(i) \/ ReadsPastTable(i)
  BY <1>2, EndsQueueInv, UnchangedQueueInv DEF JoinFails, ReadsPastTable, ReturnsError
<1> QED BY <1>1, <1>2, ReapQueueInv, BlockQueueInv

\* wut_yield moves the first entry to the end of the list.
LEMMA YieldQueueInv ==
    ASSUME QueueInv, SlotInv', wut_yield
    PROVE  QueueInv'
<1>1. CASE YieldFails
  BY <1>1, UnchangedQueueInv DEF YieldFails, ReturnsError
<1>2. CASE YieldSwitches
  <2> DEFINE self == HeadThread
             rest == Remove(ready_queue, self)
  <2>1. process = "running" /\ process' = "running"
    BY <1>2 DEF YieldSwitches, CanCall
  <2>2. /\ SlotInv /\ Linked(ready_queue, Ready) /\ JoinInv
        /\ self \in Ready /\ ready_queue \in Queues(Nodes)
    BY <2>1, Caller
  <2>3. self \in Nodes \ {NULL}
    BY <2>2, LinkedEnds
  <2>4. Linked(rest, Ready \ {self})
    BY <2>2, LinkedRemove
  <2>5. rest \in Queues(Nodes)
    BY <2>2, <2>3, Types, QueueTypes DEF Queues
  <2>6. ready_queue' = InsertTail(rest, self) /\ UNCHANGED <<table, tcbs, joining>>
    BY <1>2 DEF YieldSwitches
  <2>7. Ready' = Ready /\ JoinInv'
    BY <2>2, <2>6, UnchangedJoinInv
  <2>8. Linked(InsertTail(rest, self), (Ready \ {self}) \cup {self})
    <3> HIDE DEF rest, self
    <3> QED BY <2>3, <2>4, <2>5, LinkedInsert
  <2>9. (Ready \ {self}) \cup {self} = Ready
    BY <2>2
  <2>10. Linked(ready_queue, Ready)'
    BY <2>6, <2>7, <2>8, <2>9
  <2> QED BY <2>1, <2>7, <2>10, RunsOn
<1> QED BY <1>1, <1>2 DEF wut_yield

\* QueueInv is inductive.
LEMMA StepQueueInv ==
    ASSUME CancelTargets \subseteq {"ready"}
    PROVE  QueueInv /\ [Next]_vars => QueueInv'
<1> SUFFICES ASSUME QueueInv, [Next]_vars PROVE QueueInv'
  OBVIOUS
<1>0. SlotInv /\ SlotInv'
  BY StepSlotInv DEF QueueInv
<1>1. CASE wut_create
  BY <1>0, <1>1, CreateQueueInv
<1>2. CASE CreateDies \/ MainReturns
  BY <1>0, <1>2, EndsQueueInv DEF CreateDies, MainReturns
<1>3. CASE wut_exit
  BY <1>0, <1>3, ExitQueueInv, WutAssumption DEF wut_exit
<1>4. CASE RunReturns
  <2>1. state \in [Thread -> -2 .. 255] /\ running \in Thread
    BY <1>0, Types DEF SlotInv, TypeOK
  <2>2. state[running] \in Int
    BY <2>1
  <2> QED BY <1>0, <1>4, <2>2, ExitQueueInv DEF RunReturns
<1>5. CASE wut_cancel
  BY <1>0, <1>5, CancelQueueInv
<1>6. CASE wut_join
  BY <1>0, <1>6, JoinQueueInv
<1>7. CASE JoinReturns
  BY <1>0, <1>7, JoinReturnsQueueInv
<1>8. CASE wut_yield
  BY <1>0, <1>8, YieldQueueInv
<1>9. CASE UNCHANGED vars
  BY <1>0, <1>9, UnchangedQueueInv DEF vars, table, tcbs
<1> QED BY <1>1, <1>2, <1>3, <1>4, <1>5, <1>6, <1>7, <1>8, <1>9 DEF Next, Ended

--------------------------------------------------------------------------------
(* The theorems, for clients that cancel ready threads only.                 *)

THEOREM QueueInvHolds ==
    ASSUME CancelTargets \subseteq {"ready"}
    PROVE  Spec => []QueueInv
BY InitQueueInv, StepQueueInv, PTL DEF Spec

\* The ready queue is one consistent list of exactly the threads that are alive,
\* each met once, the caller first: no exit, cancel, join or yield loses a
\* thread, queues one twice or leaves a link to a thread that is gone.
THEOREM ReadyQueueIsRight ==
    ASSUME CancelTargets \subseteq {"ready"}
    PROVE  Spec => []QueueIsTheReadyThreads
<1>1. QueueInv => QueueIsTheReadyThreads
  <2> SUFFICES ASSUME QueueInv, process = "running"
               PROVE  /\ HeadThread = running
                      /\ Doubly(ready_queue, {NULL} \cup Ready)
                      /\ {ReadyThreads[k] : k \in DOMAIN ReadyThreads} = Ready
                      /\ Len(ReadyThreads) = Cardinality(Ready)
    BY DEF QueueIsTheReadyThreads
  <2> QED BY Caller, ReadyQueue, LinkedEnds
<1> QED BY <1>1, QueueInvHolds, PTL

\* A blocked thread joins a live one that will wake it, and a live thread wakes
\* only the thread blocked on it.
THEOREM JoinsAreMutual ==
    ASSUME CancelTargets \subseteq {"ready"}
    PROVE  Spec => []JoinersAndTargetsAgree
<1>1. QueueInv => JoinersAndTargetsAgree
  BY DEF QueueInv, JoinInv, BlockedJoinsLive, LiveNamesJoiner, JoinersAndTargetsAgree
<1> QED BY <1>1, QueueInvHolds, PTL

\* What wut_join reads after its switch is its target, ended and still in the
\* table, whatever ran in between.
THEOREM JoinFindsStatus ==
    ASSUME CancelTargets \subseteq {"ready"}
    PROVE  Spec => []WokenJoinerFindsStatus
<1>1. QueueInv => WokenJoinerFindsStatus
  BY DEF QueueInv, JoinInv, WokenFindsEnded, WokenJoinerFindsStatus
<1> QED BY <1>1, QueueInvHolds, PTL

\* The library follows a null pointer only when every live thread is blocked.
THEOREM CrashMeansDeadlock ==
    ASSUME CancelTargets \subseteq {"ready"}
    PROVE  Spec => []OnlyDeadlockCrashes
<1>1. QueueInv => OnlyDeadlockCrashes
  BY DEF QueueInv
<1> QED BY <1>1, QueueInvHolds, PTL

\* The library never works for another thread than its caller, nor searches a
\* cyclic queue for ever.
THEOREM LinksStaySound ==
    ASSUME CancelTargets \subseteq {"ready"}
    PROVE  Spec => []LinksNeverCorrupt
<1>1. QueueInv => LinksNeverCorrupt
  BY DEF QueueInv
<1> QED BY <1>1, QueueInvHolds, PTL

\* The slot of a live or joined thread is emptied by its joiner alone, which
\* returns the status it ended with: what ran between the end of the thread and
\* the return of the join has not touched it.
THEOREM JoinersKeepSlots ==
    ASSUME CancelTargets \subseteq {"ready"}
    PROVE  Spec => JoinedSlotsAreKept
<1> DEFINE A == \A i \in Slots :
                    SlotWanted(i) /\ threads'[i] # threads[i] => JoinerTakes(i)
<1>1. ASSUME QueueInv, [Next]_vars PROVE [A]_vars
  <2>1. SlotInv /\ threads \in [Slots -> {NULL} \cup Created]
    BY <1>1 DEF QueueInv, SlotInv, TypeOK
  <2>2. CASE threads' = threads
    BY <2>2
  <2>3. CASE wut_create
    <3> DEFINE slot == MinAvailableId(RoomyTable)
    <3>1. slot \in DOMAIN RoomyTable /\ RoomyTable[slot] = NULL
      BY <2>1, MinAvailableIdIsEmpty DEF EmptySlots
    <3>2. threads' = [RoomyTable EXCEPT ![slot] = threads_count + 1]
      BY <2>3 DEF wut_create
    <3>3. \A i \in Slots : i \in DOMAIN RoomyTable /\ RoomyTable[i] = threads[i]
      BY <2>1, RoomyTableType
    <3> HIDE DEF slot
    <3> QED BY <3>1, <3>2, <3>3 DEF SlotWanted
  <2>4. ASSUME NEW j, JoinReaps(j) PROVE A
    <3>1. j \in Slots /\ threads[j] # NULL /\ ~Claimed(j) /\ state[threads[j]] >= 0
      BY <2>4 DEF JoinReaps, Joinable, RejectedId
    <3>2. ~(block_id[threads[j]] >= 0)
      BY <3>1 DEF Claimed
    <3>3. ~(state[threads[j]] < 0)
      <4>1. threads[j] \in Thread /\ state \in [Thread -> -2 .. 255]
        BY <2>1, <3>1, Types DEF SlotInv, TypeOK
      <4>2. state[threads[j]] \in Int
        BY <4>1
      <4> QED BY <3>1, <4>2
    <3>4. \A i \in Slots : threads'[i] # threads[i] => i = j
      BY <2>1, <2>4 DEF JoinReaps
    <3> QED BY <3>2, <3>3, <3>4 DEF SlotWanted
  <2>5. CASE JoinReturns
    <3> DEFINE j == joining[running]
    <3>1. process = "running" /\ j >= 0
      BY <2>5 DEF JoinReturns
    <3>2. running \in Ready
      BY <1>1, <3>1, Caller
    <3>3. threads[j] # NULL /\ state[threads[j]] >= 0 /\ block_id[threads[j]] = id[running]
      BY <1>1, <3>1, <3>2 DEF QueueInv, JoinInv, WokenFindsEnded
    <3>4. threads' = [threads EXCEPT ![j] = NULL] /\ ret' = state[threads[j]]
      BY <2>5, <3>3 DEF JoinReturns
    <3>5. ASSUME NEW i \in Slots, threads'[i] # threads[i] PROVE JoinerTakes(i)
      <4>1. i = j
        <5> HIDE DEF j
        <5> QED BY <2>1, <3>4, <3>5
      <4>2. threads'[i] = NULL
        <5> HIDE DEF j
        <5> QED BY <2>1, <3>4, <4>1
      <4> QED BY <3>3, <3>4, <4>1, <4>2 DEF JoinerTakes
    <3> QED BY <3>5
  <2>6. wut_create \/ (\E j : JoinReaps(j)) \/ JoinReturns \/ threads' = threads
    BY <1>1
    DEF Next, CreateDies, wut_exit, RunReturns, Exit, Segfault, MainReturns, wut_cancel,
        Cancels, CancelFaults, CancelHangs, CancelFails, ReadsPastTable, ReturnsError,
        wut_join, JoinFails, JoinBlocks, wut_yield, YieldSwitches, YieldFails, Ended,
        table, vars
  <2> QED BY <2>2, <2>3, <2>4, <2>5, <2>6
<1> QED BY <1>1, QueueInvHolds, PTL DEF Spec, JoinedSlotsAreKept

--------------------------------------------------------------------------------
(* The library implements UserThreads.                                       *)

\* What WutRefinement puts for the variables and the codes of UserThreads.
Codes == {0, CancelledStatus} \cup {status % 256 : status \in Statuses}
AStatus == [t \in Thread |-> AbstractStatus(t)]
ATarget == [t \in Thread |-> AbstractTarget(t)]
ATaken == {t \in Created : block_id[t] >= 0 \/ ~InTable(t)}
Over == process # "running"

\* The steps of UserThreads, in those terms.
LEMMA Calling ==
    ASSUME ~Over, ReadyThreads[1] = running, ATarget[running] = running
    PROVE  Promise!Calling /\ Promise!self = running
BY DEF Promise!Calling, Promise!self, Over, ATarget

LEMMA CreateStep ==
    ASSUME NEW t \in Thread, Promise!Calling, AStatus[t] = -2,
           AStatus' = [AStatus EXCEPT ![t] = -1],
           ReadyThreads' = Append(ReadyThreads, t),
           ATarget' = ATarget, ATaken' = ATaken, Over' = Over
    PROVE  Promise!Next
BY DEF Promise!Next, Promise!Create, Promise!Live, Promise!Unborn, AStatus, ATarget,
       ATaken, Over

LEMMA EndStep ==
    ASSUME NEW t \in Thread, NEW code \in Codes, Promise!Calling,
           NEW k \in DOMAIN ReadyThreads, ReadyThreads[k] = t,
           NEW joiner, joiner = Promise!Joiner(t),
           ReadyThreads' = (SubSeq(ReadyThreads, 1, k - 1)
                                \o SubSeq(ReadyThreads, k + 1, Len(ReadyThreads)))
                               \o joiner,
           AStatus' = [AStatus EXCEPT ![t] = code],
           ATarget' = [ATarget EXCEPT ![t] = t],
           Over' = (ReadyThreads' = <<>>), ATaken' = ATaken
    PROVE  Promise!Next
<1>1. Promise!End(t, code)
  BY DEF Promise!End, Promise!RemoveAt, Codes, AStatus, ATarget, ATaken, Over
<1> QED BY <1>1 DEF Promise!Next, Codes

LEMMA JoinLiveStep ==
    ASSUME NEW t \in Thread, Promise!Calling, NEW self \in Thread,
           self = Promise!self, t # self, AStatus[t] = -1, t \notin ATaken,
           ATarget' = [ATarget EXCEPT ![self] = t],
           ATaken' = ATaken \cup {t},
           ReadyThreads' = Tail(ReadyThreads),
           Over' = (ReadyThreads' = <<>>), AStatus' = AStatus
    PROVE  Promise!Next
BY DEF Promise!Next, Promise!JoinLive, Promise!Live, AStatus, ATarget, ATaken, Over

LEMMA JoinEndedStep ==
    ASSUME NEW t \in Thread, Promise!Calling, AStatus[t] \in Codes, t \notin ATaken,
           AStatus' = [AStatus EXCEPT ![t] = -3],
           ATaken' = ATaken \cup {t},
           ReadyThreads' = ReadyThreads, ATarget' = ATarget, Over' = Over
    PROVE  Promise!Next
BY DEF Promise!Next, Promise!JoinEnded, Promise!Ended, Promise!Collected, AStatus, ATarget,
       ATaken, Over, Codes

LEMMA JoinReturnsStep ==
    ASSUME ~Over, NEW self \in Thread, ReadyThreads[1] = self,
           NEW t \in Thread, ATarget[self] = t, t # self, AStatus[t] \in Codes,
           AStatus' = [AStatus EXCEPT ![t] = -3],
           ATarget' = [ATarget EXCEPT ![self] = self],
           ReadyThreads' = ReadyThreads, ATaken' = ATaken, Over' = Over
    PROVE  Promise!Next
BY DEF Promise!Next, Promise!JoinReturns, Promise!Ended, Promise!Collected, Promise!self,
       AStatus, ATarget, ATaken, Over, Codes

LEMMA YieldStep ==
    ASSUME Promise!Calling,
           ReadyThreads' = Append(Tail(ReadyThreads), ReadyThreads[1]),
           AStatus' = AStatus, ATarget' = ATarget, ATaken' = ATaken, Over' = Over
    PROVE  Promise!Next
BY DEF Promise!Next, Promise!Yield, Promise!self, AStatus, ATarget, ATaken, Over

LEMMA StopStep ==
    ASSUME ReadyThreads' = ReadyThreads, AStatus' = AStatus, ATarget' = ATarget,
           ATaken' = ATaken, Over'
    PROVE  Promise!Next
BY DEF Promise!Next, Promise!Stop, AStatus, ATarget, ATaken, Over

LEMMA StutterStep ==
    ASSUME ReadyThreads' = ReadyThreads, AStatus' = AStatus, ATarget' = ATarget,
           ATaken' = ATaken, Over' = Over
    PROVE  UNCHANGED Promise!vars
BY DEF Promise!vars, AStatus, ATarget, ATaken, Over

\* A thread ends with a status that some thread passes to wut_exit, cut to its
\* low byte, with 0 when its function returns, or with the one of a cancel.
EndedWithCode == \A t \in Created : state[t] < 0 \/ state[t] \in Codes

LEMMA EndingStates ==
    ASSUME SlotInv, NEW e, NEW code, NEW w
    PROVE  /\ \A t \in Thread : [StateAfterWake(state, w) EXCEPT ![e] = code][t]
                                    \in {code, Alive, state[t]}
           /\ \A t \in Thread : StateAfterWake([state EXCEPT ![e] = code], w)[t]
                                    \in {code, Alive, state[t]}
<1>1. state \in [Thread -> -2 .. 255]
  BY DEF SlotInv, TypeOK
<1>2. CASE w >= 0
  BY <1>1, <1>2 DEF StateAfterWake
<1>3. CASE ~(w >= 0)
  BY <1>1, <1>3 DEF StateAfterWake
<1> QED BY <1>2, <1>3

LEMMA StepEndedWithCode ==
    ASSUME SlotInv, EndedWithCode, [Next]_vars
    PROVE  EndedWithCode'
<1>0. Created \subseteq Thread /\ Alive < 0 /\ Blocked < 0
  BY Types DEF Alive, Blocked
<1>1. ASSUME Created' = Created,
             \A t \in Created : state'[t] < 0 \/ state'[t] \in Codes \cup {state[t]}
      PROVE  EndedWithCode'
  BY <1>1 DEF EndedWithCode
<1>2. ASSUME UNCHANGED <<threads_count, state>> PROVE EndedWithCode'
  BY <1>2 DEF EndedWithCode, Created
<1>3. CASE wut_create
  <2>1. threads_count \in Nat /\ state \in [Thread -> -2 .. 255]
    BY DEF SlotInv, TypeOK, Thread
  <2>2. Created' = Created \cup {threads_count + 1} /\ threads_count + 1 \notin Created
        /\ threads_count + 1 \in Thread
    BY <1>3, <2>1, WutAssumption DEF wut_create, Created, Thread
  <2>3. state' = [state EXCEPT ![threads_count + 1] = Alive]
    BY <1>3 DEF wut_create
  <2> DEFINE new == threads_count + 1
  <2> HIDE DEF new
  <2>4. state'[new] = Alive /\ \A t \in Created : state'[t] = state[t]
    BY <1>0, <2>1, <2>2, <2>3 DEF new
  <2>5. Created' = Created \cup {new}
    BY <2>2 DEF new
  <2> QED BY <1>0, <2>4, <2>5 DEF EndedWithCode
<1>4. ASSUME NEW status, status % 256 \in Codes, Exit(status) PROVE EndedWithCode'
  <2>1. CASE Segfault
    BY <1>2, <2>1 DEF Segfault
  <2>2. CASE ~Segfault
    <3>1. state' = StateAfterWake([state EXCEPT ![HeadThread] = status % 256],
                                  block_id[HeadThread])
          /\ threads_count' = threads_count
      BY <1>4, <2>2 DEF Exit, table
    <3>2. \A t \in Thread :
              StateAfterWake([state EXCEPT ![HeadThread] = status % 256],
                             block_id[HeadThread])[t] \in {status % 256, Alive, state[t]}
      <4>1. PICK e, code, w : e = HeadThread /\ code = status % 256 /\ w = block_id[HeadThread]
        OBVIOUS
      <4>2. \A t \in Thread : StateAfterWake([state EXCEPT ![e] = code], w)[t]
                                  \in {code, Alive, state[t]}
        BY EndingStates
      <4> QED BY <4>1, <4>2
    <3>3. \A t \in Thread : state'[t] \in {status % 256, Alive, state[t]}
      BY <3>1, <3>2
    <3> QED BY <1>0, <1>1, <1>4, <3>1, <3>3 DEF Created
  <2> QED BY <2>1, <2>2
<1>5. CASE wut_exit
  <2>1. PICK status \in Statuses : Exit(status)
    BY <1>5 DEF wut_exit
  <2>2. status % 256 \in Codes
    BY DEF Codes
  <2> QED BY <1>4, <2>1, <2>2
<1>6. CASE RunReturns
  <2>1. running \in Created /\ state \in [Thread -> -2 .. 255]
    BY DEF SlotInv, TypeOK
  <2>2. CASE state[running] < 0
    <3>1. Exit(0) /\ 0 % 256 \in Codes
      BY <1>6, <2>2 DEF RunReturns, Codes
    <3> QED BY <1>4, <3>1
  <2>3. CASE ~(state[running] < 0)
    <3>1. state[running] \in 0 .. 255
      BY <1>0, <2>1, <2>3
    <3>2. state[running] \in Codes
      BY <2>1, <2>3 DEF EndedWithCode
    <3>3. state[running] % 256 = state[running]
      BY <3>1
    <3>4. Exit(state[running])
      BY <1>6, <2>3 DEF RunReturns
    <3> QED BY <1>4, <3>2, <3>3, <3>4
  <2> QED BY <2>2, <2>3
<1>7. ASSUME NEW i, Cancels(i) PROVE EndedWithCode'
  <2>1. state' = [StateAfterWake(state, CancelWakes(i)) EXCEPT ![threads[i]] = CancelledStatus]
        /\ threads_count' = threads_count
    BY <1>7 DEF Cancels, table
  <2>2. \A t \in Thread : state'[t] \in {CancelledStatus, Alive, state[t]}
    BY <2>1, EndingStates
  <2>3. CancelledStatus \in Codes
    BY DEF Codes
  <2> QED BY <1>0, <1>1, <2>1, <2>2, <2>3 DEF Created
<1>8. ASSUME NEW i, JoinBlocks(i) PROVE EndedWithCode'
  <2>1. state' = [state EXCEPT ![HeadThread] = Blocked] /\ threads_count' = threads_count
        /\ state \in [Thread -> -2 .. 255]
    BY <1>8 DEF JoinBlocks, table, SlotInv, TypeOK
  <2>2. \A t \in Thread : state'[t] \in {Blocked, state[t]}
    BY <2>1
  <2> QED BY <1>0, <1>1, <2>1, <2>2 DEF Created
<1>9. \/ wut_create \/ wut_exit \/ RunReturns
      \/ (\E i : Cancels(i)) \/ (\E i : JoinBlocks(i))
      \/ UNCHANGED <<threads_count, state>>
  BY DEF Next, CreateDies, Segfault, MainReturns, wut_cancel, CancelFaults, CancelHangs,
         CancelFails, ReadsPastTable, ReturnsError, wut_join, JoinFails, JoinReaps,
         JoinReturns, wut_yield, YieldSwitches, YieldFails, Ended, table, tcbs, vars
<1> QED BY <1>2, <1>3, <1>5, <1>6, <1>7, <1>8, <1>9

\* What the variables of UserThreads are while the program runs.
LEMMA Seen ==
    ASSUME QueueInv, process = "running"
    PROVE  /\ ~Over
           /\ ReadyThreads \in Seq(Nodes) /\ ReadyThreads[1] = running
           /\ \A w \in Live : /\ joining[w] >= 0 => joining[w] \in Slots
                              /\ joining[w] >= 0 => threads[joining[w]] \in Created
           /\ \A t \in Live : AStatus[t] = -1 /\ InTable(t)
           /\ \A t \in Created \ Live : ATarget[t] = t
           /\ \A t \in Live : joining[t] = -1 => ATarget[t] = t
           /\ \A t \in Live : joining[t] >= 0 => ATarget[t] = threads[joining[t]]
           /\ \A t \in Thread \ Created : ATarget[t] = t
           /\ CanCall => ATarget[running] = running /\ Promise!Calling
           /\ Promise!self = running
<1>1. /\ SlotInv /\ Linked(ready_queue, Ready) /\ JoinInv
      /\ HeadThread = running /\ running \in Ready
      /\ ready_queue \in Queues(Nodes)
      /\ Ready \subseteq Live /\ Live \subseteq Created /\ Created \subseteq Thread
  BY Caller
<1>2. /\ state \in [Thread -> -2 .. 255] /\ threads_count \in Nat
      /\ joining \in [Thread -> Slots \cup {-1}] /\ Slots \subseteq Nat
      /\ threads \in [Slots -> {NULL} \cup Created]
  <2>1. /\ state \in [Thread -> -2 .. 255] /\ threads_count \in Thread
        /\ joining \in [Thread -> Slots \cup {-1}]
        /\ threads \in [Slots -> {NULL} \cup Created]
    BY <1>1 DEF SlotInv, TypeOK
  <2>2. Slots \subseteq Nat /\ Thread \subseteq Nat
    BY <1>1, Types, WutAssumption DEF Thread
  <2> QED BY <2>1, <2>2
<1>3. ReadyThreads \in Seq(Nodes) /\ ReadyThreads[1] = running
  BY <1>1, OrderOfList DEF ReadyThreads, HeadThread
<1>4. ASSUME NEW w \in Live, joining[w] >= 0
      PROVE  joining[w] \in Slots /\ threads[joining[w]] \in Created
  <2>1. joining[w] \in Slots /\ w \in Thread
    BY <1>1, <1>2, <1>4
  <2>2. threads[joining[w]] # NULL
    <3>1. CASE w \in Ready
      BY <1>1, <1>4, <3>1 DEF JoinInv, WokenFindsEnded
    <3>2. CASE w \notin Ready
      <4>1. state[w] = Blocked
        <5>1. state[w] \in -2 .. 255 /\ state[w] < 0 /\ w \in Created
          BY <1>1, <1>2, <2>1 DEF Live
        <5> QED BY <3>2, <5>1 DEF Ready, Alive, Blocked
      <4>2. \E t \in Live : Joins(w, t)
        BY <1>1, <4>1 DEF JoinInv, BlockedJoinsLive
      <4> QED BY <1>1, <4>2, Types DEF Joins
    <3> QED BY <3>1, <3>2
  <2> QED BY <1>2, <2>1, <2>2
<1>5. \A t \in Created : t \in Thread /\ ~(t > threads_count)
  BY <1>1, <1>2 DEF Created
<1>6. ASSUME NEW t \in Live PROVE AStatus[t] = -1 /\ InTable(t)
  <2>1. t \in Thread /\ ~(t > threads_count) /\ state[t] < 0
    BY <1>1, <1>5 DEF Live
  <2>2. AbstractStatus(t) = -1
    BY <2>1 DEF AbstractStatus
  <2>3. InTable(t)
    BY <1>1 DEF InTable, JoinInv, EntriesAndSlots
  <2> QED BY <2>1, <2>2, <2>3 DEF AStatus
<1>7. ASSUME NEW t \in Created \ Live PROVE ATarget[t] = t
  BY <1>1, <1>7 DEF ATarget, AbstractTarget, Live
<1>8. ASSUME NEW t \in Live
      PROVE  /\ joining[t] = -1 => ATarget[t] = t
             /\ joining[t] >= 0 => ATarget[t] = threads[joining[t]]
  <2>1. t \in Thread /\ state[t] < 0
    BY <1>1 DEF Live
  <2> QED BY <2>1 DEF ATarget, AbstractTarget
<1>9. ASSUME NEW t \in Thread \ Created PROVE ATarget[t] = t
  <2>1. joining[t] = -1
    BY <1>1 DEF JoinInv, EntriesAndSlots
  <2> QED BY <2>1 DEF ATarget, AbstractTarget
<1>10. ~Over
  BY DEF Over
<1>11. CanCall => ATarget[running] = running /\ Promise!Calling
  <2> SUFFICES ASSUME CanCall PROVE ATarget[running] = running /\ Promise!Calling
    OBVIOUS
  <2>1. joining[running] = -1 /\ running \in Live
    BY <1>1 DEF CanCall
  <2>2. ATarget[running] = running
    BY <1>8, <2>1
  <2> QED BY <1>3, <1>10, <2>2, Calling
<1>12. Promise!self = running
  BY <1>3 DEF Promise!self
<1> QED BY <1>3, <1>4, <1>6, <1>7, <1>8, <1>9, <1>10, <1>11, <1>12

\* A step that keeps the table, the fields and the joins keeps these variables.
LEMMA UnchangedSeen ==
    ASSUME UNCHANGED <<table, tcbs, joining>>
    PROVE  AStatus' = AStatus /\ ATarget' = ATarget /\ ATaken' = ATaken
<1>1. UNCHANGED <<threads, threads_count, id, block_id, state, joining>>
  BY DEF table, tcbs
<1>2. \A t \in Thread : AbstractStatus(t)' = AbstractStatus(t)
  BY <1>1 DEF AbstractStatus, InTable
<1>3. \A t \in Thread : AbstractTarget(t)' = AbstractTarget(t)
  BY <1>1 DEF AbstractTarget
<1>4. Created' = Created /\ \A t \in Created : InTable(t)' <=> InTable(t)
  BY <1>1 DEF Created, InTable
<1> QED BY <1>1, <1>2, <1>3, <1>4 DEF AStatus, ATarget, ATaken

LEMMA ReturnsErrorStutters ==
    ASSUME ReturnsError
    PROVE  UNCHANGED Promise!vars
<1>1. UNCHANGED <<table, tcbs, ready_queue, joining, process>>
  BY DEF ReturnsError
<1>2. ReadyThreads' = ReadyThreads /\ Over' = Over
  BY <1>1 DEF ReadyThreads, Over
<1> QED BY <1>1, <1>2, UnchangedSeen, StutterStep

\* Every end of the process that changes nothing else.
LEMMA EndsStop ==
    ASSUME UNCHANGED <<table, tcbs, ready_queue, joining>>, process' # "running"
    PROVE  Promise!Next
<1>1. ReadyThreads' = ReadyThreads /\ Over'
  BY DEF ReadyThreads, Over
<1> QED BY <1>1, UnchangedSeen, StopStep

LEMMA YieldImplements ==
    ASSUME QueueInv, YieldSwitches
    PROVE  Promise!Next
<1> DEFINE self == HeadThread
           rest == Remove(ready_queue, self)
<1>1. process = "running" /\ CanCall
  BY DEF YieldSwitches, CanCall
<1>2. /\ SlotInv /\ Linked(ready_queue, Ready)
      /\ self = running /\ self \in Ready /\ ready_queue \in Queues(Nodes)
  BY <1>1, Caller
<1>3. self \in Nodes \ {NULL}
  BY <1>2, LinkedEnds
<1>4. Linked(rest, Ready \ {self})
  BY <1>2, LinkedRemove
<1>5. rest \in Queues(Nodes)
  BY <1>2, <1>3, Types, QueueTypes DEF Queues
<1>6. Traversal(rest) = Tail(ReadyThreads)
  BY <1>2, RemoveOrder DEF ReadyThreads, HeadThread
<1>7. Traversal(InsertTail(rest, self)) = Append(Traversal(rest), self)
  <2> HIDE DEF rest, self
  <2> QED BY <1>3, <1>4, <1>5, InsertOrder
<1>8. ready_queue' = InsertTail(rest, self) /\ UNCHANGED <<table, tcbs, joining, process>>
  BY DEF YieldSwitches
<1>9. ReadyThreads' = Append(Tail(ReadyThreads), ReadyThreads[1])
  <2>1. ReadyThreads[1] = self
    BY <1>1, <1>2, Seen
  <2> QED BY <1>6, <1>7, <1>8, <2>1 DEF ReadyThreads
<1>10. Over' = Over
  BY <1>8 DEF Over
<1> QED BY <1>1, <1>8, <1>9, <1>10, Seen, UnchangedSeen, YieldStep

\* A new thread takes an empty slot: no live thread joins that slot, and no other
\* thread is found in it.
LEMMA CreateImplements ==
    ASSUME QueueInv, SlotInv', wut_create
    PROVE  Promise!Next
<1>0. PICK new \in {threads_count + 1} : new = threads_count + 1
  OBVIOUS
<1>00. PICK slot \in {MinAvailableId(RoomyTable)} : slot = MinAvailableId(RoomyTable)
  OBVIOUS
<1>1. /\ process = "running" /\ CanCall
      /\ ready_queue' = InsertTail(ready_queue, new)
      /\ ReturnToCaller(ready_queue', slot) /\ joining' = joining
      /\ new \in Thread /\ Created' = Created \cup {new} /\ new \notin Created
      /\ threads_count' = new
      /\ state'[new] = Alive /\ block_id'[new] = -1 /\ id'[new] = slot
      /\ joining[new] = -1
      /\ \A t \in Created : /\ state'[t] = state[t] /\ block_id'[t] = block_id[t]
                            /\ id'[t] = id[t]
      /\ Ready' = Ready \cup {new} /\ Live' = Live \cup {new}
      /\ threads'[slot] = new
      /\ \A i \in Slots : threads[i] # NULL => threads'[i] = threads[i]
      /\ \A i \in Slots : threads'[i] \in {threads[i], new}
  BY <1>0, <1>00, ThreadCreated
<1>2. threads_count \in Nat /\ MaxThreads \in Nat /\ Thread = 1 .. MaxThreads
  BY WutAssumption DEF QueueInv, SlotInv, TypeOK, Thread
<1>3. new > threads_count /\ \A t \in Thread \ Created : t # new => t > new
  BY <1>0, <1>2 DEF Created
<1>4. /\ SlotInv /\ Linked(ready_queue, Ready)
      /\ HeadThread = running /\ running \in Ready
      /\ ready_queue \in Queues(Nodes)
      /\ Ready \subseteq Live /\ Live \subseteq Created /\ Created \subseteq Thread
  BY <1>1, Caller
<1>5. \A t \in Thread : id[t] \in Slots
  BY <1>4 DEF SlotInv, TypeOK
<1>6. NULL \notin Created /\ Created \subseteq Nat /\ Slots \subseteq Nat
  BY <1>2, <1>4, Types
<1>7. \A t \in Created : InTable(t)' <=> InTable(t)
  <2> SUFFICES ASSUME NEW t \in Created
               PROVE  threads'[id[t]] = t <=> threads[id[t]] = t
    BY <1>1 DEF InTable
  <2>1. id[t] \in Slots /\ t # new /\ t # NULL
    BY <1>1, <1>4, <1>5, <1>6
  <2> QED BY <1>1, <2>1
<1>8. InTable(new)'
  BY <1>1 DEF InTable
<1>9. \A t \in Created : ~(t > threads_count) /\ ~(t > new)
  BY <1>0, <1>2 DEF Created
<1>10. AStatus' = [AStatus EXCEPT ![new] = -1]
  <2>1. AbstractStatus(new)' = -1
    <3>1. ~(new > new)
      BY <1>1, <1>2
    <3> QED BY <1>1, <3>1 DEF AbstractStatus, Alive
  <2>2. ASSUME NEW t \in Thread, t # new PROVE AbstractStatus(t)' = AbstractStatus(t)
    <3>1. CASE t \in Created
      BY <1>1, <1>7, <1>9, <3>1 DEF AbstractStatus
    <3>2. CASE t \notin Created
      <4>1. t > threads_count /\ t > new
        BY <1>2, <1>3, <2>2, <3>2 DEF Created
      <4> QED BY <1>1, <4>1 DEF AbstractStatus
    <3> QED BY <3>1, <3>2
  <2> QED BY <1>1, <2>1, <2>2 DEF AStatus
<1>11. AStatus[new] = -2
  BY <1>1, <1>3 DEF AStatus, AbstractStatus
<1>12. \A t \in Thread : AbstractTarget(t)' = AbstractTarget(t)
  <2> SUFFICES ASSUME NEW t \in Thread, joining[t] >= 0
               PROVE  AbstractTarget(t)' = AbstractTarget(t)
    BY <1>1 DEF AbstractTarget
  <2>1. t \in Created
    BY <1>1, <1>4, Caller DEF JoinInv, EntriesAndSlots
  <2>2. CASE t \in Live
    <3>1. joining[t] \in Slots /\ threads[joining[t]] # NULL
      BY <1>1, <1>6, <2>2, Seen
    <3>2. threads'[joining[t]] = threads[joining[t]]
      BY <1>1, <3>1
    <3> QED BY <1>1, <2>1, <3>2 DEF AbstractTarget
  <2>3. CASE t \notin Live
    BY <1>1, <2>1, <2>3 DEF AbstractTarget, Live
  <2> QED BY <2>2, <2>3
<1>13. ATarget' = ATarget
  BY <1>12 DEF ATarget
<1>14. ATaken' = ATaken
  <2>1. ~(block_id'[new] >= 0)
    BY <1>1
  <2>2. \A t \in Created : block_id'[t] >= 0 <=> block_id[t] >= 0
    BY <1>1
  <2> QED BY <1>1, <1>7, <1>8, <2>1, <2>2 DEF ATaken
<1>15. ReadyThreads' = Append(ReadyThreads, new) /\ Over' = Over
  <2>1. new \in Nodes \ {NULL} /\ new \notin Ready
    BY <1>1, <1>2, <1>4 DEF Nodes, NULL
  <2>2. Traversal(InsertTail(ready_queue, new)) = Append(Traversal(ready_queue), new)
    BY <1>4, <2>1, InsertOrder
  <2>3. First(InsertTail(ready_queue, new)) = First(ready_queue)
    BY <1>4, <2>1, LinkedInsert
  <2>4. process' = process
    BY <1>1, <1>4, <2>3 DEF ReturnToCaller, HeadThread
  <2> QED BY <1>1, <2>2, <2>4 DEF ReadyThreads, Over
<1> QED BY <1>1, <1>10, <1>11, <1>13, <1>14, <1>15, Seen, CreateStep

\* The threads the end of t wakes, as UserThreads sees it: the joiner t names.
LEMMA JoinerIsNamed ==
    ASSUME QueueInv, process = "running", NEW t \in Ready
    PROVE  Promise!Joiner(t) = IF block_id[t] >= 0 THEN <<threads[block_id[t]]>> ELSE <<>>
<1> DEFINE W == {w \in Thread : w # t /\ ATarget[w] = t /\ AStatus[w] = -1}
           joiner == threads[block_id[t]]
<1>1. /\ SlotInv /\ JoinInv /\ t \in Live /\ t \in Created
      /\ Ready \subseteq Live /\ Live \subseteq Created /\ Created \subseteq Thread
  BY Caller
<1>2. Promise!Joiner(t) = IF W = {} THEN <<>> ELSE <<CHOOSE w \in W : TRUE>>
  BY DEF Promise!Joiner, Promise!Live, AStatus, ATarget
<1>3. ASSUME NEW w \in W
      PROVE  block_id[t] >= 0 /\ w = joiner
  <2>1. w \in Live
    <3>1. w \in Created
      BY Seen
    <3> QED BY <3>1, Seen
  <2>2. joining[w] # -1 /\ joining[w] \in Slots \cup {-1}
    BY <1>1, <2>1, Seen DEF SlotInv, TypeOK
  <2>3. joining[w] >= 0 /\ threads[joining[w]] = t
    <3>1. joining[w] >= 0
      BY <1>1, <2>2, Types
    <3> QED BY <2>1, <3>1, Seen
  <2>4. w \notin Ready
    <3>1. state[t] = -1
      BY DEF Ready, Alive
    <3> QED BY <1>1, <2>3, <3>1 DEF JoinInv, WokenFindsEnded
  <2>5. state[w] = Blocked
    <3>1. state[w] \in -2 .. 255 /\ state[w] < 0 /\ w \in Created
      BY <1>1, <2>1 DEF Live, SlotInv, TypeOK
    <3> QED BY <2>4, <3>1 DEF Ready, Alive, Blocked
  <2>6. PICK u \in Live : Joins(w, u) /\ block_id[u] = id[w]
    BY <1>1, <2>1, <2>5 DEF JoinInv, BlockedJoinsLive
  <2>7. block_id[t] = id[w] /\ id[w] \in Slots /\ threads[id[w]] = w
    BY <1>1, <2>1, <2>3, <2>6 DEF Joins, JoinInv, EntriesAndSlots, SlotInv, TypeOK
  <2> QED BY <1>1, <2>7, Types
<1>4. ASSUME block_id[t] >= 0 PROVE joiner \in W
  <2>1. joiner \in Live /\ Joins(joiner, t) /\ joiner \notin Ready
    BY <1>1, <1>4, LiveJoiner
  <2> HIDE DEF joiner
  <2>2. ATarget[joiner] = t /\ AStatus[joiner] = -1
    BY <2>1, Seen DEF Joins
  <2> QED BY <1>1, <2>1, <2>2
<1> HIDE DEF W, joiner
<1>5. CASE block_id[t] >= 0
  <2>1. W = {joiner}
    BY <1>3, <1>4, <1>5
  <2>2. (CHOOSE w \in W : TRUE) = joiner
    BY <2>1
  <2> QED BY <1>2, <1>5, <2>1, <2>2 DEF joiner
<1>6. CASE ~(block_id[t] >= 0)
  BY <1>2, <1>3, <1>6
<1> QED BY <1>5, <1>6

\* A ready thread ends, as in ThreadEnds: its entry goes, its joiner's is last.
LEMMA EndImplements ==
    ASSUME QueueInv, CanCall, SlotInv', NEW e \in Ready, NEW code \in Codes,
           code \in 0 .. 255,
           UNCHANGED <<table, id, block_id, joining>>,
           state' = [StateAfterWake(state, block_id[e]) EXCEPT ![e] = code],
           ent' = [ent EXCEPT ![e] = FALSE],
           ready_queue' = Remove(QueueAfterWake(block_id[e]), e),
           process' = "running" <=> ~IsEmpty(ready_queue')
    PROVE  Promise!Next
<1>0. process = "running"
  BY DEF CanCall
<1>1. /\ SlotInv /\ Linked(ready_queue, Ready) /\ JoinInv
      /\ ready_queue \in Queues(Nodes)
      /\ Ready \subseteq Live /\ Live \subseteq Created /\ Created \subseteq Thread
  BY <1>0, Caller
<1>2. state \in [Thread -> -2 .. 255] /\ Created' = Created /\ UNCHANGED <<threads, id>>
  BY <1>1 DEF SlotInv, TypeOK, Created, table
<1>3. e \in Live /\ e \in Created /\ e \in Thread /\ e \in Nodes \ {NULL} /\ e # NULL
  BY <1>1, Types DEF Nodes
<1> DEFINE w == threads[block_id[e]]
           queue == QueueAfterWake(block_id[e])
<1>4. ASSUME block_id[e] >= 0
      PROVE  /\ w \in Live /\ w # e /\ w \notin Ready /\ w \in Nodes \ {NULL}
             /\ w \in Thread
  BY <1>0, <1>1, <1>3, <1>4, LiveJoiner
<1>5. /\ state'[e] = code
      /\ \A t \in Thread : t # e => (state'[t] = state[t] \/ (t \in Live /\ state'[t] = Alive))
  <2>1. CASE block_id[e] >= 0
    <3> HIDE DEF w
    <3>1. state' = [[state EXCEPT ![w] = Alive] EXCEPT ![e] = code]
      BY <2>1 DEF StateAfterWake, w
    <3> QED BY <1>2, <1>3, <1>4, <2>1, <3>1
  <2>2. CASE ~(block_id[e] >= 0)
    BY <1>2, <1>3, <2>2 DEF StateAfterWake
  <2> QED BY <2>1, <2>2
<1>6. \A t \in Thread : t # e => (state'[t] < 0 <=> state[t] < 0)
                                 /\ (state[t] >= 0 => state'[t] = state[t])
  <2> SUFFICES ASSUME NEW t \in Thread, t # e
               PROVE  (state'[t] < 0 <=> state[t] < 0)
                      /\ (state[t] >= 0 => state'[t] = state[t])
    OBVIOUS
  <2>1. CASE state'[t] = state[t]
    BY <2>1
  <2>2. CASE t \in Live /\ state'[t] = Alive
    <3>1. state[t] \in Int /\ state[t] < 0
      BY <1>2, <2>2 DEF Live
    <3> QED BY <2>2, <3>1 DEF Alive
  <2> QED BY <1>5, <2>1, <2>2
<1>7. \A t : InTable(t)' <=> InTable(t)
  BY <1>2 DEF InTable
<1>8. AStatus' = [AStatus EXCEPT ![e] = code]
  <2>1. AbstractStatus(e)' = code
    <3>1. ~(e > threads_count) /\ threads_count' = threads_count
      <4>1. threads_count \in Int
        BY <1>1 DEF SlotInv, TypeOK, Thread
      <4> QED BY <1>3, <4>1 DEF Created, table
    <3>2. InTable(e)
      BY <1>0, <1>3, Seen
    <3>3. ~(code < 0)
      OBVIOUS
    <3> QED BY <1>5, <1>7, <3>1, <3>2, <3>3 DEF AbstractStatus
  <2>2. ASSUME NEW t \in Thread, t # e PROVE AbstractStatus(t)' = AbstractStatus(t)
    <3>1. threads_count' = threads_count /\ state[t] \in Int
      BY <1>2 DEF table
    <3>2. CASE state[t] < 0
      BY <1>6, <2>2, <3>1, <3>2 DEF AbstractStatus
    <3>3. CASE state[t] >= 0
      <4>1. state'[t] = state[t]
        BY <1>6, <2>2, <3>3
      <4> QED BY <1>7, <3>1, <4>1 DEF AbstractStatus
    <3> QED BY <3>1, <3>2, <3>3
  <2> QED BY <1>3, <2>1, <2>2 DEF AStatus
<1>9. ATarget' = [ATarget EXCEPT ![e] = e]
  <2>1. AbstractTarget(e)' = e
    <3>1. ~(code < 0)
      OBVIOUS
    <3> QED BY <1>5, <3>1 DEF AbstractTarget
  <2>2. \A t \in Thread : t # e => AbstractTarget(t)' = AbstractTarget(t)
    BY <1>2, <1>6 DEF AbstractTarget
  <2> QED BY <1>3, <2>1, <2>2 DEF ATarget
<1>10. ATaken' = ATaken
  BY <1>2, <1>7 DEF ATaken
<1>11. /\ queue \in Queues(Nodes)
       /\ \E S : Linked(queue, S) /\ e \in S
       /\ Traversal(queue) = ReadyThreads \o Promise!Joiner(e)
  <2>1. Promise!Joiner(e) = IF block_id[e] >= 0 THEN <<w>> ELSE <<>>
    BY <1>0, JoinerIsNamed
  <2>2. ReadyThreads \in Seq(Nodes)
    BY <1>0, Seen
  <2> HIDE DEF w
  <2>3. CASE block_id[e] >= 0
    <3>1. queue = InsertTail(ready_queue, w)
      BY <2>3 DEF QueueAfterWake, w
    <3>2. /\ Linked(InsertTail(ready_queue, w), Ready \cup {w})
          /\ Traversal(InsertTail(ready_queue, w)) = Append(Traversal(ready_queue), w)
      BY <1>1, <1>4, <2>3, LinkedInsert, InsertOrder
    <3>3. InsertTail(ready_queue, w) \in Queues(Nodes)
      BY <1>1, <1>4, <2>3, QueueTypes DEF Queues, Nodes
    <3>4. Append(ReadyThreads, w) = ReadyThreads \o <<w>>
      BY <1>4, <2>2, <2>3
    <3> HIDE DEF queue
    <3> QED BY <2>1, <2>3, <3>1, <3>2, <3>3, <3>4 DEF ReadyThreads
  <2>4. CASE ~(block_id[e] >= 0)
    <3>1. queue = ready_queue
      BY <2>4 DEF QueueAfterWake
    <3>2. ReadyThreads \o <<>> = ReadyThreads
      BY <2>2
    <3> HIDE DEF queue
    <3> QED BY <1>1, <2>1, <2>4, <3>1, <3>2 DEF ReadyThreads
  <2> QED BY <2>3, <2>4
<1>12. \E k \in DOMAIN ReadyThreads :
           /\ ReadyThreads[k] = e
           /\ ReadyThreads' = (SubSeq(ReadyThreads, 1, k - 1)
                                   \o SubSeq(ReadyThreads, k + 1, Len(ReadyThreads)))
                                  \o Promise!Joiner(e)
  <2> DEFINE r == ReadyThreads
             j == Promise!Joiner(e)
  <2>1. /\ r \in Seq(Nodes) /\ j \in Seq(Nodes)
        /\ Len(j) = 0 \/ (Len(j) = 1 /\ j[1] # e)
    <3>1. j = IF block_id[e] >= 0 THEN <<w>> ELSE <<>>
      BY <1>0, JoinerIsNamed
    <3>2. r \in Seq(Nodes)
      BY <1>0, Seen
    <3> HIDE DEF w, r, j
    <3>3. CASE block_id[e] >= 0
      BY <1>4, <3>1, <3>2, <3>3
    <3>4. CASE ~(block_id[e] >= 0)
      BY <3>1, <3>2, <3>4
    <3> QED BY <3>3, <3>4
  <2> HIDE DEF queue, r, j
  <2>2. PICK k \in DOMAIN Traversal(queue) :
            /\ Traversal(queue)[k] = e
            /\ Traversal(Remove(queue, e)) =
                   SubSeq(Traversal(queue), 1, k - 1)
                       \o SubSeq(Traversal(queue), k + 1, Len(Traversal(queue)))
    BY <1>11, RemoveOrder
  <2>3. Traversal(queue) = r \o j
    BY <1>11 DEF r, j
  <2>4. /\ Len(r \o j) = Len(r) + Len(j) /\ DOMAIN (r \o j) = 1 .. Len(r \o j)
        /\ \A m \in 1 .. Len(r) + Len(j) :
              (r \o j)[m] = IF m <= Len(r) THEN r[m] ELSE j[m - Len(r)]
    BY <2>1, ConcatProperties
  <2>5. k \in 1 .. Len(r)
    <3>1. k \in 1 .. Len(r) + Len(j) /\ Len(r) \in Nat /\ (r \o j)[k] = e
      <4>1. k \in DOMAIN (r \o j) /\ (r \o j)[k] = e
        BY <2>2, <2>3
      <4>2. Len(r) \in Nat
        BY <2>1
      <4> QED BY <2>4, <4>1, <4>2
    <3> SUFFICES ASSUME k > Len(r) PROVE FALSE
      BY <3>1
    <3>2. Len(j) = 1 /\ k - Len(r) = 1
      BY <2>1, <3>1
    <3>3. (r \o j)[k] = j[1]
      BY <2>4, <3>1, <3>2
    <3> QED BY <2>1, <3>1, <3>2, <3>3
  <2>6. r[k] = e /\ k \in DOMAIN r
    <3>1. k \in 1 .. Len(r) + Len(j) /\ k <= Len(r)
      BY <2>1, <2>5
    <3> QED BY <2>1, <2>2, <2>3, <2>4, <2>5, <3>1
  <2>7. ReadyThreads' = Traversal(Remove(queue, e))
    BY DEF ReadyThreads, queue
  <2>8. SubSeq(r \o j, 1, k - 1) \o SubSeq(r \o j, k + 1, Len(r \o j))
            = (SubSeq(r, 1, k - 1) \o SubSeq(r, k + 1, Len(r))) \o j
    BY <2>1, <2>5, RemovedBefore
  <2>9. ReadyThreads' = (SubSeq(r, 1, k - 1) \o SubSeq(r, k + 1, Len(r))) \o j
    BY <2>2, <2>3, <2>7, <2>8
  <2> QED BY <2>6, <2>9 DEF r, j
<1>13. Over' = (ReadyThreads' = <<>>)
  <2>1. Linked(ready_queue, Ready)'
    BY <1>0, ThreadEnds
  <2>2. ready_queue' \in Queues(Nodes)
    <3>1. /\ ready_queue' \in [next : [Nodes -> {NULL} \cup Created'],
                               prev : [Nodes -> {NULL} \cup Created']]
          /\ {NULL} \cup Created' \subseteq Nodes
      BY <1>1, <1>2, Types DEF SlotInv, TypeOK
    <3> QED BY <3>1 DEF Queues
  <2>3. Traversal(ready_queue') = <<>> <=> Ready' = {}
    BY <2>1, <2>2, OrderOfList
  <2>4. IsEmpty(ready_queue') <=> Ready' = {}
    BY <2>1, LinkedEnds DEF IsEmpty, NULL
  <2>5. Over' <=> ReadyThreads' = <<>>
    BY <2>3, <2>4 DEF Over, ReadyThreads
  <2> QED BY <2>5 DEF Over
<1>14. Promise!Calling
  BY <1>0, Seen
<1>15. PICK k \in DOMAIN ReadyThreads :
           /\ ReadyThreads[k] = e
           /\ ReadyThreads' = (SubSeq(ReadyThreads, 1, k - 1)
                                   \o SubSeq(ReadyThreads, k + 1, Len(ReadyThreads)))
                                  \o Promise!Joiner(e)
  BY <1>12
<1> QED BY <1>3, <1>8, <1>9, <1>10, <1>13, <1>14, <1>15, EndStep

\* wut_exit and the return of a thread's function.
LEMMA ExitImplements ==
    ASSUME QueueInv, SlotInv', NEW status \in Int, status % 256 \in Codes, Exit(status)
    PROVE  Promise!Next
<1>1. PICK e \in Ready : e = HeadThread
  BY CallerEnds
<1>2. process' = "running" <=> ~IsEmpty(ready_queue')
  BY CallerEnds
<1> QED BY <1>1, <1>2, CallerEnds, EndImplements

\* wut_cancel: of a ready thread, or refused.
LEMMA CancelImplements ==
    ASSUME CancelTargets \subseteq {"ready"}, QueueInv, SlotInv', wut_cancel
    PROVE  [Promise!Next]_(Promise!vars)
<1>1. PICK i \in ArgumentIds : \/ Cancels(i) \/ CancelFaults(i) \/ CancelHangs(i)
                               \/ CancelFails(i) \/ ReadsPastTable(i)
  BY DEF wut_cancel
<1>2. CASE Cancels(i) \/ CancelFaults(i) \/ CancelHangs(i)
  <2>1. PICK t \in Ready : t = threads[i]
    BY <1>2, TargetEnds
  <2>2. process' = "running" /\ HeadThread' = running
    BY <1>2, CancelRunsOn
  <2>3. ~IsEmpty(ready_queue')
    <3>1. HeadThread' = First(ready_queue') /\ running # 0
      BY Types DEF HeadThread, QueueInv, SlotInv, TypeOK, NULL
    <3> QED BY <2>2, <3>1 DEF IsEmpty
  <2>4. CancelledStatus \in Codes
    BY DEF Codes
  <2>5. Promise!Next
    BY <1>2, <2>1, <2>2, <2>3, <2>4, TargetEnds, EndImplements
  <2> QED BY <2>5
<1>3. CASE CancelFails(i)
  BY <1>3, ReturnsErrorStutters DEF CancelFails
<1>4. CASE ReadsPastTable(i)
  BY <1>4, ReturnsErrorStutters, EndsStop DEF ReadsPastTable
<1> QED BY <1>1, <1>2, <1>3, <1>4

\* A join empties the slot of an ended thread: its status has been collected.
LEMMA Collects ==
    ASSUME SlotInv, EndedWithCode, NEW i \in Slots, NEW t \in Created, threads[i] = t,
           state[t] >= 0, threads' = [threads EXCEPT ![i] = NULL],
           UNCHANGED <<threads_count, tcbs>>
    PROVE  /\ AStatus[t] \in Codes
           /\ AStatus' = [AStatus EXCEPT ![t] = -3]
           /\ ATaken' = ATaken \cup {t}
           /\ t \in ATaken <=> block_id[t] >= 0
<1>1. /\ t \in Thread /\ t # NULL /\ id[t] = i /\ Created' = Created
      /\ UNCHANGED <<state, id, block_id, threads_count>>
  BY Types DEF SlotInv, SlotsHoldTheirThread, Created, tcbs
<1>2. /\ threads \in [Slots -> {NULL} \cup Created] /\ id \in [Thread -> Slots]
      /\ state \in [Thread -> -2 .. 255] /\ Created \subseteq Thread
  BY Types DEF SlotInv, TypeOK
<1>3. InTable(t) /\ ~InTable(t)'
  BY <1>1, <1>2 DEF InTable
<1>4. ASSUME NEW u \in Thread, u # t PROVE InTable(u)' <=> InTable(u)
  <2>1. threads'[id[u]] = IF id[u] = i THEN NULL ELSE threads[id[u]]
    BY <1>2
  <2>2. u # NULL
    BY DEF Thread, NULL
  <2>3. InTable(u)' <=> threads'[id[u]] = u
    BY <1>1 DEF InTable
  <2> QED BY <1>4, <2>1, <2>2, <2>3 DEF InTable
<1>6. ~(t > threads_count) /\ ~(state[t] < 0)
  <2>1. threads_count \in Int /\ state[t] \in Int
    <3>1. threads_count \in Thread /\ state[t] \in -2 .. 255
      BY <1>1, <1>2 DEF SlotInv, TypeOK
    <3> QED BY <3>1 DEF Thread
  <2> QED BY <2>1 DEF Created
<1>7. AStatus[t] \in Codes
  <2>1. AbstractStatus(t) = state[t] /\ state[t] \in Codes
    BY <1>3, <1>6 DEF AbstractStatus, EndedWithCode
  <2> QED BY <1>1, <2>1 DEF AStatus
<1>8. AStatus' = [AStatus EXCEPT ![t] = -3]
  <2>1. AbstractStatus(t)' = -3
    BY <1>1, <1>3, <1>6 DEF AbstractStatus
  <2>2. ASSUME NEW u \in Thread, u # t PROVE AbstractStatus(u)' = AbstractStatus(u)
    BY <1>1, <1>4, <2>2 DEF AbstractStatus
  <2> QED BY <1>1, <2>1, <2>2 DEF AStatus
<1>9. ATaken' = ATaken \cup {t}
  <2>1. \A u \in Created : u # t => (InTable(u)' <=> InTable(u))
    BY <1>2, <1>4
  <2> QED BY <1>1, <1>3, <2>1 DEF ATaken
<1>10. t \in ATaken <=> block_id[t] >= 0
  BY <1>3 DEF ATaken
<1> QED BY <1>7, <1>8, <1>9, <1>10

LEMMA ReapImplements ==
    ASSUME QueueInv, EndedWithCode, NEW i, JoinReaps(i)
    PROVE  Promise!Next
<1>1. process = "running" /\ CanCall /\ i \in Slots /\ ~RejectedId(i) /\ ~Claimed(i)
  BY DEF JoinReaps, Joinable, CanCall
<1>2. /\ SlotInv /\ JoinInv /\ Ready \subseteq Live
      /\ Live \subseteq Created /\ Created \subseteq Thread
  BY <1>1, Caller
<1>3. threads[i] \in Created /\ threads[i] # NULL
  BY <1>1, <1>2 DEF RejectedId, SlotInv, TypeOK
<1>4. PICK t \in Created : t = threads[i]
  BY <1>3
<1>5. /\ state[t] >= 0 /\ threads' = [threads EXCEPT ![i] = NULL]
      /\ UNCHANGED <<threads_count, threads_capacity, tcbs, ready_queue, joining, process>>
  BY <1>4 DEF JoinReaps
<1>6. ~(block_id[t] >= 0)
  BY <1>1, <1>3, <1>4 DEF Claimed
<1>7. /\ threads \in [Slots -> {NULL} \cup Created] /\ id \in [Thread -> Slots]
      /\ state \in [Thread -> -2 .. 255] /\ joining \in [Thread -> Slots \cup {-1}]
  BY <1>2 DEF SlotInv, TypeOK
<1>8. ASSUME NEW w \in Thread PROVE AbstractTarget(w)' = AbstractTarget(w)
  <2>1. joining'[w] = joining[w] /\ state'[w] = state[w]
    BY <1>5 DEF tcbs
  <2> SUFFICES ASSUME joining[w] >= 0, state[w] < 0
               PROVE  threads'[joining[w]] = threads[joining[w]]
    BY <2>1 DEF AbstractTarget
  <2>2. w \in Live
    BY <1>2 DEF JoinInv, EntriesAndSlots, Live
  <2>3. joining[w] \in Slots
    BY <1>1, <2>2, Seen
  <2>4. joining[w] # i
    <3> SUFFICES ASSUME joining[w] = i PROVE FALSE
      OBVIOUS
    <3>1. CASE w \in Ready
      <4>1. block_id[t] = id[w] /\ id[w] \in Slots
        BY <1>2, <1>4, <1>7, <3>1 DEF JoinInv, WokenFindsEnded
      <4> QED BY <1>2, <1>6, <4>1, Types
    <3>2. CASE w \notin Ready
      <4>1. state[w] = Blocked
        <5>1. state[w] \in -2 .. 255 /\ w \in Created
          BY <1>2, <1>7, <2>2
        <5> QED BY <3>2, <5>1 DEF Ready, Alive, Blocked
      <4>2. \E u \in Live : Joins(w, u)
        BY <1>2, <2>2, <4>1 DEF JoinInv, BlockedJoinsLive
      <4>3. t \in Live
        BY <1>4, <4>2 DEF Joins
      <4>4. state[t] \in Int /\ state[t] < 0
        BY <1>2, <1>7, <4>3 DEF Live
      <4> QED BY <1>5, <4>4
    <3> QED BY <3>1, <3>2
  <2> QED BY <1>5, <1>7, <2>3, <2>4
<1>9. ATarget' = ATarget
  BY <1>8 DEF ATarget
<1>10. /\ AStatus[t] \in Codes /\ AStatus' = [AStatus EXCEPT ![t] = -3]
       /\ ATaken' = ATaken \cup {t} /\ t \notin ATaken
  BY <1>1, <1>2, <1>4, <1>5, <1>6, Collects
<1>11. ReadyThreads' = ReadyThreads /\ Over' = Over
  BY <1>5 DEF ReadyThreads, Over
<1>12. Promise!Calling
  BY <1>1, Seen
<1> QED BY <1>2, <1>9, <1>10, <1>11, <1>12, JoinEndedStep

\* The rest of a join that had to wait: its target was taken when it blocked.
LEMMA JoinReturnsImplements ==
    ASSUME QueueInv, EndedWithCode, JoinReturns
    PROVE  Promise!Next
<1> DEFINE i == joining[running]
<1>1. process = "running" /\ i >= 0
  BY DEF JoinReturns
<1>2. /\ SlotInv /\ JoinInv /\ running \in Ready /\ Ready \subseteq Live
      /\ Live \subseteq Created /\ Created \subseteq Thread
  BY <1>1, Caller
<1>3. i \in Slots /\ threads[i] \in Created
  BY <1>1, <1>2, Seen
<1>4. threads[i] # NULL /\ state[threads[i]] >= 0 /\ block_id[threads[i]] = id[running]
  BY <1>1, <1>2 DEF JoinInv, WokenFindsEnded
<1>5. PICK t \in Created : t = threads[i]
  BY <1>3
<1>6. PICK self \in Thread : self = running
  BY <1>2
<1>7. PICK j \in Slots : j = i
  BY <1>3
<1>8. /\ threads' = [threads EXCEPT ![j] = NULL]
      /\ joining' = [joining EXCEPT ![self] = -1]
      /\ UNCHANGED <<threads_count, threads_capacity, tcbs, ready_queue, process>>
  BY <1>4, <1>6, <1>7 DEF JoinReturns
<1>9. /\ threads \in [Slots -> {NULL} \cup Created] /\ id \in [Thread -> Slots]
      /\ state \in [Thread -> -2 .. 255] /\ joining \in [Thread -> Slots \cup {-1}]
  BY <1>2 DEF SlotInv, TypeOK
<1>10. state[t] >= 0 /\ block_id[t] = id[self] /\ t \notin Live /\ self \in Live
  <2>1. ~(state[t] < 0)
    BY <1>2, <1>4, <1>5, <1>9
  <2> QED BY <1>2, <1>4, <1>5, <1>6, <2>1 DEF Live
<1>11. block_id[t] >= 0
  BY <1>2, <1>9, <1>10, Types
<1>12. ASSUME NEW w \in Live, w # self PROVE joining[w] # j
  <2> SUFFICES ASSUME joining[w] = j PROVE FALSE
    OBVIOUS
  <2>1. joining[w] >= 0 /\ threads[joining[w]] = t
    BY <1>1, <1>5, <1>7
  <2>2. CASE w \in Ready
    <3>1. block_id[t] = id[w]
      BY <1>2, <2>1, <2>2 DEF JoinInv, WokenFindsEnded
    <3>2. threads[id[w]] = w /\ threads[id[self]] = self
      BY <1>2, <1>10 DEF JoinInv, EntriesAndSlots
    <3> QED BY <1>10, <1>12, <3>1, <3>2
  <2>3. CASE w \notin Ready
    <3>1. state[w] = Blocked
      <4>1. state[w] \in -2 .. 255 /\ w \in Created /\ state[w] < 0
        BY <1>2, <1>9 DEF Live
      <4> QED BY <2>3, <4>1 DEF Ready, Alive, Blocked
    <3>2. \E u \in Live : Joins(w, u)
      BY <1>2, <3>1 DEF JoinInv, BlockedJoinsLive
    <3> QED BY <1>10, <2>1, <3>2 DEF Joins
  <2> QED BY <2>2, <2>3
<1>13. ASSUME NEW w \in Thread, w # self PROVE AbstractTarget(w)' = AbstractTarget(w)
  <2>1. joining'[w] = joining[w] /\ state'[w] = state[w]
    BY <1>8, <1>9, <1>13 DEF tcbs
  <2> SUFFICES ASSUME joining[w] >= 0, state[w] < 0
               PROVE  threads'[joining[w]] = threads[joining[w]]
    BY <2>1 DEF AbstractTarget
  <2>2. w \in Live
    BY <1>2 DEF JoinInv, EntriesAndSlots, Live
  <2>3. joining[w] \in Slots /\ joining[w] # j
    BY <1>1, <1>12, <1>13, <2>2, Seen
  <2> QED BY <1>8, <1>9, <2>3
<1>14. AbstractTarget(self)' = self
  <2>1. joining'[self] = -1
    BY <1>8, <1>9
  <2> QED BY <2>1 DEF AbstractTarget
<1>15. ATarget' = [ATarget EXCEPT ![self] = self]
  BY <1>13, <1>14 DEF ATarget
<1>16. ATarget[self] = t /\ t # self /\ t \in Thread
  BY <1>1, <1>2, <1>5, <1>6, <1>10, Seen
<1>17. /\ AStatus[t] \in Codes /\ AStatus' = [AStatus EXCEPT ![t] = -3]
       /\ ATaken' = ATaken \cup {t} /\ t \in ATaken
  BY <1>2, <1>5, <1>7, <1>8, <1>10, <1>11, Collects
<1>18. ATaken' = ATaken
  BY <1>17
<1>19. ReadyThreads' = ReadyThreads /\ Over' = Over
  BY <1>8 DEF ReadyThreads, Over
<1>20. ~Over /\ ReadyThreads[1] = self
  BY <1>1, <1>6, Seen
<1> QED BY <1>15, <1>16, <1>17, <1>18, <1>19, <1>20, JoinReturnsStep

\* The caller waits for a live thread that nobody has joined.
LEMMA BlockImplements ==
    ASSUME QueueInv, SlotInv', NEW i, JoinBlocks(i)
    PROVE  Promise!Next
<1>1. /\ process = "running" /\ CanCall /\ joining[running] = -1
      /\ i \in Slots /\ ~RejectedId(i) /\ ~Claimed(i) /\ state[threads[i]] < 0
  BY DEF JoinBlocks, Joinable, CanCall
<1>2. /\ SlotInv /\ Linked(ready_queue, Ready) /\ JoinInv
      /\ HeadThread = running /\ running \in Ready
      /\ ready_queue \in Queues(Nodes)
      /\ Ready \subseteq Live /\ Live \subseteq Created /\ Created \subseteq Thread
  BY <1>1, Caller
<1>3. /\ threads \in [Slots -> {NULL} \cup Created] /\ id \in [Thread -> Slots]
      /\ block_id \in [Thread -> Slots \cup {-1}] /\ Slots \subseteq Nat
      /\ joining \in [Thread -> Slots \cup {-1}]
      /\ state \in [Thread -> -2 .. 255]
  BY <1>2, Types DEF SlotInv, TypeOK
<1>4. threads[i] \in Created /\ threads[i] # NULL /\ id[HeadThread] # i
  BY <1>1, <1>3 DEF RejectedId
<1>5. PICK t \in Created : t = threads[i]
  BY <1>4
<1>6. PICK self \in Thread : self = running
  BY <1>2
<1>7. t \in Live /\ t # self /\ self \in Live /\ ~(block_id[t] >= 0)
  <2>1. id[t] = i
    BY <1>1, <1>2, <1>4, <1>5 DEF SlotInv, SlotsHoldTheirThread
  <2>2. ~(block_id[t] >= 0)
    BY <1>1, <1>4, <1>5 DEF Claimed
  <2> QED BY <1>1, <1>2, <1>4, <1>5, <1>6, <2>1, <2>2 DEF Live
<1>8. /\ state' = [state EXCEPT ![self] = Blocked]
      /\ block_id' = [block_id EXCEPT ![t] = id[self]]
      /\ ready_queue' = Remove(ready_queue, self)
      /\ joining' = [joining EXCEPT ![self] = i]
      /\ process' = "running" <=> ~IsEmpty(ready_queue')
      /\ UNCHANGED <<table, id>>
  BY <1>1, <1>2, <1>5, <1>6 DEF JoinBlocks
<1>9. UNCHANGED <<threads, threads_count, id>> /\ Created' = Created
  BY <1>8 DEF table, Created
<1>10. AStatus' = AStatus
  <2>1. state[self] < 0 /\ state'[self] < 0
        /\ \A u \in Thread : u # self => state'[u] = state[u]
    BY <1>3, <1>7, <1>8 DEF Live, Blocked
  <2>2. ASSUME NEW u \in Thread PROVE AbstractStatus(u)' = AbstractStatus(u)
    <3>1. InTable(u)' <=> InTable(u)
      BY <1>9 DEF InTable
    <3>2. CASE u = self
      BY <1>9, <2>1, <3>2 DEF AbstractStatus
    <3>3. CASE u # self
      BY <1>9, <2>1, <3>1, <3>3 DEF AbstractStatus
    <3> QED BY <3>2, <3>3
  <2> QED BY <2>2 DEF AStatus
<1>11. ATarget' = [ATarget EXCEPT ![self] = t]
  <2>1. AbstractTarget(self)' = t
    <3>1. joining'[self] = i /\ state'[self] = -2 /\ i >= 0 /\ threads'[i] = t
      BY <1>1, <1>3, <1>5, <1>8, <1>9 DEF Blocked
    <3> QED BY <3>1 DEF AbstractTarget
  <2>2. ASSUME NEW u \in Thread, u # self PROVE AbstractTarget(u)' = AbstractTarget(u)
    <3>1. joining'[u] = joining[u] /\ state'[u] = state[u]
      BY <1>3, <1>8, <2>2
    <3> QED BY <1>9, <3>1 DEF AbstractTarget
  <2> QED BY <2>1, <2>2 DEF ATarget
<1>12. ATaken' = ATaken \cup {t}
  <2>1. block_id'[t] >= 0 /\ t \in Thread
    <3>1. id[self] \in Nat /\ t \in Thread
      BY <1>2, <1>3
    <3>2. block_id'[t] = id[self]
      BY <1>3, <1>8, <3>1
    <3> QED BY <3>1, <3>2
  <2>2. \A u \in Created : u # t => block_id'[u] = block_id[u]
    BY <1>2, <1>3, <1>8
  <2>3. \A u : InTable(u)' <=> InTable(u)
    BY <1>9 DEF InTable
  <2> QED BY <1>9, <2>1, <2>2, <2>3 DEF ATaken
<1>13. t \notin ATaken /\ AStatus[t] = -1
  <2>1. InTable(t) /\ AStatus[t] = -1
    BY <1>1, <1>7, Seen
  <2> QED BY <1>7, <2>1 DEF ATaken
<1>14. ReadyThreads' = Tail(ReadyThreads)
  <2>1. self \in Ready /\ self = First(ready_queue)
    BY <1>2, <1>6 DEF HeadThread
  <2>2. Traversal(Remove(ready_queue, self)) = Tail(Traversal(ready_queue))
    BY <1>2, <2>1, RemoveOrder
  <2> QED BY <1>8, <2>2 DEF ReadyThreads
<1>15. Over' = (ReadyThreads' = <<>>)
  <2>1. Linked(ready_queue', Ready \ {self})
    BY <1>2, <1>6, <1>8, LinkedRemove
  <2>2. ready_queue' \in Queues(Nodes)
    <3>1. /\ ready_queue' \in [next : [Nodes -> {NULL} \cup Created'],
                               prev : [Nodes -> {NULL} \cup Created']]
          /\ {NULL} \cup Created' \subseteq Nodes
      BY <1>2, <1>9, Types DEF SlotInv, TypeOK
    <3> QED BY <3>1 DEF Queues
  <2>3. Traversal(ready_queue') = <<>> <=> IsEmpty(ready_queue')
    <3> DEFINE S == Ready \ {self}
    <3>1. Linked(ready_queue', S)
      BY <2>1
    <3> HIDE DEF S
    <3> QED BY <2>2, <3>1, OrderOfList, LinkedEnds DEF IsEmpty, NULL
  <2>4. Over' <=> ReadyThreads' = <<>>
    BY <1>8, <2>3 DEF Over, ReadyThreads
  <2> QED BY <2>4 DEF Over
<1>16. Promise!Calling /\ self = Promise!self
  BY <1>1, <1>6, Seen
<1> QED BY <1>2, <1>7, <1>10, <1>11, <1>12, <1>13, <1>14, <1>15, <1>16, JoinLiveStep

LEMMA JoinImplements ==
    ASSUME QueueInv, EndedWithCode, SlotInv', wut_join
    PROVE  [Promise!Next]_(Promise!vars)
<1>1. PICK i \in ArgumentIds :
          JoinFails(i) \/ JoinReaps(i) \/ JoinBlocks(i) \/ ReadsPastTable(i)
  BY DEF wut_join
<1>2. CASE JoinFails(i)
  BY <1>2, ReturnsErrorStutters DEF JoinFails
<1>3. CASE ReadsPastTable(i)
  BY <1>3, ReturnsErrorStutters, EndsStop DEF ReadsPastTable
<1> QED BY <1>1, <1>2, <1>3, ReapImplements, BlockImplements

LEMMA StepImplements ==
    ASSUME CancelTargets \subseteq {"ready"}, QueueInv, EndedWithCode, [Next]_vars
    PROVE  [Promise!Next]_(Promise!vars)
<1>0. SlotInv /\ SlotInv'
  BY StepSlotInv DEF QueueInv
<1>1. CASE wut_create
  BY <1>0, <1>1, CreateImplements
<1>2. CASE CreateDies \/ MainReturns
  BY <1>2, EndsStop DEF CreateDies, MainReturns
<1>3. CASE wut_exit
  <2>1. PICK status \in Statuses : Exit(status)
    BY <1>3 DEF wut_exit
  <2>2. status \in Int /\ status % 256 \in Codes
    BY WutAssumption DEF Codes
  <2> QED BY <1>0, <2>1, <2>2, ExitImplements
<1>4. CASE RunReturns
  <2>1. process = "running"
    BY <1>4 DEF RunReturns, Exit, CanCall
  <2>2. running \in Ready
    BY <2>1, Caller
  <2>3. state[running] < 0
    BY <2>2 DEF Ready, Alive
  <2>4. Exit(0) /\ 0 \in Int /\ 0 % 256 \in Codes
    BY <1>4, <2>3 DEF RunReturns, Codes
  <2> QED BY <1>0, <2>4, ExitImplements
<1>5. CASE wut_cancel
  BY <1>0, <1>5, CancelImplements
<1>6. CASE wut_join
  BY <1>0, <1>6, JoinImplements
<1>7. CASE JoinReturns
  BY <1>7, JoinReturnsImplements
<1>8. CASE wut_yield
  BY <1>8, YieldImplements, ReturnsErrorStutters DEF wut_yield, YieldFails
<1>9. CASE UNCHANGED vars
  <2>1. UNCHANGED <<table, tcbs, joining>> /\ ReadyThreads' = ReadyThreads /\ Over' = Over
    BY <1>9 DEF vars, table, tcbs, ReadyThreads, Over
  <2> QED BY <2>1, UnchangedSeen, StutterStep
<1> QED BY <1>1, <1>2, <1>3, <1>4, <1>5, <1>6, <1>7, <1>8, <1>9 DEF Next, Ended

LEMMA InitImplements == Init => Promise!Init
<1> SUFFICES ASSUME Init PROVE Promise!Init
  OBVIOUS
<1>1. Created = {1} /\ 1 \in Thread /\ Thread \subseteq Nat /\ NULL \notin Thread
  BY WutAssumption DEF Init, Created, Thread, NULL
<1>2. /\ threads_count = 1 /\ state = [t \in Thread |-> Alive]
      /\ joining = [t \in Thread |-> -1] /\ block_id = [t \in Thread |-> -1]
      /\ id[1] = 0 /\ threads[0] = 1 /\ process = "running"
  BY <1>1, WutAssumption DEF Init
<1>3. ReadyThreads = <<1>>
  <2> DEFINE q == EmptyQueue(Thread)
             f == [k \in 0 .. 0 + 1 |-> NULL]
  <2>1. q \in Queues(Nodes)
    BY DEF EmptyQueue, Queues, Nodes, NULL
  <2>2. Lists(q, 0, f) /\ Entries(0, f) = {} /\ f \in [0 .. 0 + 1 -> Nodes] /\ 0 \in Nat
    BY DEF Lists, Entries, EmptyQueue, NULL, Nodes
  <2> HIDE DEF f, q
  <2>3. Linked(q, {})
    BY <2>2 DEF Linked
  <2>4. 1 \in Nodes \ {NULL}
    BY <1>1 DEF Nodes
  <2>5. Traversal(InsertTail(q, 1)) = Append(Traversal(q), 1)
    BY <2>1, <2>3, <2>4, InsertOrder
  <2>6. Traversal(q) = <<>>
    BY <2>1, <2>3, OrderOfList
  <2>7. ReadyThreads = Traversal(InsertTail(q, 1))
    BY DEF Init, ReadyThreads, q
  <2> QED BY <2>5, <2>6, <2>7
<1>4. ASSUME NEW t \in Thread
      PROVE  AbstractStatus(t) = IF t = 1 THEN -1 ELSE -2
  <2>1. t > 1 <=> t # 1
    BY <1>1 DEF Thread
  <2> QED BY <1>2, <2>1 DEF AbstractStatus, Alive
<1>5. \A t \in Thread : AbstractTarget(t) = t
  BY <1>2 DEF AbstractTarget
<1>6. InTable(1) /\ ~(block_id[1] >= 0)
  BY <1>1, <1>2 DEF InTable
<1>7. {t \in Created : block_id[t] >= 0 \/ ~InTable(t)} = {}
  BY <1>1, <1>6
<1>8. (process # "running") = FALSE
  BY <1>2
<1> QED BY <1>3, <1>4, <1>5, <1>7, <1>8 DEF Promise!Init, Promise!Live, Promise!Unborn

\* Every call of the library does what UserThreads says: threads take turns in
\* queue order, a thread's end goes to the one joiner it has, whose turn comes
\* after those of all the threads ready before it, and each status is reported
\* once.
THEOREM LibraryKeepsPromise ==
    ASSUME CancelTargets \subseteq {"ready"}
    PROVE  Spec => ImplementsUserThreads
<1> DEFINE Inv == QueueInv /\ EndedWithCode
<1>1. Init => Inv
  <2>1. Init => QueueInv
    BY InitQueueInv
  <2>2. ASSUME Init PROVE EndedWithCode
    <3>1. Created = {1} /\ state[1] < 0
      BY <2>2, WutAssumption DEF Init, Created, Thread, Alive
    <3> QED BY <3>1 DEF EndedWithCode
  <2> QED BY <2>1, <2>2
<1>2. Inv /\ [Next]_vars => Inv'
  <2> SUFFICES ASSUME Inv, [Next]_vars PROVE Inv'
    OBVIOUS
  <2>1. QueueInv'
    BY StepQueueInv
  <2>2. EndedWithCode'
    BY StepEndedWithCode DEF QueueInv
  <2> QED BY <2>1, <2>2
<1>3. Inv /\ [Next]_vars => [Promise!Next]_(Promise!vars)
  BY StepImplements
<1>4. Init => Promise!Init
  BY InitImplements
<1> HIDE DEF Inv
<1> QED BY <1>1, <1>2, <1>3, <1>4, PTL DEF Spec, ImplementsUserThreads, Promise!Spec

================================================================================
