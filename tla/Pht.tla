---------------------------------- MODULE Pht ----------------------------------
(***************************************************************************)
(* The hash tables of pht/src and the program that fills them: one table   *)
(* for a single thread (base), one with a lock for the whole table (v1)    *)
(* and one with a lock for each bucket (v2).                               *)
(*                                                                         *)
(* A call to add an entry is named by the index of its key in the array of *)
(* keys, which is the value it adds, and so is the entry it allocates.  A  *)
(* bucket is the set of its entries: a key occurs once (OneEntryPerKey),   *)
(* so the order of its list shows nowhere.                                 *)
(***************************************************************************)
EXTENDS Integers, Sequences, FiniteSets

CONSTANTS
    Key,        \* the strings the program generates
    Bucket,     \* the indexes of a table
    Hash,       \* bernstein_hash modulo the capacity
    UintMax,    \* UINT32_MAX
    MaxDigits,  \* the number of decimal digits of UINT32_MAX
    Arguments   \* pairs <<-t, -s>>: sequences of character codes

ASSUME PhtAssumption ==
    /\ Hash \in [Key -> Bucket]
    /\ UintMax \in Nat /\ MaxDigits \in Nat \ {0}
    /\ Arguments \subseteq Seq(Nat) \X Seq(Nat)

\* What is left of a number when digits are struck off its end, none to length.
Struck(number, length) ==
    LET struck[i \in 0 .. length] == IF i = 0 THEN number ELSE struck[i - 1] \div 10
    IN  struck

ASSUME MaxDigitsAssumption == Struck(UintMax, MaxDigits)[MaxDigits - 1] \in 1 .. 9

Uint == 0 .. UintMax
NoThread == -1
TableLock == "table"

VARIABLES
    arguments,      \* the command line
    threads, size,  \* what it asks for: threads, and entries of each
    data,           \* the keys, by index
    stage,          \* the table in use: "base", "v1" or "v2"
    main, at,       \* where main is, and the counter of the loop it is in
    lists,          \* lists[b]: the entries of bucket b
    value,          \* value[e]: the value of entry e
    allocated,      \* the entries of the heap
    owner,          \* owner[l]: the thread that holds the lock l of the table
    pc, j,          \* where each thread is, and its loop counter
    rest,           \* rest[t]: the entries behind the one that t is inserting
    missing,        \* what the last count found
    process         \* "running", or how the program ended

tableVars == <<lists, value, allocated, owner>>
threadVars == <<pc, j, rest>>
vars == <<arguments, threads, size, data, stage, main, at, tableVars, threadVars,
          missing, process>>

--------------------------------------------------------------------------------
(* The arguments.                                                           *)

Current(string) ==
    LET current[i \in 0 .. Len(string)] ==
            IF i = 0 THEN 0
            ELSE (current[i - 1] * 10 + string[i] - 48) % (UintMax + 1)
    IN  current

OverflowsAbove(current, digit) ==  \* mutant: the last digit is not looked at
    current > UintMax \div 10
Overflows(current, digit) ==
    \/ current > UintMax \div 10
    \/ current = UintMax \div 10 /\ digit > UintMax % 10

Refuses(string) ==
    \E i \in 1 .. Len(string) :
        \/ i > MaxDigits
        \/ string[i] \notin 48 .. 57
        \/ i = MaxDigits /\ Overflows(Current(string)[i - 1], string[i] - 48)

parse_uint32_t(string) == Current(string)[Len(string)]

parse_opt ==
    /\ main = "arguments"
    /\ IF \E i \in {1, 2} : Refuses(arguments[i])
       THEN process' = "EINVAL" /\ UNCHANGED <<threads, size, main>>
       ELSE /\ threads' = parse_uint32_t(arguments[1])
            /\ size' = parse_uint32_t(arguments[2])
            /\ main' = "generate"
            /\ UNCHANGED process
    /\ UNCHANGED <<arguments, data, stage, at, tableVars, threadVars, missing>>

--------------------------------------------------------------------------------
(* The tables.                                                              *)

get_global_index(t, i) == (t * size + i) % (UintMax + 1)

NoMatches(k) ==  \* mutant: an entry that exists is not found
    {}
Matches(k) == {e \in lists[Hash[k]] : data[e] = k}

hash_table_base_contains(k) == Matches(k) # {}
hash_table_v1_contains(k) == Matches(k) # {}
hash_table_v2_contains(k) == Matches(k) # {}

\* A table whose locks are free and whose lists are empty.
EmptyTable(locks) ==
    /\ lists' = [b \in Bucket |-> {}]
    /\ owner' = [l \in locks |-> NoThread]
    /\ UNCHANGED <<value, allocated>>

hash_table_base_create == stage = "base" /\ EmptyTable({})
hash_table_v1_create == stage = "v1" /\ EmptyTable({TableLock})
hash_table_v2_create == stage = "v2" /\ EmptyTable(Bucket)

FoundOnly(e, index) ==  \* mutant: the value is not updated
    UNCHANGED <<value, lists, allocated>>
Update(e, index) ==
    /\ value' = [value EXCEPT ![e] = index]
    /\ UNCHANGED <<lists, allocated>>

hash_table_base_add_entry(index) ==
    /\ \/ \E e \in Matches(data[index]) : Update(e, index)
       \/ /\ ~hash_table_base_contains(data[index])
          /\ allocated' = allocated \cup {index}
          /\ value' = [value EXCEPT ![index] = index]
          /\ lists' = [lists EXCEPT ![Hash[data[index]]] = @ \cup {index}]
    /\ UNCHANGED owner

Index(t) == get_global_index(t, j[t])
ListOf(t) == Hash[data[Index(t)]]
Goes(t, to) == pc' = [pc EXCEPT ![t] = to]

AddTakesLock(t, lock) ==  \* mutant: a lock that is held is taken
    /\ pc[t] = "adding" /\ j[t] < size
    /\ owner' = [owner EXCEPT ![lock] = t]
    /\ Goes(t, "search")
    /\ UNCHANGED <<j, rest, lists, value, allocated>>
AddLocks(t, lock) ==
    /\ pc[t] = "adding" /\ j[t] < size
    /\ owner[lock] = NoThread
    /\ owner' = [owner EXCEPT ![lock] = t]
    /\ Goes(t, "search")
    /\ UNCHANGED <<j, rest, lists, value, allocated>>

\* An entry that exists is updated, and the call returns with the lock held.
AddUpdates(t) ==
    /\ pc[t] = "search"
    /\ \E e \in Matches(data[Index(t)]) : Update(e, Index(t))
    /\ j' = [j EXCEPT ![t] = @ + 1]
    /\ Goes(t, "adding")
    /\ UNCHANGED <<rest, owner>>

AddAllocates(t) ==
    /\ pc[t] = "search"
    /\ Matches(data[Index(t)]) = {}
    /\ allocated' = allocated \cup {Index(t)}
    /\ value' = [value EXCEPT ![Index(t)] = Index(t)]
    /\ Goes(t, "insert")
    /\ UNCHANGED <<j, rest, lists, owner>>

\* SLIST_INSERT_HEAD: the entry's link is read from the head of the list, and
\* then the head is written.
AddReadsHead(t) ==
    /\ pc[t] = "insert"
    /\ rest' = [rest EXCEPT ![t] = lists[ListOf(t)]]
    /\ Goes(t, "link")
    /\ UNCHANGED <<j, tableVars>>

AddForgetsRest(t) ==  \* mutant: the entry is linked to nothing
    /\ pc[t] = "link"
    /\ lists' = [lists EXCEPT ![ListOf(t)] = {Index(t)}]
    /\ rest' = [rest EXCEPT ![t] = {}]
    /\ Goes(t, "unlock")
    /\ UNCHANGED <<j, value, allocated, owner>>
AddWritesHead(t) ==
    /\ pc[t] = "link"
    /\ lists' = [lists EXCEPT ![ListOf(t)] = rest[t] \cup {Index(t)}]
    /\ rest' = [rest EXCEPT ![t] = {}]
    /\ Goes(t, "unlock")
    /\ UNCHANGED <<j, value, allocated, owner>>

AddKeepsLock(t, lock) ==  \* mutant: the lock is not released
    /\ pc[t] = "unlock"
    /\ j' = [j EXCEPT ![t] = @ + 1]
    /\ Goes(t, "adding")
    /\ UNCHANGED <<rest, owner, lists, value, allocated>>
AddUnlocks(t, lock) ==
    /\ pc[t] = "unlock"
    /\ owner' = [owner EXCEPT ![lock] = NoThread]
    /\ j' = [j EXCEPT ![t] = @ + 1]
    /\ Goes(t, "adding")
    /\ UNCHANGED <<rest, lists, value, allocated>>

AddEntry(t, lock) ==
    \/ AddLocks(t, lock) \/ AddUpdates(t) \/ AddAllocates(t)
    \/ AddReadsHead(t) \/ AddWritesHead(t) \/ AddUnlocks(t, lock)

hash_table_v1_add_entry(t) == AddEntry(t, TableLock)
hash_table_v2_add_entry(t) == j[t] < size /\ AddEntry(t, ListOf(t))

FreeTableOnly ==  \* mutant: the entries are not freed
    /\ lists' = [b \in Bucket |-> {}]
    /\ value' = [e \in Uint |-> 0]
    /\ owner' = <<>>
    /\ UNCHANGED allocated
FreeEntries ==
    /\ allocated' = allocated \ (UNION {lists[b] : b \in Bucket})
    /\ lists' = [b \in Bucket |-> {}]
    /\ value' = [e \in Uint |-> 0]
    /\ owner' = <<>>

hash_table_base_destroy == FreeEntries
hash_table_v1_destroy == FreeEntries

\* free(write_mtx_ptr) frees an address inside the table, which calloc did not
\* return: undefined; the C library notices and aborts, or it does not.
hash_table_v2_destroy ==
    \/ process' = "SIGABRT" /\ UNCHANGED <<tableVars, main>>
    \/ process' = "returned 0" /\ main' = "returned" /\ FreeEntries

--------------------------------------------------------------------------------
(* The program.                                                             *)

Entries == 0 .. threads * size - 1
Started == 0 .. threads - 1

Init ==
    /\ arguments \in Arguments
    /\ threads = 0 /\ size = 0 /\ data = <<>>
    /\ stage = "base" /\ main = "arguments" /\ at = 0
    /\ lists = [b \in Bucket |-> {}]
    /\ value = [e \in Uint |-> 0]
    /\ allocated = {} /\ owner = <<>>
    /\ pc = [t \in Uint |-> "none"]
    /\ j = [t \in Uint |-> 0]
    /\ rest = [t \in Uint |-> {}]
    /\ missing = 0 /\ process = "running"

ProgramUnchanged == UNCHANGED <<arguments, threads, size, data>>

\* The array has room for threads * size keys, a product of 32 bits, and the
\* loops fill more than that when it overflows: undefined.
Generate ==
    /\ main = "generate"
    /\ IF threads * size > UintMax
       THEN process' = "undefined" /\ UNCHANGED <<data, main>>
       ELSE data' \in [Entries -> Key] /\ main' = "create" /\ UNCHANGED process
    /\ UNCHANGED <<arguments, threads, size, stage, at, tableVars, threadVars, missing>>

Create ==
    /\ main = "create"
    /\ hash_table_base_create \/ hash_table_v1_create \/ hash_table_v2_create
    /\ main' = "fill" /\ at' = 0
    /\ ProgramUnchanged
    /\ UNCHANGED <<stage, threadVars, missing, process>>

FillBase ==
    /\ main = "fill" /\ stage = "base"
    /\ \/ /\ at < threads * size
          /\ hash_table_base_add_entry(at)
          /\ at' = at + 1 /\ UNCHANGED main
       \/ at = threads * size /\ main' = "count" /\ UNCHANGED <<at, tableVars>>
    /\ ProgramUnchanged
    /\ UNCHANGED <<stage, threadVars, missing, process>>

\* pthread_create may fail: the program returns its error, and ends.
StartThread ==
    /\ main = "fill" /\ stage # "base" /\ at < threads
    /\ \/ /\ Goes(at, "adding")
          /\ at' = at + 1
          /\ j' = [j EXCEPT ![at] = 0]
          /\ UNCHANGED process
       \/ process' = "EAGAIN" /\ UNCHANGED <<at, pc, j>>
    /\ ProgramUnchanged
    /\ UNCHANGED <<stage, main, rest, tableVars, missing>>

\* The loop of joins is over when the last thread has ended.
JoinThreads ==
    /\ main = "fill" /\ stage # "base" /\ at = threads
    /\ \A t \in Started : pc[t] = "ended"
    /\ main' = "count"
    /\ ProgramUnchanged
    /\ UNCHANGED <<stage, at, tableVars, threadVars, missing, process>>

Contained(k) ==
    CASE stage = "base" -> hash_table_base_contains(k)
      [] stage = "v1"   -> hash_table_v1_contains(k)
      [] stage = "v2"   -> hash_table_v2_contains(k)

CountMissing ==
    /\ main = "count"
    /\ missing' = Cardinality({e \in Entries : ~Contained(data[e])})
    /\ main' = "destroy"
    /\ ProgramUnchanged
    /\ UNCHANGED <<stage, at, tableVars, threadVars, process>>

Destroy ==
    /\ main = "destroy"
    /\ \/ /\ stage = "base" /\ hash_table_base_destroy
          /\ stage' = "v1" /\ main' = "create" /\ UNCHANGED process
       \/ /\ stage = "v1" /\ hash_table_v1_destroy
          /\ stage' = "v2" /\ main' = "create" /\ UNCHANGED process
       \/ stage = "v2" /\ hash_table_v2_destroy /\ UNCHANGED stage
    /\ ProgramUnchanged
    /\ UNCHANGED <<at, threadVars, missing>>

Main == \/ parse_opt \/ Generate \/ Create \/ FillBase \/ StartThread
        \/ JoinThreads \/ CountMissing \/ Destroy

ThreadReturns(t) ==
    /\ pc[t] = "adding" /\ j[t] = size
    /\ Goes(t, "ended")
    /\ UNCHANGED <<j, rest, tableVars>>

run_v1(t) == stage = "v1" /\ (hash_table_v1_add_entry(t) \/ ThreadReturns(t))
run_v2(t) == stage = "v2" /\ (hash_table_v2_add_entry(t) \/ ThreadReturns(t))

Thread(t) ==
    /\ process = "running"
    /\ run_v1(t) \/ run_v2(t)
    /\ ProgramUnchanged
    /\ UNCHANGED <<stage, main, at, missing, process>>

Next == (process = "running" /\ Main) \/ \E t \in Uint : Thread(t)

\* The operating system runs every thread that can run.
Spec == Init /\ [][Next]_vars
FairSpec == Spec /\ WF_vars(process = "running" /\ Main)
                 /\ \A t \in Uint : WF_vars(Thread(t))

--------------------------------------------------------------------------------
(* Properties.                                                              *)

Locks == CASE stage = "base" -> {}
           [] stage = "v1"   -> {TableLock}
           [] stage = "v2"   -> Bucket
HasTable == main \in {"fill", "count", "destroy"}

TypeOK ==
    /\ arguments \in Arguments /\ threads \in Uint /\ size \in Uint
    /\ \E n \in 0 .. UintMax + 1 : data \in [0 .. n - 1 -> Key]
    /\ stage \in {"base", "v1", "v2"} /\ at \in 0 .. UintMax
    /\ lists \in [Bucket -> SUBSET Uint] /\ value \in [Uint -> Uint]
    /\ allocated \subseteq Uint
    /\ HasTable => owner \in [Locks -> Uint \cup {NoThread}]
    /\ pc \in [Uint -> {"none", "adding", "search", "insert", "link", "unlock", "ended"}]
    /\ j \in [Uint -> Uint] /\ rest \in [Uint -> SUBSET Uint]
    /\ missing \in 0 .. UintMax
    /\ main = "returned" => process = "returned 0"
    /\ process \in {"running", "EINVAL", "EAGAIN", "undefined", "SIGABRT", "returned 0"}

\* The program goes on only with numbers of MaxDigits digits at most that fit an
\* unsigned int, and with the numbers that their digits say.
Says(string, n) ==
    LET struck == Struck(n, Len(string))
    IN  /\ struck[Len(string)] = 0
        /\ \A i \in 1 .. Len(string) :
               string[i] = 48 + (struck[Len(string) - i] % 10)
ArgumentsAreRead ==
    LET Good(string) == Len(string) <= MaxDigits /\ \E n \in Uint : Says(string, n)
    IN  /\ process = "EINVAL" => \E i \in {1, 2} : ~Good(arguments[i])
        /\ main # "arguments" => /\ \A i \in {1, 2} : Good(arguments[i])
                                 /\ Says(arguments[1], threads)
                                 /\ Says(arguments[2], size)

\* Two threads never search or change the same bucket at once, and with one lock
\* for the table they are never in it together.
InTable(t) == pc[t] \in {"search", "insert", "link", "unlock"}
WritersExclude ==
    \A t, u \in Uint : InTable(t) /\ InTable(u) /\ t # u
        => stage = "v2" /\ ListOf(t) # ListOf(u)

\* A key is in the table once, in the bucket where a search looks for it.
OneEntryPerKey ==
    \A b, c \in Bucket : \A e \in lists[b], f \in lists[c] :
        /\ Hash[data[e]] = b
        /\ data[e] = data[f] => e = f

\* What is allocated is in the table, or is about to be put there by the one
\* thread that allocated it: the destructors free it all.
Listed == UNION {lists[b] : b \in Bucket}
Pending == {Index(t) : t \in {u \in Uint : pc[u] \in {"insert", "link"}}}
HeapIsTheTable == allocated = Listed \cup Pending

\* main counts and frees without a lock: no thread is inside the table then.
MainIsAlone == main # "fill" => \A t \in Uint : pc[t] \in {"none", "ended"}

\* What the program prints: every key that it added is found.
NothingMissing == missing = 0

\* With distinct keys, which is what random ones of seven letters are meant to be,
\* no thread waits for ever and the program comes to an end.
Distinct == main = "create" /\ \A e, f \in DOMAIN data : data[e] = data[f] => e = f
TesterEnds == Distinct ~> process # "running"

(* The tables against KeyedPuts: a call takes effect when it updates an     *)
(* entry or writes the head of a list.                                      *)

CallsOf(t) == {get_global_index(t, i) : i \in 0 .. j[t] - 1}
                \cup (IF pc[t] = "unlock" THEN {Index(t)} ELSE {})
Done == IF ~HasTable THEN {}
        ELSE IF stage = "base" THEN 0 .. at - 1
        ELSE UNION {CallsOf(t) : t \in 0 .. at - 1}
get_value(k) == value[CHOOSE e \in Matches(k) : TRUE]

Puts == INSTANCE KeyedPuts WITH
            Call <- Uint, key <- data, done <- Done,
            map <- [k \in {data[e] : e \in Listed} |-> get_value(k)]

\* Each add, of any version and any interleaving, takes effect once, and the
\* table is cleared when all of them have.
ImplementsPuts == Puts!Spec
================================================================================
