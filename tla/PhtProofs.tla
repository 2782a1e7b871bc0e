------------------------------- MODULE PhtProofs -------------------------------
(***************************************************************************)
(* Theorems about Pht, for every width of unsigned int, every hash and     *)
(* every command line.                                                     *)
(***************************************************************************)
EXTENDS Pht, LeastElement, TLAPS, FiniteSetTheorems

--------------------------------------------------------------------------------
(* The numbers.                                                             *)

LEMMA UintWraps ==
    ASSUME NEW x \in Int
    PROVE  x % (UintMax + 1) \in Uint
BY PhtAssumption DEF Uint

LEMMA SmallRemainder ==
    ASSUME NEW m \in Nat, NEW x \in 0 .. m
    PROVE  x % (m + 1) = x
OBVIOUS

\* The current number of parse_uint32_t is an unsigned int at each character.
LEMMA CurrentType ==
    ASSUME NEW string \in Seq(Nat)
    PROVE  /\ Current(string) \in [0 .. Len(string) -> Uint]
           /\ Current(string)[0] = 0
           /\ \A i \in 1 .. Len(string) :
                  Current(string)[i]
                    = (Current(string)[i - 1] * 10 + string[i] - 48) % (UintMax + 1)
<1> DEFINE Step(f, i) == IF i = 0 THEN 0
                         ELSE (f[i - 1] * 10 + string[i] - 48) % (UintMax + 1)
           Good(n, f) == f \in [0 .. n -> Uint] /\ \A i \in 0 .. n : f[i] = Step(f, i)
           Without == {n \in 0 .. Len(string) : ~ \E f : Good(n, f)}
<1>1. Len(string) \in Nat /\ \A i \in 1 .. Len(string) : string[i] \in Nat
  OBVIOUS
<1>2. 0 \in Uint
  BY PhtAssumption DEF Uint
<1>3. ASSUME NEW n \in 0 .. Len(string), NEW f, Good(n, f), n + 1 <= Len(string)
      PROVE  \E g : Good(n + 1, g)
  <2> DEFINE last == (f[n] * 10 + string[n + 1] - 48) % (UintMax + 1)
             g == [i \in 0 .. n + 1 |-> IF i = n + 1 THEN last ELSE f[i]]
  <2>1. f[n] \in Int /\ string[n + 1] \in Int
    <3>1. f \in [0 .. n -> Uint] /\ n \in 0 .. n /\ n + 1 \in 1 .. Len(string)
      BY <1>3, <1>1
    <3>2. f[n] \in Uint /\ string[n + 1] \in Nat
      BY <3>1, <1>1
    <3> QED BY <3>2, PhtAssumption DEF Uint
  <2>2. last \in Uint
    <3>1. f[n] * 10 + string[n + 1] - 48 \in Int
      BY <2>1
    <3> QED BY <3>1, UintWraps
  <2>3. \A i \in 0 .. n : f[i] \in Uint /\ f[i] = Step(f, i)
    BY <1>3
  <2> HIDE DEF last
  <2>4. g \in [0 .. n + 1 -> Uint]
    <3>1. \A i \in 0 .. n + 1 : i # n + 1 => i \in 0 .. n
      BY <1>1
    <3> QED BY <2>2, <2>3, <3>1
  <2>5. ASSUME NEW i \in 0 .. n + 1 PROVE g[i] = Step(g, i)
    <3>1. CASE i = n + 1
      <4>1. g[i] = last /\ g[i - 1] = f[n] /\ i # 0
        BY <3>1, <1>1
      <4> QED BY <3>1, <4>1 DEF last
    <3>2. CASE i = 0
      BY <3>2, <2>3, <1>1
    <3>3. CASE i \in 1 .. n
      <4>1. g[i] = f[i] /\ g[i - 1] = f[i - 1] /\ i # 0 /\ i \in 0 .. n
        BY <3>3, <1>1
      <4> QED BY <4>1, <2>3
    <3> QED BY <3>1, <3>2, <3>3, <1>1
  <2> QED BY <2>4, <2>5
<1>4. \E f : Good(0, f)
  <2> DEFINE f == [i \in 0 .. 0 |-> 0]
  <2>1. f \in [0 .. 0 -> Uint] /\ \A i \in 0 .. 0 : i = 0 /\ f[i] = 0
    BY <1>2
  <2> QED BY <2>1
<1>5. Without = {}
  <2>1. SUFFICES ASSUME Without # {} PROVE FALSE
    OBVIOUS
  <2>2. Without \subseteq Nat
    BY <1>1
  <2> HIDE DEF Good
  <2>3. PICK n \in Without : \A k \in Without : n <= k
    BY <2>1, <2>2, LeastExists
  <2>4. n # 0 /\ n - 1 \in 0 .. Len(string) /\ n - 1 \notin Without
    <3>1. n \in 0 .. Len(string) /\ ~ \E f : Good(n, f)
      BY <2>3
    <3>2. n # 0
      BY <3>1, <1>4
    <3>3. n - 1 \in 0 .. Len(string) /\ n - 1 < n
      BY <3>1, <3>2, <1>1
    <3>4. ~(n <= n - 1)
      BY <3>1, <1>1
    <3> QED BY <3>2, <3>3, <3>4, <2>3
  <2>5. PICK f : Good(n - 1, f)
    BY <2>4
  <2>6. \E g : Good((n - 1) + 1, g)
    BY <2>4, <2>5, <1>3, <2>3
  <2> QED BY <2>6, <2>3
<1> HIDE DEF Good
<1>6. PICK f : Good(Len(string), f)
  BY <1>1, <1>5
<1>7. f \in [0 .. Len(string) -> Uint] /\ f = [i \in 0 .. Len(string) |-> Step(f, i)]
  BY <1>6 DEF Good
<1>8. \E c : c = [i \in 0 .. Len(string) |-> Step(c, i)]
  BY <1>7
<1>9. Current(string) = [i \in 0 .. Len(string) |-> Step(Current(string), i)]
  BY <1>8 DEF Current
<1>10. \A n \in 0 .. Len(string) : Current(string)[n] \in Uint
  <2> DEFINE Bad == {n \in 0 .. Len(string) : Current(string)[n] \notin Uint}
  <2>1. SUFFICES ASSUME Bad # {} PROVE FALSE
    OBVIOUS
  <2>2. Bad \subseteq Nat
    BY <1>1
  <2>3. PICK n \in Bad : \A k \in Bad : n <= k
    BY <2>1, <2>2, LeastExists
  <2>4. Current(string)[n] = Step(Current(string), n)
    BY <1>9, <2>3
  <2>5. n # 0 /\ n - 1 \in 0 .. Len(string) /\ n - 1 \notin Bad /\ string[n] \in Nat
    BY <2>3, <2>4, <1>1, <1>2
  <2>6. Current(string)[n - 1] \in Uint
    BY <2>5
  <2>7. Current(string)[n - 1] * 10 + string[n] - 48 \in Int
    BY <2>5, <2>6, PhtAssumption DEF Uint
  <2>8. Current(string)[n] \in Uint
    BY <2>4, <2>5, <2>7, UintWraps
  <2> QED BY <2>3, <2>8
<1>11. \A n \in 0 .. Len(string) : Current(string)[n] = Step(Current(string), n)
  BY <1>9
<1>12. /\ Current(string)[0] = 0
       /\ \A i \in 1 .. Len(string) :
              Current(string)[i]
                = (Current(string)[i - 1] * 10 + string[i] - 48) % (UintMax + 1)
  BY <1>1, <1>11
<1> QED BY <1>9, <1>10, <1>12

\* What the program reads from an argument.
LEMMA ParsedType ==
    ASSUME NEW string \in Seq(Nat)
    PROVE  parse_uint32_t(string) \in Uint
BY CurrentType DEF parse_uint32_t

\* The keys of a thread have their place in the array, whatever the thread.
LEMMA IndexIsEntry ==
    ASSUME NEW n \in Nat, NEW s \in Nat, n * s <= UintMax,
           NEW t \in 0 .. n - 1, NEW i \in 0 .. s - 1
    PROVE  (t * s + i) % (UintMax + 1) = t * s + i /\ t * s + i \in 0 .. n * s - 1
<1>1. t * s + i \in Nat /\ t * s + i < n * s
  <2>1. \E d \in Nat : n = t + 1 + d
    <3>1. n - t - 1 \in Nat /\ n = t + 1 + (n - t - 1)
      OBVIOUS
    <3> QED BY <3>1
  <2>2. PICK d \in Nat : n = t + 1 + d
    BY <2>1
  <2>3. n * s = t * s + s + d * s /\ d * s \in Nat /\ t * s \in Nat /\ s \in Nat
    BY <2>2
  <2> DEFINE ts == t * s
             ds == d * s
             ns == n * s
  <2>4. ns = ts + s + ds /\ ds \in Nat /\ ts \in Nat
    BY <2>3
  <2> HIDE DEF ts, ds, ns
  <2>5. ts + i \in Nat /\ ts + i < ns
    BY <2>4
  <2> QED BY <2>5 DEF ts, ns
<1> DEFINE x == t * s + i
           ns == n * s
<1>2. x \in Nat /\ x < ns /\ ns <= UintMax /\ ns \in Nat
  <2>1. n * s \in Nat
    OBVIOUS
  <2> QED BY <1>1, <2>1
<1>3. UintMax \in Nat
  BY PhtAssumption
<1> HIDE DEF x, ns
<1>4. x % (UintMax + 1) = x /\ x \in 0 .. ns - 1
  <2>1. x \in 0 .. UintMax
    BY <1>2, <1>3
  <2>2. x % (UintMax + 1) = x
    BY <2>1, <1>3, SmallRemainder
  <2> QED BY <2>2, <1>2
<1> QED BY <1>4 DEF x, ns

\* Every place of the array is the place of a thread's key.
LEMMA EntryHasThread ==
    ASSUME NEW n \in Nat, NEW s \in Nat, NEW e \in 0 .. n * s - 1
    PROVE  \E t \in 0 .. n - 1 : \E i \in 0 .. s - 1 : e = t * s + i
<1> DEFINE Past == {k \in 0 .. n : e < k * s}
<1>1. n * s \in Nat /\ e \in Nat /\ e < n * s
  <2>1. n * s \in Nat
    OBVIOUS
  <2> QED BY <2>1
<1>2. n \in Past /\ Past \subseteq Nat
  BY <1>1
<1> HIDE DEF Past
<1>3. PICK k \in Past : \A m \in Past : k <= m
  BY <1>2, LeastExists
<1>4. k \in 0 .. n /\ e < k * s
  BY DEF Past
<1>5. k # 0
  BY <1>1, <1>4
<1>6. k - 1 \in 0 .. n - 1 /\ k - 1 \in 0 .. n /\ k - 1 \notin Past
  BY <1>3, <1>4, <1>5
<1>7. PICK t \in 0 .. n - 1 : t = k - 1
  BY <1>6
<1>8. ~(e < t * s)
  BY <1>6, <1>7 DEF Past
<1>9. t * s \in Nat /\ k * s = t * s + s
  <2>1. t \in Nat /\ k = t + 1
    BY <1>4, <1>7
  <2> QED BY <2>1
<1> DEFINE ts == t * s
           ks == k * s
<1>10. ts \in Nat /\ ks = ts + s /\ ~(e < ts) /\ e < ks
  BY <1>4, <1>8, <1>9
<1> HIDE DEF ts, ks
<1>11. e - ts \in 0 .. s - 1 /\ e = ts + (e - ts)
  BY <1>1, <1>10
<1> QED BY <1>11 DEF ts

--------------------------------------------------------------------------------
(* The inductive invariant.                                                 *)

Idle == {"none", "ended"}
PC == {"none", "adding", "search", "insert", "link", "unlock", "ended"}
Threaded == main = "fill" /\ stage # "base"
LockOf(t) == IF stage = "v1" THEN TableLock ELSE ListOf(t)
Present(e) == \E b \in Bucket : \E f \in lists[b] : data[f] = data[e]

TypeInv ==
    /\ arguments \in Arguments /\ threads \in Uint /\ size \in Uint
    /\ stage \in {"base", "v1", "v2"}
    /\ main \in {"arguments", "generate", "create", "fill", "count", "destroy", "returned"}
    /\ at \in Nat
    /\ lists \in [Bucket -> SUBSET Uint] /\ value \in [Uint -> Uint]
    /\ allocated \subseteq Uint
    /\ HasTable => owner \in [Locks -> Uint \cup {NoThread}]
    /\ pc \in [Uint -> PC]
    /\ j \in [Uint -> Uint] /\ rest \in [Uint -> SUBSET Uint]
    /\ main = "returned" => process = "returned 0"
    /\ process \in {"running", "EINVAL", "EAGAIN", "undefined", "SIGABRT", "returned 0"}

\* Once the keys are generated every entry has one; before that there is none.
DataInv ==
    /\ main \in {"arguments", "generate"} => data = <<>>
    /\ main \notin {"arguments", "generate"} =>
          threads * size <= UintMax /\ data \in [Entries -> Key]

\* Where main is and where the threads are.
PlaceInv ==
    /\ ~HasTable => lists = [b \in Bucket |-> {}]
    /\ main = "fill" => at <= (IF stage = "base" THEN threads * size ELSE threads)
    /\ at <= threads \/ at <= threads * size
    /\ main \in {"arguments", "generate"} => at = 0
    /\ \A t \in Uint : pc[t] \notin Idle => Threaded /\ t < at
    /\ \A t \in Uint : Threaded /\ t < at => pc[t] # "none" /\ (pc[t] = "ended" => j[t] = size)
    /\ \A t \in Uint : pc[t] = "adding" => j[t] <= size
    /\ \A t \in Uint : InTable(t) => j[t] < size

\* A thread in the table holds the lock of its list.
LockInv == \A t \in Uint : InTable(t) => owner[LockOf(t)] = t

\* What a thread found in its list is still true when it writes the head.
AddInv ==
    \A t \in Uint :
        /\ pc[t] \in {"insert", "link"} => Matches(data[Index(t)]) = {}
        /\ pc[t] = "link" => rest[t] = lists[ListOf(t)]

\* The calls that are over have their keys in the table.
FoundInv ==
    /\ main = "fill" /\ stage = "base" => \A e \in 0 .. at - 1 : Present(e)
    /\ Threaded => \A t \in 0 .. at - 1 : \A i \in 0 .. j[t] - 1 : Present(t * size + i)
    /\ \A t \in Uint : pc[t] = "unlock" => Present(Index(t))
    /\ main = "count" => \A e \in Entries : Present(e)
    /\ missing = 0

PhtInv == /\ TypeInv /\ DataInv /\ PlaceInv /\ LockInv /\ AddInv /\ FoundInv
          /\ OneEntryPerKey /\ HeapIsTheTable

LEMMA UintIsNat == Uint \subseteq Nat /\ UintMax \in Nat /\ 0 \in Uint
BY PhtAssumption DEF Uint

LEMMA NextCall ==
    ASSUME NEW n \in Uint, NEW s \in Uint, n < s
    PROVE  /\ n + 1 \in Uint /\ n + 1 <= s
           /\ \A i \in 0 .. (n + 1) - 1 : i \in 0 .. n - 1 \/ i = n
<1>1. n \in Nat /\ s \in Nat /\ s <= UintMax /\ UintMax \in Nat
  BY UintIsNat DEF Uint
<1> QED BY <1>1 DEF Uint

\* A thread that is making a call has a key, a list and a lock.
LEMMA ThreadHasKey ==
    ASSUME TypeInv, DataInv, PlaceInv, NEW t \in Uint, pc[t] \notin Idle, j[t] < size
    PROVE  /\ Threaded /\ stage \in {"v1", "v2"} /\ HasTable /\ t < threads /\ t < at
           /\ Index(t) = t * size + j[t] /\ Index(t) \in Entries /\ Index(t) \in Uint
           /\ data[Index(t)] \in Key /\ ListOf(t) \in Bucket
           /\ ListOf(t) = Hash[data[Index(t)]]
           /\ LockOf(t) \in Locks
<1>1. Threaded /\ t < at
  BY DEF PlaceInv
<1>2. threads \in Nat /\ size \in Nat /\ at \in Nat /\ t \in Nat /\ j[t] \in Nat
  BY UintIsNat DEF TypeInv
<1>3. at <= threads /\ stage \in {"v1", "v2"} /\ HasTable
  BY <1>1 DEF PlaceInv, Threaded, TypeInv, HasTable
<1>4. t < threads /\ t \in 0 .. threads - 1 /\ j[t] \in 0 .. size - 1
  BY <1>1, <1>2, <1>3
<1>5. threads * size <= UintMax /\ data \in [Entries -> Key]
  BY <1>1 DEF DataInv, Threaded
<1>6. Index(t) = t * size + j[t] /\ Index(t) \in Entries
  <2>1. /\ (t * size + j[t]) % (UintMax + 1) = t * size + j[t]
        /\ t * size + j[t] \in 0 .. threads * size - 1
    BY <1>2, <1>4, <1>5, IndexIsEntry, Zenon
  <2> QED BY <2>1, Zenon DEF Index, get_global_index, Entries
<1>7. Index(t) \in Uint
  <2>1. t * size + j[t] \in Int
    BY <1>2
  <2> QED BY <2>1, UintWraps DEF Index, get_global_index
<1>8. data[Index(t)] \in Key /\ ListOf(t) \in Bucket /\ ListOf(t) = Hash[data[Index(t)]]
  BY <1>5, <1>6, PhtAssumption DEF ListOf
<1>9. LockOf(t) \in Locks
  BY <1>3, <1>8 DEF LockOf, Locks
<1> QED BY <1>1, <1>3, <1>4, <1>6, <1>7, <1>8, <1>9

--------------------------------------------------------------------------------
(* A step of one thread, seen from the others.                              *)

Quiet == UNCHANGED <<arguments, threads, size, data, stage, main, at, missing, process>>
Inside == {"search", "insert", "link", "unlock"}

LEMMA ThreadFrame ==
    ASSUME TypeInv, DataInv, PlaceInv, NEW t \in Uint, pc[t] \notin Idle, Quiet,
           NEW to \in PC \ {"none"}, Goes(t, to),
           j' \in [Uint -> Uint], \A u \in Uint : u # t => j'[u] = j[u],
           to = "adding" => j'[t] <= size,
           to \in Inside => j'[t] < size,
           to = "ended" => j'[t] = size
    PROVE  /\ DataInv' /\ PlaceInv'
           /\ pc' \in [Uint -> PC] /\ pc'[t] = to
           /\ \A u \in Uint : u # t => /\ pc'[u] = pc[u] /\ j'[u] = j[u]
                                       /\ InTable(u)' = InTable(u)
                                       /\ Index(u)' = Index(u) /\ ListOf(u)' = ListOf(u)
                                       /\ LockOf(u)' = LockOf(u)
           /\ j'[t] = j[t] => /\ Index(t)' = Index(t) /\ ListOf(t)' = ListOf(t)
                             /\ LockOf(t)' = LockOf(t)
<1>1. pc' = [pc EXCEPT ![t] = to] /\ pc \in [Uint -> PC]
  BY DEF Goes, TypeInv
<1>2. pc' \in [Uint -> PC] /\ pc'[t] = to /\ \A u \in Uint : u # t => pc'[u] = pc[u]
  BY <1>1
<1>3. DataInv'
  BY DEF DataInv, Quiet, Entries
<1>4. \A u \in Uint : j'[u] = j[u] => /\ Index(u)' = Index(u) /\ ListOf(u)' = ListOf(u)
                                      /\ LockOf(u)' = LockOf(u)
  BY Zenon DEF Index, ListOf, LockOf, get_global_index, Quiet
<1>5. Threaded /\ t < at
  BY DEF PlaceInv
<1>6. HasTable /\ HasTable' /\ Threaded' /\ at' = at
  BY <1>5 DEF Threaded, HasTable, Quiet
<1>7. PlaceInv'
  <2>1. /\ main' = "fill" => at' <= (IF stage' = "base" THEN threads' * size' ELSE threads')
        /\ at' <= threads' \/ at' <= threads' * size'
        /\ main' \in {"arguments", "generate"} => at' = 0
    BY DEF PlaceInv, Quiet
  <2>2. ASSUME NEW u \in Uint PROVE
            /\ pc'[u] \notin Idle => Threaded' /\ u < at'
            /\ u < at' => pc'[u] # "none" /\ (pc'[u] = "ended" => j'[u] = size)
            /\ pc'[u] = "adding" => j'[u] <= size
            /\ pc'[u] \in Inside => j'[u] < size
    <3>1. CASE u = t
      BY <3>1, <1>2, <1>5, <1>6
    <3>2. CASE u # t
      BY <3>2, <1>2, <1>5, <1>6 DEF PlaceInv, InTable, Inside
    <3> QED BY <3>1, <3>2
  <2>3. size' = size
    BY DEF Quiet
  <2> QED BY <1>6, <2>1, <2>2, <2>3 DEF PlaceInv, InTable, Inside
<1>8. \A u \in Uint : u # t => InTable(u)' = InTable(u)
  BY <1>2 DEF InTable
<1> QED BY <1>2, <1>3, <1>4, <1>7, <1>8

\* A key that is present is found in the list where a search looks for it.
LEMMA PresentIsFound ==
    ASSUME OneEntryPerKey, NEW e, Present(e)
    PROVE  Matches(data[e]) # {}
BY DEF OneEntryPerKey, Present, Matches

LEMMA PresentGrows ==
    ASSUME data' = data, \A b \in Bucket : lists[b] \subseteq lists'[b], NEW e, Present(e)
    PROVE  Present(e)'
BY DEF Present

\* What FoundInv says of the calls made, after a step that removes nothing.
LEMMA FoundGrows ==
    ASSUME TypeInv, PlaceInv, FoundInv, NEW t \in Uint, Threaded, Quiet,
           \A b \in Bucket : lists[b] \subseteq lists'[b],
           \A u \in Uint : u # t => /\ j'[u] = j[u] /\ pc'[u] = pc[u]
                                   /\ Index(u)' = Index(u),
           \A i \in 0 .. j'[t] - 1 : i \in 0 .. j[t] - 1 \/ Present(t * size + i)',
           pc'[t] = "unlock" => Present(Index(t))'
    PROVE  FoundInv'
<1>1. data' = data /\ size' = size /\ at' = at /\ main' = main /\ stage' = stage /\ missing' = missing
  BY DEF Quiet
<1>2. main = "fill" /\ stage # "base" /\ Threaded'
  BY <1>1 DEF Threaded
<1>3. ASSUME NEW u \in 0 .. at - 1, NEW i \in 0 .. j'[u] - 1 PROVE Present(u * size + i)'
  <2>1. CASE u = t /\ i \notin 0 .. j[t] - 1
    BY <2>1, <1>3
  <2>2. CASE i \in 0 .. j[u] - 1
    <3>1. Present(u * size + i)
      BY <2>2 DEF FoundInv
    <3> QED BY <3>1, <1>1, PresentGrows
  <2>3. CASE u # t /\ i \notin 0 .. j[u] - 1
    <3>1. at <= threads /\ at \in Nat /\ threads \in 0 .. UintMax
      BY <1>2 DEF PlaceInv, TypeInv, Uint
    <3>2. u \in Uint
      BY <3>1, UintIsNat DEF Uint
    <3> QED BY <2>3, <3>2, <1>3
  <2> QED BY <2>1, <2>2, <2>3
<1>4. ASSUME NEW u \in Uint, pc'[u] = "unlock" PROVE Present(Index(u))'
  <2>1. CASE u = t
    BY <2>1, <1>4
  <2>2. CASE u # t
    <3>1. pc[u] = "unlock" /\ Present(Index(u)) /\ Index(u)' = Index(u)
      BY <2>2, <1>4 DEF FoundInv
    <3>2. Present(Index(u)) => Present(Index(u))'
      BY <3>1, <1>1 DEF Present
    <3> QED BY <3>1, <3>2
  <2> QED BY <2>1, <2>2
<1> QED BY <1>1, <1>2, <1>3, <1>4 DEF FoundInv, Threaded

\* The parts of the invariant that a step cannot disturb when it leaves the lists,
\* the heap and the entries being inserted as they are.
LEMMA ListsStay ==
    ASSUME PhtInv, NEW t \in Uint, Threaded, Quiet, lists' = lists, allocated' = allocated,
           \A u \in Uint : u # t => /\ j'[u] = j[u] /\ pc'[u] = pc[u] /\ rest'[u] = rest[u]
                                   /\ Index(u)' = Index(u) /\ ListOf(u)' = ListOf(u),
           pc[t] \notin {"insert", "link"}, pc'[t] \notin {"insert", "link", "unlock"},
           \A i \in 0 .. j'[t] - 1 : i \in 0 .. j[t] - 1 \/ Present(t * size + i)
    PROVE  AddInv' /\ FoundInv' /\ OneEntryPerKey' /\ HeapIsTheTable'
<1>1. data' = data
  BY DEF Quiet
<1>2. AddInv'
  <2>1. ASSUME NEW u \in Uint, pc'[u] \in {"insert", "link"}
        PROVE  /\ (Matches(data[Index(u)]))' = {}
               /\ pc'[u] = "link" => rest'[u] = lists'[ListOf(u)']
    <3>1. u # t /\ pc[u] = pc'[u] /\ rest'[u] = rest[u] /\ Index(u)' = Index(u)
          /\ ListOf(u)' = ListOf(u)
      BY <2>1
    <3>2. Matches(data[Index(u)]) = {} /\ (pc[u] = "link" => rest[u] = lists[ListOf(u)])
      BY <3>1, <2>1 DEF PhtInv, AddInv
    <3> QED BY <1>1, <3>1, <3>2 DEF Matches
  <2> QED BY <2>1 DEF AddInv
<1>3. FoundInv'
  <2>1. \A i \in 0 .. j'[t] - 1 : i \in 0 .. j[t] - 1 \/ Present(t * size + i)'
    BY <1>1, Zenon DEF Present, Quiet
  <2> QED BY <2>1, FoundGrows DEF PhtInv
<1>4. OneEntryPerKey'
  BY <1>1 DEF PhtInv, OneEntryPerKey
<1>5. \A u \in Uint : pc'[u] \in {"insert", "link"} <=> pc[u] \in {"insert", "link"}
  OBVIOUS
<1>6. \A u \in Uint : pc[u] \in {"insert", "link"} => Index(u)' = Index(u)
  OBVIOUS
<1>7. HeapIsTheTable'
  BY <1>5, <1>6 DEF PhtInv, HeapIsTheTable, Listed, Pending
<1> QED BY <1>2, <1>3, <1>4, <1>7

LEMMA StepLocks ==
    ASSUME PhtInv, NEW t \in Uint, Quiet, Threaded, AddLocks(t, LockOf(t))
    PROVE  PhtInv'
<1> USE DEF PhtInv
<1>1. pc[t] = "adding" /\ j[t] < size /\ j' = j /\ lists' = lists /\ value' = value
      /\ allocated' = allocated /\ rest' = rest /\ Goes(t, "search")
  BY DEF AddLocks
<1>2. LockOf(t) \in Locks /\ HasTable
  BY <1>1, ThreadHasKey DEF Idle
<1>3. /\ DataInv' /\ PlaceInv' /\ pc' \in [Uint -> PC] /\ pc'[t] = "search"
      /\ \A u \in Uint : u # t => /\ pc'[u] = pc[u] /\ j'[u] = j[u]
                                  /\ InTable(u)' = InTable(u)
                                  /\ Index(u)' = Index(u) /\ ListOf(u)' = ListOf(u)
                                  /\ LockOf(u)' = LockOf(u)
      /\ LockOf(t)' = LockOf(t)
  BY <1>1, ThreadFrame DEF Idle, PC, Inside, TypeInv
<1> HIDE DEF PhtInv
<1>4. owner \in [Locks -> Uint \cup {NoThread}] /\ owner' = [owner EXCEPT ![LockOf(t)] = t]
      /\ owner[LockOf(t)] = NoThread
  BY <1>2 DEF PhtInv, TypeInv, AddLocks
<1>5. TypeInv'
  <2>1. owner' \in [Locks -> Uint \cup {NoThread}]
    BY <1>4
  <2>2. Locks' = Locks
    BY DEF Locks, Quiet
  <2> QED BY <1>1, <1>3, <2>1, <2>2 DEF PhtInv, TypeInv, Quiet
<1>6. LockInv'
  <2>1. ASSUME NEW u \in Uint, InTable(u)' PROVE owner'[LockOf(u)'] = u
    <3>1. CASE u = t
      BY <3>1, <1>2, <1>3, <1>4
    <3>2. CASE u # t
      <4>1. owner[LockOf(u)] = u /\ LockOf(u)' = LockOf(u)
        BY <3>2, <1>3, <2>1 DEF PhtInv, LockInv
      <4>2. u # NoThread
        BY UintIsNat DEF NoThread
      <4> QED BY <4>1, <4>2, <1>4
    <3> QED BY <3>1, <3>2
  <2> QED BY <2>1 DEF LockInv
<1>7. AddInv' /\ FoundInv' /\ OneEntryPerKey' /\ HeapIsTheTable'
  BY <1>1, <1>3, ListsStay
<1> QED BY <1>3, <1>5, <1>6, <1>7 DEF PhtInv

LEMMA LocksStay ==
    ASSUME LockInv, NEW t \in Uint, owner' = owner,
           \A u \in Uint : u # t => InTable(u)' = InTable(u) /\ LockOf(u)' = LockOf(u),
           InTable(t)' => InTable(t) /\ LockOf(t)' = LockOf(t)
    PROVE  LockInv'
<1> SUFFICES ASSUME NEW u \in Uint, InTable(u)' PROVE owner'[LockOf(u)'] = u
  BY DEF LockInv
<1> QED BY DEF LockInv

LEMMA StepUpdates ==
    ASSUME PhtInv, NEW t \in Uint, Quiet, Threaded, AddUpdates(t)
    PROVE  PhtInv'
<1>1. /\ pc[t] = "search" /\ InTable(t) /\ j[t] < size
      /\ j' = [j EXCEPT ![t] = @ + 1] /\ owner' = owner /\ rest' = rest /\ Goes(t, "adding")
  BY DEF AddUpdates, InTable, PhtInv, PlaceInv
<1>2. PICK e \in Matches(data[Index(t)]) : Update(e, Index(t))
  BY DEF AddUpdates
<1>3. /\ Index(t) = t * size + j[t] /\ Index(t) \in Uint /\ ListOf(t) \in Bucket
      /\ ListOf(t) = Hash[data[Index(t)]]
  BY <1>1, ThreadHasKey DEF Idle, PhtInv
<1>4. lists' = lists /\ allocated' = allocated /\ value' = [value EXCEPT ![e] = Index(t)]
  BY <1>2 DEF Update
<1>5. j[t] \in Uint /\ size \in Uint /\ j \in [Uint -> Uint]
  BY DEF PhtInv, TypeInv
<1>6. j[t] + 1 \in Uint /\ j[t] + 1 <= size
  BY <1>1, <1>5, NextCall
<1>7. /\ j' \in [Uint -> Uint] /\ j'[t] = j[t] + 1 /\ j'[t] <= size
      /\ \A u \in Uint : u # t => j'[u] = j[u]
  BY <1>1, <1>5, <1>6
<1>8. /\ DataInv' /\ PlaceInv' /\ pc' \in [Uint -> PC] /\ pc'[t] = "adding"
      /\ \A u \in Uint : u # t => /\ pc'[u] = pc[u] /\ j'[u] = j[u]
                                  /\ InTable(u)' = InTable(u)
                                  /\ Index(u)' = Index(u) /\ ListOf(u)' = ListOf(u)
                                  /\ LockOf(u)' = LockOf(u)
  BY <1>1, <1>7, ThreadFrame DEF Idle, PC, Inside, PhtInv
<1>9. TypeInv'
  <2>1. value' \in [Uint -> Uint]
    BY <1>3, <1>4 DEF PhtInv, TypeInv
  <2>2. Locks' = Locks
    BY DEF Locks, Quiet
  <2>3. HasTable' = HasTable
    BY DEF HasTable, Quiet
  <2> QED BY <1>1, <1>4, <1>7, <1>8, <2>1, <2>2, <2>3 DEF PhtInv, TypeInv, Quiet
<1>10. LockInv'
  <2>1. ~InTable(t)'
    BY <1>8 DEF InTable
  <2> QED BY <1>1, <1>8, <2>1, LocksStay DEF PhtInv
<1>11. Present(t * size + j[t])
  BY <1>2, <1>3 DEF Present, Matches
<1>12. \A i \in 0 .. j'[t] - 1 : i \in 0 .. j[t] - 1 \/ Present(t * size + i)
  <2>1. \A i \in 0 .. (j[t] + 1) - 1 : i \in 0 .. j[t] - 1 \/ i = j[t]
    BY <1>1, <1>5, NextCall
  <2> QED BY <2>1, <1>7, <1>11
<1>13. AddInv' /\ FoundInv' /\ OneEntryPerKey' /\ HeapIsTheTable'
  BY <1>1, <1>4, <1>8, <1>12, ListsStay
<1> QED BY <1>8, <1>9, <1>10, <1>13 DEF PhtInv

LEMMA StepReturns ==
    ASSUME PhtInv, NEW t \in Uint, Quiet, Threaded, ThreadReturns(t)
    PROVE  PhtInv'
<1>1. /\ pc[t] = "adding" /\ j[t] = size /\ j' = j /\ rest' = rest /\ lists' = lists
      /\ value' = value /\ allocated' = allocated /\ owner' = owner /\ Goes(t, "ended")
  BY DEF ThreadReturns, tableVars
<1>2. /\ DataInv' /\ PlaceInv' /\ pc' \in [Uint -> PC] /\ pc'[t] = "ended"
      /\ \A u \in Uint : u # t => /\ pc'[u] = pc[u] /\ j'[u] = j[u]
                                  /\ InTable(u)' = InTable(u)
                                  /\ Index(u)' = Index(u) /\ ListOf(u)' = ListOf(u)
                                  /\ LockOf(u)' = LockOf(u)
  BY <1>1, ThreadFrame DEF Idle, PC, Inside, PhtInv, TypeInv
<1>3. TypeInv'
  <2>1. Locks' = Locks
    BY DEF Locks, Quiet
  <2>2. HasTable' = HasTable
    BY DEF HasTable, Quiet
  <2> QED BY <1>1, <1>2, <2>1, <2>2 DEF PhtInv, TypeInv, Quiet
<1>4. LockInv'
  <2>1. ~InTable(t)'
    BY <1>2 DEF InTable
  <2> QED BY <1>1, <1>2, <2>1, LocksStay DEF PhtInv
<1>5. AddInv' /\ FoundInv' /\ OneEntryPerKey' /\ HeapIsTheTable'
  BY <1>1, <1>2, ListsStay
<1> QED BY <1>2, <1>3, <1>4, <1>5 DEF PhtInv

LEMMA StepUnlocks ==
    ASSUME PhtInv, NEW t \in Uint, Quiet, Threaded, AddUnlocks(t, LockOf(t))
    PROVE  PhtInv'
<1>1. /\ pc[t] = "unlock" /\ InTable(t) /\ j[t] < size
      /\ j' = [j EXCEPT ![t] = @ + 1] /\ rest' = rest /\ Goes(t, "adding")
      /\ owner' = [owner EXCEPT ![LockOf(t)] = NoThread]
      /\ lists' = lists /\ value' = value /\ allocated' = allocated
  BY DEF AddUnlocks, InTable, PhtInv, PlaceInv
<1>2. /\ Index(t) = t * size + j[t] /\ LockOf(t) \in Locks /\ HasTable
  BY <1>1, ThreadHasKey DEF Idle, PhtInv
<1>3. j[t] \in Uint /\ size \in Uint /\ j \in [Uint -> Uint]
  BY DEF PhtInv, TypeInv
<1>4. j[t] + 1 \in Uint /\ j[t] + 1 <= size
  BY <1>1, <1>3, NextCall
<1>5. /\ j' \in [Uint -> Uint] /\ j'[t] = j[t] + 1 /\ j'[t] <= size
      /\ \A u \in Uint : u # t => j'[u] = j[u]
  BY <1>1, <1>3, <1>4
<1>6. /\ DataInv' /\ PlaceInv' /\ pc' \in [Uint -> PC] /\ pc'[t] = "adding"
      /\ \A u \in Uint : u # t => /\ pc'[u] = pc[u] /\ j'[u] = j[u]
                                  /\ InTable(u)' = InTable(u)
                                  /\ Index(u)' = Index(u) /\ ListOf(u)' = ListOf(u)
                                  /\ LockOf(u)' = LockOf(u)
  BY <1>1, <1>5, ThreadFrame DEF Idle, PC, Inside, PhtInv
<1>7. owner \in [Locks -> Uint \cup {NoThread}] /\ owner[LockOf(t)] = t
  BY <1>1, <1>2 DEF PhtInv, TypeInv, LockInv
<1>8. TypeInv'
  <2>1. owner' \in [Locks -> Uint \cup {NoThread}]
    BY <1>1, <1>7
  <2>2. Locks' = Locks
    BY DEF Locks, Quiet
  <2> QED BY <1>1, <1>5, <1>6, <2>1, <2>2 DEF PhtInv, TypeInv, Quiet
<1>9. LockInv'
  <2>1. ASSUME NEW u \in Uint, InTable(u)' PROVE owner'[LockOf(u)'] = u
    <3>1. u # t
      BY <1>6, <2>1 DEF InTable
    <3>2. owner[LockOf(u)] = u /\ LockOf(u)' = LockOf(u)
      BY <3>1, <1>6, <2>1 DEF PhtInv, LockInv
    <3>3. LockOf(u) # LockOf(t)
      BY <3>1, <3>2, <1>7
    <3> QED BY <3>2, <3>3, <1>1, <1>7
  <2> QED BY <2>1 DEF LockInv
<1>10. Present(t * size + j[t])
  BY <1>1, <1>2 DEF PhtInv, FoundInv
<1>11. \A i \in 0 .. j'[t] - 1 : i \in 0 .. j[t] - 1 \/ Present(t * size + i)
  <2>1. \A i \in 0 .. (j[t] + 1) - 1 : i \in 0 .. j[t] - 1 \/ i = j[t]
    BY <1>1, <1>3, NextCall
  <2> QED BY <2>1, <1>5, <1>10
<1>12. AddInv' /\ FoundInv' /\ OneEntryPerKey' /\ HeapIsTheTable'
  BY <1>1, <1>6, <1>11, ListsStay
<1> QED BY <1>6, <1>8, <1>9, <1>12 DEF PhtInv

LEMMA StepAllocates ==
    ASSUME PhtInv, NEW t \in Uint, Quiet, Threaded, AddAllocates(t)
    PROVE  PhtInv'
<1>1. /\ pc[t] = "search" /\ InTable(t) /\ j[t] < size
      /\ j' = j /\ owner' = owner /\ rest' = rest /\ lists' = lists /\ Goes(t, "insert")
      /\ allocated' = allocated \cup {Index(t)} /\ value' = [value EXCEPT ![Index(t)] = Index(t)]
      /\ Matches(data[Index(t)]) = {}
  BY DEF AddAllocates, InTable, PhtInv, PlaceInv
<1>2. Index(t) \in Uint
  BY <1>1, ThreadHasKey DEF Idle, PhtInv
<1>3. /\ DataInv' /\ PlaceInv' /\ pc' \in [Uint -> PC] /\ pc'[t] = "insert"
      /\ \A u \in Uint : u # t => /\ pc'[u] = pc[u] /\ j'[u] = j[u]
                                  /\ InTable(u)' = InTable(u)
                                  /\ Index(u)' = Index(u) /\ ListOf(u)' = ListOf(u)
                                  /\ LockOf(u)' = LockOf(u)
      /\ Index(t)' = Index(t) /\ ListOf(t)' = ListOf(t) /\ LockOf(t)' = LockOf(t)
  BY <1>1, ThreadFrame DEF Idle, PC, Inside, PhtInv, TypeInv
<1>4. data' = data /\ Locks' = Locks /\ HasTable' = HasTable
  BY DEF Quiet, Locks, HasTable
<1>5. TypeInv'
  BY <1>1, <1>2, <1>3, <1>4 DEF PhtInv, TypeInv, Quiet
<1>6. LockInv'
  BY <1>1, <1>3, LocksStay DEF PhtInv
<1>7. \A e : (Matches(data[e]))' = Matches(data[e])
  BY <1>1, <1>4, Zenon DEF Matches
<1>8. AddInv'
  <2>1. ASSUME NEW u \in Uint, pc'[u] \in {"insert", "link"}
        PROVE  /\ (Matches(data[Index(u)]))' = {}
               /\ pc'[u] = "link" => rest'[u] = lists'[ListOf(u)']
    <3>1. CASE u = t
      <4>1. Index(u)' = Index(u) /\ pc'[u] = "insert" /\ Matches(data[Index(u)]) = {}
        BY <3>1, <1>1, <1>3
      <4> QED BY <4>1, <1>1, <1>4 DEF Matches
    <3>2. CASE u # t
      <4>1. Index(u)' = Index(u) /\ pc'[u] = pc[u] /\ ListOf(u)' = ListOf(u)
        BY <3>2, <1>3
      <4>2. Matches(data[Index(u)]) = {} /\ (pc[u] = "link" => rest[u] = lists[ListOf(u)])
        BY <4>1, <2>1 DEF PhtInv, AddInv
      <4> QED BY <4>1, <4>2, <1>1, <1>4 DEF Matches
    <3> QED BY <3>1, <3>2
  <2> QED BY <2>1 DEF AddInv
<1>9. FoundInv'
  BY <1>1, <1>3, FoundGrows DEF PhtInv
<1>10. OneEntryPerKey'
  BY <1>1, <1>4 DEF PhtInv, OneEntryPerKey
<1>11. HeapIsTheTable'
  <2>1. \A u \in Uint : Index(u)' = Index(u)
    BY <1>3
  <2>2. \A u \in Uint : pc'[u] \in {"insert", "link"} <=> pc[u] \in {"insert", "link"} \/ u = t
    BY <1>3
  <2> QED BY <1>1, <2>1, <2>2 DEF PhtInv, HeapIsTheTable, Listed, Pending
<1> QED BY <1>3, <1>5, <1>6, <1>8, <1>9, <1>10, <1>11 DEF PhtInv

LEMMA StepReadsHead ==
    ASSUME PhtInv, NEW t \in Uint, Quiet, Threaded, AddReadsHead(t)
    PROVE  PhtInv'
<1>1. /\ pc[t] = "insert" /\ InTable(t) /\ j[t] < size
      /\ j' = j /\ owner' = owner /\ lists' = lists /\ allocated' = allocated
      /\ value' = value /\ rest' = [rest EXCEPT ![t] = lists[ListOf(t)]] /\ Goes(t, "link")
  BY DEF AddReadsHead, InTable, PhtInv, PlaceInv, tableVars
<1>2. ListOf(t) \in Bucket
  BY <1>1, ThreadHasKey DEF Idle, PhtInv
<1>3. /\ DataInv' /\ PlaceInv' /\ pc' \in [Uint -> PC] /\ pc'[t] = "link"
      /\ \A u \in Uint : u # t => /\ pc'[u] = pc[u] /\ j'[u] = j[u]
                                  /\ InTable(u)' = InTable(u)
                                  /\ Index(u)' = Index(u) /\ ListOf(u)' = ListOf(u)
                                  /\ LockOf(u)' = LockOf(u)
      /\ Index(t)' = Index(t) /\ ListOf(t)' = ListOf(t) /\ LockOf(t)' = LockOf(t)
  BY <1>1, ThreadFrame DEF Idle, PC, Inside, PhtInv, TypeInv
<1>4. data' = data /\ Locks' = Locks /\ HasTable' = HasTable
  BY DEF Quiet, Locks, HasTable
<1>5. /\ rest' \in [Uint -> SUBSET Uint] /\ rest'[t] = lists[ListOf(t)]
      /\ \A u \in Uint : u # t => rest'[u] = rest[u]
  BY <1>1, <1>2 DEF PhtInv, TypeInv
<1>6. TypeInv'
  BY <1>1, <1>3, <1>4, <1>5 DEF PhtInv, TypeInv, Quiet
<1>7. LockInv'
  BY <1>1, <1>3, LocksStay DEF PhtInv
<1>8. AddInv'
  <2>1. ASSUME NEW u \in Uint, pc'[u] \in {"insert", "link"}
        PROVE  /\ (Matches(data[Index(u)]))' = {}
               /\ pc'[u] = "link" => rest'[u] = lists'[ListOf(u)']
    <3>1. Index(u)' = Index(u) /\ ListOf(u)' = ListOf(u) /\ pc[u] \in {"insert", "link"}
          /\ (u # t => pc'[u] = pc[u])
      BY <1>1, <1>3, <2>1
    <3>2. Matches(data[Index(u)]) = {} /\ (pc[u] = "link" => rest[u] = lists[ListOf(u)])
      BY <3>1 DEF PhtInv, AddInv
    <3>3. (Matches(data[Index(u)]))' = {}
      BY <3>1, <3>2, <1>1, <1>4 DEF Matches
    <3>4. pc'[u] = "link" => rest'[u] = lists'[ListOf(u)']
      BY <3>1, <3>2, <1>1, <1>5
    <3> QED BY <3>3, <3>4
  <2> QED BY <2>1 DEF AddInv
<1>9. FoundInv'
  BY <1>1, <1>3, FoundGrows DEF PhtInv
<1>10. OneEntryPerKey'
  BY <1>1, <1>4 DEF PhtInv, OneEntryPerKey
<1>11. HeapIsTheTable'
  <2>1. \A u \in Uint : Index(u)' = Index(u)
    BY <1>3
  <2>2. \A u \in Uint : pc'[u] \in {"insert", "link"} <=> pc[u] \in {"insert", "link"}
    BY <1>1, <1>3
  <2> QED BY <1>1, <2>1, <2>2 DEF PhtInv, HeapIsTheTable, Listed, Pending
<1> QED BY <1>3, <1>6, <1>7, <1>8, <1>9, <1>10, <1>11 DEF PhtInv

\* Two threads in the table at once are in different lists.
LEMMA InsideExclude ==
    ASSUME PhtInv, NEW t \in Uint, NEW u \in Uint, InTable(t), InTable(u), t # u
    PROVE  stage = "v2" /\ ListOf(t) # ListOf(u)
<1>1. owner[LockOf(t)] = t /\ owner[LockOf(u)] = u
  BY DEF PhtInv, LockInv
<1>2. stage \in {"v1", "v2"}
  BY DEF PhtInv, PlaceInv, TypeInv, Threaded, InTable, Idle
<1> QED BY <1>1, <1>2 DEF LockOf

LEMMA StepWritesHead ==
    ASSUME PhtInv, NEW t \in Uint, Quiet, Threaded, AddWritesHead(t)
    PROVE  PhtInv'
<1>1. /\ pc[t] = "link" /\ InTable(t) /\ j[t] < size
      /\ j' = j /\ owner' = owner /\ allocated' = allocated /\ value' = value
      /\ rest' = [rest EXCEPT ![t] = {}] /\ Goes(t, "unlock")
      /\ lists' = [lists EXCEPT ![ListOf(t)] = rest[t] \cup {Index(t)}]
  BY DEF AddWritesHead, InTable, PhtInv, PlaceInv
<1>2. /\ ListOf(t) \in Bucket /\ Index(t) \in Uint /\ data[Index(t)] \in Key
      /\ ListOf(t) = Hash[data[Index(t)]]
  BY <1>1, ThreadHasKey DEF Idle, PhtInv
<1>3. /\ DataInv' /\ PlaceInv' /\ pc' \in [Uint -> PC] /\ pc'[t] = "unlock"
      /\ \A u \in Uint : u # t => /\ pc'[u] = pc[u] /\ j'[u] = j[u]
                                  /\ InTable(u)' = InTable(u)
                                  /\ Index(u)' = Index(u) /\ ListOf(u)' = ListOf(u)
                                  /\ LockOf(u)' = LockOf(u)
      /\ Index(t)' = Index(t) /\ ListOf(t)' = ListOf(t) /\ LockOf(t)' = LockOf(t)
  BY <1>1, ThreadFrame DEF Idle, PC, Inside, PhtInv, TypeInv
<1>4. data' = data /\ Locks' = Locks /\ HasTable' = HasTable
  BY DEF Quiet, Locks, HasTable
<1>5. rest[t] = lists[ListOf(t)] /\ Matches(data[Index(t)]) = {}
  BY <1>1 DEF PhtInv, AddInv
<1>6. lists \in [Bucket -> SUBSET Uint] /\ rest \in [Uint -> SUBSET Uint]
  BY DEF PhtInv, TypeInv
<1>7. /\ lists' \in [Bucket -> SUBSET Uint]
      /\ lists'[ListOf(t)] = lists[ListOf(t)] \cup {Index(t)}
      /\ \A b \in Bucket : b # ListOf(t) => lists'[b] = lists[b]
  BY <1>1, <1>2, <1>5, <1>6
<1>8. /\ rest' \in [Uint -> SUBSET Uint]
      /\ \A u \in Uint : u # t => rest'[u] = rest[u]
  BY <1>1, <1>6
<1>9. TypeInv'
  BY <1>1, <1>3, <1>4, <1>7, <1>8 DEF PhtInv, TypeInv, Quiet
<1>10. LockInv'
  BY <1>1, <1>3, LocksStay DEF PhtInv
<1>11. AddInv'
  <2>1. ASSUME NEW u \in Uint, pc'[u] \in {"insert", "link"}
        PROVE  /\ (Matches(data[Index(u)]))' = {}
               /\ pc'[u] = "link" => rest'[u] = lists'[ListOf(u)']
    <3>1. /\ u # t /\ Index(u)' = Index(u) /\ ListOf(u)' = ListOf(u) /\ pc'[u] = pc[u]
          /\ InTable(u) /\ rest'[u] = rest[u]
      BY <1>3, <1>8, <2>1 DEF InTable
    <3>2. Matches(data[Index(u)]) = {} /\ (pc[u] = "link" => rest[u] = lists[ListOf(u)])
      BY <2>1, <3>1 DEF PhtInv, AddInv
    <3>3. ListOf(u) # ListOf(t) /\ ListOf(u) \in Bucket /\ ListOf(u) = Hash[data[Index(u)]]
      <4>1. ListOf(u) # ListOf(t)
        BY <3>1, <1>1, InsideExclude
      <4>2. j[u] < size /\ pc[u] \notin Idle
        BY <3>1 DEF PhtInv, PlaceInv, InTable, Idle
      <4> QED BY <4>1, <4>2, ThreadHasKey DEF PhtInv
    <3>4. lists'[ListOf(u)] = lists[ListOf(u)]
      BY <1>7, <3>3
    <3>5. (Matches(data[Index(u)]))' = {}
      BY <3>1, <3>2, <3>3, <3>4, <1>4 DEF Matches
    <3> QED BY <3>1, <3>2, <3>4, <3>5
  <2> QED BY <2>1 DEF AddInv
<1>12. FoundInv'
  <2>1. Present(Index(t))'
    BY <1>2, <1>3, <1>7 DEF Present
  <2>2. \A b \in Bucket : lists[b] \subseteq lists'[b]
    BY <1>7
  <2> QED BY <1>1, <1>3, <2>1, <2>2, FoundGrows DEF PhtInv
<1>13. OneEntryPerKey'
  <2>1. ASSUME NEW b \in Bucket, NEW c \in Bucket, NEW e \in lists'[b], NEW f \in lists'[c]
        PROVE  Hash[data[e]] = b /\ (data[e] = data[f] => e = f)
    <3>1. \A d \in Bucket : \A g \in lists'[d] :
              g \in lists[d] \/ (g = Index(t) /\ d = ListOf(t))
      BY <1>7
    <3>2. \A d \in Bucket : \A g \in lists[d] : Hash[data[g]] = d /\ data[g] # data[Index(t)]
      BY <1>2, <1>5 DEF PhtInv, OneEntryPerKey, Matches
    <3>3. e \in lists[b] /\ f \in lists[c] => (data[e] = data[f] => e = f)
      BY DEF PhtInv, OneEntryPerKey
    <3> QED BY <3>1, <3>2, <3>3, <1>2
  <2> QED BY <2>1, <1>4 DEF OneEntryPerKey
<1>14. HeapIsTheTable'
  <2>1. \A u \in Uint : Index(u)' = Index(u)
    BY <1>3
  <2>2. \A u \in Uint : pc[u] \in {"insert", "link"} <=> pc'[u] \in {"insert", "link"} \/ u = t
    BY <1>1, <1>3
  <2>3. Listed' = Listed \cup {Index(t)}
    BY <1>2, <1>7 DEF Listed
  <2> QED BY <1>1, <2>1, <2>2, <2>3 DEF PhtInv, HeapIsTheTable, Pending
<1> QED BY <1>3, <1>9, <1>10, <1>11, <1>12, <1>13, <1>14 DEF PhtInv

LEMMA StepThread ==
    ASSUME PhtInv, NEW t \in Uint, Thread(t)
    PROVE  PhtInv'
<1>1. Quiet
  BY DEF Quiet, Thread, ProgramUnchanged
<1>2. pc[t] \notin Idle
  BY DEF Thread, run_v1, run_v2, hash_table_v1_add_entry, hash_table_v2_add_entry, AddEntry,
         AddLocks, AddUpdates, AddAllocates, AddReadsHead, AddWritesHead, AddUnlocks,
         ThreadReturns, Idle
<1>3. Threaded
  BY <1>2 DEF PhtInv, PlaceInv
<1>4. AddEntry(t, LockOf(t)) \/ ThreadReturns(t)
  BY Zenon DEF Thread, run_v1, run_v2, hash_table_v1_add_entry, hash_table_v2_add_entry, LockOf
<1> QED BY <1>1, <1>3, <1>4, StepLocks, StepUpdates, StepAllocates, StepReadsHead,
           StepWritesHead, StepUnlocks, StepReturns DEF AddEntry

--------------------------------------------------------------------------------
(* The steps of main.                                                       *)

LEMMA AllIdle ==
    ASSUME PhtInv, ~Threaded, NEW u \in Uint
    PROVE  pc[u] \in Idle
BY DEF PhtInv, PlaceInv

\* What holds when no thread runs.
LEMMA IdleParts ==
    ASSUME \A u \in Uint : pc'[u] \in Idle
    PROVE  LockInv' /\ AddInv' /\ Pending' = {} /\ \A u \in Uint : pc'[u] # "unlock"
BY DEF LockInv, AddInv, Pending, InTable, Idle

LEMMA IdlePending ==
    ASSUME PhtInv, ~Threaded
    PROVE  allocated = Listed
BY AllIdle DEF PhtInv, HeapIsTheTable, Pending, Idle

LEMMA EmptyParts ==
    ASSUME lists' = [b \in Bucket |-> {}]
    PROVE  OneEntryPerKey' /\ Listed' = {}
BY DEF OneEntryPerKey, Listed

LEMMA PlaceWhenIdle ==
    ASSUME \A u \in Uint : pc'[u] \in Idle,
           ~HasTable' => lists' = [b \in Bucket |-> {}],
           main' = "fill" => at' <= (IF stage' = "base" THEN threads' * size' ELSE threads'),
           at' <= threads' \/ at' <= threads' * size',
           main' \in {"arguments", "generate"} => at' = 0,
           \A u \in Uint : ~(Threaded' /\ u < at')
    PROVE  PlaceInv'
BY DEF PlaceInv, InTable, Idle

LEMMA Products ==
    ASSUME NEW n \in Uint, NEW s \in Uint
    PROVE  n \in Nat /\ s \in Nat /\ n * s \in Nat /\ 0 <= n /\ 0 <= n * s
<1>1. n \in Nat /\ s \in Nat
  BY UintIsNat
<1>2. n * s \in Nat
  BY <1>1
<1> DEFINE ns == n * s
<1>3. ns \in Nat
  BY <1>2
<1> HIDE DEF ns
<1>4. 0 <= ns
  BY <1>3
<1> QED BY <1>1, <1>2, <1>4 DEF ns

LEMMA StepParse ==
    ASSUME PhtInv, parse_opt
    PROVE  PhtInv'
<1>1. /\ main = "arguments" /\ UNCHANGED <<arguments, data, stage, at, tableVars, threadVars, missing>>
      /\ ~Threaded /\ ~HasTable
  BY DEF parse_opt, Threaded, HasTable
<1>2. /\ threads' \in Uint /\ size' \in Uint /\ main' \in {"arguments", "generate"}
      /\ process' \in {"running", "EINVAL"} \/ process' = process
  <2>1. arguments[1] \in Seq(Nat) /\ arguments[2] \in Seq(Nat)
    BY PhtAssumption DEF PhtInv, TypeInv
  <2>2. parse_uint32_t(arguments[1]) \in Uint /\ parse_uint32_t(arguments[2]) \in Uint
    BY <2>1, ParsedType
  <2> QED BY <1>1, <2>2 DEF parse_opt, PhtInv, TypeInv
<1>3. \A u \in Uint : pc'[u] \in Idle
  BY <1>1, AllIdle DEF threadVars
<1>4. ~Threaded' /\ ~HasTable'
  BY <1>2 DEF Threaded, HasTable
<1>5. TypeInv'
  BY <1>1, <1>2, <1>4 DEF PhtInv, TypeInv, tableVars, threadVars
<1>6. DataInv'
  BY <1>1, <1>2 DEF PhtInv, DataInv
<1>7. lists' = [b \in Bucket |-> {}] /\ allocated' = Listed /\ Listed = {}
  BY <1>1, IdlePending DEF PhtInv, PlaceInv, tableVars, Listed
<1>8. PlaceInv'
  <2>1. at' = 0 /\ threads' \in Nat
    BY <1>1, <1>2, UintIsNat DEF PhtInv, PlaceInv
  <2>2. main' # "fill" /\ at' <= threads'
    BY <1>2, <2>1
  <2> QED BY <1>3, <1>4, <1>7, <2>1, <2>2, PlaceWhenIdle
<1>9. FoundInv'
  BY <1>1, <1>2, <1>3, <1>4, IdleParts DEF PhtInv, FoundInv
<1>10. OneEntryPerKey' /\ HeapIsTheTable'
  BY <1>3, <1>7, EmptyParts, IdleParts DEF HeapIsTheTable
<1> QED BY <1>3, <1>5, <1>6, <1>8, <1>9, <1>10, IdleParts DEF PhtInv

LEMMA StepGenerate ==
    ASSUME PhtInv, Generate
    PROVE  PhtInv'
<1>1. /\ main = "generate"
      /\ UNCHANGED <<arguments, threads, size, stage, at, tableVars, threadVars, missing>>
      /\ ~Threaded /\ ~HasTable
  BY DEF Generate, Threaded, HasTable
<1>2. \/ process' = "undefined" /\ data' = data /\ main' = main
      \/ /\ ~(threads * size > UintMax) /\ data' \in [Entries -> Key]
         /\ main' = "create" /\ process' = process
  BY DEF Generate
<1>3. \A u \in Uint : pc'[u] \in Idle
  BY <1>1, AllIdle DEF threadVars
<1>4. ~Threaded' /\ ~HasTable'
  BY <1>1, <1>2 DEF Threaded, HasTable
<1>5. TypeInv'
  BY <1>1, <1>2, <1>4 DEF PhtInv, TypeInv, tableVars, threadVars
<1>6. DataInv'
  <2>1. Entries' = Entries /\ threads' * size' = threads * size
    BY <1>1 DEF Entries
  <2>2. threads * size \in Nat /\ UintMax \in Nat
    <3>1. threads \in Uint /\ size \in Uint
      BY DEF PhtInv, TypeInv
    <3> QED BY <3>1, Products, UintIsNat
  <2> DEFINE ts == threads * size
  <2>3. ~(ts > UintMax) => ts <= UintMax
    <3>1. ts \in Nat
      BY <2>2
    <3> HIDE DEF ts
    <3> QED BY <2>2, <3>1
  <2> QED BY <1>1, <1>2, <2>1, <2>3 DEF PhtInv, DataInv
<1>7. lists' = [b \in Bucket |-> {}] /\ allocated' = Listed /\ Listed = {}
  BY <1>1, IdlePending DEF PhtInv, PlaceInv, tableVars, Listed
<1>8. PlaceInv'
  <2>1. at' = 0 /\ threads' \in Nat
    BY <1>1, <1>2, UintIsNat DEF PhtInv, PlaceInv, TypeInv
  <2>2. main' # "fill"
    BY <1>1, <1>2
  <2> QED BY <1>3, <1>4, <1>7, <2>1, <2>2, PlaceWhenIdle
<1>9. FoundInv'
  BY <1>1, <1>2, <1>3, <1>4, IdleParts DEF PhtInv, FoundInv
<1>10. OneEntryPerKey' /\ HeapIsTheTable'
  BY <1>3, <1>7, EmptyParts, IdleParts DEF HeapIsTheTable
<1> QED BY <1>3, <1>5, <1>6, <1>8, <1>9, <1>10, IdleParts DEF PhtInv

LEMMA StepCreate ==
    ASSUME PhtInv, Create
    PROVE  PhtInv'
<1>1. /\ main = "create" /\ main' = "fill" /\ at' = 0 /\ ~Threaded /\ ~HasTable
      /\ UNCHANGED <<arguments, threads, size, data, stage, threadVars, missing, process>>
  BY DEF Create, ProgramUnchanged, Threaded, HasTable
<1>2. EmptyTable(Locks)
  BY DEF Create, hash_table_base_create, hash_table_v1_create, hash_table_v2_create, Locks
<1>3. /\ lists' = [b \in Bucket |-> {}] /\ owner' = [l \in Locks |-> NoThread]
      /\ value' = value /\ allocated' = allocated
  BY <1>2 DEF EmptyTable
<1>4. \A u \in Uint : pc'[u] \in Idle
  BY <1>1, AllIdle DEF threadVars
<1>5. TypeInv'
  <2>1. Locks' = Locks
    BY <1>1 DEF Locks
  <2>2. owner' \in [Locks' -> Uint \cup {NoThread}] /\ lists' \in [Bucket -> SUBSET Uint]
    BY <1>3, <2>1
  <2>3. at' \in Nat /\ main' # "returned"
    BY <1>1
  <2> QED BY <1>1, <1>3, <2>2, <2>3 DEF PhtInv, TypeInv, threadVars
<1>6. DataInv'
  BY <1>1 DEF PhtInv, DataInv, Entries
<1>7. allocated' = {}
  <2>1. Listed = {}
    BY <1>1 DEF PhtInv, PlaceInv, Listed
  <2> QED BY <1>1, <1>3, <2>1, IdlePending
<1>8. PlaceInv'
  <2>1. threads' \in Uint /\ size' \in Uint
    BY <1>1 DEF PhtInv, TypeInv
  <2>2. 0 <= threads' /\ 0 <= threads' * size'
    BY <2>1, Products
  <2>3. \A u \in Uint : ~(u < at')
    BY <1>1, UintIsNat
  <2> QED BY <1>1, <1>3, <1>4, <2>2, <2>3, PlaceWhenIdle
<1>9. FoundInv'
  <2>1. 0 .. at' - 1 = {}
    BY <1>1
  <2> QED BY <1>1, <1>4, <2>1, IdleParts DEF PhtInv, FoundInv
<1>10. OneEntryPerKey' /\ HeapIsTheTable'
  BY <1>3, <1>4, <1>7, EmptyParts, IdleParts DEF HeapIsTheTable
<1> QED BY <1>4, <1>5, <1>6, <1>8, <1>9, <1>10, IdleParts DEF PhtInv

\* The loop that fills the base table, up to its end.
LEMMA StepFillAdds ==
    ASSUME PhtInv, main = "fill", stage = "base", at < threads * size,
           hash_table_base_add_entry(at), at' = at + 1, main' = main, ProgramUnchanged,
           UNCHANGED <<stage, threadVars, missing, process>>
    PROVE  PhtInv'
<1>1. ~Threaded /\ ~Threaded' /\ HasTable /\ HasTable'
  BY DEF Threaded, HasTable
<1>2. UNCHANGED <<arguments, threads, size, data, pc, j, rest>>
  BY DEF ProgramUnchanged, threadVars
<1>3. \A u \in Uint : pc'[u] \in Idle
  BY <1>1, <1>2, AllIdle
<1>4. /\ threads * size <= UintMax /\ threads * size \in Nat /\ at \in Nat
      /\ data \in [Entries -> Key]
  BY Products DEF PhtInv, TypeInv, DataInv
<1>5. at \in Entries /\ at \in Uint /\ at + 1 \in Nat /\ at + 1 <= threads * size
  <2> DEFINE ts == threads * size
  <2>1. ts \in Nat /\ at < ts /\ ts <= UintMax
    BY <1>4
  <2> HIDE DEF ts
  <2>2. at \in 0 .. ts - 1 /\ at \in Uint /\ at + 1 \in Nat /\ at + 1 <= ts
    BY <1>4, <2>1, UintIsNat DEF Uint
  <2> QED BY <2>2 DEF ts, Entries
<1>6. data[at] \in Key /\ Hash[data[at]] \in Bucket
  BY <1>4, <1>5, PhtAssumption
<1>7. owner' = owner /\ Locks' = Locks
  BY DEF hash_table_base_add_entry, Locks
<1>8. DataInv'
  BY <1>2 DEF PhtInv, DataInv, Entries
<1>9. PlaceInv'
  BY <1>1, <1>2, <1>3, <1>5, PlaceWhenIdle
<1>10. allocated = Listed /\ OneEntryPerKey /\ lists \in [Bucket -> SUBSET Uint]
       /\ value \in [Uint -> Uint]
  BY <1>1, IdlePending DEF PhtInv, TypeInv
<1>11. /\ lists' \in [Bucket -> SUBSET Uint] /\ value' \in [Uint -> Uint]
       /\ allocated' = Listed' /\ OneEntryPerKey'
       /\ (\E b \in Bucket : \E f \in lists'[b] : data[f] = data[at])
       /\ \A b \in Bucket : lists[b] \subseteq lists'[b]
  <2>1. CASE \E e \in Matches(data[at]) : Update(e, at)
    <3>1. PICK e \in Matches(data[at]) : Update(e, at)
      BY <2>1
    <3>2. lists' = lists /\ allocated' = allocated /\ value' = [value EXCEPT ![e] = at]
      BY <3>1 DEF Update
    <3>3. \E b \in Bucket : \E f \in lists'[b] : data[f] = data[at]
      BY <3>1, <3>2, <1>6 DEF Matches
    <3>4. value' \in [Uint -> Uint]
      BY <1>5, <1>10, <3>2
    <3>5. OneEntryPerKey' /\ Listed' = Listed
      BY <1>2, <1>10, <3>2 DEF OneEntryPerKey, Listed
    <3> QED BY <1>10, <3>2, <3>3, <3>4, <3>5
  <2>2. CASE /\ ~hash_table_base_contains(data[at])
             /\ allocated' = allocated \cup {at}
             /\ value' = [value EXCEPT ![at] = at]
             /\ lists' = [lists EXCEPT ![Hash[data[at]]] = @ \cup {at}]
    <3> DEFINE B == Hash[data[at]]
    <3>1. /\ lists' \in [Bucket -> SUBSET Uint] /\ lists'[B] = lists[B] \cup {at}
          /\ \A b \in Bucket : b # B => lists'[b] = lists[b]
      BY <2>2, <1>5, <1>6, <1>10
    <3>2. Matches(data[at]) = {}
      BY <2>2 DEF hash_table_base_contains
    <3>3. value' \in [Uint -> Uint]
      BY <2>2, <1>5, <1>10
    <3>4. \E b \in Bucket : \E f \in lists'[b] : data[f] = data[at]
      BY <3>1, <1>6
    <3>5. allocated' = Listed'
      BY <2>2, <3>1, <1>6, <1>10 DEF Listed
    <3>6. OneEntryPerKey'
      <4>1. ASSUME NEW b \in Bucket, NEW c \in Bucket, NEW e \in lists'[b], NEW f \in lists'[c]
            PROVE  Hash[data[e]] = b /\ (data[e] = data[f] => e = f)
        <5>1. \A d \in Bucket : \A g \in lists'[d] : g \in lists[d] \/ (g = at /\ d = B)
          BY <3>1
        <5>2. \A d \in Bucket : \A g \in lists[d] : Hash[data[g]] = d /\ data[g] # data[at]
          BY <1>6, <1>10, <3>2 DEF OneEntryPerKey, Matches
        <5>3. e \in lists[b] /\ f \in lists[c] => (data[e] = data[f] => e = f)
          BY <1>10 DEF OneEntryPerKey
        <5> QED BY <5>1, <5>2, <5>3
      <4> QED BY <4>1, <1>2 DEF OneEntryPerKey
    <3>7. \A b \in Bucket : lists[b] \subseteq lists'[b]
      BY <3>1
    <3> QED BY <3>1, <3>3, <3>4, <3>5, <3>6, <3>7
  <2> QED BY <2>1, <2>2 DEF hash_table_base_add_entry
<1>12. TypeInv'
  <2>1. allocated' \subseteq Uint
    BY <1>11 DEF Listed
  <2> QED BY <1>1, <1>2, <1>5, <1>7, <1>11, <2>1 DEF PhtInv, TypeInv
<1>13. FoundInv'
  <2>1. \A e \in 0 .. at - 1 : Present(e)
    BY DEF PhtInv, FoundInv
  <2>2. \A e \in 0 .. at - 1 : Present(e)'
    BY <2>1, <1>2, <1>11, PresentGrows
  <2>3. \A e \in 0 .. at' - 1 : e \in 0 .. at - 1 \/ e = at
    BY <1>4
  <2>4. \A e \in 0 .. at' - 1 : Present(e)'
    BY <1>2, <1>11, <2>2, <2>3 DEF Present
  <2>5. missing' = 0 /\ main' # "count"
    BY DEF PhtInv, FoundInv
  <2> QED BY <1>1, <1>3, <2>4, <2>5, IdleParts DEF FoundInv
<1> QED BY <1>3, <1>8, <1>9, <1>11, <1>12, <1>13, IdleParts DEF PhtInv, HeapIsTheTable

\* main leaves a loop, with the keys of all calls in the table, and no thread runs.
LEMMA StepToCount ==
    ASSUME PhtInv, HasTable, \A u \in Uint : pc[u] \in Idle, main' = "count",
           UNCHANGED <<at, tableVars>>, ProgramUnchanged,
           UNCHANGED <<stage, threadVars, missing, process>>,
           \A e \in Entries : Present(e)
    PROVE  PhtInv'
<1>1. UNCHANGED <<arguments, threads, size, data, pc, j, rest, lists, value, allocated, owner, at>>
  BY DEF ProgramUnchanged, threadVars, tableVars
<1>2. ~Threaded' /\ HasTable' /\ \A u \in Uint : pc'[u] \in Idle
  BY <1>1 DEF Threaded, HasTable
<1>3. Locks' = Locks /\ Entries' = Entries
  BY <1>1 DEF Locks, Entries
<1>4. TypeInv'
  BY <1>1, <1>2, <1>3 DEF PhtInv, TypeInv
<1>5. DataInv'
  BY <1>1, <1>3 DEF PhtInv, DataInv, HasTable
<1>6. PlaceInv'
  <2>1. at' <= threads' \/ at' <= threads' * size'
    BY <1>1 DEF PhtInv, PlaceInv
  <2> QED BY <1>2, <2>1, PlaceWhenIdle
<1>7. FoundInv'
  <2>1. \A e \in Entries' : Present(e)'
    BY <1>1, <1>3, PresentGrows
  <2> QED BY <1>2, <2>1, IdleParts DEF PhtInv, FoundInv
<1>8. OneEntryPerKey'
  BY <1>1 DEF PhtInv, OneEntryPerKey
<1>9. HeapIsTheTable'
  <2>1. Pending = {} /\ Listed' = Listed
    BY <1>1 DEF Pending, Listed, Idle
  <2> QED BY <1>1, <1>2, <2>1, IdleParts DEF PhtInv, HeapIsTheTable
<1> QED BY <1>2, <1>4, <1>5, <1>6, <1>7, <1>8, <1>9, IdleParts DEF PhtInv

LEMMA StepFill ==
    ASSUME PhtInv, FillBase
    PROVE  PhtInv'
<1>1. CASE at < threads * size /\ hash_table_base_add_entry(at) /\ at' = at + 1 /\ UNCHANGED main
  BY <1>1, StepFillAdds DEF FillBase
<1>2. CASE at = threads * size /\ main' = "count" /\ UNCHANGED <<at, tableVars>>
  <2>1. HasTable /\ ~Threaded
    BY DEF FillBase, HasTable, Threaded
  <2>2. \A e \in Entries : Present(e)
    BY <1>2 DEF FillBase, PhtInv, FoundInv, Entries
  <2> QED BY <1>2, <2>1, <2>2, AllIdle, StepToCount DEF FillBase
<1> QED BY <1>1, <1>2 DEF FillBase

LEMMA StepJoin ==
    ASSUME PhtInv, JoinThreads
    PROVE  PhtInv'
<1>1. Threaded /\ HasTable /\ at = threads /\ \A t \in 0 .. threads - 1 : pc[t] = "ended"
  BY DEF JoinThreads, Threaded, HasTable, Started
<1>2. threads \in Uint /\ size \in Uint /\ threads \in Nat /\ size \in Nat
      /\ threads \in 0 .. UintMax /\ UintMax \in Nat
  BY UintIsNat DEF PhtInv, TypeInv, Uint
<1>3. \A t \in 0 .. threads - 1 : t \in Uint /\ t < at
  BY <1>1, <1>2 DEF Uint
<1>4. ASSUME NEW u \in Uint PROVE pc[u] \in Idle
  <2>1. CASE u < threads
    <3>1. u \in 0 .. threads - 1
      BY <2>1, <1>2, UintIsNat
    <3> QED BY <3>1, <1>1 DEF Idle
  <2>2. CASE ~(u < threads)
    BY <2>2, <1>1 DEF PhtInv, PlaceInv
  <2> QED BY <2>1, <2>2
<1>5. ASSUME NEW e \in Entries PROVE Present(e)
  <2>1. \E t \in 0 .. threads - 1 : \E i \in 0 .. size - 1 : e = t * size + i
    BY <1>2, EntryHasThread DEF Entries
  <2>2. PICK t \in 0 .. threads - 1 : \E i \in 0 .. size - 1 : e = t * size + i
    BY <2>1
  <2>3. PICK i \in 0 .. size - 1 : e = t * size + i
    BY <2>2
  <2>4. j[t] = size
    BY <1>1, <1>3 DEF PhtInv, PlaceInv
  <2>5. t \in 0 .. at - 1 /\ i \in 0 .. j[t] - 1
    BY <1>1, <2>4
  <2>6. Present(t * size + i)
    BY <1>1, <2>5 DEF PhtInv, FoundInv
  <2> QED BY <2>3, <2>6
<1> QED BY <1>1, <1>4, <1>5, StepToCount DEF JoinThreads

LEMMA StepStart ==
    ASSUME PhtInv, StartThread
    PROVE  PhtInv'
<1>1. /\ Threaded /\ Threaded' /\ HasTable /\ HasTable' /\ at < threads
      /\ UNCHANGED <<arguments, threads, size, data, stage, main, rest, missing>>
      /\ UNCHANGED <<lists, value, allocated, owner>>
  BY DEF StartThread, ProgramUnchanged, tableVars, Threaded, HasTable
<1>2. Locks' = Locks /\ Entries' = Entries
  BY <1>1 DEF Locks, Entries
<1>3. DataInv' /\ OneEntryPerKey'
  BY <1>1, <1>2 DEF PhtInv, DataInv, OneEntryPerKey
<1>4. CASE process' = "EAGAIN" /\ UNCHANGED <<at, pc, j>>
  <2>1. \A u \in Uint : Index(u)' = Index(u) /\ ListOf(u)' = ListOf(u) /\ LockOf(u)' = LockOf(u)
                        /\ InTable(u)' = InTable(u)
    BY <1>1, <1>4, Zenon DEF Index, ListOf, LockOf, get_global_index, InTable
  <2>2. TypeInv'
    BY <1>1, <1>2, <1>4 DEF PhtInv, TypeInv, Threaded
  <2>3. PlaceInv'
    BY <1>1, <1>4, <2>1 DEF PhtInv, PlaceInv
  <2>4. LockInv'
    BY <1>1, <2>1 DEF PhtInv, LockInv
  <2>5. AddInv'
    BY <1>1, <1>4, <2>1 DEF PhtInv, AddInv, Matches
  <2>6. FoundInv'
    BY <1>1, <1>2, <1>4, <2>1 DEF PhtInv, FoundInv, Present
  <2>7. HeapIsTheTable'
    BY <1>1, <1>4, <2>1 DEF PhtInv, HeapIsTheTable, Listed, Pending
  <2> QED BY <1>3, <2>2, <2>3, <2>4, <2>5, <2>6, <2>7 DEF PhtInv
<1>5. CASE Goes(at, "adding") /\ at' = at + 1 /\ j' = [j EXCEPT ![at] = 0] /\ UNCHANGED process
  <2>1. threads \in Uint /\ size \in Uint /\ at \in Nat /\ threads \in 0 .. UintMax
    BY DEF PhtInv, TypeInv, Uint
  <2>2. at \in Uint /\ at + 1 \in Nat /\ at + 1 <= threads /\ 0 <= size
    BY <2>1, <1>1, UintIsNat DEF Uint
  <2>3. /\ pc' \in [Uint -> PC] /\ pc'[at] = "adding"
        /\ j' \in [Uint -> Uint] /\ j'[at] = 0
        /\ \A u \in Uint : u # at => pc'[u] = pc[u] /\ j'[u] = j[u]
    BY <1>5, <2>2, UintIsNat DEF Goes, PhtInv, TypeInv, PC
  <2>4. pc[at] \in Idle
    <3>1. pc[at] \notin Idle => at < at
      BY <2>2 DEF PhtInv, PlaceInv
    <3> QED BY <3>1, <2>1
  <2>5. \A u \in Uint : u # at => /\ Index(u)' = Index(u) /\ ListOf(u)' = ListOf(u)
                                  /\ LockOf(u)' = LockOf(u) /\ InTable(u)' = InTable(u)
    BY <1>1, <2>3, Zenon DEF Index, ListOf, LockOf, get_global_index, InTable
  <2>6. ~InTable(at) /\ \A u \in Uint : InTable(u)' => u # at
    BY <2>3, <2>4 DEF InTable, Idle
  <2>7. TypeInv'
    BY <1>1, <1>2, <1>5, <2>2, <2>3 DEF PhtInv, TypeInv
  <2>8. PlaceInv'
    <3>1. ASSUME NEW u \in Uint PROVE
              /\ pc'[u] \notin Idle => u < at'
              /\ u < at' => pc'[u] # "none" /\ (pc'[u] = "ended" => j'[u] = size)
              /\ pc'[u] = "adding" => j'[u] <= size
              /\ InTable(u)' => j'[u] < size
      <4>1. CASE u = at
        <5>1. at < at' /\ pc'[u] = "adding" /\ j'[u] = 0
          BY <4>1, <1>5, <2>1, <2>3
        <5>2. ~InTable(u)'
          BY <4>1, <2>6
        <5> QED BY <4>1, <5>1, <5>2, <2>2
      <4>2. CASE u # at
        <5>1. u < at' <=> u < at
          BY <4>2, <1>5, <2>1, UintIsNat
        <5> QED BY <4>2, <5>1, <1>1, <2>3, <2>5 DEF PhtInv, PlaceInv
      <4> QED BY <4>1, <4>2
    <3>2. at' <= threads' /\ stage' # "base" /\ main' = "fill" /\ size' = size
      BY <1>1, <1>5, <2>2 DEF Threaded
    <3> QED BY <1>1, <3>1, <3>2 DEF PlaceInv
  <2>9. LockInv'
    BY <1>1, <2>5, <2>6 DEF PhtInv, LockInv
  <2>10. AddInv'
    <3>1. \A u \in Uint : pc'[u] \in {"insert", "link"} => u # at
      BY <2>3
    <3> QED BY <1>1, <2>3, <2>5, <3>1 DEF PhtInv, AddInv, Matches
  <2>11. FoundInv'
    <3>1. ASSUME NEW u \in 0 .. at' - 1, NEW i \in 0 .. j'[u] - 1 PROVE Present(u * size + i)'
      <4>1. u # at /\ u \in 0 .. at - 1 /\ u \in Uint
        <5>1. u # at
          BY <2>3
        <5>2. u \in 0 .. (at + 1) - 1
          BY <1>5
        <5>3. u \in 0 .. at - 1
          BY <5>1, <5>2, <2>1
        <5>4. u \in 0 .. UintMax
          BY <5>3, <2>1, <2>2, UintIsNat
        <5> QED BY <5>1, <5>3, <5>4 DEF Uint
      <4>2. i \in 0 .. j[u] - 1
        BY <4>1, <2>3
      <4>3. Present(u * size + i)
        BY <4>1, <4>2, <1>1 DEF PhtInv, FoundInv
      <4> QED BY <4>3, <1>1 DEF Present
    <3>2. ASSUME NEW u \in Uint, pc'[u] = "unlock" PROVE Present(Index(u))'
      <4>1. u # at
        BY <3>2, <2>3
      <4>2. pc[u] = "unlock" /\ Index(u)' = Index(u)
        BY <3>2, <4>1, <2>3, <2>5
      <4>3. Present(Index(u))
        BY <4>2 DEF PhtInv, FoundInv
      <4> QED BY <4>2, <4>3, <1>1 DEF Present
    <3>3. main' = "fill" /\ stage' # "base" /\ size' = size /\ missing' = 0
      BY <1>1 DEF Threaded, PhtInv, FoundInv
    <3> QED BY <3>1, <3>2, <3>3 DEF FoundInv
  <2>12. HeapIsTheTable'
    <3>1. \A u \in Uint : pc'[u] \in {"insert", "link"} <=> pc[u] \in {"insert", "link"}
      BY <2>3, <2>4 DEF Idle
    <3>2. \A u \in Uint : pc[u] \in {"insert", "link"} => u # at
      BY <2>4 DEF Idle
    <3>3. Pending' = Pending
      BY <2>5, <3>1, <3>2 DEF Pending
    <3> QED BY <1>1, <3>3 DEF PhtInv, HeapIsTheTable, Listed
  <2> QED BY <1>3, <2>7, <2>8, <2>9, <2>10, <2>11, <2>12 DEF PhtInv
<1> QED BY <1>4, <1>5 DEF StartThread

\* The rest of main's steps run while no thread does.
LEMMA StepCount ==
    ASSUME PhtInv, CountMissing
    PROVE  PhtInv'
<1>1. /\ main = "count" /\ main' = "destroy" /\ ~Threaded /\ ~Threaded' /\ HasTable /\ HasTable'
      /\ UNCHANGED <<arguments, threads, size, data, stage, at, pc, j, rest, process>>
      /\ UNCHANGED <<lists, value, allocated, owner>>
  BY DEF CountMissing, ProgramUnchanged, tableVars, threadVars, Threaded, HasTable
<1>2. missing' = 0
  <2>1. \A e \in Entries : Contained(data[e])
    <3>1. \A e \in Entries : Matches(data[e]) # {}
      BY <1>1, PresentIsFound DEF PhtInv, FoundInv
    <3>2. stage = "base" \/ stage = "v1" \/ stage = "v2"
      BY DEF PhtInv, TypeInv
    <3> QED BY <3>1, <3>2 DEF Contained, hash_table_base_contains, hash_table_v1_contains,
               hash_table_v2_contains
  <2>2. {e \in Entries : ~Contained(data[e])} = {}
    BY <2>1
  <2> QED BY <2>2, FS_EmptySet DEF CountMissing
<1>3. \A u \in Uint : pc'[u] \in Idle
  BY <1>1, AllIdle
<1>4. Locks' = Locks /\ Entries' = Entries
  BY <1>1 DEF Locks, Entries
<1>5. TypeInv'
  BY <1>1, <1>4 DEF PhtInv, TypeInv
<1>6. DataInv' /\ OneEntryPerKey'
  BY <1>1, <1>4 DEF PhtInv, DataInv, OneEntryPerKey
<1>7. PlaceInv'
  <2>1. at' <= threads' \/ at' <= threads' * size'
    BY <1>1 DEF PhtInv, PlaceInv
  <2> QED BY <1>1, <1>3, <2>1, PlaceWhenIdle
<1>8. FoundInv'
  BY <1>1, <1>2, <1>3, IdleParts DEF FoundInv
<1>9. HeapIsTheTable'
  BY <1>1, <1>3, IdlePending, IdleParts DEF HeapIsTheTable, Listed
<1> QED BY <1>3, <1>5, <1>6, <1>7, <1>8, <1>9, IdleParts DEF PhtInv

LEMMA StepDestroy ==
    ASSUME PhtInv, Destroy
    PROVE  PhtInv'
<1>1. /\ main = "destroy" /\ ~Threaded
      /\ UNCHANGED <<arguments, threads, size, data, at, pc, j, rest, missing>>
  BY DEF Destroy, ProgramUnchanged, threadVars, Threaded
<1>2. \A u \in Uint : pc'[u] \in Idle
  BY <1>1, AllIdle
<1>3. Entries' = Entries
  BY <1>1 DEF Entries
<1>4. at' <= threads' \/ at' <= threads' * size'
  BY <1>1 DEF PhtInv, PlaceInv
<1>5. ASSUME FreeEntries, main' \in {"create", "returned"}, stage' \in {"v1", "v2"},
             main' = "returned" => process' = "returned 0",
             process' = process \/ process' = "returned 0"
      PROVE  PhtInv'
  <2>1. /\ lists' = [b \in Bucket |-> {}] /\ value' = [e \in Uint |-> 0]
        /\ allocated' = allocated \ Listed
    BY <1>5 DEF FreeEntries, Listed
  <2>2. ~HasTable' /\ ~Threaded'
    BY <1>5 DEF HasTable, Threaded
  <2>3. allocated' = {}
    BY <1>1, <2>1, IdlePending
  <2>4. TypeInv'
    <3>1. lists' \in [Bucket -> SUBSET Uint] /\ value' \in [Uint -> Uint] /\ allocated' \subseteq Uint
      BY <2>1, <2>3, UintIsNat
    <3>2. main' = "returned" => process' = "returned 0"
      BY <1>5
    <3> QED BY <1>1, <1>5, <2>2, <3>1, <3>2 DEF PhtInv, TypeInv
  <2>5. DataInv'
    BY <1>1, <1>3, <1>5 DEF PhtInv, DataInv
  <2>6. PlaceInv'
    BY <1>2, <1>4, <1>5, <2>1, <2>2, PlaceWhenIdle
  <2>7. FoundInv'
    BY <1>1, <1>2, <1>5, <2>2, IdleParts DEF PhtInv, FoundInv
  <2>8. OneEntryPerKey' /\ HeapIsTheTable'
    BY <1>2, <2>1, <2>3, EmptyParts, IdleParts DEF HeapIsTheTable
  <2> QED BY <1>2, <2>4, <2>5, <2>6, <2>7, <2>8, IdleParts DEF PhtInv
<1>6. ASSUME process' = "SIGABRT", UNCHANGED <<tableVars, main, stage>>
      PROVE  PhtInv'
  <2>1. UNCHANGED <<lists, value, allocated, owner>> /\ HasTable' = HasTable /\ ~Threaded'
        /\ Locks' = Locks
    BY <1>1, <1>6 DEF tableVars, HasTable, Threaded, Locks
  <2>2. TypeInv'
    BY <1>1, <1>6, <2>1 DEF PhtInv, TypeInv
  <2>3. DataInv' /\ OneEntryPerKey'
    BY <1>1, <1>3, <1>6, <2>1 DEF PhtInv, DataInv, OneEntryPerKey
  <2>4. PlaceInv'
    <3>1. ~HasTable' => lists' = [b \in Bucket |-> {}]
      BY <1>1, <2>1 DEF HasTable
    <3> QED BY <1>1, <1>2, <1>4, <1>6, <2>1, <3>1, PlaceWhenIdle
  <2>5. FoundInv'
    BY <1>1, <1>2, <1>6, <2>1, IdleParts DEF PhtInv, FoundInv
  <2>6. HeapIsTheTable'
    BY <1>1, <1>2, <2>1, IdlePending, IdleParts DEF HeapIsTheTable, Listed
  <2> QED BY <1>2, <2>2, <2>3, <2>4, <2>5, <2>6, IdleParts DEF PhtInv
<1> QED BY <1>1, <1>5, <1>6 DEF Destroy, hash_table_base_destroy, hash_table_v1_destroy,
           hash_table_v2_destroy

--------------------------------------------------------------------------------

LEMMA InitPhtInv == Init => PhtInv
<1> SUFFICES ASSUME Init PROVE PhtInv
  OBVIOUS
<1>1. ~HasTable /\ ~Threaded /\ main = "arguments" /\ threads = 0 /\ size = 0 /\ at = 0
      /\ \A u \in Uint : pc[u] \in Idle /\ pc[u] = "none"
  BY DEF Init, HasTable, Threaded, Idle
<1>2. TypeInv
  BY <1>1, UintIsNat DEF Init, TypeInv, PC
<1>3. DataInv
  BY DEF Init, DataInv
<1>4. PlaceInv
  BY <1>1 DEF Init, PlaceInv, InTable, Idle
<1>5. LockInv /\ AddInv
  BY <1>1 DEF LockInv, AddInv, InTable
<1>6. FoundInv
  BY <1>1 DEF Init, FoundInv
<1>7. OneEntryPerKey /\ HeapIsTheTable
  BY <1>1 DEF Init, OneEntryPerKey, HeapIsTheTable, Listed, Pending
<1> QED BY <1>2, <1>3, <1>4, <1>5, <1>6, <1>7 DEF PhtInv

LEMMA StepPhtInv == PhtInv /\ [Next]_vars => PhtInv'
<1> SUFFICES ASSUME PhtInv, [Next]_vars PROVE PhtInv'
  OBVIOUS
<1>1. CASE Main
  BY <1>1, StepParse, StepGenerate, StepCreate, StepFill, StepStart, StepJoin, StepCount,
     StepDestroy DEF Main
<1>2. ASSUME NEW t \in Uint, Thread(t) PROVE PhtInv'
  BY <1>2, StepThread
<1>3. CASE UNCHANGED vars
  <2>1. UNCHANGED <<arguments, threads, size, data, stage, main, at, lists, value, allocated,
                    owner, pc, j, rest, missing, process>>
    BY <1>3 DEF vars, tableVars, threadVars
  <2>2. /\ HasTable' = HasTable /\ Locks' = Locks /\ Entries' = Entries /\ Threaded' = Threaded
        /\ Listed' = Listed
    BY <2>1 DEF HasTable, Locks, Entries, Threaded, Listed
  <2>3. \A u \in Uint : Index(u)' = Index(u) /\ ListOf(u)' = ListOf(u) /\ LockOf(u)' = LockOf(u)
                        /\ InTable(u)' = InTable(u)
    BY <2>1, Zenon DEF Index, ListOf, LockOf, get_global_index, InTable
  <2>4. TypeInv' /\ DataInv'
    BY <2>1, <2>2 DEF PhtInv, TypeInv, DataInv
  <2>5. PlaceInv' /\ LockInv'
    BY <2>1, <2>2, <2>3 DEF PhtInv, PlaceInv, LockInv
  <2>6. AddInv' /\ FoundInv'
    BY <2>1, <2>2, <2>3 DEF PhtInv, AddInv, FoundInv, Present, Matches
  <2>7. OneEntryPerKey' /\ HeapIsTheTable'
    BY <2>1, <2>2, <2>3 DEF PhtInv, OneEntryPerKey, HeapIsTheTable, Pending
  <2> QED BY <2>4, <2>5, <2>6, <2>7 DEF PhtInv
<1> QED BY <1>1, <1>2, <1>3 DEF Next

LEMMA PhtInvTypes == PhtInv => TypeOK
<1> SUFFICES ASSUME PhtInv PROVE TypeOK
  OBVIOUS
<1>1. threads \in 0 .. UintMax /\ size \in Uint /\ threads \in Uint /\ at \in Nat /\ UintMax \in Nat
  BY UintIsNat DEF PhtInv, TypeInv, Uint
<1>2. threads * size \in Nat
  BY <1>1, Products
<1>3. CASE main \in {"arguments", "generate"}
  <2>1. at = 0 /\ data = <<>>
    BY <1>3 DEF PhtInv, PlaceInv, DataInv
  <2>2. 0 \in 0 .. UintMax + 1 /\ data \in [0 .. 0 - 1 -> Key]
    BY <1>1, <2>1
  <2>3. \E n \in 0 .. UintMax + 1 : data \in [0 .. n - 1 -> Key]
    BY <2>2
  <2>4. at \in 0 .. UintMax /\ missing \in 0 .. UintMax
    BY <1>1, <2>1 DEF PhtInv, FoundInv
  <2> QED BY <2>3, <2>4 DEF PhtInv, TypeInv, TypeOK, PC
<1>4. CASE main \notin {"arguments", "generate"}
  <2> DEFINE n == threads * size
  <2>1. n \in Nat /\ n <= UintMax /\ data \in [0 .. n - 1 -> Key] /\ (at <= threads \/ at <= n)
    BY <1>2, <1>4 DEF PhtInv, DataInv, PlaceInv, Entries
  <2> HIDE DEF n
  <2>2. n \in 0 .. UintMax + 1 /\ at \in 0 .. UintMax
    BY <1>1, <2>1
  <2>3. missing \in 0 .. UintMax
    BY <1>1 DEF PhtInv, FoundInv
  <2> QED BY <2>1, <2>2, <2>3 DEF PhtInv, TypeInv, TypeOK, PC
<1> QED BY <1>3, <1>4

LEMMA PhtInvExcludes == PhtInv => WritersExclude
BY InsideExclude DEF WritersExclude

LEMMA PhtInvIsAlone == PhtInv => MainIsAlone
BY AllIdle DEF MainIsAlone, Threaded, Idle

--------------------------------------------------------------------------------
(* The tables against KeyedPuts.                                            *)

\* When main counts, every call of the present table is over.
RoundInv ==
    main \in {"count", "destroy"} =>
        /\ at = (IF stage = "base" THEN threads * size ELSE threads)
        /\ stage # "base" => \A t \in Started : j[t] = size

\* An entry that is not in its list yet already has the value of its call.
ValueInv == \A t \in Uint : pc[t] \in {"insert", "link"} => value[Index(t)] = Index(t)

PutsInv == PhtInv /\ RoundInv /\ ValueInv

\* What the tables hold, as KeyedPuts sees it.
Mapped == [k \in {data[e] : e \in Listed} |-> get_value(k)]

LEMMA OnlyMatch ==
    ASSUME OneEntryPerKey, NEW e \in Listed
    PROVE  get_value(data[e]) = value[e]
<1>1. Matches(data[e]) = {e}
  BY DEF OneEntryPerKey, Listed, Matches
<1> QED BY <1>1 DEF get_value

LEMMA OnlyMatchNext ==
    ASSUME OneEntryPerKey', data' = data, NEW e \in Listed'
    PROVE  get_value(data[e])' = value'[e]
<1>1. (Matches(data[e]))' = {e}
  BY DEF OneEntryPerKey, Listed, Matches
<1> QED BY <1>1 DEF get_value

LEMMA MapStays ==
    ASSUME OneEntryPerKey, OneEntryPerKey', data' = data, Listed' = Listed,
           \A e \in Listed : value'[e] = value[e]
    PROVE  Mapped' = Mapped
<1> DEFINE K == {data[e] : e \in Listed}
<1>1. (\A k \in K : get_value(k)' = get_value(k))
  BY OnlyMatch, OnlyMatchNext
<1>2. Mapped = [k \in K |-> get_value(k)] /\ Mapped' = [k \in K |-> get_value(k)']
  BY DEF Mapped
<1> QED BY <1>1, <1>2

\* The step that lists the entry f of the call c, or gives it the value of the call.
LEMMA MapPuts ==
    ASSUME OneEntryPerKey, OneEntryPerKey', data' = data, NEW c, NEW f \in Listed',
           data[f] = data[c], value'[f] = c, Listed' \subseteq Listed \cup {f},
           Listed \subseteq Listed', \A e \in Listed : e # f => value'[e] = value[e]
    PROVE  Mapped' = [k \in DOMAIN Mapped \cup {data[c]} |->
                          IF k = data[c] THEN c ELSE Mapped[k]]
<1> DEFINE K == {data[e] : e \in Listed}
           L == {data[e] : e \in Listed'}
<1>1. L = K \cup {data[c]}
  OBVIOUS
<1>2. /\ Mapped = [k \in K |-> get_value(k)] /\ DOMAIN Mapped = K
      /\ Mapped' = [k \in L |-> get_value(k)']
  BY DEF Mapped
<1>3. ASSUME NEW k \in L
      PROVE  get_value(k)' = IF k = data[c] THEN c ELSE Mapped[k]
  <2>1. PICK e \in Listed' : k = data[e]
    OBVIOUS
  <2>2. get_value(k)' = value'[e]
    BY <2>1, OnlyMatchNext
  <2>3. CASE e = f
    BY <2>1, <2>2, <2>3
  <2>4. CASE e # f
    <3>1. e \in Listed /\ value'[e] = value[e]
      BY <2>1, <2>4
    <3>2. data[e] # data[f]
      BY <2>4, <2>1 DEF OneEntryPerKey, Listed
    <3>3. Mapped[k] = value[e]
      <4>1. k \in K /\ get_value(k) = value[e]
        BY <2>1, <3>1, OnlyMatch
      <4> QED BY <1>2, <4>1
    <3> QED BY <2>1, <2>2, <3>1, <3>2, <3>3
  <2> QED BY <2>3, <2>4
<1> HIDE DEF K, L
<1> QED BY <1>1, <1>2, <1>3

\* The calls of two threads are different ones.
LEMMA IndexesIncrease ==
    ASSUME NEW s \in Nat, NEW t \in Nat, NEW u \in Nat, t < u,
           NEW i \in 0 .. s - 1, NEW k \in 0 .. s - 1
    PROVE  t * s + i < u * s + k
<1>1. \E d \in Nat : u = t + 1 + d
  <2>1. u - t - 1 \in Nat /\ u = t + 1 + (u - t - 1)
    OBVIOUS
  <2> QED BY <2>1
<1>2. PICK d \in Nat : u = t + 1 + d
  BY <1>1
<1>3. u * s = t * s + s + d * s /\ d * s \in Nat /\ t * s \in Nat
  BY <1>2
<1> DEFINE ts == t * s
           ds == d * s
           us == u * s
<1>4. us = ts + s + ds /\ ds \in Nat /\ ts \in Nat
  BY <1>3
<1> HIDE DEF ts, ds, us
<1>5. ts + i < us + k
  BY <1>4
<1> QED BY <1>5 DEF ts, us

LEMMA IndexesDiffer ==
    ASSUME NEW s \in Nat, NEW t \in Nat, NEW u \in Nat,
           NEW i \in 0 .. s - 1, NEW k \in 0 .. s - 1, t * s + i = u * s + k
    PROVE  t = u /\ i = k
<1>1. t * s \in Nat /\ u * s \in Nat
  OBVIOUS
<1>2. CASE t = u
  BY <1>1, <1>2
<1>3. CASE t < u
  BY <1>1, <1>3, IndexesIncrease
<1>4. CASE u < t
  BY <1>1, <1>4, IndexesIncrease
<1> QED BY <1>2, <1>3, <1>4

\* Each call that a thread has made has its place in the array of keys.
LEMMA CallsHavePlaces ==
    ASSUME PhtInv, main \notin {"arguments", "generate"}, NEW t \in Uint, t < threads,
           NEW i \in Nat, i < size
    PROVE  get_global_index(t, i) = t * size + i /\ get_global_index(t, i) \in Entries
<1>1. threads \in Nat /\ size \in Nat /\ t \in Nat /\ threads * size <= UintMax
  BY UintIsNat DEF PhtInv, TypeInv, DataInv
<1>2. t \in 0 .. threads - 1 /\ i \in 0 .. size - 1
  BY <1>1
<1>3. /\ (t * size + i) % (UintMax + 1) = t * size + i
      /\ t * size + i \in 0 .. threads * size - 1
  BY <1>1, <1>2, IndexIsEntry, Zenon
<1> QED BY <1>3, Zenon DEF get_global_index, Entries

\* The call that a thread is making has not taken effect before its last step.
LEMMA CallIsNew ==
    ASSUME PhtInv, NEW t \in Uint, InTable(t), pc[t] # "unlock"
    PROVE  Index(t) \in DOMAIN data \ Done
<1>1. pc[t] \notin Idle /\ j[t] < size
  BY DEF PhtInv, PlaceInv, InTable, Idle
<1>2. /\ Threaded /\ HasTable /\ t < threads /\ Index(t) = t * size + j[t] /\ Index(t) \in Entries
      /\ t < at
  BY <1>1, ThreadHasKey DEF PhtInv
<1>3. data \in [Entries -> Key] /\ main \notin {"arguments", "generate"}
  BY <1>2 DEF PhtInv, DataInv, Threaded
<1>4. ASSUME NEW u \in 0 .. at - 1, Index(t) \in CallsOf(u) PROVE FALSE
  <2>1. /\ at <= threads /\ at \in Nat /\ threads \in 0 .. UintMax /\ size \in Nat
        /\ t \in Nat /\ j[t] \in Nat
    BY <1>2, UintIsNat DEF PhtInv, TypeInv, PlaceInv, Threaded, Uint
  <2>2. u \in Uint /\ u \in Nat /\ u < threads /\ u < at
    BY <2>1, UintIsNat DEF Uint
  <2>3. j[u] \in Nat /\ j[u] <= size
    <3>1. pc[u] # "none" /\ (pc[u] = "ended" => j[u] = size) /\ pc[u] \in PC
      BY <1>2, <2>2 DEF PhtInv, PlaceInv, TypeInv
    <3>2. (pc[u] = "adding" => j[u] <= size) /\ (InTable(u) => j[u] < size) /\ j[u] \in Nat
      BY <2>2, UintIsNat DEF PhtInv, PlaceInv, TypeInv
    <3> QED BY <2>1, <3>1, <3>2 DEF PC, InTable
  <2>4. CASE \E i \in 0 .. j[u] - 1 : Index(t) = get_global_index(u, i)
    <3>1. PICK i \in 0 .. j[u] - 1 : Index(t) = get_global_index(u, i)
      BY <2>4
    <3>2. i \in Nat /\ i < size /\ i < j[u] /\ i \in 0 .. size - 1 /\ j[t] \in 0 .. size - 1
      BY <1>1, <2>1, <2>3
    <3>3. get_global_index(u, i) = u * size + i
      BY <1>3, <2>2, <3>2, CallsHavePlaces
    <3>4. t = u /\ j[t] = i
      BY <1>2, <2>1, <2>2, <3>1, <3>2, <3>3, IndexesDiffer
    <3> QED BY <3>2, <3>4, <2>1
  <2>5. CASE pc[u] = "unlock" /\ Index(t) = Index(u)
    <3>1. u # t /\ j[u] < size /\ pc[u] \notin Idle
      BY <2>2, <2>5 DEF PhtInv, PlaceInv, InTable, Idle
    <3>2. Index(u) = u * size + j[u]
      BY <2>2, <3>1, ThreadHasKey DEF PhtInv
    <3>3. j[u] \in 0 .. size - 1 /\ j[t] \in 0 .. size - 1
      BY <1>1, <2>1, <2>3, <3>1
    <3> QED BY <1>2, <2>1, <2>2, <2>5, <3>1, <3>2, <3>3, IndexesDiffer
  <2> QED BY <1>4, <2>4, <2>5 DEF CallsOf
<1>5. Index(t) \notin Done
  BY <1>2, <1>4 DEF Done, Threaded
<1> QED BY <1>2, <1>3, <1>5

LEMMA PlacesAreThreads ==
    ASSUME NEW m \in Nat, NEW n \in Uint, m <= n
    PROVE  /\ \A u \in 0 .. m - 1 : u \in Uint /\ u \in Nat /\ u < n /\ u < m
           /\ \A t \in Uint : t < m => t \in 0 .. m - 1
<1>1. n \in Nat /\ n <= UintMax /\ UintMax \in Nat
  BY UintIsNat DEF Uint
<1>2. \A u \in 0 .. m - 1 : u \in Uint /\ u \in Nat /\ u < n /\ u < m
  BY <1>1 DEF Uint
<1>3. \A t \in Uint : t < m => t \in 0 .. m - 1
  BY UintIsNat
<1> QED BY <1>2, <1>3

\* What a step of a thread does to the calls that are done.
LEMMA OthersCalls ==
    ASSUME PhtInv, NEW t \in Uint, Quiet, NEW to, Goes(t, to),
           \A u \in Uint : u # t => j'[u] = j[u]
    PROVE  /\ pc'[t] = to
           /\ \A u \in Uint : u # t => /\ pc'[u] = pc[u] /\ Index(u)' = Index(u)
                                      /\ CallsOf(u)' = CallsOf(u)
<1>1. pc' = [pc EXCEPT ![t] = to] /\ pc \in [Uint -> PC]
  BY DEF Goes, PhtInv, TypeInv
<1>2. size' = size
  BY DEF Quiet
<1>3. ASSUME NEW u \in Uint, u # t
      PROVE  pc'[u] = pc[u] /\ Index(u)' = Index(u) /\ CallsOf(u)' = CallsOf(u)
  <2>1. pc'[u] = pc[u] /\ j'[u] = j[u]
    BY <1>1, <1>3
  <2>2. Index(u)' = Index(u) /\ \A i : get_global_index(u, i)' = get_global_index(u, i)
    BY <1>2, <2>1, Zenon DEF Index, get_global_index
  <2>3. CallsOf(u) = {get_global_index(u, i) : i \in 0 .. j[u] - 1}
                       \cup (IF pc[u] = "unlock" THEN {Index(u)} ELSE {})
    BY DEF CallsOf
  <2>4. CallsOf(u)' = {get_global_index(u, i)' : i \in 0 .. j'[u] - 1}
                        \cup (IF pc'[u] = "unlock" THEN {Index(u)'} ELSE {})
    BY DEF CallsOf
  <2>5. {get_global_index(u, i)' : i \in 0 .. j'[u] - 1}
            = {get_global_index(u, i) : i \in 0 .. j[u] - 1}
    BY <2>1, <2>2
  <2> QED BY <2>1, <2>2, <2>3, <2>4, <2>5
<1> QED BY <1>1, <1>3

\* The calls of a thread that goes on with the same one, and after its last step.
LEMMA CallsStay ==
    ASSUME NEW t \in Uint, size' = size, j'[t] = j[t], pc[t] # "unlock"
    PROVE  CallsOf(t)' = CallsOf(t) \cup (IF pc'[t] = "unlock" THEN {Index(t)} ELSE {})
<1>1. Index(t)' = Index(t) /\ \A i : get_global_index(t, i)' = get_global_index(t, i)
  BY Zenon DEF Index, get_global_index
<1>2. {get_global_index(t, i)' : i \in 0 .. j'[t] - 1}
          = {get_global_index(t, i) : i \in 0 .. j[t] - 1}
  BY <1>1
<1>3. /\ CallsOf(t) = {get_global_index(t, i) : i \in 0 .. j[t] - 1}
      /\ CallsOf(t)' = {get_global_index(t, i)' : i \in 0 .. j'[t] - 1}
                         \cup (IF pc'[t] = "unlock" THEN {Index(t)'} ELSE {})
  BY DEF CallsOf
<1> QED BY <1>1, <1>2, <1>3

LEMMA CallsGoOn ==
    ASSUME NEW t \in Uint, size' = size, j[t] \in Nat, j'[t] = j[t] + 1, pc'[t] # "unlock"
    PROVE  CallsOf(t)' = CallsOf(t) \cup {Index(t)}
<1>1. \A i : get_global_index(t, i)' = get_global_index(t, i)
  BY Zenon DEF get_global_index
<1>2. Index(t) = get_global_index(t, j[t])
  BY DEF Index
<1>3. 0 .. j'[t] - 1 = (0 .. j[t] - 1) \cup {j[t]}
  OBVIOUS
<1>4. {get_global_index(t, i)' : i \in 0 .. j'[t] - 1}
          = {get_global_index(t, i) : i \in 0 .. j[t] - 1} \cup {Index(t)}
  BY <1>1, <1>2, <1>3
<1>5. CallsOf(t)' = {get_global_index(t, i)' : i \in 0 .. j'[t] - 1}
  BY DEF CallsOf
<1>6. CallsOf(t) \cup {Index(t)} = {get_global_index(t, i) : i \in 0 .. j[t] - 1} \cup {Index(t)}
  BY DEF CallsOf
<1> QED BY <1>4, <1>5, <1>6

LEMMA DoneGrows ==
    ASSUME PhtInv, NEW t \in Uint, t < at, Threaded, Quiet,
           \A u \in Uint : u # t => CallsOf(u)' = CallsOf(u),
           NEW New, CallsOf(t)' = CallsOf(t) \cup New
    PROVE  Done' = Done \cup New
<1>1. HasTable /\ HasTable' /\ stage # "base" /\ stage' = stage /\ at' = at
  BY DEF Threaded, HasTable, Quiet
<1>2. at \in Nat /\ at <= threads /\ threads \in Uint
  BY DEF PhtInv, TypeInv, PlaceInv, Threaded
<1>3. t \in 0 .. at - 1 /\ \A u \in 0 .. at - 1 : u \in Uint
  BY <1>2, PlacesAreThreads
<1>4. Done = UNION {CallsOf(u) : u \in 0 .. at - 1}
  BY <1>1 DEF Done
<1>5. Done' = UNION {CallsOf(u)' : u \in 0 .. at - 1}
  BY <1>1 DEF Done
<1>6. \A x : x \in UNION {CallsOf(u)' : u \in 0 .. at - 1}
               <=> x \in UNION {CallsOf(u) : u \in 0 .. at - 1} \/ x \in New
  BY <1>2, <1>3, Zenon
<1> QED BY <1>4, <1>5, <1>6

Takes(c) ==
    /\ c \in Uint /\ c \in DOMAIN data \ Done
    /\ Done' = Done \cup {c}
    /\ Mapped' = [k \in DOMAIN Mapped \cup {data[c]} |-> IF k = data[c] THEN c ELSE Mapped[k]]
Stutters == Done' = Done /\ Mapped' = Mapped

\* An entry that is being inserted keeps its value: another thread writes the value of
\* an entry that is listed, or of the one that it inserts itself.
LEMMA ValuesStay ==
    ASSUME PutsInv, NEW t \in Uint,
           \A u \in Uint : u # t => pc'[u] = pc[u] /\ Index(u)' = Index(u),
           pc'[t] \in {"insert", "link"} => value'[Index(t)'] = Index(t)',
           \A e \in Uint : value'[e] # value[e] => e \in Listed \/ value'[e] = e
    PROVE  ValueInv'
<1> SUFFICES ASSUME NEW u \in Uint, u # t, pc'[u] \in {"insert", "link"}
             PROVE  value'[Index(u)'] = Index(u)'
  BY DEF ValueInv
<1>1. pc[u] \in {"insert", "link"} /\ value[Index(u)] = Index(u) /\ Index(u)' = Index(u)
  BY DEF PutsInv, ValueInv
<1>2. Index(u) \in Uint
  <2>1. pc[u] \notin Idle /\ j[u] < size
    BY <1>1 DEF PutsInv, PhtInv, PlaceInv, InTable, Idle
  <2> QED BY <2>1, ThreadHasKey DEF PutsInv, PhtInv
<1>3. Index(u) \notin Listed
  <2>1. Matches(data[Index(u)]) = {}
    BY <1>1 DEF PutsInv, PhtInv, AddInv
  <2>2. \A b \in Bucket : \A e \in lists[b] : Hash[data[e]] = b
    BY DEF PutsInv, PhtInv, OneEntryPerKey
  <2> QED BY <2>1, <2>2 DEF Matches, Listed
<1> QED BY <1>1, <1>2, <1>3

LEMMA ListedStays == lists' = lists => Listed' = Listed
BY DEF Listed

LEMMA ListedType ==
    ASSUME PhtInv
    PROVE  Listed \subseteq Uint
<1>1. lists \in [Bucket -> SUBSET Uint]
  BY DEF PhtInv, TypeInv
<1> QED BY <1>1 DEF Listed

LEMMA UpdatePuts ==
    ASSUME PutsInv, PhtInv', NEW t \in Uint, Quiet, Threaded, AddUpdates(t)
    PROVE  ValueInv' /\ Takes(Index(t))
<1>1. /\ pc[t] = "search" /\ InTable(t) /\ j' = [j EXCEPT ![t] = @ + 1] /\ Goes(t, "adding")
      /\ j \in [Uint -> Uint] /\ value \in [Uint -> Uint]
      /\ pc[t] \notin Idle /\ j[t] < size /\ size' = size /\ data' = data
  BY DEF AddUpdates, InTable, PutsInv, PhtInv, TypeInv, PlaceInv, Idle, Quiet
<1>2. j[t] \in Nat /\ j'[t] = j[t] + 1 /\ \A u \in Uint : u # t => j'[u] = j[u]
  BY <1>1, UintIsNat
<1>3. Index(t) \in Uint /\ t < at /\ ListOf(t) \in Bucket /\ ListOf(t) = Hash[data[Index(t)]]
  BY <1>1, ThreadHasKey DEF PutsInv, PhtInv
<1>4. PICK e \in Matches(data[Index(t)]) : Update(e, Index(t))
  BY DEF AddUpdates
<1>5. /\ e \in Listed /\ data[e] = data[Index(t)] /\ lists' = lists /\ Listed' = Listed
      /\ value' = [value EXCEPT ![e] = Index(t)]
  BY <1>3, <1>4 DEF Matches, Listed, Update
<1>6. e \in Uint /\ value'[e] = Index(t) /\ \A f \in Listed : f # e => value'[f] = value[f]
  <2>1. Listed \subseteq Uint
    BY ListedType DEF PutsInv
  <2> QED BY <1>1, <1>5, <2>1
<1>7. /\ pc'[t] = "adding"
      /\ \A u \in Uint : u # t => /\ pc'[u] = pc[u] /\ Index(u)' = Index(u)
                                  /\ CallsOf(u)' = CallsOf(u)
  BY <1>1, <1>2, OthersCalls DEF PutsInv
<1>8. ValueInv'
  BY <1>1, <1>5, <1>6, <1>7, ValuesStay
<1>9. Done' = Done \cup {Index(t)}
  <2>1. CallsOf(t)' = CallsOf(t) \cup {Index(t)}
    BY <1>1, <1>2, <1>7, CallsGoOn
  <2> QED BY <1>3, <1>7, <2>1, DoneGrows DEF PutsInv
<1>10. Mapped' = [k \in DOMAIN Mapped \cup {data[Index(t)]} |->
                      IF k = data[Index(t)] THEN Index(t) ELSE Mapped[k]]
  <2>1. OneEntryPerKey /\ OneEntryPerKey'
    BY DEF PutsInv, PhtInv
  <2>2. Listed' \subseteq Listed \cup {e} /\ Listed \subseteq Listed' /\ e \in Listed'
    BY <1>5
  <2>3. data' = data /\ data[e] = data[Index(t)] /\ value'[e] = Index(t)
    BY <1>1, <1>5, <1>6
  <2>4. \A f \in Listed : f # e => value'[f] = value[f]
    BY <1>6
  <2> QED BY <2>1, <2>2, <2>3, <2>4, MapPuts
<1>11. Index(t) \in DOMAIN data \ Done
  BY <1>1, CallIsNew DEF PutsInv
<1> QED BY <1>3, <1>8, <1>9, <1>10, <1>11 DEF Takes

LEMMA HeadPuts ==
    ASSUME PutsInv, PhtInv', NEW t \in Uint, Quiet, Threaded, AddWritesHead(t)
    PROVE  ValueInv' /\ Takes(Index(t))
<1>1. /\ pc[t] = "link" /\ InTable(t) /\ j' = j /\ value' = value /\ Goes(t, "unlock")
      /\ pc[t] \notin Idle /\ j[t] < size /\ size' = size /\ data' = data
      /\ lists \in [Bucket -> SUBSET Uint]
      /\ lists' = [lists EXCEPT ![ListOf(t)] = rest[t] \cup {Index(t)}]
      /\ rest[t] = lists[ListOf(t)] /\ value[Index(t)] = Index(t)
  BY DEF AddWritesHead, InTable, PutsInv, PhtInv, TypeInv, PlaceInv, Idle, Quiet, AddInv, ValueInv
<1>2. Index(t) \in Uint /\ t < at /\ ListOf(t) \in Bucket
  BY <1>1, ThreadHasKey DEF PutsInv, PhtInv
<1>3. Listed' = Listed \cup {Index(t)}
  BY <1>1, <1>2 DEF Listed
<1>4. /\ pc'[t] = "unlock"
      /\ \A u \in Uint : u # t => /\ pc'[u] = pc[u] /\ Index(u)' = Index(u)
                                  /\ CallsOf(u)' = CallsOf(u)
  BY <1>1, OthersCalls DEF PutsInv
<1>5. ValueInv'
  BY <1>1, <1>4, ValuesStay
<1>6. Done' = Done \cup {Index(t)}
  <2>1. CallsOf(t)' = CallsOf(t) \cup {Index(t)}
    BY <1>1, <1>4, CallsStay
  <2> QED BY <1>2, <1>4, <2>1, DoneGrows DEF PutsInv
<1>7. Mapped' = [k \in DOMAIN Mapped \cup {data[Index(t)]} |->
                     IF k = data[Index(t)] THEN Index(t) ELSE Mapped[k]]
  <2>1. OneEntryPerKey /\ OneEntryPerKey'
    BY DEF PutsInv, PhtInv
  <2> QED BY <1>1, <1>3, <2>1, MapPuts
<1>8. Index(t) \in DOMAIN data \ Done
  BY <1>1, CallIsNew DEF PutsInv
<1> QED BY <1>2, <1>5, <1>6, <1>7, <1>8 DEF Takes

\* The steps by which no call takes effect.
LEMMA AllocateStutters ==
    ASSUME PutsInv, PhtInv', NEW t \in Uint, Quiet, Threaded, AddAllocates(t)
    PROVE  ValueInv' /\ Stutters
<1>1. /\ pc[t] = "search" /\ InTable(t) /\ j' = j /\ lists' = lists /\ Goes(t, "insert")
      /\ pc[t] \notin Idle /\ j[t] < size /\ size' = size /\ data' = data
      /\ value \in [Uint -> Uint] /\ value' = [value EXCEPT ![Index(t)] = Index(t)]
      /\ Matches(data[Index(t)]) = {}
  BY DEF AddAllocates, InTable, PutsInv, PhtInv, TypeInv, PlaceInv, Idle, Quiet
<1>2. Index(t) \in Uint /\ t < at /\ Listed' = Listed
  BY <1>1, ThreadHasKey, ListedStays DEF PutsInv, PhtInv
<1>3. /\ value'[Index(t)] = Index(t)
      /\ \A e \in Uint : e # Index(t) => value'[e] = value[e]
  BY <1>1, <1>2
<1>4. Index(t) \notin Listed /\ Listed \subseteq Uint
  <2>1. \A b \in Bucket : \A e \in lists[b] : Hash[data[e]] = b
    BY DEF PutsInv, PhtInv, OneEntryPerKey
  <2> QED BY <1>1, <2>1, ListedType DEF Matches, Listed, PutsInv
<1>5. /\ pc'[t] = "insert"
      /\ \A u \in Uint : u # t => /\ pc'[u] = pc[u] /\ Index(u)' = Index(u)
                                  /\ CallsOf(u)' = CallsOf(u)
  BY <1>1, OthersCalls DEF PutsInv
<1>6. Index(t)' = Index(t)
  BY <1>1, Zenon DEF Index, get_global_index
<1>7. ValueInv'
  BY <1>3, <1>5, <1>6, ValuesStay
<1>8. Done' = Done
  <2>1. CallsOf(t)' = CallsOf(t) \cup {}
    BY <1>1, <1>5, CallsStay
  <2>2. Done' = Done \cup {}
    BY <1>2, <1>5, <2>1, DoneGrows DEF PutsInv
  <2> QED BY <2>2
<1>9. Mapped' = Mapped
  <2>1. OneEntryPerKey /\ OneEntryPerKey' /\ \A e \in Listed : value'[e] = value[e]
    BY <1>3, <1>4 DEF PutsInv, PhtInv
  <2> QED BY <1>1, <1>2, <2>1, MapStays
<1> QED BY <1>7, <1>8, <1>9 DEF Stutters

LEMMA UnlockStutters ==
    ASSUME PutsInv, PhtInv', NEW t \in Uint, Quiet, Threaded, NEW lock, AddUnlocks(t, lock)
    PROVE  ValueInv' /\ Stutters
<1>1. /\ pc[t] = "unlock" /\ lists' = lists /\ value' = value /\ Goes(t, "adding")
      /\ j \in [Uint -> Uint] /\ j' = [j EXCEPT ![t] = @ + 1]
      /\ size' = size /\ data' = data /\ t < at
  BY DEF AddUnlocks, PutsInv, PhtInv, TypeInv, PlaceInv, Idle, Quiet
<1>2. Listed' = Listed /\ j[t] \in Nat /\ j'[t] = j[t] + 1 /\ \A u \in Uint : u # t => j'[u] = j[u]
  BY <1>1, UintIsNat, ListedStays
<1>3. /\ pc'[t] = "adding"
      /\ \A u \in Uint : u # t => /\ pc'[u] = pc[u] /\ Index(u)' = Index(u)
                                  /\ CallsOf(u)' = CallsOf(u)
  BY <1>1, <1>2, OthersCalls DEF PutsInv
<1>4. ValueInv'
  BY <1>1, <1>3, ValuesStay
<1>5. Done' = Done
  <2>1. CallsOf(t)' = CallsOf(t) \cup {Index(t)} /\ Index(t) \in CallsOf(t)
    BY <1>1, <1>2, <1>3, CallsGoOn DEF CallsOf
  <2>2. CallsOf(t)' = CallsOf(t) \cup {}
    BY <2>1
  <2>3. Done' = Done \cup {}
    BY <1>1, <1>3, <2>2, DoneGrows DEF PutsInv
  <2> QED BY <2>3
<1>6. Mapped' = Mapped
  <2>1. OneEntryPerKey /\ OneEntryPerKey' /\ \A e \in Listed : value'[e] = value[e]
    BY <1>1 DEF PutsInv, PhtInv
  <2> QED BY <1>1, <1>2, <2>1, MapStays
<1> QED BY <1>4, <1>5, <1>6 DEF Stutters

\* The steps that take a lock, read the head or end the thread.
LEMMA OthersStutter ==
    ASSUME PutsInv, PhtInv', NEW t \in Uint, Quiet, Threaded, NEW to, Goes(t, to),
           pc[t] \notin Idle, pc[t] # "unlock", to # "unlock",
           to \in {"insert", "link"} => pc[t] \in {"insert", "link"},
           j' = j, lists' = lists, value' = value
    PROVE  ValueInv' /\ Stutters
<1>1. size' = size /\ data' = data /\ Listed' = Listed /\ t < at
  BY DEF Quiet, Listed, PutsInv, PhtInv, PlaceInv
<1>2. /\ pc'[t] = to
      /\ \A u \in Uint : u # t => /\ pc'[u] = pc[u] /\ Index(u)' = Index(u)
                                  /\ CallsOf(u)' = CallsOf(u)
  BY OthersCalls DEF PutsInv
<1>3. Index(t)' = Index(t)
  BY <1>1, Zenon DEF Index, get_global_index
<1>4. ValueInv'
  <2>1. pc'[t] \in {"insert", "link"} => value'[Index(t)'] = Index(t)'
    BY <1>2, <1>3 DEF PutsInv, ValueInv
  <2> QED BY <1>2, <2>1, ValuesStay
<1>5. Done' = Done
  <2>1. CallsOf(t)' = CallsOf(t) \cup {}
    BY <1>1, <1>2, CallsStay
  <2>2. Done' = Done \cup {}
    BY <1>1, <1>2, <2>1, DoneGrows DEF PutsInv
  <2> QED BY <2>2
<1>6. Mapped' = Mapped
  <2>1. OneEntryPerKey /\ OneEntryPerKey' /\ \A e \in Listed : value'[e] = value[e]
    BY DEF PutsInv, PhtInv
  <2> QED BY <1>1, <2>1, MapStays
<1> QED BY <1>4, <1>5, <1>6 DEF Stutters

LEMMA ThreadPuts ==
    ASSUME PutsInv, PhtInv', NEW t \in Uint, Thread(t)
    PROVE  RoundInv' /\ ValueInv' /\ data' = data /\ (Stutters \/ \E c \in Uint : Takes(c))
<1>1. Quiet /\ data' = data
  BY DEF Quiet, Thread, ProgramUnchanged
<1>2. pc[t] \notin Idle
  BY DEF Thread, run_v1, run_v2, hash_table_v1_add_entry, hash_table_v2_add_entry, AddEntry,
         AddLocks, AddUpdates, AddAllocates, AddReadsHead, AddWritesHead, AddUnlocks,
         ThreadReturns, Idle
<1>3. Threaded
  BY <1>2 DEF PutsInv, PhtInv, PlaceInv
<1>4. RoundInv'
  BY <1>1, <1>3 DEF RoundInv, Threaded, Quiet
<1>5. AddEntry(t, LockOf(t)) \/ ThreadReturns(t)
  BY Zenon DEF Thread, run_v1, run_v2, hash_table_v1_add_entry, hash_table_v2_add_entry, LockOf
<1>6. CASE AddLocks(t, LockOf(t)) \/ AddReadsHead(t) \/ ThreadReturns(t)
  <2>1. AddLocks(t, LockOf(t)) => Goes(t, "search") /\ pc[t] = "adding" /\ UNCHANGED <<j, lists, value>>
    BY DEF AddLocks
  <2>2. AddReadsHead(t) => Goes(t, "link") /\ pc[t] = "insert" /\ UNCHANGED <<j, lists, value>>
    BY DEF AddReadsHead, tableVars
  <2>3. ThreadReturns(t) => Goes(t, "ended") /\ pc[t] = "adding" /\ UNCHANGED <<j, lists, value>>
    BY DEF ThreadReturns, tableVars
  <2> QED BY <1>1, <1>2, <1>3, <1>4, <1>6, <2>1, <2>2, <2>3, OthersStutter
<1>7. CASE AddUpdates(t) \/ AddWritesHead(t)
  <2>1. ValueInv' /\ Takes(Index(t))
    BY <1>1, <1>3, <1>7, UpdatePuts, HeadPuts
  <2> QED BY <1>1, <1>4, <2>1 DEF Takes
<1>8. CASE AddAllocates(t) \/ AddUnlocks(t, LockOf(t))
  BY <1>1, <1>3, <1>4, <1>8, AllocateStutters, UnlockStutters
<1> QED BY <1>5, <1>6, <1>7, <1>8 DEF AddEntry

\* main's steps: no call is being made, or none is disturbed.
LEMMA EmptyMap ==
    /\ Listed = {} => Mapped = Puts!NoCalls
    /\ Listed' = {} => Mapped' = Puts!NoCalls
<1>1. Listed = {} => Mapped = Puts!NoCalls
  BY DEF Mapped, Puts!NoCalls
<1>2. Listed' = {} => Mapped' = Puts!NoCalls
  BY DEF Mapped, Puts!NoCalls
<1> QED BY <1>1, <1>2

LEMMA IdleValues ==
    ASSUME \A u \in Uint : pc'[u] \in Idle
    PROVE  ValueInv'
BY DEF ValueInv, Idle

LEMMA DoneStays ==
    ASSUME HasTable' = HasTable, UNCHANGED <<size, stage, at, pc, j>>
    PROVE  Done' = Done
<1>1. ASSUME NEW u PROVE CallsOf(u)' = CallsOf(u)
  <2>1. Index(u)' = Index(u) /\ \A i : get_global_index(u, i)' = get_global_index(u, i)
    BY Zenon DEF Index, get_global_index
  <2>2. {get_global_index(u, i)' : i \in 0 .. j'[u] - 1}
            = {get_global_index(u, i) : i \in 0 .. j[u] - 1}
    BY <2>1
  <2>3. /\ CallsOf(u) = {get_global_index(u, i) : i \in 0 .. j[u] - 1}
                          \cup (IF pc[u] = "unlock" THEN {Index(u)} ELSE {})
        /\ CallsOf(u)' = {get_global_index(u, i)' : i \in 0 .. j'[u] - 1}
                           \cup (IF pc'[u] = "unlock" THEN {Index(u)'} ELSE {})
    BY DEF CallsOf
  <2> QED BY <2>1, <2>2, <2>3
<1>2. UNION {CallsOf(u)' : u \in 0 .. at - 1} = UNION {CallsOf(u) : u \in 0 .. at - 1}
  BY <1>1
<1> QED BY <1>2 DEF Done

\* When main counts, all calls have taken effect.
LEMMA AllAreDone ==
    ASSUME PutsInv, main \in {"count", "destroy"}
    PROVE  Done = Entries
<1>1. HasTable /\ ~Threaded /\ threads \in Nat /\ size \in Nat /\ threads \in Uint
  BY UintIsNat DEF HasTable, Threaded, PutsInv, PhtInv, TypeInv
<1>2. CASE stage = "base"
  BY <1>1, <1>2 DEF Done, Entries, PutsInv, RoundInv
<1>3. CASE stage # "base"
  <2>1. at = threads /\ \A u \in Started : j[u] = size
    BY <1>3 DEF PutsInv, RoundInv
  <2>2. /\ \A u \in 0 .. threads - 1 : u \in Uint /\ u \in Nat /\ u < threads
        /\ \A u \in 0 .. threads - 1 : pc[u] # "unlock" /\ j[u] = size
    <3>1. \A u \in 0 .. threads - 1 : u \in Uint /\ u \in Nat /\ u < threads
      BY <1>1, PlacesAreThreads
    <3>2. \A u \in Uint : pc[u] # "unlock"
      BY <1>1, AllIdle DEF PutsInv, Idle
    <3> QED BY <2>1, <3>1, <3>2 DEF Started
  <2>3. \A u \in 0 .. threads - 1 : CallsOf(u) = {get_global_index(u, i) : i \in 0 .. size - 1}
    BY <2>2 DEF CallsOf
  <2>4. Done = UNION {CallsOf(u) : u \in 0 .. threads - 1}
    BY <1>1, <1>3, <2>1 DEF Done
  <2>5. ASSUME NEW u \in 0 .. threads - 1, NEW i \in 0 .. size - 1
        PROVE  get_global_index(u, i) = u * size + i /\ get_global_index(u, i) \in Entries
    <3>1. i \in Nat /\ i < size
      BY <1>1
    <3> QED BY <2>2, <3>1, CallsHavePlaces DEF PutsInv
  <2>6. ASSUME NEW e \in Entries
        PROVE  \E u \in 0 .. threads - 1 : \E i \in 0 .. size - 1 : e = get_global_index(u, i)
    <3>1. \E u \in 0 .. threads - 1 : \E i \in 0 .. size - 1 : e = u * size + i
      BY <1>1, EntryHasThread DEF Entries
    <3>2. PICK u \in 0 .. threads - 1 : \E i \in 0 .. size - 1 : e = u * size + i
      BY <3>1
    <3>3. PICK i \in 0 .. size - 1 : e = u * size + i
      BY <3>2
    <3> QED BY <3>3, <2>5
  <2>7. Done \subseteq Entries
    BY <2>3, <2>4, <2>5
  <2>8. Entries \subseteq Done
    BY <2>3, <2>4, <2>6
  <2> QED BY <2>7, <2>8
<1> QED BY <1>2, <1>3

LEMMA FillPuts ==
    ASSUME PutsInv, PhtInv', FillBase
    PROVE  RoundInv' /\ ValueInv' /\ data' = data /\ (Stutters \/ \E c \in Uint : Takes(c))
<1>1. /\ main = "fill" /\ stage = "base" /\ HasTable /\ ~Threaded /\ Done = 0 .. at - 1
      /\ UNCHANGED <<threads, size, data, stage, pc, j>>
  BY DEF FillBase, HasTable, Threaded, Done, ProgramUnchanged, threadVars
<1>2. ValueInv'
  <2>1. \A u \in Uint : pc'[u] \in Idle
    BY <1>1, AllIdle DEF PutsInv
  <2> QED BY <2>1, IdleValues
<1>3. CASE at < threads * size /\ hash_table_base_add_entry(at) /\ at' = at + 1 /\ UNCHANGED main
  <2>1. at \in Nat /\ at \in Uint /\ at \in Entries /\ data \in [Entries -> Key]
    <3> DEFINE ts == threads * size
    <3>1. /\ ts \in Nat /\ at < ts /\ ts <= UintMax /\ at \in Nat
          /\ data \in [Entries -> Key]
      BY <1>1, <1>3, Products DEF PutsInv, PhtInv, TypeInv, DataInv
    <3> HIDE DEF ts
    <3>2. at \in 0 .. ts - 1 /\ at \in Uint
      BY <3>1, UintIsNat DEF Uint
    <3> QED BY <3>1, <3>2 DEF ts, Entries
  <2>2. RoundInv'
    BY <1>1, <1>3 DEF RoundInv
  <2>3. Done' = Done \cup {at} /\ at \notin Done
    <3>1. HasTable' /\ Done' = 0 .. at' - 1
      BY <1>1, <1>3 DEF HasTable, Done
    <3> QED BY <1>1, <1>3, <2>1, <3>1
  <2>4. OneEntryPerKey /\ OneEntryPerKey' /\ value \in [Uint -> Uint]
        /\ lists \in [Bucket -> SUBSET Uint] /\ Hash[data[at]] \in Bucket
    BY <2>1, PhtAssumption DEF PutsInv, PhtInv, TypeInv
  <2>5. \E f \in Listed' : /\ data[f] = data[at] /\ value'[f] = at
                           /\ Listed' \subseteq Listed \cup {f} /\ Listed \subseteq Listed'
                           /\ \A e \in Listed : e # f => value'[e] = value[e]
    <3>0. Listed \subseteq Uint
      BY ListedType DEF PutsInv
    <3>1. CASE \E e \in Matches(data[at]) : Update(e, at)
      <4>1. PICK f \in Matches(data[at]) : Update(f, at)
        BY <3>1
      <4>2. /\ f \in Listed /\ data[f] = data[at] /\ lists' = lists /\ Listed' = Listed
            /\ value' = [value EXCEPT ![f] = at]
        BY <2>4, <4>1, ListedStays DEF Matches, Update, Listed
      <4>3. value'[f] = at /\ \A e \in Listed : e # f => value'[e] = value[e]
        BY <2>4, <3>0, <4>2
      <4> QED BY <4>2, <4>3
    <3>2. CASE /\ ~hash_table_base_contains(data[at])
               /\ value' = [value EXCEPT ![at] = at]
               /\ lists' = [lists EXCEPT ![Hash[data[at]]] = @ \cup {at}]
      <4>1. Listed' = Listed \cup {at}
        BY <2>4, <3>2 DEF Listed
      <4>2. value'[at] = at /\ \A e \in Listed : e # at => value'[e] = value[e]
        BY <2>1, <2>4, <3>0, <3>2
      <4> QED BY <4>1, <4>2
    <3> QED BY <1>3, <3>1, <3>2 DEF hash_table_base_add_entry
  <2>6. PICK f \in Listed' : /\ data[f] = data[at] /\ value'[f] = at
                             /\ Listed' \subseteq Listed \cup {f} /\ Listed \subseteq Listed'
                             /\ \A e \in Listed : e # f => value'[e] = value[e]
    BY <2>5
  <2>7. data' = data
    BY <1>1
  <2>8. Mapped' = [k \in DOMAIN Mapped \cup {data[at]} |-> IF k = data[at] THEN at ELSE Mapped[k]]
    BY <2>4, <2>6, <2>7, MapPuts
  <2>9. Takes(at)
    BY <2>1, <2>3, <2>8 DEF Takes
  <2> QED BY <1>2, <2>1, <2>2, <2>7, <2>9
<1>4. CASE at = threads * size /\ main' = "count" /\ UNCHANGED <<at, tableVars>>
  <2>1. RoundInv'
    BY <1>1, <1>4 DEF RoundInv
  <2>2. HasTable' = HasTable
    BY <1>1, <1>4 DEF HasTable
  <2>3. Done' = Done
    BY <1>1, <1>4, <2>2, DoneStays
  <2>4. lists' = lists /\ value' = value /\ data' = data
    BY <1>1, <1>4 DEF tableVars
  <2>5. OneEntryPerKey /\ OneEntryPerKey' /\ Listed' = Listed
        /\ \A e \in Listed : value'[e] = value[e]
    BY <2>4, ListedStays DEF PutsInv, PhtInv
  <2>6. Mapped' = Mapped
    BY <2>4, <2>5, MapStays
  <2> QED BY <1>2, <2>1, <2>3, <2>4, <2>6 DEF Stutters
<1> QED BY <1>3, <1>4 DEF FillBase

\* A step that leaves the table, the calls and the places as they are.
LEMMA QuietStutters ==
    ASSUME PutsInv, PhtInv', HasTable' = HasTable,
           UNCHANGED <<size, data, stage, at, pc, j, lists, value>>
    PROVE  Stutters
<1>1. Done' = Done
  BY DoneStays
<1>2. OneEntryPerKey /\ OneEntryPerKey' /\ Listed' = Listed /\ data' = data
      /\ \A e \in Listed : value'[e] = value[e]
  BY ListedStays DEF PutsInv, PhtInv
<1>3. Mapped' = Mapped
  BY <1>2, MapStays
<1> QED BY <1>1, <1>3 DEF Stutters

LEMMA StartStutters ==
    ASSUME PutsInv, PhtInv', StartThread
    PROVE  RoundInv' /\ ValueInv' /\ data' = data /\ Stutters
<1>1. /\ Threaded /\ Threaded' /\ HasTable /\ HasTable' /\ stage # "base" /\ at < threads
      /\ UNCHANGED <<threads, size, data, stage, main, lists, value>>
  BY DEF StartThread, ProgramUnchanged, tableVars, Threaded, HasTable
<1>2. RoundInv'
  BY <1>1 DEF RoundInv, Threaded
<1>3. CASE UNCHANGED <<at, pc, j>>
  <2>1. \A u \in Uint : Index(u)' = Index(u)
    BY <1>1, <1>3, Zenon DEF Index, get_global_index
  <2>2. ValueInv'
    BY <1>1, <1>3, <2>1 DEF PutsInv, ValueInv
  <2> QED BY <1>1, <1>2, <1>3, <2>2, QuietStutters
<1>4. CASE Goes(at, "adding") /\ at' = at + 1 /\ j' = [j EXCEPT ![at] = 0]
  <2>1. at \in Nat /\ threads \in Uint /\ at <= threads /\ pc \in [Uint -> PC] /\ j \in [Uint -> Uint]
    BY <1>1 DEF PutsInv, PhtInv, TypeInv, PlaceInv, Threaded
  <2>2. at \in Uint /\ at + 1 \in Nat /\ at + 1 <= threads
    BY <1>1, <2>1, UintIsNat DEF Uint
  <2>3. /\ pc'[at] = "adding" /\ j'[at] = 0
        /\ \A u \in Uint : u # at => pc'[u] = pc[u] /\ j'[u] = j[u]
    BY <1>4, <2>1, <2>2 DEF Goes
  <2>4. \A u \in Uint : u # at =>
            Index(u)' = Index(u) /\ \A i : get_global_index(u, i)' = get_global_index(u, i)
    BY <1>1, <2>3, Zenon DEF Index, get_global_index
  <2>5. ASSUME NEW u \in Uint, u # at PROVE CallsOf(u)' = CallsOf(u)
    <3>1. {get_global_index(u, i)' : i \in 0 .. j'[u] - 1}
              = {get_global_index(u, i) : i \in 0 .. j[u] - 1}
      BY <2>3, <2>4, <2>5
    <3>2. /\ CallsOf(u) = {get_global_index(u, i) : i \in 0 .. j[u] - 1}
                            \cup (IF pc[u] = "unlock" THEN {Index(u)} ELSE {})
          /\ CallsOf(u)' = {get_global_index(u, i)' : i \in 0 .. j'[u] - 1}
                             \cup (IF pc'[u] = "unlock" THEN {Index(u)'} ELSE {})
      BY DEF CallsOf
    <3> QED BY <2>3, <2>4, <2>5, <3>1, <3>2
  <2>6. \A u \in Uint : u = at => CallsOf(u)' = {}
    <3>1. ASSUME NEW u \in Uint, u = at PROVE CallsOf(u)' = {}
      <4>1. pc'[u] # "unlock" /\ j'[u] = 0
        BY <2>3, <3>1
      <4>2. 0 .. j'[u] - 1 = {}
        BY <4>1
      <4> QED BY <4>1, <4>2 DEF CallsOf
    <3> QED BY <3>1
  <2>7. Done' = Done
    <3>1. /\ \A u \in 0 .. at - 1 : u \in Uint /\ u < at
          /\ \A u \in 0 .. (at + 1) - 1 : u \in Uint /\ (u = at \/ u \in 0 .. at - 1)
      <4>1. \A u \in 0 .. at - 1 : u \in Uint /\ u < at
        BY <2>1, PlacesAreThreads
      <4>2. \A u \in 0 .. (at + 1) - 1 : u \in Uint
        BY <2>1, <2>2, PlacesAreThreads
      <4>3. \A u \in 0 .. (at + 1) - 1 : u = at \/ u \in 0 .. at - 1
        BY <2>1
      <4> QED BY <4>1, <4>2, <4>3
    <3>2. \A u \in 0 .. at - 1 : u # at /\ u \in 0 .. (at + 1) - 1
      BY <2>1
    <3>3. UNION {CallsOf(u)' : u \in 0 .. (at + 1) - 1} = UNION {CallsOf(u) : u \in 0 .. at - 1}
      <4>1. \A x : x \in UNION {CallsOf(u)' : u \in 0 .. (at + 1) - 1}
                     => x \in UNION {CallsOf(u) : u \in 0 .. at - 1}
        BY <2>5, <2>6, <3>1
      <4>2. \A x : x \in UNION {CallsOf(u) : u \in 0 .. at - 1}
                     => x \in UNION {CallsOf(u)' : u \in 0 .. (at + 1) - 1}
        BY <2>5, <3>1, <3>2
      <4> QED BY <4>1, <4>2
    <3>4. Done = UNION {CallsOf(u) : u \in 0 .. at - 1}
      BY <1>1 DEF Done
    <3>5. Done' = UNION {CallsOf(u)' : u \in 0 .. (at + 1) - 1}
      BY <1>1, <1>4 DEF Done
    <3> QED BY <3>3, <3>4, <3>5
  <2>8. OneEntryPerKey /\ OneEntryPerKey' /\ Listed' = Listed /\ data' = data
        /\ \A e \in Listed : value'[e] = value[e]
    BY <1>1, ListedStays DEF PutsInv, PhtInv
  <2>9. Mapped' = Mapped
    BY <2>8, MapStays
  <2>10. ValueInv'
    <3>1. \A u \in Uint : pc'[u] \in {"insert", "link"} => u # at
      BY <2>3
    <3> QED BY <1>1, <2>3, <2>4, <3>1 DEF PutsInv, ValueInv
  <2> QED BY <1>1, <1>2, <2>7, <2>9, <2>10 DEF Stutters
<1> QED BY <1>3, <1>4 DEF StartThread

LEMMA BeforeFill ==
    ASSUME PutsInv, PhtInv', parse_opt \/ Generate \/ Create
    PROVE  RoundInv' /\ ValueInv' /\ (data' # data => Puts!Prepare) /\ Stutters
<1>1. /\ ~HasTable /\ ~Threaded /\ UNCHANGED <<stage, value, pc, j, rest>>
      /\ main' \in {"arguments", "generate", "create", "fill"}
  BY DEF parse_opt, Generate, Create, HasTable, Threaded, hash_table_base_create,
         hash_table_v1_create, hash_table_v2_create, EmptyTable, tableVars, threadVars
<1>2. Listed = {} /\ Listed' = {}
  <2>1. lists = [b \in Bucket |-> {}]
    BY <1>1 DEF PutsInv, PhtInv, PlaceInv
  <2>2. lists' = [b \in Bucket |-> {}]
    BY <2>1 DEF parse_opt, Generate, Create, hash_table_base_create,
       hash_table_v1_create, hash_table_v2_create, EmptyTable, tableVars
  <2> QED BY <2>1, <2>2 DEF Listed
<1>3. Mapped = Puts!NoCalls /\ Mapped' = Puts!NoCalls
  BY <1>2, EmptyMap
<1>4. Done = {} /\ Done' = {}
  <2>1. Done = {}
    BY <1>1 DEF Done
  <2>2. CASE ~HasTable'
    BY <2>1, <2>2 DEF Done
  <2>3. CASE HasTable'
    <3>1. at' = 0
      BY <1>1, <2>3 DEF parse_opt, Generate, Create, HasTable
    <3>2. 0 .. at' - 1 = {}
      BY <3>1
    <3> QED BY <2>1, <3>2 DEF Done
  <2> QED BY <2>1, <2>2, <2>3
<1>5. RoundInv'
  BY <1>1 DEF RoundInv
<1>6. ValueInv'
  <2>1. \A u \in Uint : pc'[u] \in Idle
    BY <1>1, AllIdle DEF PutsInv
  <2> QED BY <2>1, IdleValues
<1>7. ASSUME data' # data PROVE Puts!Prepare
  <2>1. Generate /\ ~(threads * size > UintMax) /\ data' \in [Entries -> Key] /\ data = <<>>
    BY <1>7 DEF parse_opt, Generate, Create, ProgramUnchanged, PutsInv, PhtInv, DataInv
  <2>2. Entries \in SUBSET Uint
    <3> DEFINE ts == threads * size
    <3>1. ts \in Nat /\ ~(ts > UintMax) /\ UintMax \in Nat
      BY <2>1, Products, UintIsNat DEF PutsInv, PhtInv, TypeInv
    <3> HIDE DEF ts
    <3>2. 0 .. ts - 1 \subseteq 0 .. UintMax
      BY <3>1
    <3> QED BY <3>2 DEF ts, Entries, Uint
  <2>3. data = Puts!NoCalls
    BY <2>1 DEF Puts!NoCalls
  <2>4. \E calls \in SUBSET Uint : data' \in [calls -> Key]
    BY <2>1, <2>2
  <2> QED BY <1>3, <1>4, <2>3, <2>4 DEF Puts!Prepare, Mapped
<1> QED BY <1>3, <1>4, <1>5, <1>6, <1>7 DEF Stutters

LEMMA DestroyClears ==
    ASSUME PutsInv, PhtInv', Destroy
    PROVE  RoundInv' /\ ValueInv' /\ data' = data /\ (Stutters \/ Puts!Clear)
<1>1. /\ main = "destroy" /\ ~Threaded /\ HasTable /\ UNCHANGED <<threads, size, data, at, pc, j>>
  BY DEF Destroy, ProgramUnchanged, threadVars, Threaded, HasTable
<1>2. ValueInv'
  <2>1. \A u \in Uint : pc'[u] \in Idle
    BY <1>1, AllIdle DEF PutsInv
  <2> QED BY <2>1, IdleValues
<1>3. CASE FreeEntries /\ main' \in {"create", "returned"}
  <2>1. ~HasTable' /\ RoundInv' /\ Done' = {}
    BY <1>3 DEF HasTable, RoundInv, Done
  <2>2. Listed' = {}
    BY <1>3 DEF FreeEntries, Listed
  <2>3. Mapped' = Puts!NoCalls
    BY <2>2, EmptyMap
  <2>4. Done = DOMAIN data
    <3>1. data \in [Entries -> Key]
      BY <1>1 DEF PutsInv, PhtInv, DataInv
    <3> QED BY <1>1, <3>1, AllAreDone
  <2>5. Puts!Clear
    BY <1>1, <2>1, <2>3, <2>4 DEF Puts!Clear, Mapped
  <2> QED BY <1>1, <1>2, <2>1, <2>5
<1>4. CASE UNCHANGED <<tableVars, main, stage>>
  <2>1. HasTable' = HasTable /\ UNCHANGED <<lists, value, stage>>
    BY <1>4 DEF HasTable, tableVars
  <2>2. RoundInv'
    BY <1>1, <1>4 DEF PutsInv, RoundInv, Started
  <2> QED BY <1>1, <1>2, <2>1, <2>2, QuietStutters
<1> QED BY <1>3, <1>4 DEF Destroy, hash_table_base_destroy, hash_table_v1_destroy,
           hash_table_v2_destroy

LEMMA JoinStutters ==
    ASSUME PutsInv, PhtInv', JoinThreads \/ CountMissing
    PROVE  RoundInv' /\ ValueInv' /\ data' = data /\ Stutters
<1>1. /\ HasTable /\ HasTable' /\ UNCHANGED <<threads, size, data, stage, at, pc, j, lists, value>>
  BY DEF JoinThreads, CountMissing, ProgramUnchanged, threadVars, tableVars, HasTable
<1>2. ValueInv'
  <2>1. \A u \in Uint : Index(u)' = Index(u)
    BY <1>1, Zenon DEF Index, get_global_index
  <2> QED BY <1>1, <2>1 DEF PutsInv, ValueInv
<1>3. CASE JoinThreads
  <2>1. Threaded /\ at = threads /\ threads \in Uint /\ at \in Nat
        /\ \A t \in 0 .. threads - 1 : pc[t] = "ended"
    BY <1>3 DEF JoinThreads, Threaded, Started, PutsInv, PhtInv, TypeInv
  <2>2. \A t \in 0 .. at - 1 : t \in Uint /\ t < at
    BY <2>1, PlacesAreThreads
  <2>3. \A t \in 0 .. threads - 1 : j[t] = size
    BY <2>1, <2>2 DEF PutsInv, PhtInv, PlaceInv
  <2>4. RoundInv'
    BY <1>1, <2>1, <2>3 DEF RoundInv, Started, Threaded
  <2> QED BY <1>1, <1>2, <2>4, QuietStutters
<1>4. CASE CountMissing
  <2>1. RoundInv'
    BY <1>1, <1>4 DEF CountMissing, PutsInv, RoundInv, Started
  <2> QED BY <1>1, <1>2, <2>1, QuietStutters
<1> QED BY <1>3, <1>4

LEMMA StepPuts ==
    ASSUME PutsInv, [Next]_vars
    PROVE  PutsInv' /\ [Puts!Next]_(Puts!vars)
<1>1. PhtInv'
  BY StepPhtInv DEF PutsInv
<1>2. ASSUME data' = data, Stutters PROVE UNCHANGED Puts!vars
  BY <1>2 DEF Stutters, Puts!vars, Mapped
<1>3. ASSUME data' = data, NEW c \in Uint, Takes(c) PROVE Puts!Next
  <2>1. Puts!Put(c)
    BY <1>3 DEF Takes, Puts!Put, Mapped
  <2> QED BY <2>1 DEF Puts!Next
<1>4. CASE parse_opt \/ Generate \/ Create
  BY <1>1, <1>2, <1>4, BeforeFill DEF PutsInv, Puts!Next
<1>5. CASE FillBase
  BY <1>1, <1>2, <1>3, <1>5, FillPuts DEF PutsInv
<1>6. CASE StartThread \/ JoinThreads \/ CountMissing
  BY <1>1, <1>2, <1>6, StartStutters, JoinStutters DEF PutsInv
<1>7. CASE Destroy
  BY <1>1, <1>2, <1>7, DestroyClears DEF PutsInv, Puts!Next
<1>8. ASSUME NEW t \in Uint, Thread(t) PROVE PutsInv' /\ [Puts!Next]_(Puts!vars)
  BY <1>1, <1>2, <1>3, <1>8, ThreadPuts DEF PutsInv
<1>9. CASE UNCHANGED vars
  <2>1. UNCHANGED <<threads, size, data, stage, main, at, lists, value, pc, j>>
    BY <1>9 DEF vars, tableVars, threadVars
  <2>2. HasTable' = HasTable /\ \A u \in Uint : Index(u)' = Index(u)
    BY <2>1, Zenon DEF HasTable, Index, get_global_index
  <2>3. RoundInv' /\ ValueInv'
    BY <2>1, <2>2 DEF PutsInv, RoundInv, ValueInv, Started
  <2> QED BY <1>1, <1>2, <2>1, <2>2, <2>3, QuietStutters DEF PutsInv
<1> QED BY <1>4, <1>5, <1>6, <1>7, <1>8, <1>9 DEF Next, Main

LEMMA InitPuts == Init => PutsInv /\ Puts!Init
<1> SUFFICES ASSUME Init PROVE PutsInv /\ Puts!Init
  OBVIOUS
<1>1. main = "arguments" /\ data = <<>> /\ lists = [b \in Bucket |-> {}]
      /\ \A u \in Uint : pc[u] = "none"
  BY DEF Init
<1>2. PutsInv
  BY <1>1, InitPhtInv DEF PutsInv, RoundInv, ValueInv
<1>3. Done = {} /\ Listed = {} /\ data = Puts!NoCalls
  BY <1>1 DEF Done, HasTable, Listed, Puts!NoCalls
<1>4. Mapped = Puts!NoCalls
  BY <1>3, EmptyMap
<1> QED BY <1>2, <1>3, <1>4 DEF Puts!Init, Mapped

--------------------------------------------------------------------------------
(* Induction over the digits of a number.                                   *)

\* Induction up to n, over a set.
LEMMA UpTo ==
    ASSUME NEW n \in Nat, NEW S, 0 \in S, \A i \in 0 .. n - 1 : i \in S => i + 1 \in S
    PROVE  0 .. n \subseteq S
<1> DEFINE Bad == {i \in 0 .. n : i \notin S}
<1>1. SUFFICES ASSUME Bad # {} PROVE FALSE
  OBVIOUS
<1>2. PICK i \in Bad : \A k \in Bad : i <= k
  <2>1. Bad \subseteq Nat
    OBVIOUS
  <2> QED BY <1>1, <2>1, LeastExists
<1>3. i \in 0 .. n /\ i # 0 /\ i \notin S
  BY <1>2
<1>4. i - 1 \in 0 .. n /\ ~(i <= i - 1)
  BY <1>3
<1>5. i - 1 \in S
  BY <1>2, <1>4
<1>6. i - 1 \in 0 .. n - 1 /\ (i - 1) + 1 = i
  BY <1>3
<1> QED BY <1>3, <1>5, <1>6

\* A digit struck off the end of a number.
LEMMA LastDigit ==
    ASSUME NEW x \in Nat
    PROVE  /\ x \div 10 \in Nat /\ x % 10 \in 0 .. 9
           /\ x = (x \div 10) * 10 + (x % 10) /\ x \div 10 <= x
OBVIOUS

\* The parser's step undone: a digit put at the end of a number.
LEMMA DigitAppended ==
    ASSUME NEW x \in Nat, NEW digit \in 0 .. 9
    PROVE  (x * 10 + digit) \div 10 = x /\ (x * 10 + digit) % 10 = digit
OBVIOUS

\* What is left of a number is a tenth of what was left before.
LEMMA StruckDigits ==
    ASSUME NEW number \in Nat, NEW length \in Nat
    PROVE  /\ Struck(number, length) \in [0 .. length -> Nat]
           /\ Struck(number, length)[0] = number
           /\ \A i \in 1 .. length :
                  Struck(number, length)[i] = Struck(number, length)[i - 1] \div 10
<1> DEFINE Step(f, i) == IF i = 0 THEN number ELSE f[i - 1] \div 10
           Good(n, f) == f \in [0 .. n -> Nat] /\ \A i \in 0 .. n : f[i] = Step(f, i)
           Reached == {n \in Nat : \E f : Good(n, f)}
<1>1. 0 \in Reached
  <2> DEFINE f == [i \in 0 .. 0 |-> number]
  <2>1. Good(0, f)
    OBVIOUS
  <2> QED BY <2>1
<1>2. ASSUME NEW n \in 0 .. length - 1, n \in Reached PROVE n + 1 \in Reached
  <2>1. PICK f : Good(n, f)
    BY <1>2
  <2> DEFINE last == f[n] \div 10
             g == [i \in 0 .. n + 1 |-> IF i = n + 1 THEN last ELSE f[i]]
  <2>2. n \in Nat /\ f \in [0 .. n -> Nat] /\ n \in 0 .. n
    BY <2>1
  <2>3. last \in Nat
    <3>1. f[n] \in Nat
      BY <2>2
    <3> QED BY <3>1, LastDigit
  <2>4. \A i \in 0 .. n : f[i] \in Nat /\ f[i] = Step(f, i)
    BY <2>1
  <2> HIDE DEF last
  <2>5. g \in [0 .. n + 1 -> Nat]
    <3>1. \A i \in 0 .. n + 1 : i # n + 1 => i \in 0 .. n
      BY <2>2
    <3> QED BY <2>3, <2>4, <3>1
  <2>6. ASSUME NEW i \in 0 .. n + 1 PROVE g[i] = Step(g, i)
    <3>1. CASE i = n + 1
      <4>1. g[i] = last /\ g[i - 1] = f[n] /\ i # 0
        BY <3>1, <2>2
      <4> QED BY <3>1, <4>1 DEF last
    <3>2. CASE i = 0
      BY <3>2, <2>4, <2>2
    <3>3. CASE i \in 1 .. n
      <4>1. g[i] = f[i] /\ g[i - 1] = f[i - 1] /\ i # 0 /\ i \in 0 .. n
        BY <3>3, <2>2
      <4> QED BY <4>1, <2>4
    <3> QED BY <3>1, <3>2, <3>3, <2>2
  <2>7. Good(n + 1, g)
    BY <2>5, <2>6
  <2> HIDE DEF g, Good
  <2>8. \E f2 : Good(n + 1, f2)
    BY <2>7
  <2> QED BY <2>2, <2>8
<1>3. length \in Reached
  <2> HIDE DEF Reached
  <2>1. 0 .. length \subseteq Reached
    BY <1>1, <1>2, UpTo
  <2> QED BY <2>1
<1>4. PICK f : Good(length, f)
  BY <1>3
<1>5. f \in [0 .. length -> Nat] /\ f = [i \in 0 .. length |-> Step(f, i)]
  BY <1>4
<1>6. \E c : c = [i \in 0 .. length |-> Step(c, i)]
  BY <1>5
<1> DEFINE s == Struck(number, length)
<1>7. s = [i \in 0 .. length |-> Step(s, i)]
  BY <1>6 DEF Struck
<1> HIDE DEF s
<1>8. s[0] = number /\ \A i \in 1 .. length : s[i] = s[i - 1] \div 10
  BY <1>7
<1>9. \A i \in 0 .. length : s[i] \in Nat
  <2> DEFINE Typed == {i \in Nat : s[i] \in Nat}
  <2>1. 0 \in Typed
    BY <1>8
  <2>2. ASSUME NEW i \in 0 .. length - 1, i \in Typed PROVE i + 1 \in Typed
    <3>1. i \in Nat /\ i + 1 \in 1 .. length /\ (i + 1) - 1 = i /\ s[i] \in Nat
      BY <2>2
    <3>2. s[i + 1] = s[i] \div 10
      BY <1>8, <3>1
    <3> QED BY <3>1, <3>2, LastDigit
  <2> HIDE DEF Typed
  <2>3. 0 .. length \subseteq Typed
    BY <2>1, <2>2, UpTo
  <2> QED BY <2>3 DEF Typed
<1>10. s \in [0 .. length -> Nat]
  BY <1>7, <1>9
<1> QED BY <1>8, <1>10 DEF s

--------------------------------------------------------------------------------
(* What the arguments say and what is read.                                 *)

\* No digit string of fewer digits than UINT32_MAX wraps around: what the digits
\* still to come leave of UINT32_MAX is above the number so far.
LEMMA ShortNumbers ==
    ASSUME NEW string \in Seq(Nat), ~Refuses(string)
    PROVE  \A i \in 0 .. MaxDigits - 1 : i <= Len(string) =>
               /\ Current(string)[i] < Struck(UintMax, MaxDigits)[MaxDigits - 1 - i]
               /\ i # 0 => Current(string)[i] = Current(string)[i - 1] * 10 + string[i] - 48
<1> DEFINE c == Current(string)
           u == Struck(UintMax, MaxDigits)
           l == Len(string)
<1>1. /\ l \in Nat /\ c \in [0 .. l -> Uint] /\ c[0] = 0
      /\ \A i \in 1 .. l : c[i] = (c[i - 1] * 10 + string[i] - 48) % (UintMax + 1)
  BY CurrentType
<1>2. /\ u \in [0 .. MaxDigits -> Nat] /\ u[0] = UintMax
      /\ \A i \in 1 .. MaxDigits : u[i] = u[i - 1] \div 10
  BY PhtAssumption, StruckDigits
<1>3. u[MaxDigits - 1] \in 1 .. 9
  BY MaxDigitsAssumption
<1>4. UintMax \in Nat /\ MaxDigits \in Nat \ {0}
  BY PhtAssumption
<1>5. \A i \in 1 .. l : string[i] \in 48 .. 57
  BY DEF Refuses
<1> HIDE DEF c, u, l
<1>6. \A i \in 0 .. MaxDigits : u[i] <= UintMax
  <2> DEFINE Low == {i \in Nat : u[i] <= UintMax}
  <2>1. 0 \in Low
    BY <1>2, <1>4
  <2>2. ASSUME NEW i \in 0 .. MaxDigits - 1, i \in Low PROVE i + 1 \in Low
    <3>1. i \in Nat /\ i + 1 \in 1 .. MaxDigits /\ (i + 1) - 1 = i /\ i \in 0 .. MaxDigits
      BY <1>4
    <3>2. u[i] \in Nat /\ u[i + 1] = u[i] \div 10 /\ u[i] <= UintMax
      BY <1>2, <2>2, <3>1
    <3>3. u[i] \div 10 \in Nat /\ u[i] \div 10 <= u[i]
      BY <3>2, LastDigit
    <3> QED BY <1>4, <3>1, <3>2, <3>3
  <2> HIDE DEF Low
  <2>3. 0 .. MaxDigits \subseteq Low
    BY <1>4, <2>1, <2>2, UpTo
  <2> QED BY <2>3 DEF Low
<1> DEFINE Fits(i) == i <= l => /\ c[i] < u[MaxDigits - 1 - i]
                                /\ i # 0 => c[i] = c[i - 1] * 10 + string[i] - 48
           Fitting == {i \in Nat : Fits(i)}
<1>7. 0 \in Fitting
  BY <1>1, <1>3, <1>4
<1>8. ASSUME NEW i \in 0 .. MaxDigits - 1 - 1, i \in Fitting PROVE i + 1 \in Fitting
  <2>1. SUFFICES ASSUME i + 1 <= l PROVE Fits(i + 1)
    BY <1>8
  <2>2. i \in Nat /\ i \in 0 .. l /\ i + 1 \in 1 .. l /\ (i + 1) - 1 = i /\ i + 1 # 0
    BY <1>1, <2>1
  <2>3. PICK k \in 1 .. MaxDigits : k = MaxDigits - 1 - i
    BY <1>4
  <2>4. k - 1 = MaxDigits - 1 - (i + 1) /\ k - 1 \in 0 .. MaxDigits /\ k \in 0 .. MaxDigits
    BY <1>4, <2>3
  <2>5. c[i] < u[k]
    BY <1>8, <2>2, <2>3
  <2>6. PICK x \in Nat, y \in Nat, d \in 0 .. 9 :
            x = c[i] /\ y = u[k - 1] /\ string[i + 1] = 48 + d
    <3>1. c[i] \in Nat
      BY <1>1, <1>4, <2>2 DEF Uint
    <3>2. u[k - 1] \in Nat /\ string[i + 1] \in 48 .. 57
      BY <1>2, <1>5, <2>2, <2>4
    <3>3. string[i + 1] - 48 \in 0 .. 9 /\ string[i + 1] = 48 + (string[i + 1] - 48)
      BY <3>2
    <3> QED BY <3>1, <3>2, <3>3
  <2>7. x < y \div 10 /\ y <= UintMax
    BY <1>2, <1>6, <2>3, <2>4, <2>5, <2>6
  <2>8. y = (y \div 10) * 10 + (y % 10) /\ y \div 10 \in Nat /\ y % 10 \in 0 .. 9
    BY LastDigit
  <2>9. x * 10 + d < y /\ x * 10 + d \in 0 .. UintMax
    BY <1>4, <2>7, <2>8
  <2>10. c[i + 1] = (x * 10 + d) % (UintMax + 1)
    <3>1. c[i + 1] = (c[i] * 10 + string[i + 1] - 48) % (UintMax + 1)
      BY <1>1, <2>2
    <3>2. c[i] * 10 + string[i + 1] - 48 = x * 10 + d
      BY <2>6
    <3> QED BY <3>1, <3>2
  <2>11. c[i + 1] = x * 10 + d
    BY <1>4, <2>9, <2>10, SmallRemainder
  <2>12. c[i + 1] = c[i] * 10 + string[i + 1] - 48
    BY <2>6, <2>11
  <2> QED BY <2>2, <2>4, <2>6, <2>9, <2>11, <2>12
<1>9. 0 .. MaxDigits - 1 \subseteq Fitting
  <2> HIDE DEF Fitting
  <2>1. MaxDigits - 1 \in Nat
    BY <1>4
  <2> QED BY <1>7, <1>8, <2>1, UpTo
<1>10. \A i \in 0 .. MaxDigits - 1 : Fits(i)
  BY <1>9
<1> QED BY <1>10 DEF c, u, l

\* The parser lets no number wrap around.
LEMMA NumbersFit ==
    ASSUME NEW string \in Seq(Nat), ~Refuses(string)
    PROVE  /\ Len(string) <= MaxDigits
           /\ \A i \in 1 .. Len(string) :
                  /\ string[i] \in 48 .. 57
                  /\ Current(string)[i] = Current(string)[i - 1] * 10 + string[i] - 48
<1>1. PICK l \in Nat : l = Len(string)
  OBVIOUS
<1>2. /\ Current(string) \in [0 .. l -> Uint]
      /\ \A i \in 1 .. l :
             Current(string)[i] = (Current(string)[i - 1] * 10 + string[i] - 48) % (UintMax + 1)
  BY <1>1, CurrentType
<1>3. UintMax \in Nat /\ MaxDigits \in Nat \ {0}
  BY PhtAssumption
<1>4. \A i \in 1 .. l : string[i] \in 48 .. 57 /\ i <= MaxDigits
  <2>1. \A i \in 1 .. l : string[i] \in 48 .. 57 /\ ~(i > MaxDigits)
    BY <1>1 DEF Refuses
  <2> QED BY <1>3, <2>1
<1>5. l <= MaxDigits
  <2>1. CASE l = 0
    BY <1>3, <2>1
  <2>2. CASE l # 0
    <3>1. l \in 1 .. l
      BY <1>1, <2>2
    <3> QED BY <1>4, <3>1
  <2> QED BY <2>1, <2>2
<1>6. ASSUME NEW i \in 1 .. l
      PROVE  Current(string)[i] = Current(string)[i - 1] * 10 + string[i] - 48
  <2>1. CASE i < MaxDigits
    <3>1. i \in 0 .. MaxDigits - 1 /\ i <= l /\ i # 0
      BY <1>3, <2>1
    <3> QED BY <1>1, <3>1, ShortNumbers
  <2>2. CASE i = MaxDigits
    <3>1. ~Overflows(Current(string)[i - 1], string[i] - 48)
      BY <1>1, <2>2 DEF Refuses
    <3>2. PICK x \in Nat, d \in 0 .. 9 : x = Current(string)[i - 1] /\ string[i] = 48 + d
      <4>1. Current(string)[i - 1] \in Nat /\ string[i] \in 48 .. 57
        BY <1>2, <1>3, <1>4 DEF Uint
      <4>2. string[i] - 48 \in 0 .. 9 /\ string[i] = 48 + (string[i] - 48)
        BY <4>1
      <4> QED BY <4>1, <4>2
    <3>3. string[i] - 48 = d /\ Current(string)[i - 1] * 10 + string[i] - 48 = x * 10 + d
      BY <3>2
    <3>4. x <= UintMax \div 10 /\ (x = UintMax \div 10 => d <= UintMax % 10)
      <4>1. UintMax \div 10 \in Nat /\ UintMax % 10 \in 0 .. 9
        BY <1>3, LastDigit
      <4> QED BY <3>1, <3>2, <3>3, <4>1 DEF Overflows
    <3>5. UintMax = (UintMax \div 10) * 10 + (UintMax % 10)
      BY <1>3, LastDigit
    <3>6. x * 10 + d \in 0 .. UintMax
      <4>1. UintMax \div 10 \in Nat /\ UintMax % 10 \in 0 .. 9
        BY <1>3, LastDigit
      <4> QED BY <1>3, <3>4, <3>5, <4>1
    <3>7. (x * 10 + d) % (UintMax + 1) = x * 10 + d
      BY <1>3, <3>6, SmallRemainder
    <3> QED BY <1>2, <3>3, <3>7
  <2> QED BY <1>3, <1>4, <2>1, <2>2
<1> QED BY <1>1, <1>4, <1>5, <1>6

\* What the parser returns is what the digits say.
LEMMA ParsedSays ==
    ASSUME NEW string \in Seq(Nat), ~Refuses(string)
    PROVE  Says(string, parse_uint32_t(string))
<1> DEFINE c == Current(string)
<1>1. PICK l \in Nat : l = Len(string)
  OBVIOUS
<1>2. c \in [0 .. l -> Uint] /\ c[0] = 0
  BY <1>1, CurrentType
<1>3. \A i \in 1 .. l : string[i] \in 48 .. 57 /\ c[i] = c[i - 1] * 10 + string[i] - 48
  BY <1>1, NumbersFit
<1>4. \A i \in 0 .. l : c[i] \in Nat
  BY <1>2, UintIsNat
<1> HIDE DEF c
<1> DEFINE q == Struck(c[l], l)
<1>5. q[0] = c[l] /\ \A i \in 1 .. l : q[i] = q[i - 1] \div 10
  <2>1. c[l] \in Nat
    BY <1>4
  <2> QED BY <2>1, StruckDigits
<1> HIDE DEF q
<1>6. ASSUME NEW i \in 1 .. l
      PROVE  c[i] \div 10 = c[i - 1] /\ string[i] = 48 + (c[i] % 10)
  <2>1. PICK x \in Nat, d \in 0 .. 9 : x = c[i - 1] /\ string[i] = 48 + d
    <3>1. c[i - 1] \in Nat /\ string[i] \in 48 .. 57
      BY <1>3, <1>4
    <3>2. string[i] - 48 \in 0 .. 9 /\ string[i] = 48 + (string[i] - 48)
      BY <3>1
    <3> QED BY <3>1, <3>2
  <2>2. c[i] = x * 10 + d
    <3>1. c[i] = c[i - 1] * 10 + string[i] - 48
      BY <1>3
    <3>2. x * 10 + (48 + d) - 48 = x * 10 + d
      OBVIOUS
    <3> QED BY <2>1, <3>1, <3>2
  <2>3. (x * 10 + d) \div 10 = x /\ (x * 10 + d) % 10 = d
    BY DigitAppended
  <2> QED BY <2>1, <2>2, <2>3
<1>7. \A k \in 0 .. l : q[k] = c[l - k]
  <2> DEFINE Same == {k \in Nat : q[k] = c[l - k]}
  <2>1. 0 \in Same
    BY <1>5
  <2>2. ASSUME NEW k \in 0 .. l - 1, k \in Same PROVE k + 1 \in Same
    <3>1. /\ k \in Nat /\ k + 1 \in 1 .. l /\ (k + 1) - 1 = k
          /\ l - k \in 1 .. l /\ (l - k) - 1 = l - (k + 1)
      BY <1>1
    <3>2. q[k] = c[l - k]
      BY <2>2
    <3>3. q[k + 1] = q[k] \div 10
      BY <1>5, <3>1
    <3>4. c[l - k] \div 10 = c[(l - k) - 1]
      BY <1>6, <3>1
    <3>5. q[k + 1] = c[l - (k + 1)] /\ k + 1 \in Nat
      BY <3>1, <3>2, <3>3, <3>4
    <3> QED BY <3>5
  <2> HIDE DEF Same
  <2>3. 0 .. l \subseteq Same
    BY <2>1, <2>2, UpTo
  <2> QED BY <2>3 DEF Same
<1>8. q[l] = 0
  BY <1>2, <1>7
<1>9. ASSUME NEW i \in 1 .. l PROVE string[i] = 48 + (q[l - i] % 10)
  <2>1. l - i \in 0 .. l /\ l - (l - i) = i
    BY <1>1
  <2>2. q[l - i] = c[i]
    BY <1>7, <2>1
  <2> QED BY <1>6, <2>2
<1>10. parse_uint32_t(string) = c[l]
  BY <1>1 DEF parse_uint32_t, c
<1>11. /\ Struck(parse_uint32_t(string), Len(string))[Len(string)] = 0
       /\ \A i \in 1 .. Len(string) :
              string[i] = 48 + (Struck(parse_uint32_t(string), Len(string))[Len(string) - i] % 10)
  BY <1>1, <1>8, <1>9, <1>10 DEF q
<1> QED BY <1>11 DEF Says

\* The parser refuses no digits of a number that fits.
LEMMA FittingIsRead ==
    ASSUME NEW string \in Seq(Nat), Len(string) <= MaxDigits,
           NEW n \in Uint, Says(string, n)
    PROVE  ~Refuses(string)
<1> DEFINE c == Current(string)
           q == Struck(n, Len(string))
<1>1. PICK l \in Nat : l = Len(string)
  OBVIOUS
<1>2. c[0] = 0 /\ \A i \in 1 .. l : c[i] = (c[i - 1] * 10 + string[i] - 48) % (UintMax + 1)
  BY <1>1, CurrentType
<1>3. UintMax \in Nat /\ MaxDigits \in Nat \ {0} /\ n \in Nat /\ n <= UintMax
  BY PhtAssumption DEF Uint
<1>4. /\ q \in [0 .. l -> Nat] /\ q[0] = n
      /\ \A i \in 1 .. l : q[i] = q[i - 1] \div 10
  BY <1>1, <1>3, StruckDigits
<1>5. q[l] = 0 /\ \A i \in 1 .. l : string[i] = 48 + (q[l - i] % 10)
  BY <1>1 DEF Says
<1> HIDE DEF c, q
<1>6. \A i \in 0 .. l : q[i] \in Nat /\ q[i] <= UintMax
  <2> DEFINE Low == {i \in Nat : q[i] <= UintMax}
  <2>1. 0 \in Low
    BY <1>3, <1>4
  <2>2. ASSUME NEW i \in 0 .. l - 1, i \in Low PROVE i + 1 \in Low
    <3>1. i \in Nat /\ i + 1 \in 1 .. l /\ (i + 1) - 1 = i /\ i \in 0 .. l
      BY <1>1
    <3>2. q[i] \in Nat /\ q[i + 1] = q[i] \div 10 /\ q[i] <= UintMax
      BY <1>4, <2>2, <3>1
    <3>3. q[i] \div 10 \in Nat /\ q[i] \div 10 <= q[i]
      BY <3>2, LastDigit
    <3> QED BY <1>3, <3>1, <3>2, <3>3
  <2> HIDE DEF Low
  <2>3. 0 .. l \subseteq Low
    BY <2>1, <2>2, UpTo
  <2> QED BY <1>4, <2>3 DEF Low
<1>7. ASSUME NEW i \in 1 .. l
      PROVE  /\ string[i] - 48 \in 0 .. 9
             /\ string[i] - 48 = q[l - i] % 10
             /\ q[l - (i - 1)] = q[l - i] \div 10
             /\ q[l - (i - 1)] * 10 + string[i] - 48 = q[l - i]
  <2>1. /\ l - i \in 0 .. l /\ l - (i - 1) \in 1 .. l
        /\ (l - (i - 1)) - 1 = l - i
    BY <1>1
  <2>2. PICK x \in Nat : x = q[l - i]
    BY <1>4, <2>1
  <2>3. x = (x \div 10) * 10 + (x % 10) /\ x % 10 \in 0 .. 9 /\ x \div 10 \in Nat
    BY LastDigit
  <2>4. q[l - (i - 1)] = x \div 10
    BY <1>4, <2>1, <2>2
  <2>5. string[i] = 48 + (x % 10)
    BY <1>5, <2>2
  <2>6. PICK y \in Nat, d \in 0 .. 9 : y = x \div 10 /\ d = x % 10
    BY <2>3
  <2>7. string[i] - 48 = d /\ x = y * 10 + d /\ y * 10 + string[i] - 48 = x
    BY <2>3, <2>5, <2>6
  <2> QED BY <2>2, <2>4, <2>6, <2>7
<1>8. \A i \in 0 .. l : c[i] = q[l - i]
  <2> DEFINE Same == {i \in Nat : c[i] = q[l - i]}
  <2>1. 0 \in Same
    BY <1>2, <1>5
  <2>2. ASSUME NEW i \in 0 .. l - 1, i \in Same PROVE i + 1 \in Same
    <3>1. i \in Nat /\ i + 1 \in 1 .. l /\ (i + 1) - 1 = i /\ l - (i + 1) \in 0 .. l
      BY <1>1
    <3>2. c[i] = q[l - i]
      BY <2>2
    <3>3. c[i + 1] = (c[i] * 10 + string[i + 1] - 48) % (UintMax + 1)
      BY <1>2, <3>1
    <3>4. q[l - i] * 10 + string[i + 1] - 48 = q[l - (i + 1)]
      BY <1>7, <3>1
    <3>5. q[l - (i + 1)] \in 0 .. UintMax
      BY <1>3, <1>6, <3>1
    <3>6. c[i + 1] = q[l - (i + 1)]
      BY <1>3, <3>2, <3>3, <3>4, <3>5, SmallRemainder
    <3> QED BY <3>1, <3>6
  <2> HIDE DEF Same
  <2>3. 0 .. l \subseteq Same
    BY <2>1, <2>2, UpTo
  <2> QED BY <2>3 DEF Same
<1>9. ASSUME NEW i \in 1 .. l, i = MaxDigits
      PROVE  ~Overflows(c[i - 1], string[i] - 48)
  <2>1. i = l /\ l - i = 0
    BY <1>1, <1>3, <1>9
  <2>2. string[i] - 48 = n % 10 /\ q[l - (i - 1)] = n \div 10
    BY <1>4, <1>7, <2>1
  <2>3. c[i - 1] = n \div 10
    <3>1. i - 1 \in 0 .. l
      BY <1>1
    <3> QED BY <1>8, <2>2, <3>1
  <2>4. /\ n = (n \div 10) * 10 + (n % 10) /\ n \div 10 \in Nat /\ n % 10 \in 0 .. 9
        /\ UintMax = (UintMax \div 10) * 10 + (UintMax % 10)
        /\ UintMax \div 10 \in Nat /\ UintMax % 10 \in 0 .. 9
    BY <1>3, LastDigit
  <2>5. PICK x \in Nat, d \in 0 .. 9, y \in Nat, e \in 0 .. 9 :
            x = n \div 10 /\ d = n % 10 /\ y = UintMax \div 10 /\ e = UintMax % 10
    BY <2>4
  <2>6. x * 10 + d <= y * 10 + e
    BY <1>3, <2>4, <2>5
  <2>7. ~(x > y) /\ ~(x = y /\ d > e)
    BY <2>6
  <2> QED BY <2>2, <2>3, <2>5, <2>7 DEF Overflows
<1>10. \A i \in 1 .. l : string[i] \in 48 .. 57
  <2>1. ASSUME NEW i \in 1 .. l PROVE string[i] \in 48 .. 57
    <3>1. string[i] \in Nat /\ string[i] - 48 \in 0 .. 9
      BY <1>1, <1>7
    <3> QED BY <3>1
  <2> QED BY <2>1
<1>11. \A i \in 1 .. l : ~(i > MaxDigits)
  BY <1>1, <1>3
<1> QED BY <1>1, <1>9, <1>10, <1>11 DEF Refuses, c


\* The arguments after any step of main but the parser's, and of the threads.
LEMMA ReadStays ==
    ASSUME ArgumentsAreRead, UNCHANGED <<arguments, threads, size>>, process = "running",
           process' # "EINVAL", main # "arguments" \/ main' = main
    PROVE  ArgumentsAreRead'
BY DEF ArgumentsAreRead, Says

\* One case for the parser, which reads or refuses, and one for all other steps.
LEMMA StepRead ==
    ASSUME PhtInv, ArgumentsAreRead, [Next]_vars
    PROVE  ArgumentsAreRead'
<1> DEFINE Good(string) == Len(string) <= MaxDigits /\ \E n \in Uint : Says(string, n)
<1>1. arguments[1] \in Seq(Nat) /\ arguments[2] \in Seq(Nat)
  BY PhtAssumption DEF PhtInv, TypeInv
<1>2. ASSUME process = "running", parse_opt PROVE ArgumentsAreRead'
  <2>1. CASE \E i \in {1, 2} : Refuses(arguments[i])
    <3>1. PICK i \in {1, 2} : Refuses(arguments[i])
      BY <2>1
    <3>2. ~Good(arguments[i])
      BY <1>1, <3>1, FittingIsRead
    <3>3. UNCHANGED <<arguments, main>> /\ main = "arguments"
      BY <1>2, <2>1 DEF parse_opt
    <3> QED BY <3>2, <3>3 DEF ArgumentsAreRead
  <2>2. CASE ~ \E i \in {1, 2} : Refuses(arguments[i])
    <3>1. /\ threads' = parse_uint32_t(arguments[1])
          /\ size' = parse_uint32_t(arguments[2])
          /\ process' = "running" /\ arguments' = arguments
      BY <1>2, <2>2 DEF parse_opt
    <3>2. \A i \in {1, 2} : /\ Says(arguments[i], parse_uint32_t(arguments[i]))
                            /\ parse_uint32_t(arguments[i]) \in Uint
                            /\ Len(arguments[i]) <= MaxDigits
      BY <1>1, <2>2, ParsedSays, ParsedType, NumbersFit
    <3> HIDE DEF Good
    <3>3. \A i \in {1, 2} : Good(arguments[i])
      BY <3>2 DEF Good
    <3>4. Says(arguments[1], threads') /\ Says(arguments[2], size')
      BY <3>1, <3>2
    <3> QED BY <3>1, <3>3, <3>4 DEF ArgumentsAreRead, Good
  <2> QED BY <2>1, <2>2
<1>3. ASSUME process = "running",
             Generate \/ Create \/ FillBase \/ StartThread \/ JoinThreads \/ CountMissing \/ Destroy
      PROVE  ArgumentsAreRead'
  <2>1. main # "arguments"
    BY <1>3 DEF Generate, Create, FillBase, StartThread, JoinThreads, CountMissing, Destroy
  <2>2. UNCHANGED <<arguments, threads, size>>
    BY <1>3 DEF Generate, Create, FillBase, StartThread, JoinThreads, CountMissing, Destroy,
                ProgramUnchanged
  <2>3. process' # "EINVAL"
    BY <1>3 DEF Generate, Create, FillBase, StartThread, JoinThreads, CountMissing, Destroy,
                hash_table_v2_destroy
  <2> QED BY <1>3, <2>1, <2>2, <2>3, ReadStays
<1>4. ASSUME NEW t \in Uint, Thread(t) PROVE ArgumentsAreRead'
  BY <1>4, ReadStays DEF Thread, ProgramUnchanged
<1>5. ASSUME UNCHANGED vars PROVE ArgumentsAreRead'
  BY <1>5 DEF vars, ArgumentsAreRead, Says
<1>6. CASE Next
  BY <1>2, <1>3, <1>4, <1>6 DEF Next, Main
<1> QED BY <1>5, <1>6

--------------------------------------------------------------------------------
(* The theorems.                                                            *)

\* PhtInv holds in every reachable state.
THEOREM PhtInvHolds == Spec => []PhtInv
BY InitPhtInv, StepPhtInv, PTL DEF Spec

\* Every variable keeps its type; what parse_uint32_t returns is an unsigned int.
THEOREM TypesAreKept == Spec => []TypeOK
<1> QED BY PhtInvTypes, PhtInvHolds, PTL

\* The numbers that the program works with are those its arguments say, and it
\* refuses only what is no number of MaxDigits digits at most that fits an unsigned
\* int: parse_uint32_t neither wraps around nor turns a number away.
THEOREM NumbersAreRead == Spec => []ArgumentsAreRead
<1>1. Init => ArgumentsAreRead
  BY DEF Init, ArgumentsAreRead
<1>2. PhtInv /\ ArgumentsAreRead /\ [Next]_vars => ArgumentsAreRead'
  BY StepRead
<1> QED BY PhtInvHolds, <1>1, <1>2, PTL DEF Spec

\* With any number of threads, the lock of v1 keeps the whole table and the locks
\* of v2 keep each list to one thread.
THEOREM LocksExclude == Spec => []WritersExclude
<1> QED BY PhtInvExcludes, PhtInvHolds, PTL

\* No two threads ever add the same key twice, in any version of the table.
THEOREM KeysAreUnique == Spec => []OneEntryPerKey
<1>1. PhtInv => OneEntryPerKey
  BY DEF PhtInv
<1> QED BY <1>1, PhtInvHolds, PTL

\* Every entry that was allocated can be reached from the table, or is in the
\* hands of one thread: the destructors leave nothing on the heap.
THEOREM NothingLeaks == Spec => []HeapIsTheTable
<1>1. PhtInv => HeapIsTheTable
  BY DEF PhtInv
<1> QED BY <1>1, PhtInvHolds, PTL

\* main reads and frees the tables, which it does without a lock, while no
\* thread is in them.
THEOREM MainRunsAlone == Spec => []MainIsAlone
<1> QED BY PhtInvIsAlone, PhtInvHolds, PTL

\* No interleaving of the threads loses an entry: every count of missing keys
\* that the program prints is 0.
THEOREM NoneAreMissing == Spec => []NothingMissing
<1>1. PhtInv => NothingMissing
  BY DEF PhtInv, FoundInv, NothingMissing
<1> QED BY <1>1, PhtInvHolds, PTL

\* Each of the three tables is a map to its callers: each add takes effect once, at
\* the instant that it updates an entry or writes the head of a list, whatever the
\* other threads do, and the table is freed when all adds have taken effect.
THEOREM AddsArePuts == Spec => ImplementsPuts
<1>1. PutsInv /\ [Next]_vars => PutsInv' /\ [Puts!Next]_(Puts!vars)
  BY StepPuts
<1> QED BY <1>1, InitPuts, PTL DEF Spec, ImplementsPuts, Puts!Spec
================================================================================
