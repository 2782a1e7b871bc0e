---------------------------- MODULE VmsSharingProofs ----------------------------
(***************************************************************************)
(* Theorems about Vms, for every size of the pool, every set of table      *)
(* indexes and every client: what the spaces share, and that they          *)
(* implement AddressSpaces.                                                *)
(***************************************************************************)
EXTENDS VmsProofs, VmsRefinement

--------------------------------------------------------------------------------
(* Entries and paths; what a copying fork does to the mappings.            *)

\* The word of a path is in its L0 table, now and after the step.
LEMMA EntryWord ==
    ASSUME NEW r, NEW p \in Paths(r)
    PROVE  \E q \in Tree(r), i \in Index :
               /\ q \in Positions /\ Len(q) = 2 /\ Len(p) = 3 /\ p \in Tree(r) /\ p = Extend(q, i)
               /\ EntryAt(r, p) = memory[PageAt(r, q)][i]
               /\ \A s : EntryAt(s, p)' = memory'[PageAt(s, q)'][i]
<1>1. p \in Tree(r) /\ Len(p) = 3 /\ p # <<>>
  BY RootPosition DEF Paths
<1>2. PICK q \in Tree(r), i \in Index :
          /\ p = Extend(q, i) /\ Len(q) < 3
          /\ EntryAt(r, p) = memory[PageAt(r, q)][i]
  BY <1>1, TreeParent
<1>3. q \in Positions
  BY TreeIsPositions
<1>4. Len(p) = Len(q) + 1 /\ Len(q) \in 0 .. 3
  BY <1>2, <1>3, PositionExtends, PositionIsSequence
<1>5. Len(q) = 2
  <2>1. PICK n \in 0 .. 3 : n = Len(q)
    BY <1>4
  <2>2. 3 = n + 1
    BY <1>1, <1>4, <2>1
  <2>3. n = 2
    BY <2>2
  <2> QED BY <2>1, <2>3
<1>6. \A s : EntryAt(s, p)' = memory'[PageAt(s, q)'][i]
  <2>1. \A s : EntryAt(s, Extend(q, i))' = memory'[PageAt(s, q)'][i]
    BY <1>2, <1>3, TreeLaws DEF TreeFacts
  <2> QED BY <1>2, <2>1
<1> QED BY <1>1, <1>2, <1>3, <1>5, <1>6

\* The mappings of a space are left as they are.
Stays(r) ==
    /\ Paths(r)' = Paths(r)
    /\ \A p \in Paths(r) : PageAt(r, p)' = PageAt(r, p) /\ EntryAt(r, p)' = EntryAt(r, p)

\* The paths of a space are the positions of its data pages.
LEMMA PathsOfTree ==
    /\ \A r : \A p : p \in Paths(r) <=> p \in Tree(r) /\ Len(p) = 3
    /\ \A r : \A p : p \in Paths(r)' <=> p \in Tree(r)' /\ Len(p) = 3
BY DEF Paths

\* A space whose L0 tables stay keeps its paths and entries.
LEMMA SpaceStays ==
    ASSUME NEW r, Tree(r)' = Tree(r), \A p \in Tree(r) : PageAt(r, p)' = PageAt(r, p),
           \A q \in Tree(r) : \A i \in Index :
               Len(q) = 2 => memory'[PageAt(r, q)][i] = memory[PageAt(r, q)][i]
    PROVE  Stays(r)
<1>1. Paths(r)' = Paths(r)
  BY PathsOfTree
<1>2. ASSUME NEW p \in Paths(r)
      PROVE  PageAt(r, p)' = PageAt(r, p) /\ EntryAt(r, p)' = EntryAt(r, p)
  <2>1. PICK q \in Tree(r), i \in Index :
            /\ q \in Positions /\ Len(q) = 2 /\ p \in Tree(r)
            /\ EntryAt(r, p) = memory[PageAt(r, q)][i]
            /\ \A s : EntryAt(s, p)' = memory'[PageAt(s, q)'][i]
    BY EntryWord
  <2>2. PageAt(r, q)' = PageAt(r, q)
    OBVIOUS
  <2>3. EntryAt(r, p)' = memory'[PageAt(r, q)'][i]
    BY <2>1
  <2>4. EntryAt(r, p)' = memory'[PageAt(r, q)][i]
    BY <2>2, <2>3
  <2>5. memory'[PageAt(r, q)][i] = memory[PageAt(r, q)][i]
    BY <2>1
  <2> QED BY <2>1, <2>4, <2>5
<1> QED BY <1>1, <1>2 DEF Stays

\* So does every space when the memory stays.
LEMMA StandingMappings ==
    ASSUME UNCHANGED memory
    PROVE  \A r : Stays(r)
<1>1. ASSUME NEW r PROVE Stays(r)
  <2>1. Tree(r)' = Tree(r) /\ \A p \in Tree(r) : PageAt(r, p)' = PageAt(r, p)
    BY UnchangedTrees
  <2> QED BY <2>1, SpaceStays
<1> QED BY <1>1

\* What the copying fork does to the mappings: it gives every page of the current
\* space a copy in a new space.
ForksByCopy(cur, n, new) ==
    /\ n = new[<<>>] /\ n \in Page /\ n \notin roots /\ roots' = roots \cup {n}
    /\ UNCHANGED <<ref_num, root_page_table>>
    /\ \A r \in roots : /\ Stays(r) /\ Tree(r)' = Tree(r)
                         /\ \A p \in Tree(r) : PageAt(r, p)' = PageAt(r, p)
    /\ \A i \in Page : allocated'[i] <=> allocated[i] \/ \E p \in Tree(cur) : i = new[p]
    /\ Tree(n)' = Tree(cur)
    /\ \A p \in Tree(cur) : PageAt(n, p)' = new[p] /\ new[p] \in Page /\ ~allocated[new[p]]
    /\ \A p \in Paths(cur) : /\ EntryAt(n, p)'.write = EntryAt(cur, p).write
                              /\ EntryAt(n, p)'.custom = EntryAt(cur, p).custom
                              /\ EntryAt(n, p)'.read = EntryAt(cur, p).read
                              /\ memory'[new[p]] = memory[PageAt(cur, p)]
    /\ \A r \in roots : \A p \in Tree(r) : memory'[PageAt(r, p)] = memory[PageAt(r, p)]

\* vms_fork_copy refuses, or copies.
LEMMA ForkCopyDoes ==
    ASSUME SpaceInv, vms_fork_copy
    PROVE  \/ Exits("refused")
           \/ \E cur \in roots : \E n, new : cur = root_page_table /\ ForksByCopy(cur, n, new)
<1> SUFFICES ASSUME ~Exits("refused")
    PROVE  \E cur \in roots : \E n, new : cur = root_page_table /\ ForksByCopy(cur, n, new)
  OBVIOUS
<1>1. PICK cur \in roots : cur = root_page_table
  BY DEF SpaceInv, Types
<1>2. PICK new, n : new = NewPages(Tree(cur)) /\ n = new[<<>>]
  OBVIOUS
<1>3. /\ Cardinality(DOMAIN new) <= Cardinality(Free)
      /\ Allocate(NewPageSet(new))
      /\ memory' = CopiedMemory(new)
      /\ roots' = roots \cup {new[<<>>]}
      /\ UNCHANGED <<ref_num, root_page_table>>
  BY <1>1, <1>2 DEF vms_fork_copy
<1>4. Cardinality(Tree(cur)) <= Cardinality(Free)
  BY <1>2, <1>3 DEF NewPages
<1>5. ForkedAs(cur, NewPageSet(new), new)
  BY <1>1, <1>2, <1>3, <1>4, CopyIsFork
<1>6. Tree(cur) \subseteq Positions /\ <<>> \in Tree(cur)
  BY TreeIsPositions, TreeLaws DEF TreeFacts
<1>7. /\ \A p \in Tree(cur) : new[p] \in NewPageSet(new) /\ new[p] \in Page
      /\ \A page \in NewPageSet(new) : \E p \in Tree(cur) : page = new[p]
      /\ NewPageSet(new) \subseteq Free
  BY <1>2, <1>4, <1>6, NewOnes
<1>8. \A p \in Tree(cur) : ~allocated[new[p]]
  BY <1>7 DEF Free
<1>9. n \in Page /\ n \notin roots /\ roots' = roots \cup {n}
  BY <1>2, <1>3, <1>6, <1>7, RootsAreHeld
<1>10. \A i \in Page : allocated'[i] <=> allocated[i] \/ \E p \in Tree(cur) : i = new[p]
  <2>1. \A i \in Page : allocated'[i] <=> allocated[i] \/ i \in NewPageSet(new)
    BY <1>3, <1>7, AllocateCounts DEF SpaceInv
  <2> QED BY <1>7, <2>1
<1>11. \A r \in roots : Tree(r)' = Tree(r) /\ \A p \in Tree(r) : PageAt(r, p)' = PageAt(r, p)
  BY <1>5 DEF ForkedAs
<1>12. \A page \in Page : page \notin NewPageSet(new) => memory'[page] = memory[page]
  BY <1>2, <1>3, <1>4, <1>6, CopiedWords
<1>13. \A r \in roots : \A p \in Tree(r) : memory'[PageAt(r, p)] = memory[PageAt(r, p)]
  BY <1>7, <1>12, HeldPlaces
<1>14. ASSUME NEW r \in roots PROVE Stays(r)
  <2>1. \A q \in Tree(r) : memory'[PageAt(r, q)] = memory[PageAt(r, q)]
    BY <1>13
  <2> QED BY <1>11, <2>1, SpaceStays
<1>15. Tree(n)' = Tree(cur) /\ \A p \in Tree(cur) : PageAt(n, p)' = new[p]
  BY <1>1, <1>2, <1>3, <1>4, CopyLeads
<1>16. ASSUME NEW p \in Paths(cur)
       PROVE  /\ EntryAt(n, p)'.write = EntryAt(cur, p).write
              /\ EntryAt(n, p)'.custom = EntryAt(cur, p).custom
              /\ EntryAt(n, p)'.read = EntryAt(cur, p).read
  <2>1. PICK q \in Tree(cur), i \in Index :
            /\ q \in Positions /\ Len(q) = 2 /\ p \in Tree(cur) /\ p = Extend(q, i)
            /\ EntryAt(cur, p) = memory[PageAt(cur, q)][i]
            /\ \A s : EntryAt(s, p)' = memory'[PageAt(s, q)'][i]
    BY EntryWord
  <2>2. PICK src : src = memory[PageAt(cur, q)]
    OBVIOUS
  <2>3. memory'[new[q]] = [j \in Index |-> IF src[j].valid
                                           THEN entry_copy(src[j], new[Extend(q, j)])
                                           ELSE ZeroWord]
    <3>1. CopiedMemory(new)[new[q]]
            = IF Len(q) = 3 THEN src
              ELSE [j \in Index |-> IF src[j].valid
                                    THEN entry_copy(src[j], new[Extend(q, j)])
                                    ELSE ZeroWord]
      BY <1>1, <1>2, <1>4, <1>6, <2>2, CopiedWords
    <3> QED BY <1>3, <2>1, <3>1
  <2>4. src[i].valid /\ src[i] \in Words
    <3>1. Len(q) < 3
      BY <2>1
    <3>2. memory[PageAt(cur, q)][i].valid
      BY <2>1, <3>1, TreeLaws DEF TreeFacts
    <3>3. PageAt(cur, q) \in Page
      BY HeldPlaces
    <3> QED BY <2>2, <3>2, <3>3, WordAt DEF SpaceInv
  <2>5. memory'[new[q]][i] = entry_copy(src[i], new[p])
    BY <2>1, <2>3, <2>4
  <2>6. EntryAt(n, p)' = memory'[new[q]][i]
    BY <1>15, <2>1
  <2>7. new[p] \in Page
    BY <1>7, <2>1
  <2>8. PICK w, e : w \in Words /\ w = src[i] /\ e = entry_copy(w, new[p])
    BY <2>4
  <2>9. e.write = w.write /\ e.custom = w.custom /\ e.read = w.read
    BY <2>7, <2>8, EntryCopy
  <2> QED BY <2>1, <2>2, <2>5, <2>6, <2>8, <2>9
<1>17. ASSUME NEW p \in Paths(cur) PROVE memory'[new[p]] = memory[PageAt(cur, p)]
  <2>1. PICK src : src = memory[PageAt(cur, p)]
    OBVIOUS
  <2>2. p \in Tree(cur)
    BY PathsOfTree
  <2>3. Len(p) = 3
    BY PathsOfTree
  <2>4. CopiedMemory(new)[new[p]]
          = IF Len(p) = 3 THEN src
            ELSE [j \in Index |-> IF src[j].valid
                                  THEN entry_copy(src[j], new[Extend(p, j)])
                                  ELSE ZeroWord]
    BY <1>1, <1>2, <1>4, <1>6, <2>1, <2>2, CopiedWords
  <2> QED BY <1>3, <2>1, <2>4, <2>3
<1>18. ForksByCopy(cur, n, new)
  BY <1>2, <1>3, <1>7, <1>8, <1>9, <1>10, <1>11, <1>14, <1>15, <1>16, <1>13, <1>17 DEF ForksByCopy
<1> QED BY <1>1, <1>18

--------------------------------------------------------------------------------
(* What the fork on write and a discard do to the mappings.                *)

\* What the sharing fork does to the mappings: each data page of the current space is
\* mapped in a new space too, and no entry of the two can be written.
ForksByShare(cur, n) ==
    /\ n \in Page /\ n \notin roots /\ roots' = roots \cup {n}
    /\ ref_num' = CountedShares(cur) /\ UNCHANGED root_page_table
    /\ \A r \in roots : Tree(r)' = Tree(r) /\ \A p \in Tree(r) : PageAt(r, p)' = PageAt(r, p)
    /\ \A r \in roots \ {cur} : Stays(r)
    /\ Tree(n)' = Tree(cur)
    /\ \A p \in Paths(cur) :
           /\ PageAt(n, p)' = PageAt(cur, p)
           /\ EntryAt(cur, p)' = Protect(EntryAt(cur, p))
           /\ EntryAt(n, p)' = Protect(EntryAt(cur, p))
    /\ \A r \in roots : \A p \in Paths(r) : memory'[PageAt(r, p)] = memory[PageAt(r, p)]

\* vms_fork_copy_on_write refuses, or shares.
LEMMA ForkOnWriteDoes ==
    ASSUME SpaceInv, vms_fork_copy_on_write
    PROVE  \/ Exits("refused")
           \/ \E cur \in roots : \E n : cur = root_page_table /\ ForksByShare(cur, n)
<1> SUFFICES ASSUME ~Exits("refused")
    PROVE  \E cur \in roots : \E n : cur = root_page_table /\ ForksByShare(cur, n)
  OBVIOUS
<1>1. PICK cur \in roots : cur = root_page_table
  BY DEF SpaceInv, Types
<1>2. PICK S, new, n : S = TablePositions(cur) /\ new = NewPages(S) /\ n = new[<<>>]
  OBVIOUS
<1>3. /\ Cardinality(DOMAIN new) <= Cardinality(Free)
      /\ Allocate(NewPageSet(new))
      /\ memory' = SharedMemory(new)
      /\ ref_num' = CountedShares(cur)
      /\ roots' = roots \cup {new[<<>>]}
      /\ UNCHANGED <<process, root_page_table>>
  BY <1>1, <1>2 DEF vms_fork_copy_on_write
<1>4. Cardinality(S) <= Cardinality(Free)
  BY <1>2, <1>3 DEF NewPages
<1>5. PICK f : f = SharedPlaces(cur, new)
  OBVIOUS
<1>6. ForkedAs(cur, NewPageSet(new), f)
  BY <1>1, <1>2, <1>3, <1>4, <1>5, ShareIsFork
<1>7. <<>> \in S /\ S \subseteq Tree(cur) /\ \A p \in Tree(cur) : Len(p) = 2 => p \in S
  BY <1>2, TablesAreLevels, RootPosition, TreeLaws DEF TreeFacts
<1>8. /\ \A page \in L0Tables(cur) : page \in Page /\ page \notin NewPageSet(new)
      /\ \A pos \in S : new[pos] \in Free /\ new[pos] \in Page
      /\ NewPageSet(new) \subseteq Free
  BY <1>1, <1>2, <1>4, <1>6, SharedTables DEF ForkedAs
<1>9. n \in Page /\ n \notin roots /\ roots' = roots \cup {n}
  BY <1>2, <1>3, <1>7, <1>8, RootsAreHeld
<1>10. \A r \in roots : Tree(r)' = Tree(r) /\ \A p \in Tree(r) : PageAt(r, p)' = PageAt(r, p)
  BY <1>6 DEF ForkedAs
<1>11. ASSUME NEW page \in Page, page \notin NewPageSet(new), page \notin L0Tables(cur)
       PROVE  memory'[page] = memory[page]
  BY <1>1, <1>2, <1>3, <1>4, <1>11, SharedPages
<1>12. ASSUME NEW page \in L0Tables(cur), NEW i \in Index
       PROVE  memory'[page][i] = Protect(memory[page][i])
  <2>1. memory'[page] = [j \in Index |-> Protect(memory[page][j])]
    BY <1>1, <1>2, <1>3, <1>4, SharedPages
  <2> QED BY <2>1
<1>13. ASSUME NEW r \in roots \ {cur} PROVE Stays(r)
  <2>1. ASSUME NEW q \in Tree(r), NEW i \in Index, Len(q) = 2
        PROVE  memory'[PageAt(r, q)][i] = memory[PageAt(r, q)][i]
    <3>1. PICK page \in Page : page = PageAt(r, q) /\ page \notin Free
      BY HeldPlaces
    <3>2. ASSUME page \in L0Tables(cur) PROVE FALSE
      <4>1. PICK p \in Tree(cur) : Len(p) = 2 /\ page = PageAt(cur, p)
        BY <3>2 DEF L0Tables
      <4>2. q = p /\ (r = cur \/ Len(q) = 3)
        <5>1. PageAt(r, q) = PageAt(cur, p) /\ r \in roots
          BY <3>1, <4>1
        <5> QED BY <4>1, <5>1 DEF SpaceInv, Apart
      <4> QED BY <2>1, <4>2
    <3>3. memory'[page] = memory[page]
      BY <1>8, <1>11, <3>1, <3>2
    <3> QED BY <3>1, <3>3
  <2> QED BY <1>10, <2>1, SpaceStays
<1>14. /\ Tree(n)' = Tree(cur)
       /\ \A p \in Tree(cur) : PageAt(n, p)' = f[p]
  BY <1>1, <1>2, <1>3, <1>4, <1>5, ShareLeads
<1>15. \A p \in Tree(cur) : f[p] = IF Len(p) = 3 THEN PageAt(cur, p) ELSE new[p]
  BY <1>5 DEF SharedPlaces
<1>16. ASSUME NEW p \in Paths(cur)
       PROVE  /\ PageAt(n, p)' = PageAt(cur, p)
              /\ EntryAt(cur, p)' = Protect(EntryAt(cur, p))
              /\ EntryAt(n, p)' = Protect(EntryAt(cur, p))
  <2>1. PICK q \in Tree(cur), i \in Index :
            /\ q \in Positions /\ Len(q) = 2 /\ Len(p) = 3 /\ p \in Tree(cur) /\ p = Extend(q, i)
            /\ EntryAt(cur, p) = memory[PageAt(cur, q)][i]
            /\ \A s : EntryAt(s, p)' = memory'[PageAt(s, q)'][i]
    BY EntryWord
  <2>2. PageAt(n, p)' = PageAt(cur, p)
    BY <1>14, <1>15, <2>1
  <2>3. PICK page \in Page, word \in Words : page = PageAt(cur, q) /\ word = memory[page][i]
    BY HeldPlaces, WordAt DEF SpaceInv
  <2>4. word.valid
    <3>1. Len(q) < 3
      BY <2>1
    <3> QED BY <2>1, <2>3, <3>1, TreeLaws DEF TreeFacts
  <2>5. EntryAt(cur, p)' = Protect(word)
    <3>1. page \in L0Tables(cur)
      BY <2>1, <2>3 DEF L0Tables
    <3>2. memory'[page][i] = Protect(memory[page][i])
      BY <1>12, <3>1
    <3>3. EntryAt(cur, p)' = memory'[page][i]
      BY <1>10, <2>1, <2>3
    <3> QED BY <2>3, <3>2, <3>3
  <2>6. EntryAt(n, p)' = Protect(word)
    <3>1. PageAt(n, q)' = new[q]
      BY <1>14, <1>15, <2>1
    <3>2. EntryAt(n, p)' = memory'[new[q]][i]
      BY <2>1, <3>1
    <3>3. SharedMemory(new)[new[q]][i]
             = IF ~word.valid THEN ZeroWord
               ELSE IF Len(q) = 2 THEN Protect(entry_copy(word, word.ppn))
               ELSE entry_copy(word, new[Extend(q, i)])
      <4>1. q \in TablePositions(cur)
        BY <1>2, <1>7, <2>1
      <4>2. word = memory[PageAt(cur, q)][i]
        BY <2>3
      <4> QED BY <1>1, <1>2, <1>4, <4>1, <4>2, SharedWord
    <3>4. entry_copy(word, word.ppn) = word
      BY ProtectedWord
    <3>5. memory'[new[q]][i] = Protect(word)
      BY <1>3, <2>1, <2>4, <3>3, <3>4
    <3> QED BY <3>2, <3>5
  <2> QED BY <2>1, <2>2, <2>3, <2>5, <2>6
<1>17. ASSUME NEW r \in roots, NEW q \in Paths(r)
       PROVE  memory'[PageAt(r, q)] = memory[PageAt(r, q)]
  <2>1. q \in Tree(r) /\ Len(q) = 3
    BY PathsOfTree
  <2>2. PICK page \in Page : page = PageAt(r, q) /\ page \notin Free
    BY <2>1, HeldPlaces
  <2>3. ASSUME page \in L0Tables(cur) PROVE FALSE
    <3>1. PICK p \in Tree(cur) : Len(p) = 2 /\ page = PageAt(cur, p)
      BY <2>3 DEF L0Tables
    <3>2. q = p
      <4>1. PageAt(r, q) = PageAt(cur, p) /\ r \in roots
        BY <2>2, <3>1
      <4> QED BY <2>1, <3>1, <4>1 DEF SpaceInv, Apart
    <3> QED BY <2>1, <3>1, <3>2
  <2>4. memory'[page] = memory[page]
    BY <1>8, <1>11, <2>2, <2>3
  <2> QED BY <2>2, <2>4
<1>18. ForksByShare(cur, n)
  BY <1>3, <1>9, <1>10, <1>13, <1>14, <1>16, <1>17 DEF ForksByShare
<1> QED BY <1>1, <1>18

\* What a discard does to the mappings: the space goes, and what only it mapped.
Discards(root) ==
    /\ root \in roots /\ root # root_page_table /\ roots' = roots \ {root}
    /\ UNCHANGED <<ref_num, root_page_table>>
    /\ \A i \in Page : allocated'[i] <=>
           allocated[i] /\ (i \in PagesOf(root) => \E r \in roots \ {root} : i \in PagesOf(r))
    /\ \A r \in roots \ {root} : /\ Stays(r) /\ Tree(r)' = Tree(r)
                                 /\ \A p \in Tree(r) : PageAt(r, p)' = PageAt(r, p)
                                 /\ \A p \in Tree(r) : memory'[PageAt(r, p)] = memory[PageAt(r, p)]

\* A discard leaves the other spaces as they are.
LEMMA DiscardDoes ==
    ASSUME SpaceInv, NEW root, Discard(root)
    PROVE  Discards(root)
<1> DEFINE others == roots \ {root}
           freed == PagesOf(root) \ UNION {PagesOf(r) : r \in others}
<1>1. /\ root \in roots \ {root_page_table}
      /\ allocated' = [i \in Page |-> allocated[i] /\ i \notin freed]
      /\ memory' = [i \in Page |-> IF i \in freed THEN [j \in Index |-> ZeroWord] ELSE memory[i]]
      /\ roots' = others
      /\ UNCHANGED <<ref_num, root_page_table>>
  BY DEF Discard
<1>2. \A i : i \in freed <=> i \in PagesOf(root) /\ ~\E r \in others : i \in PagesOf(r)
  OBVIOUS
<1> HIDE DEF freed
<1>3. \A i \in Page : allocated'[i] <=>
          allocated[i] /\ (i \in PagesOf(root) => \E r \in others : i \in PagesOf(r))
  BY <1>1, <1>2
<1>4. ASSUME NEW r \in others, NEW q \in Tree(r)
      PROVE  memory'[PageAt(r, q)] = memory[PageAt(r, q)]
  <2>1. PageAt(r, q) \in PagesOf(r)
    BY DEF PagesOf
  <2>2. PageAt(r, q) \notin freed /\ PageAt(r, q) \in Page
    BY <1>2, <2>1, HeldPlaces
  <2> QED BY <1>1, <2>2
<1>5. ASSUME NEW r \in others
      PROVE  /\ Stays(r) /\ Tree(r)' = Tree(r)
             /\ \A p \in Tree(r) : PageAt(r, p)' = PageAt(r, p)
  <2>1. \A p \in Tree(r) : \A i \in Index : Len(p) < 3 =>
            LET page == PageAt(r, p)
            IN  /\ memory'[page][i].valid <=> memory[page][i].valid
                /\ memory[page][i].valid => memory'[page][i].ppn = memory[page][i].ppn
    BY <1>4
  <2>2. Tree(r)' = Tree(r) /\ \A p \in Tree(r) : PageAt(r, p)' = PageAt(r, p)
    BY <2>1, SameTree
  <2>3. \A q \in Tree(r) : \A i \in Index :
            Len(q) = 2 => memory'[PageAt(r, q)][i] = memory[PageAt(r, q)][i]
    BY <1>4
  <2> QED BY <2>2, <2>3, SpaceStays
<1> QED BY <1>1, <1>3, <1>4, <1>5 DEF Discards

--------------------------------------------------------------------------------
(* What a write does to the mappings.                                      *)

\* The flags of a mapping after the step.
FlagsStay(r, p) == /\ EntryAt(r, p)'.write = EntryAt(r, p).write
                   /\ EntryAt(r, p)'.custom = EntryAt(r, p).custom
Unmarked(r, p) == ~EntryAt(r, p)'.custom

\* What a write in place does to the mappings: it may take the mark off its own, when
\* the count says that nobody shares the page.
WritesInPlace(cur, path) ==
    /\ path \in Paths(cur)
    /\ UNCHANGED <<allocated, ref_num, roots, root_page_table>>
    /\ \A r \in roots : Tree(r)' = Tree(r) /\ \A p \in Tree(r) : PageAt(r, p)' = PageAt(r, p)
    /\ \A r \in roots : \A p \in Paths(r) :
           \/ FlagsStay(r, p)
           \/ r = cur /\ p = path /\ ref_num[PageAt(cur, path)] = 1 /\ Unmarked(r, p)

\* What a write to a copy does: its own mapping moves to a free page.
WritesToCopy(cur, path, src, dst) ==
    /\ path \in Paths(cur) /\ src = PageAt(cur, path) /\ EntryAt(cur, path).custom
    /\ UNCHANGED <<roots, root_page_table>>
    /\ dst \in Page /\ ~allocated[dst] /\ src \in Page /\ src # dst /\ ref_num[src] >= 2
    /\ \A p \in Page : ref_num'[p] = IF p = src THEN ref_num[p] - 1
                                     ELSE IF p = dst THEN ref_num[p] + 1 ELSE ref_num[p]
    /\ \A r \in roots : /\ Tree(r)' = Tree(r)
                        /\ \A p \in Tree(r) : PageAt(r, p)' = CopyPlace(cur, path, dst, r, p)
    /\ \A r \in roots : \A p \in Paths(r) :
           FlagsStay(r, p) \/ (r = cur /\ p = path /\ Unmarked(r, p))

\* The mapping of a path is in the L0 table at its slot, and in no other.
LEMMA OwnEntry ==
    ASSUME SpaceInv, NEW path \in VirtualAddresses, ValidAt(root_page_table, path),
           NEW cur, cur = root_page_table, NEW l0, l0 = L0Of(path), NEW k, k = Slot(path)
    PROVE  /\ cur \in roots /\ path \in Paths(cur) /\ l0 \in Page /\ k \in Index
           /\ PageAt(cur, path) = memory[l0][k].ppn /\ EntryAt(cur, path) = memory[l0][k]
           /\ \A r \in roots : \A q \in Tree(r) : \A i \in Index :
                  PageAt(r, q) = l0 /\ i = k /\ Len(q) = 2 => r = cur /\ Extend(q, i) = path
<1>1. /\ cur \in roots /\ path \in Tree(cur) /\ Parent(path) \in Tree(cur)
      /\ l0 = PageAt(cur, Parent(path)) /\ l0 \in Page
      /\ PageAt(cur, path) = memory[l0][k].ppn /\ EntryAt(cur, path) = memory[l0][k]
  BY MappedEntry DEF Slot
<1>2. /\ Len(path) = 3 /\ k \in Index /\ path = Extend(Parent(path), k)
  BY PathSplits DEF Slot
<1>3. ASSUME NEW r \in roots, NEW q \in Tree(r), PageAt(r, q) = l0, Len(q) = 2
      PROVE  r = cur /\ q = Parent(path)
  <2>1. PageAt(r, q) = PageAt(cur, Parent(path))
    BY <1>1, <1>3
  <2>2. q = Parent(path) /\ (r = cur \/ Len(q) = 3)
    BY <1>1, <2>1 DEF SpaceInv, Apart
  <2> QED BY <1>3, <2>2
<1>4. path \in Paths(cur)
  BY <1>1, <1>2, PathsOfTree
<1>5. ASSUME NEW r \in roots, NEW q \in Tree(r), NEW i \in Index,
             PageAt(r, q) = l0, i = k, Len(q) = 2
      PROVE  r = cur /\ Extend(q, i) = path
  <2>1. r = cur /\ q = Parent(path)
    BY <1>3, <1>5
  <2>2. Extend(q, i) = path
    BY <1>2, <1>5, <2>1, Zenon
  <2> QED BY <2>1, <2>2
<1> QED BY <1>1, <1>2, <1>4, <1>5

\* A write in place.
LEMMA InPlaceDoes ==
    ASSUME SpaceInv, NEW path \in VirtualAddresses, ValidAt(root_page_table, path),
           NEW cur, cur = root_page_table,
           NEW l0, l0 = L0Of(path), NEW k, k = Slot(path), NEW word, word = memory[l0][k],
           NEW src, src = word.ppn, NEW value,
           InPlace(l0, k, word, src, value), UNCHANGED <<root_page_table, roots>>
    PROVE  WritesInPlace(cur, path)
<1>1. /\ cur \in roots /\ path \in Paths(cur) /\ l0 \in Page /\ k \in Index
      /\ PageAt(cur, path) = src
      /\ \A r \in roots : \A q \in Tree(r) : \A i \in Index :
             PageAt(r, q) = l0 /\ i = k /\ Len(q) = 2 => r = cur /\ Extend(q, i) = path
  BY OwnEntry
<1>2. \A r \in roots : Tree(r)' = Tree(r) /\ \A p \in Tree(r) : PageAt(r, p)' = PageAt(r, p)
  BY InPlaceTrees
<1>3. ASSUME NEW r \in roots, NEW p \in Paths(r)
      PROVE  \/ FlagsStay(r, p)
             \/ r = cur /\ p = path /\ ref_num[PageAt(cur, path)] = 1 /\ Unmarked(r, p)
  <2>1. PICK q \in Tree(r), i \in Index :
            /\ q \in Positions /\ Len(q) = 2 /\ p = Extend(q, i)
            /\ EntryAt(r, p) = memory[PageAt(r, q)][i]
            /\ \A s : EntryAt(s, p)' = memory'[PageAt(s, q)'][i]
    BY EntryWord
  <2>2. PICK page \in Page : page = PageAt(r, q)
    BY HeldPlaces
  <2>3. EntryAt(r, p) = memory[page][i] /\ EntryAt(r, p)' = memory'[page][i]
    BY <1>2, <2>1, <2>2
  <2>4. \/ /\ memory'[page][i].write = memory[page][i].write
           /\ memory'[page][i].custom = memory[page][i].custom
        \/ /\ page = l0 /\ i = k /\ ref_num[src] = 1
           /\ ~memory'[page][i].custom
    BY DEF InPlace
  <2>5. page = l0 /\ i = k => r = cur /\ p = path
    BY <1>1, <2>1, <2>2
  <2> QED BY <1>1, <2>3, <2>4, <2>5 DEF FlagsStay, Unmarked
<1>4. UNCHANGED <<allocated, ref_num>>
  BY DEF InPlace
<1> QED BY <1>1, <1>2, <1>3, <1>4 DEF WritesInPlace

\* A write to a copy.
LEMMA ToCopyDoes ==
    ASSUME SpaceInv, NEW path \in VirtualAddresses, ValidAt(root_page_table, path),
           NEW cur, cur = root_page_table,
           NEW l0, l0 = L0Of(path), NEW k, k = Slot(path), NEW word, word = memory[l0][k],
           NEW src, src = word.ppn, NEW dst \in Page, NEW value,
           ToCopy(l0, k, word, src, dst, value), UNCHANGED <<root_page_table, roots>>
    PROVE  WritesToCopy(cur, path, src, dst)
<1>1. /\ cur \in roots /\ path \in Paths(cur) /\ l0 \in Page /\ k \in Index
      /\ PageAt(cur, path) = src /\ EntryAt(cur, path) = word
      /\ \A r \in roots : \A q \in Tree(r) : \A i \in Index :
             PageAt(r, q) = l0 /\ i = k /\ Len(q) = 2 => r = cur /\ Extend(q, i) = path
  BY OwnEntry
<1>2. \A r \in roots : /\ Tree(r)' = Tree(r)
                       /\ \A p \in Tree(r) : PageAt(r, p)' = CopyPlace(cur, path, dst, r, p)
  BY ToCopyTrees
<1>3. /\ dst \in Free /\ ~allocated[dst] /\ word.custom /\ ref_num[src] >= 2
      /\ ref_num' = Recounted(src, dst)
  BY DEF ToCopy, Free
<1>4. path \in Tree(cur) /\ Len(path) = 3
  BY <1>1, PathsOfTree
<1>5. src \in Page /\ src # dst
  BY <1>1, <1>3, <1>4, HeldPlaces
<1>6. \A p \in Page : ref_num'[p] = IF p = src THEN ref_num[p] - 1
                                    ELSE IF p = dst THEN ref_num[p] + 1 ELSE ref_num[p]
  BY <1>3, <1>5, RecountedType
<1>7. ASSUME NEW r \in roots, NEW p \in Paths(r)
      PROVE  FlagsStay(r, p) \/ (r = cur /\ p = path /\ Unmarked(r, p))
  <2>1. PICK q \in Tree(r), i \in Index :
            /\ q \in Positions /\ Len(q) = 2 /\ p = Extend(q, i)
            /\ EntryAt(r, p) = memory[PageAt(r, q)][i]
            /\ \A s : EntryAt(s, p)' = memory'[PageAt(s, q)'][i]
    BY EntryWord
  <2>2. PICK page \in Page : page = PageAt(r, q) /\ page \notin Free
    BY HeldPlaces
  <2>3. PageAt(r, q)' = page
    <3>1. q # path
      BY <1>4, <2>1
    <3> QED BY <1>2, <2>2, <3>1 DEF CopyPlace
  <2>4. EntryAt(r, p) = memory[page][i] /\ EntryAt(r, p)' = memory'[page][i]
    BY <2>1, <2>2, <2>3
  <2>5. page # dst
    BY <1>3, <2>2
  <2>6. CASE page = l0 /\ i = k
    <3>1. ~memory'[page][i].custom
      BY <2>5, <2>6 DEF ToCopy
    <3>2. r = cur /\ p = path
      BY <1>1, <2>1, <2>2, <2>6
    <3> QED BY <2>4, <3>1, <3>2 DEF Unmarked
  <2>7. CASE ~(page = l0 /\ i = k)
    <3>1. /\ memory'[page][i].write = memory[page][i].write
          /\ memory'[page][i].custom = memory[page][i].custom
      BY <2>5, <2>7 DEF ToCopy
    <3> QED BY <2>4, <3>1 DEF FlagsStay
  <2> QED BY <2>6, <2>7
<1> QED BY <1>1, <1>2, <1>3, <1>5, <1>6, <1>7 DEF WritesToCopy

\* vms_write fails, writes in place or writes to a copy.
LEMMA WriteMoves ==
    ASSUME SpaceInv, NEW path \in VirtualAddresses, NEW value \in Values,
           vms_write(path, value), NEW cur, cur = root_page_table
    PROVE  \/ Fails(path, "write")
           \/ WritesInPlace(cur, path)
           \/ \E src, dst : WritesToCopy(cur, path, src, dst)
<1>1. PICK l0, i, word, src : /\ l0 = L0Of(path) /\ i = path[3]
                              /\ word = memory[l0][i] /\ src = word.ppn
  OBVIOUS
<1>2. i = Slot(path)
  BY <1>1 DEF Slot
<1>3. CASE Fails(path, "write")
  BY <1>3
<1>4. CASE ~Fails(path, "write")
  <2>1. /\ ValidAt(root_page_table, path)
        /\ UNCHANGED <<process, root_page_table, roots>>
        /\ \/ InPlace(l0, i, word, src, value)
           \/ \E dst \in Page : ToCopy(l0, i, word, src, dst, value)
    BY <1>1, <1>4, WriteDoes
  <2>2. CASE InPlace(l0, i, word, src, value)
    <3>1. WritesInPlace(cur, path)
      BY <1>1, <1>2, <2>1, <2>2, InPlaceDoes
    <3> QED BY <3>1
  <2>3. CASE \E dst \in Page : ToCopy(l0, i, word, src, dst, value)
    <3>1. PICK dst \in Page : ToCopy(l0, i, word, src, dst, value)
      BY <2>3
    <3>2. WritesToCopy(cur, path, src, dst)
      BY <1>1, <1>2, <2>1, <3>1, ToCopyDoes
    <3> QED BY <3>2
  <2> QED BY <2>1, <2>2, <2>3
<1> QED BY <1>3, <1>4

--------------------------------------------------------------------------------
(* Every step, as what it does to the mappings; the sharers of a page.     *)

\* Nothing happens to the mappings.
Stands == /\ UNCHANGED <<allocated, ref_num, roots>>
          /\ \A r : /\ Stays(r) /\ Tree(r)' = Tree(r)
                    /\ \A p \in Tree(r) : PageAt(r, p)' = PageAt(r, p)

\* When the memory stays, so do the mappings.
LEMMA StandsStill ==
    ASSUME UNCHANGED <<allocated, ref_num, roots, memory>>
    PROVE  Stands
BY StandingMappings, UnchangedTrees DEF Stands

\* What any step does to the mappings.
Moves ==
    \/ Stands
    \/ "copy" \in client /\ \E cur \in roots : \E n, new : ForksByCopy(cur, n, new)
    \/ "cow" \in client /\ \E cur \in roots : \E n : ForksByShare(cur, n)
    \/ \E cur \in roots : \E path : WritesInPlace(cur, path)
    \/ \E cur \in roots : \E path, src, dst : WritesToCopy(cur, path, src, dst)
    \/ \E root : Discards(root)

\* Every step is one of them, and the client stays the same.
LEMMA StepMoves ==
    ASSUME SpaceInv, [Next]_vars
    PROVE  UNCHANGED client /\ Moves
<1>1. PICK cur \in roots : cur = root_page_table
  BY DEF SpaceInv, Types
<1>2. ASSUME NEW status, Exits(status) PROVE Moves
  <2>1. UNCHANGED <<allocated, ref_num, roots, memory>>
    BY <1>2 DEF Exits
  <2> QED BY <2>1, StandsStill DEF Moves
<1>3. ASSUME UNCHANGED vars PROVE Moves /\ UNCHANGED client
  <2>1. UNCHANGED <<allocated, ref_num, roots, memory>> /\ UNCHANGED client
    BY <1>3 DEF vars
  <2> QED BY <2>1, StandsStill DEF Moves
<1>4. ASSUME vms_fork_copy PROVE Moves
  <2>1. \/ Exits("refused")
        \/ \E c \in roots : \E n, new : c = root_page_table /\ ForksByCopy(c, n, new)
    BY <1>4, ForkCopyDoes
  <2>2. "copy" \in client
    BY <1>4 DEF vms_fork_copy
  <2> QED BY <1>2, <2>1, <2>2 DEF Moves
<1>5. ASSUME vms_fork_copy_on_write PROVE Moves
  <2>1. \/ Exits("refused")
        \/ \E c \in roots : \E n : c = root_page_table /\ ForksByShare(c, n)
    BY <1>5, ForkOnWriteDoes
  <2>2. "cow" \in client
    BY <1>5 DEF vms_fork_copy_on_write
  <2> QED BY <1>2, <2>1, <2>2 DEF Moves
<1>6. ASSUME NEW path \in VirtualAddresses, vms_read(path) PROVE Moves
  <2>1. Fails(path, "read") \/ UNCHANGED <<allocated, ref_num, roots, memory>>
    BY <1>6, ReadDoes
  <2>2. CASE Fails(path, "read")
    BY <1>2, <2>2, FailsExits
  <2>3. CASE UNCHANGED <<allocated, ref_num, roots, memory>>
    BY <2>3, StandsStill DEF Moves
  <2> QED BY <2>1, <2>2, <2>3
<1>7. ASSUME NEW path \in VirtualAddresses, NEW value \in Values, vms_write(path, value)
      PROVE  Moves
  <2>1. \/ Fails(path, "write")
        \/ WritesInPlace(cur, path)
        \/ \E src, dst : WritesToCopy(cur, path, src, dst)
    BY <1>1, <1>7, WriteMoves
  <2>2. CASE Fails(path, "write")
    BY <1>2, <2>2, FailsExits
  <2> QED BY <2>1, <2>2 DEF Moves
<1>8. ASSUME NEW root, vms_set_root_page_table(root) PROVE Moves
  <2>1. UNCHANGED <<allocated, ref_num, roots, memory>>
    BY <1>8 DEF vms_set_root_page_table
  <2> QED BY <2>1, StandsStill DEF Moves
<1>9. ASSUME NEW root, Discard(root) PROVE Moves
  BY <1>9, DiscardDoes DEF Moves
<1>10. ASSUME VmsEnded PROVE Moves
  BY <1>3, <1>10 DEF VmsEnded
<1>11. CASE Next
  BY <1>4, <1>5, <1>6, <1>7, <1>8, <1>9, <1>10, <1>11 DEF Next
<1> QED BY <1>3, <1>11 DEF Next

--------------------------------------------------------------------------------
\* The spaces that map a data page.
Sharers(page) == {r \in roots : \E p \in Paths(r) : PageAt(r, p) = page}

\* Membership, now and after a step.
LEMMA SharersAre ==
    /\ \A page : \A r :
           r \in Sharers(page) <=> r \in roots /\ \E p \in Paths(r) : PageAt(r, p) = page
    /\ \A page : \A r : r \in Sharers(page)' <=>
           r \in roots' /\ \E p \in Paths(r)' : PageAt(r, p)' = page
BY DEF Sharers

\* A subset of a set of pages is no larger.
LEMMA SmallerSet ==
    ASSUME NEW T, T \subseteq Page, NEW S, S \subseteq T
    PROVE  /\ Cardinality(S) \in Nat /\ Cardinality(T) \in Nat
           /\ Cardinality(S) <= Cardinality(T)
BY SomePagesAreFinite, FS_Subset

\* One page added makes a set larger by at most one.
LEMMA OneMore ==
    ASSUME NEW T, T \subseteq Page, NEW n \in Page, NEW S, S \subseteq T \cup {n}
    PROVE  /\ Cardinality(S) \in Nat /\ Cardinality(T) \in Nat
           /\ Cardinality(S) <= Cardinality(T) + 1
<1>1. IsFiniteSet(T) /\ Cardinality(T) \in Nat /\ Cardinality(T \cup {n}) \in Nat
  BY SomePagesAreFinite
<1>2. Cardinality(T \cup {n}) = Cardinality(T) \/ Cardinality(T \cup {n}) = Cardinality(T) + 1
  <2>1. CASE n \in T
    <3>1. T \cup {n} = T
      BY <2>1
    <3> QED BY <3>1
  <2>2. CASE n \notin T
    BY <1>1, <2>2, FS_AddElement
  <2> QED BY <2>1, <2>2
<1>3. Cardinality(S) <= Cardinality(T \cup {n}) /\ Cardinality(S) \in Nat
  <2>1. T \cup {n} \subseteq Page
    OBVIOUS
  <2> QED BY <2>1, SmallerSet
<1> QED BY <1>1, <1>2, <1>3

\* One page taken out makes it smaller by at least one.
LEMMA OneLess ==
    ASSUME NEW T, T \subseteq Page, NEW n \in T, NEW S, S \subseteq T \ {n}
    PROVE  /\ Cardinality(S) \in Nat /\ Cardinality(T) \in Nat
           /\ Cardinality(S) <= Cardinality(T) - 1
<1>1. IsFiniteSet(T) /\ Cardinality(T) \in Nat /\ Cardinality(T \ {n}) \in Nat
  BY SomePagesAreFinite
<1>2. Cardinality(T \ {n}) = Cardinality(T) - 1
  BY <1>1, FS_RemoveElement
<1>3. Cardinality(S) <= Cardinality(T \ {n}) /\ Cardinality(S) \in Nat
  <2>1. T \ {n} \subseteq Page
    OBVIOUS
  <2> QED BY <2>1, SmallerSet
<1> QED BY <1>1, <1>2, <1>3

\* Part of a singleton has at most one element.
LEMMA AtMostOne ==
    ASSUME NEW n \in Page, NEW S, S \subseteq {n}
    PROVE  Cardinality(S) \in Nat /\ Cardinality(S) <= 1
<1>1. {n} \subseteq Page
  OBVIOUS
<1>2. Cardinality({n}) = 1
  BY FS_Singleton
<1> QED BY <1>1, <1>2, SmallerSet

--------------------------------------------------------------------------------
(* The invariant of sharing.                                               *)

\* What two spaces share, neither can write.
Private ==
    \A r \in roots : \A s \in roots : \A p \in Paths(r) :
        p \in Paths(s) /\ PageAt(s, p) = PageAt(r, p) /\ EntryAt(r, p).write => r = s

\* A page that is shared at all has a count that covers its sharers.
Covered(page) == \/ Cardinality(Sharers(page)) <= 1
                 \/ Cardinality(Sharers(page)) <= ref_num[page]
Counted == \A page \in Page : Covered(page)

\* A mark means that a fork has counted the sharers, unless it was copied.
FullyCounted(page) == Cardinality(Sharers(page)) <= ref_num[page]
Marked ==
    \A r \in roots : \A p \in Paths(r) : EntryAt(r, p).custom =>
        "cow" \in client /\ ("copy" \notin client => FullyCounted(PageAt(r, p)))

\* Without the fork on write nothing is counted, and every allocated page is in a space.
Kept == "cow" \notin client =>
    /\ \A page \in Page : ref_num[page] = 0
    /\ \A page \in Page : allocated[page] => \E r \in roots : page \in PagesOf(r)

SharingInv == Private /\ Counted /\ Marked /\ Kept

--------------------------------------------------------------------------------
\* The data pages of a space are allocated pages.
LEMMA PathsHeld ==
    ASSUME SpaceInv
    PROVE  \A r \in roots : \A p \in Paths(r) :
               /\ PageAt(r, p) \in Page /\ allocated[PageAt(r, p)]
               /\ p \in Tree(r) /\ Len(p) = 3
<1>1. \A r : \A p \in Paths(r) : p \in Tree(r) /\ Len(p) = 3
  BY PathsOfTree
<1> QED BY <1>1, HeldPlaces

\* Sharers are root tables, so pages.
LEMMA SharersArePages ==
    ASSUME SpaceInv, SpaceInv'
    PROVE  \A page : Sharers(page) \subseteq Page /\ Sharers(page)' \subseteq Page
<1>1. roots \subseteq Page /\ roots' \subseteq Page
  BY DEF SpaceInv, Types
<1> QED BY <1>1, SharersAre

\* A page with the same sharers or fewer.
LEMMA SameSharers ==
    ASSUME SpaceInv, SpaceInv', NEW page, Sharers(page)' \subseteq Sharers(page)
    PROVE  /\ Cardinality(Sharers(page)) \in Nat /\ Cardinality(Sharers(page)') \in Nat
           /\ Cardinality(Sharers(page)') <= Cardinality(Sharers(page))
BY SharersArePages, SmallerSet

\* Steps after which the spaces of a page, and its count, are as before or fewer.
LEMMA FewerSharers ==
    ASSUME SpaceInv, SpaceInv', NEW page \in Page, Sharers(page)' \subseteq Sharers(page),
           ref_num'[page] = ref_num[page]
    PROVE  /\ Covered(page) => Covered(page)'
           /\ FullyCounted(page) => FullyCounted(page)'
<1>1. ref_num[page] \in Nat
  BY DEF SpaceInv, Types
<1>2. /\ Cardinality(Sharers(page)) \in Nat /\ Cardinality(Sharers(page)') \in Nat
      /\ Cardinality(Sharers(page)') <= Cardinality(Sharers(page))
  BY SameSharers
<1> QED BY <1>1, <1>2 DEF Covered, FullyCounted

\* A set of at most one element.
LEMMA OneSharer ==
    ASSUME NEW S, S \subseteq Page, Cardinality(S) <= 1, NEW r \in S, NEW s \in S
    PROVE  r = s
<1>1. SUFFICES ASSUME r # s PROVE FALSE
  OBVIOUS
<1>2. IsFiniteSet({r}) /\ Cardinality({r}) = 1
  BY FS_Singleton
<1>3. IsFiniteSet({r, s}) /\ Cardinality({r, s}) = 2
  <2>1. {r, s} = {r} \cup {s} /\ s \notin {r}
    BY <1>1
  <2> QED BY <1>2, <2>1, FS_AddElement
<1>4. {r, s} \subseteq S
  OBVIOUS
<1>5. Cardinality({r, s}) <= Cardinality(S) /\ Cardinality(S) \in Nat
  BY <1>4, SmallerSet
<1> QED BY <1>3, <1>5

--------------------------------------------------------------------------------
(* Steps that leave the mappings alone, and discards, keep it.             *)

\* Spaces whose mappings stay as they are.
Abide(R) ==
    \A r \in R : /\ Stays(r) /\ Tree(r)' = Tree(r)
                 /\ \A p \in Tree(r) : PageAt(r, p)' = PageAt(r, p)

\* Such a space keeps its pages.
LEMMA AbidingPages ==
    ASSUME NEW R, Abide(R), NEW r \in R
    PROVE  PagesOf(r)' = PagesOf(r)
<1>1. /\ \A x : x \in PagesOf(r) <=> \E p \in Tree(r) : x = PageAt(r, p)
      /\ \A x : x \in PagesOf(r)' <=> \E p \in Tree(r)' : x = PageAt(r, p)'
  BY DEF PagesOf
<1>2. Tree(r)' = Tree(r) /\ \A p \in Tree(r) : PageAt(r, p)' = PageAt(r, p)
  BY DEF Abide
<1> QED BY <1>1, <1>2

\* And its paths, with their pages and flags.
LEMMA AbidingPaths ==
    ASSUME NEW R, Abide(R), NEW r \in R
    PROVE  /\ Paths(r)' = Paths(r)
           /\ \A p \in Paths(r) : /\ PageAt(r, p)' = PageAt(r, p)
                                  /\ EntryAt(r, p)'.write = EntryAt(r, p).write
                                  /\ EntryAt(r, p)'.custom = EntryAt(r, p).custom
BY DEF Abide, Stays

\* Steps that leave the mappings alone, and steps that end a space.
LEMMA FewerSpaces ==
    ASSUME SpaceInv, SpaceInv', SharingInv, UNCHANGED <<client, ref_num>>,
           roots' \subseteq roots, Abide(roots'),
           \A page \in Page : allocated'[page] =>
               allocated[page] /\ ((\E r \in roots : page \in PagesOf(r))
                                       => \E r \in roots' : page \in PagesOf(r))
    PROVE  SharingInv'
<1>1. ASSUME NEW r \in roots'
      PROVE  /\ r \in roots /\ Paths(r)' = Paths(r)
             /\ \A p \in Paths(r) : /\ PageAt(r, p)' = PageAt(r, p)
                                    /\ EntryAt(r, p)'.write = EntryAt(r, p).write
                                    /\ EntryAt(r, p)'.custom = EntryAt(r, p).custom
  BY <1>1, AbidingPaths
<1>2. ASSUME NEW page PROVE Sharers(page)' \subseteq Sharers(page)
  BY <1>1, SharersAre
<1>3. ASSUME NEW page \in Page
      PROVE  (Covered(page) => Covered(page)') /\ (FullyCounted(page) => FullyCounted(page)')
  BY <1>2, FewerSharers
<1>4. Private'
  BY <1>1 DEF SharingInv, Private
<1>5. Counted'
  BY <1>3 DEF SharingInv, Counted
<1>6. Marked'
  <2>1. ASSUME NEW r \in roots', NEW p \in Paths(r)', EntryAt(r, p)'.custom
        PROVE  "cow" \in client' /\ ("copy" \notin client' => FullyCounted(PageAt(r, p))')
    <3>1. r \in roots /\ p \in Paths(r) /\ PageAt(r, p)' = PageAt(r, p) /\ EntryAt(r, p).custom
      BY <1>1, <2>1
    <3>2. PageAt(r, p) \in Page
      BY <3>1, PathsHeld
    <3>3. "cow" \in client /\ ("copy" \notin client => FullyCounted(PageAt(r, p)))
      BY <3>1 DEF SharingInv, Marked
    <3>4. PICK page : page = PageAt(r, p)
      OBVIOUS
    <3>5. FullyCounted(page) => FullyCounted(page)'
      BY <1>3, <3>2, <3>4
    <3>6. FullyCounted(PageAt(r, p)) => FullyCounted(PageAt(r, p))'
      BY <3>1, <3>4, <3>5 DEF FullyCounted
    <3> QED BY <3>3, <3>6
  <2> QED BY <2>1 DEF Marked
<1>7. Kept'
  <2>1. ASSUME "cow" \notin client', NEW page \in Page
        PROVE  ref_num'[page] = 0 /\ (allocated'[page] => \E r \in roots' : page \in PagesOf(r)')
    <3>1. /\ ref_num[page] = 0
          /\ allocated[page] => \E r \in roots : page \in PagesOf(r)
      BY <2>1 DEF SharingInv, Kept
    <3>2. ASSUME allocated'[page] PROVE \E r \in roots' : page \in PagesOf(r)'
      <4>1. PICK r \in roots' : page \in PagesOf(r)
        BY <3>1, <3>2
      <4>2. PagesOf(r)' = PagesOf(r)
        BY AbidingPages
      <4> QED BY <4>1, <4>2
    <3> QED BY <3>1, <3>2
  <2> QED BY <2>1 DEF Kept
<1> QED BY <1>4, <1>5, <1>6, <1>7 DEF SharingInv

\* Steps that leave the mappings alone keep the invariant.
LEMMA StandsShares ==
    ASSUME SpaceInv, SpaceInv', SharingInv, UNCHANGED client, Stands
    PROVE  SharingInv'
<1>1. UNCHANGED <<allocated, ref_num, roots>>
  BY DEF Stands
<1>2. Abide(roots')
  BY DEF Stands, Abide
<1> QED BY <1>1, <1>2, FewerSpaces

\* A discard keeps it: the sharers of a page are as before or fewer, and the count
\* is not taken down.
LEMMA DiscardShares ==
    ASSUME SpaceInv, SpaceInv', SharingInv, UNCHANGED client, NEW root, Discards(root)
    PROVE  SharingInv'
<1>1. roots' = roots \ {root} /\ UNCHANGED ref_num
  BY DEF Discards
<1>2. Abide(roots')
  BY <1>1 DEF Discards, Abide
<1>3. ASSUME NEW page \in Page, allocated'[page]
      PROVE  allocated[page] /\ ((\E r \in roots : page \in PagesOf(r))
                                     => \E r \in roots' : page \in PagesOf(r))
  <2>1. allocated[page] /\ (page \in PagesOf(root) => \E r \in roots \ {root} : page \in PagesOf(r))
    BY <1>3 DEF Discards
  <2> QED BY <1>1, <2>1
<1> QED BY <1>1, <1>2, <1>3, FewerSpaces

--------------------------------------------------------------------------------
(* The copying fork keeps it.                                              *)

\* vms_fork_copy keeps it: each new page has one sharer.
LEMMA CopyForkShares ==
    ASSUME SpaceInv, SpaceInv', SharingInv, UNCHANGED client, "copy" \in client,
           NEW cur \in roots, NEW n, NEW new, ForksByCopy(cur, n, new)
    PROVE  SharingInv'
<1>1. /\ n \in Page /\ n \notin roots /\ roots' = roots \cup {n}
      /\ UNCHANGED ref_num /\ Abide(roots)
      /\ \A i \in Page : allocated'[i] <=> allocated[i] \/ \E p \in Tree(cur) : i = new[p]
      /\ Tree(n)' = Tree(cur)
      /\ \A p \in Tree(cur) : PageAt(n, p)' = new[p] /\ new[p] \in Page /\ ~allocated[new[p]]
  BY DEF ForksByCopy, Abide
<1>2. \A p \in Paths(cur) : /\ EntryAt(n, p)'.write = EntryAt(cur, p).write
                            /\ EntryAt(n, p)'.custom = EntryAt(cur, p).custom
  BY DEF ForksByCopy
<1>3. ASSUME NEW r \in roots
      PROVE  /\ Paths(r)' = Paths(r)
             /\ \A p \in Paths(r) : /\ PageAt(r, p)' = PageAt(r, p)
                                    /\ PageAt(r, p) \in Page /\ allocated[PageAt(r, p)]
                                    /\ EntryAt(r, p)'.write = EntryAt(r, p).write
                                    /\ EntryAt(r, p)'.custom = EntryAt(r, p).custom
  BY <1>1, <1>3, AbidingPaths, PathsHeld
<1>4. /\ Paths(n)' = Paths(cur)
      /\ \A p \in Paths(n)' : PageAt(n, p)' \in Page /\ ~allocated[PageAt(n, p)']
  BY <1>1, PathsOfTree
<1>5. ASSUME NEW page \in Page, allocated[page] PROVE Sharers(page)' \subseteq Sharers(page)
  <2>1. ASSUME NEW r, r \in Sharers(page)' PROVE r \in Sharers(page)
    <3>1. r \in roots' /\ \E p \in Paths(r)' : PageAt(r, p)' = page
      BY <2>1, SharersAre
    <3>2. r # n
      BY <1>4, <1>5, <3>1
    <3>3. r \in roots
      BY <1>1, <3>1, <3>2
    <3> QED BY <1>3, <3>1, <3>3, SharersAre
  <2> QED BY <2>1
<1>6. ASSUME NEW page \in Page, ~allocated[page] PROVE Sharers(page)' \subseteq {n}
  <2>1. ASSUME NEW r \in Sharers(page)', r # n PROVE FALSE
    <3>1. r \in roots' /\ \E p \in Paths(r)' : PageAt(r, p)' = page
      BY <2>1, SharersAre
    <3>2. r \in roots
      BY <1>1, <2>1, <3>1
    <3> QED BY <1>3, <1>6, <3>1, <3>2
  <2> QED BY <2>1
<1>7. Private'
  <2>1. ASSUME NEW r \in roots', NEW s \in roots', NEW p \in Paths(r)',
               p \in Paths(s)', PageAt(s, p)' = PageAt(r, p)', EntryAt(r, p)'.write
        PROVE  r = s
    <3>1. CASE r \in roots /\ s \in roots
      <4>1. /\ p \in Paths(r) /\ p \in Paths(s) /\ PageAt(s, p) = PageAt(r, p)
            /\ EntryAt(r, p).write
        BY <1>3, <2>1, <3>1
      <4> QED BY <3>1, <4>1 DEF SharingInv, Private
    <3>2. CASE r = n /\ s \in roots
      <4>1. ~allocated[PageAt(r, p)']
        BY <1>4, <2>1, <3>2
      <4>2. allocated[PageAt(s, p)']
        BY <1>3, <2>1, <3>2
      <4> QED BY <2>1, <4>1, <4>2
    <3>3. CASE r \in roots /\ s = n
      <4>1. ~allocated[PageAt(s, p)']
        BY <1>4, <2>1, <3>3
      <4>2. allocated[PageAt(r, p)']
        BY <1>3, <2>1, <3>3
      <4> QED BY <2>1, <4>1, <4>2
    <3> QED BY <1>1, <2>1, <3>1, <3>2, <3>3
  <2> QED BY <2>1 DEF Private
<1>8. Counted'
  <2>1. ASSUME NEW page \in Page PROVE Covered(page)'
    <3>1. CASE allocated[page]
      BY <1>1, <1>5, <3>1, FewerSharers DEF SharingInv, Counted
    <3>2. CASE ~allocated[page]
      BY <1>1, <1>6, <3>2, AtMostOne DEF Covered
    <3> QED BY <3>1, <3>2
  <2> QED BY <2>1 DEF Counted
<1>9. Marked'
  <2>1. ASSUME NEW r \in roots', NEW p \in Paths(r)', EntryAt(r, p)'.custom
        PROVE  "cow" \in client
    <3>1. \E s \in roots : p \in Paths(s) /\ EntryAt(s, p).custom
      BY <1>1, <1>2, <1>3, <1>4, <2>1
    <3> QED BY <3>1 DEF SharingInv, Marked
  <2> QED BY <2>1 DEF Marked
<1>10. Kept'
  <2>1. ASSUME "cow" \notin client', NEW page \in Page
        PROVE  ref_num'[page] = 0 /\ (allocated'[page] => \E r \in roots' : page \in PagesOf(r)')
    <3>1. /\ ref_num[page] = 0
          /\ allocated[page] => \E r \in roots : page \in PagesOf(r)
      BY <2>1 DEF SharingInv, Kept
    <3>2. CASE allocated[page]
      <4>1. PICK r \in roots : page \in PagesOf(r)
        BY <3>1, <3>2
      <4>2. PagesOf(r)' = PagesOf(r)
        BY <1>1, AbidingPages
      <4> QED BY <1>1, <3>1, <4>1, <4>2
    <3>3. ASSUME ~allocated[page], allocated'[page] PROVE page \in PagesOf(n)'
      <4>1. PICK p \in Tree(cur) : page = new[p]
        BY <1>1, <3>3
      <4>2. p \in Tree(n)' /\ PageAt(n, p)' = page
        BY <1>1, <4>1
      <4> QED BY <4>2 DEF PagesOf
    <3> QED BY <1>1, <3>1, <3>2, <3>3
  <2> QED BY <2>1 DEF Kept
<1> QED BY <1>7, <1>8, <1>9, <1>10 DEF SharingInv

--------------------------------------------------------------------------------
(* The fork on write keeps it.                                             *)

\* A fork on write adds at least two to the count of what it shares.
LEMMA SharesAreCounted ==
    ASSUME SpaceInv, NEW cur \in roots, NEW page \in Page
    PROVE  /\ ref_num[page] \in Nat /\ CountedShares(cur)[page] \in Nat
           /\ CountedShares(cur)[page] >= ref_num[page]
           /\ cur \in Sharers(page) => CountedShares(cur)[page] >= ref_num[page] + 2
<1> DEFINE A == {path \in Paths(cur) : PageAt(cur, path) = page}
<1>1. A \subseteq Positions
  BY PathsHeld, TreeIsPositions
<1>2. IsFiniteSet(A) /\ Cardinality(A) \in Nat
  BY <1>1, SubsetsAreFinite
<1>3. CountedShares(cur)[page] = ref_num[page] + 2 * Cardinality(A)
  BY DEF CountedShares
<1>4. ref_num[page] \in Nat
  BY DEF SpaceInv, Types
<1>5. ASSUME cur \in Sharers(page) PROVE Cardinality(A) >= 1
  <2>1. PICK p \in Paths(cur) : PageAt(cur, p) = page
    BY <1>5, SharersAre
  <2>2. {p} \subseteq A
    BY <2>1
  <2>3. IsFiniteSet({p}) /\ Cardinality({p}) = 1
    BY FS_Singleton
  <2>4. Cardinality({p}) <= Cardinality(A)
    BY <1>2, <2>2, FS_Subset
  <2> QED BY <1>2, <2>3, <2>4
<1> HIDE DEF A
<1> QED BY <1>2, <1>3, <1>4, <1>5

\* The entry of a mapped path is valid.
LEMMA PathWord ==
    ASSUME SpaceInv, NEW r \in roots, NEW p \in Paths(r)
    PROVE  EntryAt(r, p) \in Words /\ EntryAt(r, p).valid
<1>1. r \in Page /\ p \in Tree(r) /\ p # <<>>
  <2>1. r \in Page /\ p \in Tree(r) /\ Len(p) = 3
    BY PathsHeld DEF SpaceInv, Types
  <2>2. Len(<<>>) = 0
    OBVIOUS
  <2> QED BY <2>1, <2>2
<1>2. PICK q \in Tree(r), i \in Index :
          memory[PageAt(r, q)][i].valid /\ EntryAt(r, p) = memory[PageAt(r, q)][i]
  BY <1>1, TreeParent
<1>3. PageAt(r, q) \in Page
  BY HeldPlaces
<1> QED BY <1>2, <1>3, WordAt DEF SpaceInv

\* The fork shares what the current space maps, protected, and counts the sharers.
LEMMA ShareForkShares ==
    ASSUME SpaceInv, SpaceInv', SharingInv, UNCHANGED client, "cow" \in client,
           NEW cur \in roots, NEW n, ForksByShare(cur, n)
    PROVE  SharingInv'
<1>1. /\ n \in Page /\ n \notin roots /\ roots' = roots \cup {n}
      /\ ref_num' = CountedShares(cur)
      /\ \A r \in roots : Tree(r)' = Tree(r) /\ \A p \in Tree(r) : PageAt(r, p)' = PageAt(r, p)
      /\ Tree(n)' = Tree(cur)
  BY DEF ForksByShare
<1>2. /\ \A r \in roots \ {cur} : Stays(r)
      /\ \A p \in Paths(cur) :
           /\ PageAt(n, p)' = PageAt(cur, p)
           /\ EntryAt(cur, p)' = Protect(EntryAt(cur, p))
           /\ EntryAt(n, p)' = Protect(EntryAt(cur, p))
  BY DEF ForksByShare
<1>3. ASSUME NEW r \in roots
      PROVE  /\ Paths(r)' = Paths(r)
             /\ \A p \in Paths(r) : /\ PageAt(r, p)' = PageAt(r, p) /\ PageAt(r, p) \in Page
  <2>1. Tree(r)' = Tree(r) /\ \A p \in Tree(r) : PageAt(r, p)' = PageAt(r, p)
    BY <1>1
  <2>2. \A p : p \in Paths(r)' <=> p \in Paths(r)
    BY <2>1, PathsOfTree
  <2>3. Paths(r)' = Paths(r)
    BY <2>2
  <2>4. \A p \in Paths(r) : p \in Tree(r) /\ PageAt(r, p) \in Page
    BY PathsHeld
  <2> QED BY <2>1, <2>3, <2>4
<1>4. /\ Paths(n)' = Paths(cur)
      /\ \A p \in Paths(cur) : PageAt(n, p)' = PageAt(cur, p)
  BY <1>1, <1>2, PathsOfTree
<1>5. ASSUME NEW p \in Paths(cur) PROVE ~EntryAt(cur, p)'.write /\ ~EntryAt(n, p)'.write
  <2>1. EntryAt(cur, p) \in Words /\ EntryAt(cur, p).valid
    BY PathWord
  <2>2. ~Protect(EntryAt(cur, p)).write
    BY <2>1, ProtectedWord
  <2> QED BY <1>2, <2>2
<1>6. ASSUME NEW page \in Page
      PROVE  /\ cur \in Sharers(page) => Sharers(page)' \subseteq Sharers(page) \cup {n}
             /\ cur \notin Sharers(page) => Sharers(page)' \subseteq Sharers(page)
  <2>1. ASSUME NEW r, r \in Sharers(page)', r # n PROVE r \in Sharers(page)
    <3>1. r \in roots' /\ \E p \in Paths(r)' : PageAt(r, p)' = page
      BY <2>1, SharersAre
    <3>2. r \in roots
      BY <1>1, <2>1, <3>1
    <3> QED BY <1>3, <3>1, <3>2, SharersAre
  <2>2. ASSUME n \in Sharers(page)' PROVE cur \in Sharers(page)
    <3>1. \E p \in Paths(n)' : PageAt(n, p)' = page
      BY <2>2, SharersAre
    <3> QED BY <1>4, <3>1, SharersAre
  <2> QED BY <2>1, <2>2
<1>7. ASSUME NEW page \in Page
      PROVE  /\ Covered(page)'
             /\ cur \in Sharers(page) => FullyCounted(page)'
             /\ FullyCounted(page) => FullyCounted(page)'
  <2>1. /\ ref_num[page] \in Nat /\ ref_num'[page] \in Nat /\ ref_num'[page] >= ref_num[page]
        /\ cur \in Sharers(page) => ref_num'[page] >= ref_num[page] + 2
    BY <1>1, SharesAreCounted
  <2>2. Covered(page)
    BY DEF SharingInv, Counted
  <2>3. CASE cur \in Sharers(page)
    <3>1. /\ Cardinality(Sharers(page)') \in Nat /\ Cardinality(Sharers(page)) \in Nat
          /\ Cardinality(Sharers(page)') <= Cardinality(Sharers(page)) + 1
      BY <1>1, <1>6, <2>3, OneMore, SharersArePages
    <3> QED BY <2>1, <2>2, <2>3, <3>1 DEF Covered, FullyCounted
  <2>4. CASE cur \notin Sharers(page)
    <3>1. /\ Cardinality(Sharers(page)) \in Nat /\ Cardinality(Sharers(page)') \in Nat
          /\ Cardinality(Sharers(page)') <= Cardinality(Sharers(page))
      BY <1>6, <2>4, SameSharers
    <3> QED BY <2>1, <2>2, <2>4, <3>1 DEF Covered, FullyCounted
  <2> QED BY <2>3, <2>4
<1>8. Private'
  <2>1. ASSUME NEW r \in roots', NEW s \in roots', NEW p \in Paths(r)',
               p \in Paths(s)', PageAt(s, p)' = PageAt(r, p)', EntryAt(r, p)'.write
        PROVE  r = s
    <3>1. r # n /\ r # cur
      BY <1>3, <1>4, <1>5, <2>1
    <3>2. r \in roots /\ p \in Paths(r) /\ EntryAt(r, p).write /\ PageAt(r, p)' = PageAt(r, p)
      BY <1>1, <1>2, <1>3, <2>1, <3>1 DEF Stays
    <3>3. CASE s \in roots
      <4>1. p \in Paths(s) /\ PageAt(s, p) = PageAt(r, p)
        BY <1>3, <2>1, <3>2, <3>3
      <4> QED BY <3>2, <3>3, <4>1 DEF SharingInv, Private
    <3>4. CASE s = n
      <4>1. p \in Paths(cur) /\ PageAt(cur, p) = PageAt(r, p)
        BY <1>4, <2>1, <3>2, <3>4
      <4>2. r = cur
        BY <3>2, <4>1 DEF SharingInv, Private
      <4> QED BY <3>1, <4>2
    <3> QED BY <1>1, <2>1, <3>3, <3>4
  <2> QED BY <2>1 DEF Private
<1>9. Counted'
  BY <1>7 DEF Counted
<1>10. Marked'
  <2>1. ASSUME NEW r \in roots', NEW p \in Paths(r)', EntryAt(r, p)'.custom,
               "copy" \notin client', NEW page, page = PageAt(r, p)'
        PROVE  FullyCounted(page)'
    <3>1. CASE r = n \/ r = cur
      <4>1. p \in Paths(cur) /\ PageAt(cur, p) = page
        BY <1>3, <1>4, <2>1, <3>1
      <4>2. page \in Page /\ cur \in Sharers(page)
        BY <1>3, <4>1, SharersAre
      <4> QED BY <1>7, <4>2
    <3>2. CASE r \in roots \ {cur}
      <4>1. p \in Paths(r) /\ PageAt(r, p) = page /\ page \in Page /\ EntryAt(r, p).custom
        BY <1>2, <1>3, <2>1, <3>2 DEF Stays
      <4>2. FullyCounted(page)
        BY <2>1, <3>2, <4>1 DEF SharingInv, Marked
      <4> QED BY <1>7, <4>1, <4>2
    <3> QED BY <1>1, <2>1, <3>1, <3>2
  <2>2. ASSUME NEW r \in roots', NEW p \in Paths(r)', EntryAt(r, p)'.custom,
               "copy" \notin client'
        PROVE  FullyCounted(PageAt(r, p))'
    <3>1. PICK page : page = PageAt(r, p)'
      OBVIOUS
    <3>2. FullyCounted(page)'
      BY <2>1, <2>2, <3>1
    <3> QED BY <3>1, <3>2 DEF FullyCounted
  <2> QED BY <2>2 DEF Marked
<1>11. Kept'
  BY DEF Kept
<1> QED BY <1>8, <1>9, <1>10, <1>11 DEF SharingInv

--------------------------------------------------------------------------------
(* Writes keep it.                                                         *)

\* The same tree has the same paths.
LEMMA SameTreeSamePaths ==
    ASSUME NEW r, Tree(r)' = Tree(r)
    PROVE  Paths(r)' = Paths(r)
<1>1. \A p : p \in Paths(r)' <=> p \in Paths(r)
  BY PathsOfTree
<1> QED BY <1>1

\* A write in place unmarks its own mapping at most, when nobody shares the page.
LEMMA InPlaceShares ==
    ASSUME SpaceInv, SpaceInv', SharingInv, UNCHANGED client,
           NEW cur \in roots, NEW path, WritesInPlace(cur, path)
    PROVE  SharingInv'
<1>1. /\ path \in Paths(cur) /\ UNCHANGED <<allocated, ref_num, roots>>
      /\ \A r \in roots : Tree(r)' = Tree(r) /\ \A p \in Tree(r) : PageAt(r, p)' = PageAt(r, p)
      /\ \A r \in roots : \A p \in Paths(r) :
           \/ FlagsStay(r, p)
           \/ r = cur /\ p = path /\ ref_num[PageAt(cur, path)] = 1 /\ Unmarked(r, p)
  BY DEF WritesInPlace
<1>2. ASSUME NEW r \in roots
      PROVE  /\ Paths(r)' = Paths(r)
             /\ \A p \in Paths(r) : PageAt(r, p)' = PageAt(r, p) /\ PageAt(r, p) \in Page
  <2>1. Tree(r)' = Tree(r) /\ \A p \in Tree(r) : PageAt(r, p)' = PageAt(r, p)
    BY <1>1
  <2> QED BY <2>1, SameTreeSamePaths, PathsHeld
<1>3. ASSUME NEW page PROVE Sharers(page)' \subseteq Sharers(page)
  BY <1>1, <1>2, SharersAre
<1>4. ASSUME NEW page \in Page
      PROVE  (Covered(page) => Covered(page)') /\ (FullyCounted(page) => FullyCounted(page)')
  BY <1>1, <1>3, FewerSharers
<1>5. Private'
  <2>1. ASSUME NEW r \in roots', NEW s \in roots', NEW p \in Paths(r)',
               p \in Paths(s)', PageAt(s, p)' = PageAt(r, p)', EntryAt(r, p)'.write
        PROVE  r = s
    <3>1. /\ r \in roots /\ s \in roots /\ p \in Paths(r) /\ p \in Paths(s)
          /\ PageAt(s, p) = PageAt(r, p) /\ PageAt(r, p) \in Page
      BY <1>1, <1>2, <2>1
    <3>2. CASE FlagsStay(r, p)
      BY <2>1, <3>1, <3>2 DEF SharingInv, Private, FlagsStay
    <3>3. CASE r = cur /\ p = path /\ ref_num[PageAt(cur, path)] = 1
      <4>1. PICK page \in Page : page = PageAt(r, p)
        BY <3>1
      <4>2. r \in Sharers(page) /\ s \in Sharers(page) /\ ref_num[page] = 1
        BY <3>1, <3>3, <4>1, SharersAre
      <4>3. Cardinality(Sharers(page)) <= 1
        BY <4>2 DEF SharingInv, Counted, Covered
      <4>4. Sharers(page) \subseteq Page
        BY SharersArePages
      <4> QED BY <4>2, <4>3, <4>4, OneSharer
    <3> QED BY <1>1, <3>1, <3>2, <3>3
  <2> QED BY <2>1 DEF Private
<1>6. Counted'
  BY <1>4 DEF SharingInv, Counted
<1>7. Marked'
  <2>1. ASSUME NEW r \in roots', NEW p \in Paths(r)', EntryAt(r, p)'.custom
        PROVE  "cow" \in client' /\ ("copy" \notin client' => FullyCounted(PageAt(r, p))')
    <3>1. r \in roots /\ p \in Paths(r) /\ PageAt(r, p)' = PageAt(r, p) /\ EntryAt(r, p).custom
      BY <1>1, <1>2, <2>1 DEF FlagsStay, Unmarked
    <3>2. PICK page \in Page : page = PageAt(r, p)
      BY <1>2, <3>1
    <3>3. "cow" \in client /\ ("copy" \notin client => FullyCounted(page))
      BY <3>1, <3>2 DEF SharingInv, Marked
    <3>4. FullyCounted(page)' => FullyCounted(PageAt(r, p))'
      BY <3>1, <3>2 DEF FullyCounted
    <3> QED BY <1>4, <3>3, <3>4
  <2> QED BY <2>1 DEF Marked
<1>8. Kept'
  <2>1. ASSUME NEW r \in roots PROVE PagesOf(r)' = PagesOf(r)
    <3>1. /\ \A x : x \in PagesOf(r) <=> \E p \in Tree(r) : x = PageAt(r, p)
          /\ \A x : x \in PagesOf(r)' <=> \E p \in Tree(r)' : x = PageAt(r, p)'
      BY DEF PagesOf
    <3> QED BY <1>1, <3>1
  <2> QED BY <1>1, <2>1 DEF SharingInv, Kept
<1> QED BY <1>5, <1>6, <1>7, <1>8 DEF SharingInv

\* A write to a copy: one sharer of the old page less, one of a free page.
LEMMA ToCopyShares ==
    ASSUME SpaceInv, SpaceInv', SharingInv, UNCHANGED client,
           NEW cur \in roots, NEW path, NEW src, NEW dst, WritesToCopy(cur, path, src, dst)
    PROVE  SharingInv'
<1>1. /\ path \in Paths(cur) /\ src = PageAt(cur, path) /\ EntryAt(cur, path).custom
      /\ UNCHANGED roots
      /\ dst \in Page /\ ~allocated[dst] /\ src \in Page /\ src # dst /\ ref_num[src] >= 2
      /\ \A p \in Page : ref_num'[p] = IF p = src THEN ref_num[p] - 1
                                       ELSE IF p = dst THEN ref_num[p] + 1 ELSE ref_num[p]
  BY DEF WritesToCopy
<1>2. /\ \A r \in roots : /\ Tree(r)' = Tree(r)
                          /\ \A p \in Tree(r) : PageAt(r, p)' = CopyPlace(cur, path, dst, r, p)
      /\ \A r \in roots : \A p \in Paths(r) :
           FlagsStay(r, p) \/ (r = cur /\ p = path /\ Unmarked(r, p))
  BY DEF WritesToCopy
<1>3. ASSUME NEW r \in roots
      PROVE  /\ Paths(r)' = Paths(r)
             /\ \A p \in Paths(r) :
                  /\ PageAt(r, p) \in Page /\ allocated[PageAt(r, p)] /\ PageAt(r, p) # dst
                  /\ r = cur /\ p = path => PageAt(r, p)' = dst
                  /\ ~(r = cur /\ p = path) => PageAt(r, p)' = PageAt(r, p)
  <2>1. Paths(r)' = Paths(r) /\ \A p \in Paths(r) : PageAt(r, p)' = CopyPlace(cur, path, dst, r, p)
    BY <1>2, <1>3, SameTreeSamePaths, PathsHeld
  <2>2. \A p \in Paths(r) : PageAt(r, p) \in Page /\ allocated[PageAt(r, p)]
    BY PathsHeld
  <2> QED BY <1>1, <2>1, <2>2 DEF CopyPlace
<1>4. ASSUME NEW page \in Page, page # dst PROVE Sharers(page)' \subseteq Sharers(page)
  <2>1. ASSUME NEW r, r \in Sharers(page)' PROVE r \in Sharers(page)
    <3>1. r \in roots /\ \E p \in Paths(r)' : PageAt(r, p)' = page
      BY <1>1, <2>1, SharersAre
    <3> QED BY <1>3, <1>4, <3>1, SharersAre
  <2> QED BY <2>1
<1>5. cur \in Sharers(src) /\ cur \notin Sharers(src)'
  <2>1. ASSUME cur \in Sharers(src)' PROVE FALSE
    <3>1. PICK p \in Paths(cur)' : PageAt(cur, p)' = src
      BY <2>1, SharersAre
    <3>2. p \in Paths(cur) /\ p # path /\ PageAt(cur, p) = src
      BY <1>1, <1>3, <3>1
    <3>3. p \in Tree(cur) /\ path \in Tree(cur)
      BY <1>1, <3>2, PathsHeld
    <3>4. PageAt(cur, p) = PageAt(cur, path)
      BY <1>1, <3>2
    <3> QED BY <3>2, <3>3, <3>4 DEF SpaceInv, Apart
  <2> QED BY <1>1, <2>1, SharersAre
<1>6. Sharers(dst)' \subseteq {cur}
  <2>1. ASSUME NEW r, r \in Sharers(dst)' PROVE r = cur
    <3>1. r \in roots /\ \E p \in Paths(r)' : PageAt(r, p)' = dst
      BY <1>1, <2>1, SharersAre
    <3> QED BY <1>3, <3>1
  <2> QED BY <2>1
<1>7. ASSUME NEW page \in Page
      PROVE  /\ Covered(page) => Covered(page)'
             /\ FullyCounted(page) => FullyCounted(page)'
             /\ page = dst => Covered(page)' /\ FullyCounted(page)'
  <2>1. ref_num[page] \in Nat
    BY DEF SpaceInv, Types
  <2>2. CASE page = src
    <3>1. Sharers(page)' \subseteq Sharers(page) \ {cur} /\ cur \in Sharers(page)
      BY <1>1, <1>4, <1>5, <2>2
    <3>2. /\ Cardinality(Sharers(page)') \in Nat /\ Cardinality(Sharers(page)) \in Nat
          /\ Cardinality(Sharers(page)') <= Cardinality(Sharers(page)) - 1
      BY <3>1, OneLess, SharersArePages
    <3> QED BY <1>1, <2>1, <2>2, <3>2 DEF Covered, FullyCounted
  <2>3. CASE page = dst
    <3>1. cur \in Page
      BY DEF SpaceInv, Types
    <3>2. Cardinality(Sharers(page)') \in Nat /\ Cardinality(Sharers(page)') <= 1
      BY <1>6, <2>3, <3>1, AtMostOne
    <3> QED BY <1>1, <2>1, <2>3, <3>2 DEF Covered, FullyCounted
  <2>4. CASE page # src /\ page # dst
    BY <1>1, <1>4, <2>4, FewerSharers
  <2> QED BY <2>2, <2>3, <2>4
<1>8. Private'
  <2>1. ASSUME NEW r \in roots', NEW s \in roots', NEW p \in Paths(r)',
               p \in Paths(s)', PageAt(s, p)' = PageAt(r, p)', EntryAt(r, p)'.write, r # s
        PROVE  FALSE
    <3>1. r \in roots /\ s \in roots /\ p \in Paths(r) /\ p \in Paths(s)
      BY <1>1, <1>3, <2>1
    <3>2. ~(r = cur /\ p = path)
      <4>1. ASSUME r = cur /\ p = path PROVE FALSE
        <5>1. PageAt(r, p)' = dst
          BY <1>3, <3>1, <4>1
        <5>2. PageAt(s, p)' = PageAt(s, p) /\ PageAt(s, p) # dst
          BY <1>3, <2>1, <3>1, <4>1
        <5> QED BY <2>1, <5>1, <5>2
      <4> QED BY <4>1
    <3>3. ~(s = cur /\ p = path)
      <4>1. ASSUME s = cur /\ p = path PROVE FALSE
        <5>1. PageAt(s, p)' = dst
          BY <1>3, <3>1, <4>1
        <5>2. PageAt(r, p)' = PageAt(r, p) /\ PageAt(r, p) # dst
          BY <1>3, <2>1, <3>1, <4>1
        <5> QED BY <2>1, <5>1, <5>2
      <4> QED BY <4>1
    <3>4. PageAt(s, p) = PageAt(r, p)
      BY <1>3, <2>1, <3>1, <3>2, <3>3
    <3>5. EntryAt(r, p).write
      BY <1>2, <2>1, <3>1, <3>2 DEF FlagsStay
    <3> QED BY <2>1, <3>1, <3>4, <3>5 DEF SharingInv, Private
  <2> QED BY <2>1 DEF Private
<1>9. Counted'
  BY <1>7 DEF SharingInv, Counted
<1>10. Marked'
  <2>1. ASSUME NEW r \in roots', NEW p \in Paths(r)', EntryAt(r, p)'.custom,
               NEW page, page = PageAt(r, p)'
        PROVE  "cow" \in client' /\ ("copy" \notin client' => FullyCounted(page)')
    <3>1. r \in roots /\ p \in Paths(r) /\ EntryAt(r, p).custom
      BY <1>1, <1>2, <1>3, <2>1 DEF FlagsStay, Unmarked
    <3>2. "cow" \in client /\ ("copy" \notin client => FullyCounted(PageAt(r, p)))
      BY <3>1 DEF SharingInv, Marked
    <3>3. CASE r = cur /\ p = path
      BY <1>1, <1>3, <1>7, <2>1, <3>1, <3>2, <3>3
    <3>4. CASE ~(r = cur /\ p = path)
      <4>1. page \in Page /\ PageAt(r, p) = page
        BY <1>3, <2>1, <3>1, <3>4
      <4> QED BY <1>7, <3>2, <4>1
    <3> QED BY <3>3, <3>4
  <2>2. ASSUME NEW r \in roots', NEW p \in Paths(r)', EntryAt(r, p)'.custom
        PROVE  "cow" \in client' /\ ("copy" \notin client' => FullyCounted(PageAt(r, p))')
    <3>1. PICK page : page = PageAt(r, p)'
      OBVIOUS
    <3>2. "cow" \in client' /\ ("copy" \notin client' => FullyCounted(page)')
      BY <2>1, <2>2, <3>1
    <3> QED BY <3>1, <3>2 DEF FullyCounted
  <2> QED BY <2>2 DEF Marked
<1>11. Kept'
  <2>1. "cow" \in client
    BY <1>1 DEF SharingInv, Marked
  <2> QED BY <2>1 DEF Kept
<1> QED BY <1>8, <1>9, <1>10, <1>11 DEF SharingInv

--------------------------------------------------------------------------------
(* Theorems about sharing.                                                 *)

\* The set-up satisfies it: one space, no marks and no counts.
LEMMA SetUpShares ==
    ASSUME NEW paths \in SUBSET VirtualAddresses, NEW perm, NEW S, NEW new,
           SetUp(paths, perm, S, new)
    PROVE  SharingInv
<1>1. /\ SpaceInv
      /\ Tree(root_page_table) = S /\ roots = {root_page_table}
      /\ \A p \in S : PageAt(root_page_table, p) = new[p]
      /\ \A page \in Page : allocated[page] => \E p \in S : page = new[p]
      /\ \A page \in Page : ref_num[page] = 0
      /\ \A page \in Page : \A i \in Index :
             ~memory[page][i].custom /\ memory[page][i].value = 0
  BY SetUpSpaces
<1>2. /\ \A p \in S : PageAt(root_page_table, p) = new[p]
      /\ \A page \in Page : allocated[page] => \E p \in S : page = new[p]
      /\ \A page \in Page : ref_num[page] = 0
      /\ \A page \in Page : \A i \in Index : ~memory[page][i].custom
  BY <1>1
<1>3. root_page_table \in Page
  BY <1>1 DEF SpaceInv, Types
<1>4. Private
  BY <1>1 DEF Private
<1>5. Counted
  <2>1. ASSUME NEW page \in Page PROVE Cardinality(Sharers(page)) <= 1
    <3>1. Sharers(page) \subseteq {root_page_table}
      BY <1>1, SharersAre
    <3> QED BY <1>3, <3>1, AtMostOne
  <2> QED BY <2>1 DEF Counted, Covered
<1>6. Marked
  <2>1. ASSUME NEW r \in roots, NEW p \in Paths(r) PROVE ~EntryAt(r, p).custom
    <3>1. PICK q \in Tree(r), i \in Index : EntryAt(r, p) = memory[PageAt(r, q)][i]
      BY EntryWord
    <3>2. PageAt(r, q) \in Page
      BY <1>1, HeldPlaces
    <3> QED BY <1>2, <3>1, <3>2
  <2> QED BY <2>1 DEF Marked
<1>7. Kept
  <2>1. ASSUME NEW page \in Page, allocated[page] PROVE page \in PagesOf(root_page_table)
    <3>1. PICK p \in S : page = new[p]
      BY <1>2, <2>1
    <3> QED BY <1>1, <1>2, <3>1 DEF PagesOf
  <2> QED BY <1>1, <1>2, <2>1 DEF Kept
<1> QED BY <1>4, <1>5, <1>6, <1>7 DEF SharingInv

\* So do the initial states.
LEMMA InitShares == Init => SharingInv
<1>1. ASSUME Init PROVE SharingInv
  <2>1. PICK paths \in SUBSET VirtualAddresses : \E perm, S, new : SetUp(paths, perm, S, new)
    BY <1>1, InitSetsUp
  <2>2. PICK perm, S, new : SetUp(paths, perm, S, new)
    BY <2>1
  <2> QED BY <2>2, SetUpShares
<1> QED BY <1>1

\* Every step keeps it.
LEMMA SharingStep ==
    ASSUME SpaceInv, SharingInv, [Next]_vars
    PROVE  SharingInv'
<1>1. SpaceInv'
  BY SpacesStep
<1>2. UNCHANGED client /\ Moves
  BY StepMoves
<1>3. CASE Stands
  BY <1>1, <1>2, <1>3, StandsShares
<1>4. ASSUME "copy" \in client, NEW cur \in roots, NEW n, NEW new, ForksByCopy(cur, n, new)
      PROVE  SharingInv'
  BY <1>1, <1>2, <1>4, CopyForkShares
<1>5. ASSUME "cow" \in client, NEW cur \in roots, NEW n, ForksByShare(cur, n)
      PROVE  SharingInv'
  BY <1>1, <1>2, <1>5, ShareForkShares
<1>6. ASSUME NEW cur \in roots, NEW path, WritesInPlace(cur, path) PROVE SharingInv'
  BY <1>1, <1>2, <1>6, InPlaceShares
<1>7. ASSUME NEW cur \in roots, NEW path, NEW src, NEW dst, WritesToCopy(cur, path, src, dst)
      PROVE  SharingInv'
  BY <1>1, <1>2, <1>7, ToCopyShares
<1>8. ASSUME NEW root, Discards(root) PROVE SharingInv'
  BY <1>1, <1>2, <1>8, DiscardShares
<1> QED BY <1>2, <1>3, <1>4, <1>5, <1>6, <1>7, <1>8 DEF Moves

\* After any calls: what two spaces share neither can write, the count of a shared
\* page covers its sharers, a mark stands for counted sharers unless vms_fork_copy
\* copied it, and without the fork on write no page is lost.
THEOREM SharingInvariant == Spec => [](SpaceInv /\ SharingInv)
<1>1. SpaceInv /\ SharingInv /\ [Next]_vars => (SpaceInv /\ SharingInv)'
  BY SpacesStep, SharingStep
<1> QED BY InitSpaces, InitShares, <1>1, PTL DEF Spec

\* vms_fork_copy and the client's discards lose no page: each allocated page is in
\* some space's tree.
THEOREM CopiesAreKept == Spec => []CopiesDoNotLeak
<1>1. ASSUME SpaceInv, SharingInv, "cow" \notin client
      PROVE  {i \in Page : allocated[i]} = UNION {PagesOf(r) : r \in roots}
  <2>1. ASSUME NEW r \in roots, NEW page \in PagesOf(r) PROVE page \in Page /\ allocated[page]
    <3>1. PICK p \in Tree(r) : page = PageAt(r, p)
      BY <2>1 DEF PagesOf
    <3> QED BY <1>1, <3>1, HeldPlaces
  <2>2. \A page \in Page : allocated[page] => \E r \in roots : page \in PagesOf(r)
    BY <1>1 DEF SharingInv, Kept
  <2> QED BY <2>1, <2>2
<1>2. SpaceInv /\ SharingInv => CopiesDoNotLeak
  BY <1>1 DEF CopiesDoNotLeak, NoPageLeaks
<1> QED BY SharingInvariant, <1>2, PTL

--------------------------------------------------------------------------------
\* A mapping of a page is a space and a path in it.
LEMMA MappingsAre ==
    \A page : \A m : m \in Mappings(page) <=>
        \E r \in roots : \E p \in Paths(r) : m = <<r, p>> /\ PageAt(r, p) = page
BY DEF Mappings

\* Two mappings of a page have the same path.
LEMMA MappingsMeet ==
    ASSUME SpaceInv, NEW page, NEW r \in roots, NEW p \in Paths(r), PageAt(r, p) = page,
           NEW s \in roots, NEW q \in Paths(s), PageAt(s, q) = page
    PROVE  p = q
<1>1. p \in Tree(r) /\ q \in Tree(s)
  BY PathsHeld
<1>2. PageAt(r, p) = PageAt(s, q)
  OBVIOUS
<1> QED BY <1>1, <1>2 DEF SpaceInv, Apart

\* A page that vms_write can write without a fault is mapped once: the write is seen
\* through one path of one space, whatever forks, faults and discards came before.
THEOREM WritesStayPrivate == Spec => []WritablePagesArePrivate
<1>1. ASSUME SpaceInv, SharingInv, NEW page \in DataPages, NEW m \in Mappings(page),
             MappedWord(m).write
      PROVE  Cardinality(Mappings(page)) = 1
  <2>1. PICK r \in roots : \E p \in Paths(r) : m = <<r, p>> /\ PageAt(r, p) = page
    BY <1>1, MappingsAre
  <2>2. PICK p \in Paths(r) : m = <<r, p>> /\ PageAt(r, p) = page
    BY <2>1
  <2>3. EntryAt(r, p).write
    BY <1>1, <2>2 DEF MappedWord
  <2>4. ASSUME NEW other \in Mappings(page) PROVE other = m
    <3>1. PICK s \in roots : \E q \in Paths(s) : other = <<s, q>> /\ PageAt(s, q) = page
      BY <2>4, MappingsAre
    <3>2. PICK q \in Paths(s) : other = <<s, q>> /\ PageAt(s, q) = page
      BY <3>1
    <3>3. p = q
      BY <1>1, <2>2, <3>2, MappingsMeet
    <3>4. r = s
      BY <1>1, <2>2, <2>3, <3>2, <3>3 DEF SharingInv, Private
    <3> QED BY <2>2, <3>2, <3>3, <3>4
  <2>5. Mappings(page) = {m}
    BY <1>1, <2>4
  <2> QED BY <2>5, FS_Singleton
<1>2. SpaceInv /\ SharingInv => WritablePagesArePrivate
  BY <1>1 DEF WritablePagesArePrivate
<1> QED BY SharingInvariant, <1>2, PTL

\* A space maps a data page at one path: the mappings are as many as the sharers.
LEMMA MappingsAreSharers ==
    ASSUME SpaceInv, NEW page
    PROVE  Cardinality(Mappings(page)) = Cardinality(Sharers(page))
<1> DEFINE f == [m \in Mappings(page) |-> m[1]]
<1>1. IsFiniteSet(Mappings(page))
  <2>1. IsFiniteSet(roots)
    BY SomePagesAreFinite DEF SpaceInv, Types
  <2>2. IsFiniteSet(roots \X Positions)
    BY <2>1, PositionsAreFinite, FS_Product
  <2>3. Mappings(page) \subseteq roots \X Positions
    BY MappingsAre, PathsHeld, TreeIsPositions
  <2> QED BY <2>2, <2>3, FS_Subset
<1>2. ASSUME NEW x \in Mappings(page), NEW y \in Mappings(page), x[1] = y[1] PROVE x = y
  <2>1. PICK r \in roots : \E p \in Paths(r) : x = <<r, p>> /\ PageAt(r, p) = page
    BY MappingsAre
  <2>2. PICK p \in Paths(r) : x = <<r, p>> /\ PageAt(r, p) = page
    BY <2>1
  <2>3. PICK s \in roots : \E q \in Paths(s) : y = <<s, q>> /\ PageAt(s, q) = page
    BY MappingsAre
  <2>4. PICK q \in Paths(s) : y = <<s, q>> /\ PageAt(s, q) = page
    BY <2>3
  <2>5. p = q
    BY <2>2, <2>4, MappingsMeet
  <2> QED BY <1>2, <2>2, <2>4, <2>5
<1>3. DOMAIN f = Mappings(page) /\ \A x \in Mappings(page) : f[x] = x[1]
  OBVIOUS
<1>4. {f[x] : x \in Mappings(page)} = Sharers(page)
  <2>1. ASSUME NEW x \in Mappings(page) PROVE x[1] \in Sharers(page)
    BY <2>1, MappingsAre, SharersAre
  <2>2. ASSUME NEW r \in Sharers(page) PROVE \E x \in Mappings(page) : r = x[1]
    <3>1. PICK p \in Paths(r) : PageAt(r, p) = page /\ r \in roots
      BY SharersAre
    <3>2. <<r, p>> \in Mappings(page) /\ r = <<r, p>>[1]
      BY <3>1, MappingsAre
    <3> QED BY <3>2
  <2> QED BY <2>1, <2>2
<1> HIDE DEF f
<1>5. \A x, y \in Mappings(page) : f[x] = f[y] => x = y
  BY <1>2, <1>3
<1> QED BY <1>1, <1>3, <1>4, <1>5, ImageSize

\* For clients that do not mix the two forks, the count that page_fault_handler
\* looks at is never below the number of spaces that map the page: when it says
\* 1, the writer really is the last.
THEOREM CountsAreKept ==
    ASSUME \A kinds \in Clients : "copy" \notin kinds \/ "cow" \notin kinds
    PROVE  Spec => []CountsCoverSharers
<1>1. ASSUME SpaceInv, SharingInv, NEW page \in DataPages, NEW m \in Mappings(page),
             MappedWord(m).custom
      PROVE  ref_num[page] >= Cardinality(Mappings(page))
  <2>1. PICK r \in roots : \E p \in Paths(r) : m = <<r, p>> /\ PageAt(r, p) = page
    BY <1>1, MappingsAre
  <2>2. PICK p \in Paths(r) : m = <<r, p>> /\ PageAt(r, p) = page
    BY <2>1
  <2>3. EntryAt(r, p).custom
    BY <1>1, <2>2 DEF MappedWord
  <2>4. client \in Clients
    BY <1>1 DEF SpaceInv, Types
  <2>5. FullyCounted(PageAt(r, p))
    BY <1>1, <2>3, <2>4 DEF SharingInv, Marked
  <2>6. page \in Page /\ ref_num[page] \in Nat
    BY <1>1, <2>2, PathsHeld DEF SpaceInv, Types
  <2>7. Sharers(page) \subseteq Page /\ Cardinality(Sharers(page)) \in Nat
    <3>1. Sharers(page) \subseteq Page
      BY <1>1, SharersAre DEF SpaceInv, Types
    <3> QED BY <3>1, SmallerSet
  <2>8. Cardinality(Mappings(page)) = Cardinality(Sharers(page))
    BY <1>1, MappingsAreSharers
  <2> QED BY <2>2, <2>5, <2>6, <2>7, <2>8 DEF FullyCounted
<1>2. SpaceInv /\ SharingInv => CountsCoverSharers
  BY <1>1 DEF CountsCoverSharers
<1> QED BY SharingInvariant, <1>2, PTL

--------------------------------------------------------------------------------
(* The refinement of AddressSpaces: what a space shows.                    *)

\* What a space shows at a path: an int, and the rights of an access.
ValueAt(r, p) == memory[PageAt(r, p)][0].value
RightsAt(r, p) == PermsOf(EntryAt(r, p))
Contents == [r \in roots |-> [p \in Paths(r) |-> ValueAt(r, p)]]
Rights == [r \in roots |-> [p \in Paths(r) |-> RightsAt(r, p)]]
Outcome == CASE process = "running" -> "running"
             [] process = "EFAULT"  -> "faulted"
             [] OTHER               -> "stopped"

\* A space shows the same before and after a step.
ShowsAsBefore(r) ==
    /\ Paths(r)' = Paths(r)
    /\ \A p \in Paths(r) : ValueAt(r, p)' = ValueAt(r, p) /\ RightsAt(r, p)' = RightsAt(r, p)

\* A new space shows what another one showed before the step.
ShowsLike(n, cur) ==
    /\ Paths(n)' = Paths(cur)
    /\ \A p \in Paths(cur) : ValueAt(n, p)' = ValueAt(cur, p) /\ RightsAt(n, p)' = RightsAt(cur, p)

\* The maps of contents and rights, point by point.
LEMMA ShownContents ==
    /\ DOMAIN Contents = roots
    /\ \A r \in roots : Contents[r] = [p \in Paths(r) |-> ValueAt(r, p)]
    /\ DOMAIN Rights = roots
    /\ \A r \in roots : Rights[r] = [p \in Paths(r) |-> RightsAt(r, p)]
BY DEF Contents, Rights

\* Spaces that show the same have the same contents and rights.
LEMMA ShownBefore ==
    ASSUME NEW R, R \subseteq roots, R \subseteq roots', \A r \in R : ShowsAsBefore(r)
    PROVE  \A r \in R : Contents'[r] = Contents[r] /\ Rights'[r] = Rights[r]
<1>1. ASSUME NEW r \in R PROVE Contents'[r] = Contents[r]
  <2>1. /\ Contents[r] = [p \in Paths(r) |-> ValueAt(r, p)]
        /\ Contents'[r] = [p \in Paths(r)' |-> ValueAt(r, p)']
    BY DEF Contents
  <2> QED BY <2>1 DEF ShowsAsBefore
<1>2. ASSUME NEW r \in R PROVE Rights'[r] = Rights[r]
  <2>1. /\ Rights[r] = [p \in Paths(r) |-> RightsAt(r, p)]
        /\ Rights'[r] = [p \in Paths(r)' |-> RightsAt(r, p)']
    BY DEF Rights
  <2> QED BY <2>1 DEF ShowsAsBefore
<1> QED BY <1>1, <1>2

\* All of them.
LEMMA SameShown ==
    ASSUME UNCHANGED roots, \A r \in roots : ShowsAsBefore(r)
    PROVE  Contents' = Contents /\ Rights' = Rights
<1>1. \A r \in roots : Contents'[r] = Contents[r] /\ Rights'[r] = Rights[r]
  BY ShownBefore
<1>2. Contents = [r \in roots |-> Contents[r]] /\ Contents' = [r \in roots' |-> Contents'[r]]
  BY DEF Contents
<1>3. Rights = [r \in roots |-> Rights[r]] /\ Rights' = [r \in roots' |-> Rights'[r]]
  BY DEF Rights
<1> QED BY <1>1, <1>2, <1>3

\* The steps of AddressSpaces, in these words.
LEMMA PromisedFork ==
    ASSUME process = "running", UNCHANGED <<process, root_page_table>>,
           root_page_table \in roots, NEW n \in Page, n \notin roots, roots' = roots \cup {n},
           \A r \in roots : ShowsAsBefore(r), ShowsLike(n, root_page_table)
    PROVE  Promise!Fork(n)
<1> DEFINE cur == root_page_table
<1>1. \A r \in roots : Contents'[r] = Contents[r] /\ Rights'[r] = Rights[r]
  BY ShownBefore
<1>2. Contents'[n] = Contents[cur] /\ Rights'[n] = Rights[cur]
  <2>1. /\ Contents[cur] = [p \in Paths(cur) |-> ValueAt(cur, p)]
        /\ Contents'[n] = [p \in Paths(n)' |-> ValueAt(n, p)']
    BY DEF Contents
  <2>2. /\ Rights[cur] = [p \in Paths(cur) |-> RightsAt(cur, p)]
        /\ Rights'[n] = [p \in Paths(n)' |-> RightsAt(n, p)']
    BY DEF Rights
  <2> QED BY <2>1, <2>2 DEF ShowsLike
<1>3. Contents' = [r \in roots \cup {n} |-> IF r = n THEN Contents[cur] ELSE Contents[r]]
  <2>1. Contents' = [r \in roots' |-> Contents'[r]]
    BY DEF Contents
  <2> QED BY <1>1, <1>2, <2>1
<1>4. Rights' = [r \in roots \cup {n} |-> IF r = n THEN Rights[cur] ELSE Rights[r]]
  <2>1. Rights' = [r \in roots' |-> Rights'[r]]
    BY DEF Rights
  <2> QED BY <1>1, <1>2, <2>1
<1>5. Outcome = "running" /\ Outcome' = Outcome
  BY DEF Outcome
<1>6. DOMAIN Contents = roots
  BY DEF Contents
<1> QED BY <1>3, <1>4, <1>5, <1>6
        DEF Promise!Fork, Promise!Spaces, Contents, Rights, ValueAt, RightsAt, Outcome

--------------------------------------------------------------------------------
(* The steps of AddressSpaces, in terms of what the spaces show.           *)

\* What an address space allows at a path.
LEMMA PromisedRights ==
    ASSUME root_page_table \in roots, NEW a, NEW kind
    PROVE  Promise!Allowed(a, kind)
               <=> a \in Paths(root_page_table) /\ kind \in RightsAt(root_page_table, a)
BY DEF Promise!Allowed, RightsAt

\* Write, where the space allows it.
LEMMA PromisedWrite ==
    ASSUME process = "running", UNCHANGED <<process, root_page_table, roots>>,
           NEW cur, cur = root_page_table, cur \in roots,
           NEW a \in Paths(cur), "write" \in RightsAt(cur, a), NEW value,
           \A r \in roots : /\ Paths(r)' = Paths(r)
                            /\ \A p \in Paths(r) :
                                 /\ RightsAt(r, p)' = RightsAt(r, p)
                                 /\ ValueAt(r, p)' = IF r = cur /\ p = a THEN value
                                                     ELSE ValueAt(r, p)
    PROVE  Promise!Write(a, value)
<1>1. Rights' = Rights
  <2>1. ASSUME NEW r \in roots PROVE Rights'[r] = Rights[r]
    <3>1. /\ Rights[r] = [p \in Paths(r) |-> RightsAt(r, p)]
          /\ Rights'[r] = [p \in Paths(r)' |-> RightsAt(r, p)']
      BY DEF Rights
    <3> QED BY <3>1
  <2>2. Rights = [r \in roots |-> Rights[r]] /\ Rights' = [r \in roots' |-> Rights'[r]]
    BY DEF Rights
  <2> QED BY <2>1, <2>2
<1>2. ASSUME NEW r \in roots
      PROVE  Contents'[r] = IF r = cur THEN [Contents[cur] EXCEPT ![a] = value] ELSE Contents[r]
  <2>1. /\ Contents[r] = [p \in Paths(r) |-> ValueAt(r, p)]
        /\ Contents'[r] = [p \in Paths(r)' |-> ValueAt(r, p)']
    BY DEF Contents
  <2>2. CASE r # cur
    BY <2>1, <2>2
  <2>3. CASE r = cur
    <3>1. Contents'[cur] = [p \in Paths(cur) |-> IF p = a THEN value ELSE ValueAt(cur, p)]
      BY <2>1, <2>3
    <3>2. Contents[cur] = [p \in Paths(cur) |-> ValueAt(cur, p)]
      BY <2>1, <2>3
    <3> QED BY <2>3, <3>1, <3>2
  <2> QED BY <2>2, <2>3
<1>3. Contents' = [Contents EXCEPT ![cur] = [Contents[cur] EXCEPT ![a] = value]]
  <2>1. Contents' = [r \in roots' |-> Contents'[r]]
    BY DEF Contents
  <2>2. Contents = [r \in roots |-> Contents[r]]
    BY DEF Contents
  <2> QED BY <1>2, <2>1, <2>2
<1>4. Contents' = [Contents EXCEPT ![cur][a] = value]
  BY <1>3
<1>5. Outcome = "running" /\ Outcome' = Outcome
  BY DEF Outcome
<1>6. Promise!Allowed(a, "write")
  BY PromisedRights
<1> QED BY <1>1, <1>4, <1>5, <1>6
        DEF Promise!Write, Contents, Rights, ValueAt, RightsAt, Outcome

\* Fault, where it does not.
LEMMA PromisedFault ==
    ASSUME process = "running", process' = "EFAULT", UNCHANGED <<root_page_table, roots, memory>>,
           NEW a, NEW kind, ~Promise!Allowed(a, kind)
    PROVE  Promise!Fault(a, kind)
<1>1. \A r \in roots : ShowsAsBefore(r)
  BY StandingMappings, UnchangedTrees DEF ShowsAsBefore, Stays, ValueAt, RightsAt
<1>2. Contents' = Contents /\ Rights' = Rights
  BY <1>1, SameShown
<1>3. Outcome = "running" /\ Outcome' = "faulted"
  BY DEF Outcome
<1> QED BY <1>2, <1>3 DEF Promise!Fault, Contents, Rights, ValueAt, RightsAt, Outcome

\* Stop.
LEMMA PromisedStop ==
    ASSUME process = "running", process' \in {"refused", "ENOMEM"},
           UNCHANGED <<root_page_table, roots, memory>>
    PROVE  Promise!Stop
<1>1. \A r \in roots : ShowsAsBefore(r)
  BY StandingMappings, UnchangedTrees DEF ShowsAsBefore, Stays, ValueAt, RightsAt
<1>2. Contents' = Contents /\ Rights' = Rights
  BY <1>1, SameShown
<1>3. Outcome = "running" /\ Outcome' = "stopped"
  BY DEF Outcome
<1> QED BY <1>2, <1>3 DEF Promise!Stop, Contents, Rights, ValueAt, RightsAt, Outcome

\* Switch.
LEMMA PromisedSwitch ==
    ASSUME process = "running", NEW s \in roots, root_page_table' = s,
           UNCHANGED <<process, roots, memory>>
    PROVE  Promise!Switch(s)
<1>1. \A r \in roots : ShowsAsBefore(r)
  BY StandingMappings, UnchangedTrees DEF ShowsAsBefore, Stays, ValueAt, RightsAt
<1>2. Contents' = Contents /\ Rights' = Rights
  BY <1>1, SameShown
<1>3. Outcome = "running" /\ Outcome' = Outcome
  BY DEF Outcome
<1>4. DOMAIN Contents = roots
  BY DEF Contents
<1> QED BY <1>2, <1>3, <1>4
        DEF Promise!Switch, Promise!Spaces, Contents, Rights, ValueAt, RightsAt, Outcome

\* No step at all.
LEMMA PromisedStutter ==
    ASSUME UNCHANGED <<process, root_page_table, roots, memory>>
    PROVE  UNCHANGED Promise!vars
<1>1. \A r \in roots : ShowsAsBefore(r)
  BY StandingMappings, UnchangedTrees DEF ShowsAsBefore, Stays, ValueAt, RightsAt
<1>2. Contents' = Contents /\ Rights' = Rights
  BY <1>1, SameShown
<1>3. Outcome' = Outcome
  BY DEF Outcome
<1> QED BY <1>2, <1>3 DEF Promise!vars, Contents, Rights, ValueAt, RightsAt, Outcome

\* Discard.
LEMMA PromisedDiscard ==
    ASSUME process = "running", UNCHANGED <<process, root_page_table>>,
           NEW s \in roots, s # root_page_table, roots' = roots \ {s},
           \A r \in roots \ {s} : ShowsAsBefore(r)
    PROVE  Promise!Discard(s)
<1>1. \A r \in roots \ {s} : Contents'[r] = Contents[r] /\ Rights'[r] = Rights[r]
  BY ShownBefore
<1>2. Contents' = [r \in roots \ {s} |-> Contents[r]]
  <2>1. Contents' = [r \in roots' |-> Contents'[r]]
    BY DEF Contents
  <2> QED BY <1>1, <2>1
<1>3. Rights' = [r \in roots \ {s} |-> Rights[r]]
  <2>1. Rights' = [r \in roots' |-> Rights'[r]]
    BY DEF Rights
  <2> QED BY <1>1, <2>1
<1>4. Outcome = "running" /\ Outcome' = Outcome
  BY DEF Outcome
<1>5. DOMAIN Contents = roots
  BY DEF Contents
<1> QED BY <1>2, <1>3, <1>4, <1>5
        DEF Promise!Discard, Promise!Spaces, Contents, Rights, ValueAt, RightsAt, Outcome

--------------------------------------------------------------------------------
(* The forks and the discard are steps of AddressSpaces.                   *)

\* The rights of an entry are its read flag, and its write flag or its mark.
LEMMA SameRights ==
    ASSUME NEW v, NEW w, v.read = w.read, v.write \/ v.custom <=> w.write \/ w.custom
    PROVE  PermsOf(v) = PermsOf(w)
BY DEF PermsOf

\* The rights that an entry gives.
LEMMA WriteRight ==
    \A w : /\ "write" \in PermsOf(w) <=> w.write \/ w.custom
           /\ "read" \in PermsOf(w) <=> w.read
BY DEF PermsOf

\* vms_fork_copy stops or takes a snapshot.
LEMMA ForkCopyPromises ==
    ASSUME SpaceInv, vms_fork_copy
    PROVE  Promise!Stop \/ \E n \in Page : Promise!Fork(n)
<1>1. process = "running"
  BY DEF vms_fork_copy
<1>2. CASE Exits("refused")
  <2>1. process' \in {"refused", "ENOMEM"} /\ UNCHANGED <<root_page_table, roots, memory>>
    BY <1>2 DEF Exits
  <2> QED BY <1>1, <2>1, PromisedStop
<1>3. CASE ~Exits("refused")
  <2>1. UNCHANGED <<process, root_page_table>>
    BY <1>3 DEF vms_fork_copy
  <2>2. PICK cur \in roots : \E n, new : cur = root_page_table /\ ForksByCopy(cur, n, new)
    BY <1>3, ForkCopyDoes
  <2>3. PICK n, new : cur = root_page_table /\ ForksByCopy(cur, n, new)
    BY <2>2
  <2>4. n \in Page /\ n \notin roots /\ roots' = roots \cup {n}
    BY <2>3 DEF ForksByCopy
  <2>5. ASSUME NEW r \in roots PROVE ShowsAsBefore(r)
    <3>1. /\ Stays(r)
          /\ \A p \in Tree(r) : /\ PageAt(r, p)' = PageAt(r, p)
                                /\ memory'[PageAt(r, p)] = memory[PageAt(r, p)]
      BY <2>3 DEF ForksByCopy
    <3>2. \A p \in Paths(r) : ValueAt(r, p)' = ValueAt(r, p)
      BY <3>1, PathsOfTree DEF ValueAt
    <3>3. \A p \in Paths(r) : RightsAt(r, p)' = RightsAt(r, p)
      BY <3>1 DEF Stays, RightsAt
    <3> QED BY <3>1, <3>2, <3>3 DEF ShowsAsBefore, Stays
  <2>6. ShowsLike(n, cur)
    <3>1. /\ Tree(n)' = Tree(cur)
          /\ \A p \in Tree(cur) : PageAt(n, p)' = new[p]
          /\ \A p \in Paths(cur) : /\ EntryAt(n, p)'.write = EntryAt(cur, p).write
                                   /\ EntryAt(n, p)'.custom = EntryAt(cur, p).custom
                                   /\ EntryAt(n, p)'.read = EntryAt(cur, p).read
                                   /\ memory'[new[p]] = memory[PageAt(cur, p)]
      BY <2>3 DEF ForksByCopy
    <3>2. Paths(n)' = Paths(cur)
      <4>1. \A p : p \in Paths(n)' <=> p \in Paths(cur)
        BY <3>1, PathsOfTree
      <4> QED BY <4>1
    <3>3. \A p \in Paths(cur) : ValueAt(n, p)' = ValueAt(cur, p)
      BY <3>1, PathsOfTree DEF ValueAt
    <3>4. \A p \in Paths(cur) : RightsAt(n, p)' = RightsAt(cur, p)
      BY <3>1, SameRights DEF RightsAt
    <3> QED BY <3>2, <3>3, <3>4 DEF ShowsLike
  <2> QED BY <1>1, <2>1, <2>3, <2>4, <2>5, <2>6, PromisedFork
<1> QED BY <1>2, <1>3

\* vms_fork_copy_on_write stops or takes a snapshot too: a protected entry keeps its
\* rights.
LEMMA ForkOnWritePromises ==
    ASSUME SpaceInv, vms_fork_copy_on_write
    PROVE  Promise!Stop \/ \E n \in Page : Promise!Fork(n)
<1>1. process = "running"
  BY DEF vms_fork_copy_on_write
<1>2. CASE Exits("refused")
  <2>1. process' \in {"refused", "ENOMEM"} /\ UNCHANGED <<root_page_table, roots, memory>>
    BY <1>2 DEF Exits
  <2> QED BY <1>1, <2>1, PromisedStop
<1>3. CASE ~Exits("refused")
  <2>1. UNCHANGED <<process, root_page_table>>
    BY <1>3 DEF vms_fork_copy_on_write
  <2>2. PICK cur \in roots : \E n : cur = root_page_table /\ ForksByShare(cur, n)
    BY <1>3, ForkOnWriteDoes
  <2>3. PICK n : cur = root_page_table /\ ForksByShare(cur, n)
    BY <2>2
  <2>4. n \in Page /\ n \notin roots /\ roots' = roots \cup {n} /\ Tree(n)' = Tree(cur)
    BY <2>3 DEF ForksByShare
  <2>5. /\ \A r \in roots : Tree(r)' = Tree(r) /\ \A p \in Tree(r) : PageAt(r, p)' = PageAt(r, p)
        /\ \A r \in roots \ {cur} : Stays(r)
        /\ \A p \in Paths(cur) :
               /\ PageAt(n, p)' = PageAt(cur, p)
               /\ EntryAt(cur, p)' = Protect(EntryAt(cur, p))
               /\ EntryAt(n, p)' = Protect(EntryAt(cur, p))
        /\ \A r \in roots : \A p \in Paths(r) : memory'[PageAt(r, p)] = memory[PageAt(r, p)]
    BY <2>3 DEF ForksByShare
  <2>6. ASSUME NEW p \in Paths(cur)
        PROVE  RightsAt(cur, p)' = RightsAt(cur, p) /\ RightsAt(n, p)' = RightsAt(cur, p)
    <3>1. PICK w, v : w \in Words /\ w = EntryAt(cur, p) /\ w.valid /\ v = Protect(w)
      BY PathWord
    <3>2. v.read = w.read /\ (v.write \/ v.custom <=> w.write \/ w.custom)
      BY <3>1, ProtectedWord
    <3>3. PermsOf(v) = PermsOf(w)
      BY <3>2, SameRights
    <3>4. EntryAt(cur, p)' = v /\ EntryAt(n, p)' = v
      BY <2>5, <3>1
    <3> QED BY <3>1, <3>3, <3>4 DEF RightsAt
  <2>7. ASSUME NEW r \in roots PROVE ShowsAsBefore(r)
    <3>1. Tree(r)' = Tree(r) /\ Paths(r)' = Paths(r)
      BY <2>5, SameTreeSamePaths
    <3>2. \A p \in Paths(r) : ValueAt(r, p)' = ValueAt(r, p)
      BY <2>5, PathsOfTree DEF ValueAt
    <3>3. \A p \in Paths(r) : RightsAt(r, p)' = RightsAt(r, p)
      <4>1. CASE r = cur
        BY <2>6, <4>1
      <4>2. CASE r # cur
        BY <2>5, <4>2 DEF Stays, RightsAt
      <4> QED BY <4>1, <4>2
    <3> QED BY <3>1, <3>2, <3>3 DEF ShowsAsBefore
  <2>8. ShowsLike(n, cur)
    <3>1. Paths(n)' = Paths(cur)
      <4>1. \A p : p \in Paths(n)' <=> p \in Paths(cur)
        BY <2>4, PathsOfTree
      <4> QED BY <4>1
    <3>2. \A p \in Paths(cur) : ValueAt(n, p)' = ValueAt(cur, p)
      BY <2>5 DEF ValueAt
    <3> QED BY <2>6, <3>1, <3>2 DEF ShowsLike
  <2> QED BY <1>1, <2>1, <2>3, <2>4, <2>7, <2>8, PromisedFork
<1> QED BY <1>2, <1>3

\* A discard ends one space.
LEMMA DiscardPromises ==
    ASSUME SpaceInv, NEW root, Discard(root)
    PROVE  Promise!Discard(root)
<1>1. process = "running" /\ UNCHANGED process
  BY DEF Discard
<1>2. /\ root \in roots /\ root # root_page_table /\ roots' = roots \ {root}
      /\ UNCHANGED root_page_table
      /\ \A r \in roots \ {root} :
             /\ Stays(r)
             /\ \A p \in Tree(r) : /\ PageAt(r, p)' = PageAt(r, p)
                                   /\ memory'[PageAt(r, p)] = memory[PageAt(r, p)]
  BY DiscardDoes DEF Discards
<1>3. ASSUME NEW r \in roots \ {root} PROVE ShowsAsBefore(r)
  <2>1. \A p \in Paths(r) : ValueAt(r, p)' = ValueAt(r, p)
    BY <1>2, PathsOfTree DEF ValueAt
  <2>2. \A p \in Paths(r) : RightsAt(r, p)' = RightsAt(r, p)
    BY <1>2 DEF Stays, RightsAt
  <2> QED BY <1>2, <2>1, <2>2 DEF ShowsAsBefore, Stays
<1> QED BY <1>1, <1>2, <1>3, PromisedDiscard

--------------------------------------------------------------------------------
(* A write that goes through is one.                                       *)

\* A write shows in one space, at its path.
ShowsWrite(cur, path, value) ==
    \A r \in roots : /\ Paths(r)' = Paths(r)
                     /\ \A p \in Paths(r) :
                          /\ RightsAt(r, p)' = RightsAt(r, p)
                          /\ ValueAt(r, p)' = IF r = cur /\ p = path THEN value
                                              ELSE ValueAt(r, p)

\* A write in place is seen at no other mapping: its page has none.
LEMMA InPlaceShows ==
    ASSUME SpaceInv, SharingInv, NEW path \in VirtualAddresses, ValidAt(root_page_table, path),
           NEW cur, cur = root_page_table,
           NEW l0, l0 = L0Of(path), NEW k, k = Slot(path), NEW word, word = memory[l0][k],
           NEW src, src = word.ppn, NEW value,
           InPlace(l0, k, word, src, value), UNCHANGED <<root_page_table, roots>>
    PROVE  ShowsWrite(cur, path, value)
<1>1. /\ cur \in roots /\ path \in Paths(cur) /\ l0 \in Page /\ k \in Index
      /\ PageAt(cur, path) = src /\ EntryAt(cur, path) = word
  BY OwnEntry
<1>2. \A r \in roots : Tree(r)' = Tree(r) /\ \A p \in Tree(r) : PageAt(r, p)' = PageAt(r, p)
  BY InPlaceTrees
<1>3. /\ word.write \/ (word.custom /\ ref_num[src] = 1)
      /\ \A p \in Page : memory'[p][0].value = IF p = src THEN value ELSE memory[p][0].value
  BY VmsAssumption DEF InPlace
<1>4. ASSUME NEW r \in roots, NEW p \in Paths(r)
      PROVE  PageAt(r, p) = src <=> r = cur /\ p = path
  <2>1. ASSUME PageAt(r, p) = src PROVE r = cur /\ p = path
    <3>1. p = path
      BY <1>1, <2>1, MappingsMeet
    <3>2. CASE word.write
      <4>1. /\ path \in Paths(r) /\ PageAt(r, path) = PageAt(cur, path)
            /\ EntryAt(cur, path).write
        BY <1>1, <2>1, <3>1, <3>2
      <4>2. cur = r
        BY <1>1, <4>1 DEF SharingInv, Private
      <4> QED BY <3>1, <4>2
    <3>3. CASE ref_num[src] = 1
      <4>1. src \in Page
        BY <2>1, PathsHeld
      <4>2. r \in Sharers(src) /\ cur \in Sharers(src)
        BY <1>1, <2>1, SharersAre
      <4>3. Cardinality(Sharers(src)) <= 1
        BY <3>3, <4>1 DEF SharingInv, Counted, Covered
      <4>4. Sharers(src) \subseteq Page
        BY SharersAre DEF SpaceInv, Types
      <4>5. r = cur
        BY <4>2, <4>3, <4>4, OneSharer
      <4> QED BY <3>1, <4>5
    <3> QED BY <1>3, <3>2, <3>3
  <2> QED BY <1>1, <2>1
<1>5. ASSUME NEW r \in roots, NEW p \in Paths(r)
      PROVE  ValueAt(r, p)' = IF r = cur /\ p = path THEN value ELSE ValueAt(r, p)
  <2>1. PICK page \in Page : page = PageAt(r, p)
    BY PathsHeld
  <2>2. PageAt(r, p)' = page
    BY <1>2, <2>1, PathsHeld
  <2>3. page = src <=> r = cur /\ p = path
    BY <1>4, <2>1
  <2>4. memory'[page][0].value = IF page = src THEN value ELSE memory[page][0].value
    BY <1>3
  <2> QED BY <2>1, <2>2, <2>3, <2>4 DEF ValueAt
<1>6. ASSUME NEW r \in roots, NEW p \in Paths(r)
      PROVE  RightsAt(r, p)' = RightsAt(r, p)
  <2>1. PICK q \in Tree(r), i \in Index :
            /\ EntryAt(r, p) = memory[PageAt(r, q)][i]
            /\ \A s : EntryAt(s, p)' = memory'[PageAt(s, q)'][i]
    BY EntryWord
  <2>2. PICK page \in Page : page = PageAt(r, q)
    BY HeldPlaces
  <2>3. PICK v, w : v = memory'[page][i] /\ w = memory[page][i]
    OBVIOUS
  <2>4. EntryAt(r, p) = w /\ EntryAt(r, p)' = v
    BY <1>2, <2>1, <2>2, <2>3
  <2>5. /\ v.read = w.read
        /\ \/ v.write = w.write /\ v.custom = w.custom
           \/ page = l0 /\ i = k /\ word.custom /\ v.write
    BY <2>3 DEF InPlace
  <2>6. v.write \/ v.custom <=> w.write \/ w.custom
    BY <2>3, <2>5
  <2> QED BY <2>4, <2>5, <2>6, SameRights DEF RightsAt
<1>7. \A r \in roots : Paths(r)' = Paths(r)
  BY <1>2, SameTreeSamePaths
<1> QED BY <1>5, <1>6, <1>7 DEF ShowsWrite

\* Nor is a write to a copy: the copy is new.
LEMMA ToCopyShows ==
    ASSUME SpaceInv, NEW path \in VirtualAddresses, ValidAt(root_page_table, path),
           NEW cur, cur = root_page_table,
           NEW l0, l0 = L0Of(path), NEW k, k = Slot(path), NEW word, word = memory[l0][k],
           NEW src, src = word.ppn, NEW dst \in Page, NEW value,
           ToCopy(l0, k, word, src, dst, value), UNCHANGED <<root_page_table, roots>>
    PROVE  ShowsWrite(cur, path, value)
<1>1. /\ cur \in roots /\ path \in Paths(cur) /\ l0 \in Page /\ k \in Index
      /\ path \in Tree(cur) /\ Len(path) = 3
  BY OwnEntry, PathsOfTree
<1>2. \A r \in roots : /\ Tree(r)' = Tree(r)
                       /\ \A p \in Tree(r) : PageAt(r, p)' = CopyPlace(cur, path, dst, r, p)
  BY ToCopyTrees
<1>3. /\ dst \in Free /\ word.custom
      /\ memory'[dst][0].value = value
      /\ \A p \in Page : p # dst => memory'[p][0].value = memory[p][0].value
  BY VmsAssumption DEF ToCopy
<1>4. ASSUME NEW r \in roots, NEW p \in Paths(r)
      PROVE  ValueAt(r, p)' = IF r = cur /\ p = path THEN value ELSE ValueAt(r, p)
  <2>1. p \in Tree(r)
    BY PathsOfTree
  <2>2. PICK page \in Page : page = PageAt(r, p) /\ page \notin Free
    BY <2>1, HeldPlaces
  <2>3. PageAt(r, p)' = CopyPlace(cur, path, dst, r, p)
    BY <1>2, <2>1
  <2>4. CASE r = cur /\ p = path
    <3>1. PageAt(r, p)' = dst
      BY <2>3, <2>4 DEF CopyPlace
    <3> QED BY <1>3, <2>4, <3>1 DEF ValueAt
  <2>5. CASE ~(r = cur /\ p = path)
    <3>1. PageAt(r, p)' = page /\ page # dst
      BY <1>3, <2>2, <2>3, <2>5 DEF CopyPlace
    <3>2. memory'[page][0].value = memory[page][0].value
      BY <1>3, <3>1
    <3> QED BY <2>2, <2>5, <3>1, <3>2 DEF ValueAt
  <2> QED BY <2>4, <2>5
<1>5. ASSUME NEW r \in roots, NEW p \in Paths(r)
      PROVE  RightsAt(r, p)' = RightsAt(r, p)
  <2>1. PICK q \in Tree(r), i \in Index :
            /\ Len(q) = 2
            /\ EntryAt(r, p) = memory[PageAt(r, q)][i]
            /\ \A s : EntryAt(s, p)' = memory'[PageAt(s, q)'][i]
    BY EntryWord
  <2>2. PICK page \in Page : page = PageAt(r, q) /\ page \notin Free
    BY HeldPlaces
  <2>3. PageAt(r, q)' = page
    <3>1. q # path
      BY <1>1, <2>1
    <3> QED BY <1>2, <2>2, <3>1 DEF CopyPlace
  <2>4. PICK v, w : v = memory'[page][i] /\ w = memory[page][i]
    OBVIOUS
  <2>5. EntryAt(r, p) = w /\ EntryAt(r, p)' = v
    BY <2>1, <2>2, <2>3, <2>4
  <2>6. page # dst
    BY <1>3, <2>2
  <2>7. /\ v.read = w.read
        /\ \/ v.write = w.write /\ v.custom = w.custom
           \/ page = l0 /\ i = k /\ v.write
    BY <2>4, <2>6 DEF ToCopy
  <2>8. v.write \/ v.custom <=> w.write \/ w.custom
    BY <1>3, <2>4, <2>7
  <2> QED BY <2>5, <2>7, <2>8, SameRights DEF RightsAt
<1>6. \A r \in roots : Paths(r)' = Paths(r)
  BY <1>2, SameTreeSamePaths
<1> QED BY <1>4, <1>5, <1>6 DEF ShowsWrite

\* vms_write fails or is a Write.
LEMMA WritePromises ==
    ASSUME SpaceInv, SharingInv, NEW path \in VirtualAddresses, NEW value \in Values,
           vms_write(path, value)
    PROVE  Fails(path, "write") \/ Promise!Write(path, value)
<1> SUFFICES ASSUME ~Fails(path, "write") PROVE Promise!Write(path, value)
  OBVIOUS
<1>1. PICK cur, l0, k, word, src : /\ cur = root_page_table /\ l0 = L0Of(path) /\ k = path[3]
                                   /\ word = memory[l0][k] /\ src = word.ppn
  OBVIOUS
<1>2. k = Slot(path)
  BY <1>1 DEF Slot
<1>3. /\ ValidAt(root_page_table, path) /\ (word.write \/ word.custom)
      /\ UNCHANGED <<process, root_page_table, roots>>
      /\ \/ InPlace(l0, k, word, src, value)
         \/ \E dst \in Page : ToCopy(l0, k, word, src, dst, value)
  BY <1>1, WriteDoes
<1>4. cur \in roots /\ path \in Paths(cur) /\ EntryAt(cur, path) = word
  BY <1>1, <1>2, <1>3, OwnEntry
<1>5. ShowsWrite(cur, path, value)
  <2>1. CASE InPlace(l0, k, word, src, value)
    BY <1>1, <1>2, <1>3, <2>1, InPlaceShows
  <2>2. CASE \E dst \in Page : ToCopy(l0, k, word, src, dst, value)
    <3>1. PICK dst \in Page : ToCopy(l0, k, word, src, dst, value)
      BY <2>2
    <3> QED BY <1>1, <1>2, <1>3, <3>1, ToCopyShows
  <2> QED BY <1>3, <2>1, <2>2
<1>6. "write" \in RightsAt(cur, path)
  BY <1>3, <1>4, WriteRight DEF RightsAt
<1>7. process = "running"
  BY DEF vms_write
<1> QED BY <1>1, <1>3, <1>4, <1>5, <1>6, <1>7, PromisedWrite DEF ShowsWrite

--------------------------------------------------------------------------------
(* An access fails only as AddressSpaces allows.                           *)

\* A page that waits for a copy on write is counted, unless its mark was copied.
LEMMA MarkedIsCounted ==
    ASSUME SpaceInv, SharingInv, "copy" \notin client \/ "cow" \notin client,
           NEW r \in roots, NEW p \in Paths(r), EntryAt(r, p).custom,
           NEW page, page = PageAt(r, p)
    PROVE  ref_num[page] \in Nat /\ ref_num[page] >= 1
<1>1. page \in Page /\ ref_num[page] \in Nat
  BY PathsHeld DEF SpaceInv, Types
<1>2. FullyCounted(page)
  BY DEF SharingInv, Marked
<1>3. {r} \subseteq Sharers(page) /\ Sharers(page) \subseteq Page
  BY SharersAre DEF SpaceInv, Types
<1>4. Cardinality({r}) = 1
  BY FS_Singleton
<1>5. Cardinality({r}) <= Cardinality(Sharers(page)) /\ Cardinality(Sharers(page)) \in Nat
  BY <1>3, SmallerSet
<1> QED BY <1>1, <1>2, <1>4, <1>5 DEF FullyCounted

\* The handler on an entry that waits: no page, or a writable entry.
LEMMA HandlerHelps ==
    ASSUME SpaceInv, NEW l0 \in Page, allocated[l0], NEW i \in Index, NEW word,
           word = memory[l0][i], word \in Words, word.valid, allocated[word.ppn],
           word.custom, ~word.write, ref_num[word.ppn] \in Nat, ref_num[word.ppn] >= 1,
           NEW h, h = page_fault_handler(Machine, l0, i), NEW e, e = h.memory[l0][i]
    PROVE  h.full \/ (~h.full /\ e \in Words /\ e.valid /\ e.write)
<1>1. CASE h = TakesOver(Machine, l0, i)
  <2>1. PICK g : g = TakesOver(Machine, l0, i)
    OBVIOUS
  <2>2. ~g.full /\ g.memory[l0][i] = Restored(word)
    BY <2>1, TakenEntry
  <2>3. ~h.full /\ e = Restored(word)
    BY <1>1, <2>1, <2>2
  <2>4. Restored(word) \in Words /\ Restored(word).valid = word.valid /\ Restored(word).write
    BY RestoredWord
  <2> QED BY <2>3, <2>4
<1>2. CASE h = CopiesPage(Machine, l0, i)
  <2>1. CASE \A p \in Page : allocated[p]
    BY <1>2, <2>1, CopyRunsOut
  <2>2. CASE \E p \in Page : ~allocated[p]
    <3>1. PICK src, dst, g : /\ src = word.ppn /\ dst = LowestIn(Machine)
                             /\ g = CopiesPage(Machine, l0, i)
      OBVIOUS
    <3>2. src \in Page /\ allocated[src]
      BY <3>1, WordFields
    <3>3. dst \in Page /\ ~g.full /\ g.memory[l0][i] = Moved(word, dst)
      BY <2>2, <3>1, <3>2, CopiedEntry
    <3>4. ~h.full /\ e = Moved(word, dst)
      BY <1>2, <3>1, <3>3
    <3>5. Moved(word, dst) \in Words /\ Moved(word, dst).valid = word.valid
          /\ Moved(word, dst).write
      BY <3>3, MovedWord
    <3> QED BY <3>4, <3>5
  <2> QED BY <2>1, <2>2
<1>3. h = TakesOver(Machine, l0, i) \/ h = CopiesPage(Machine, l0, i)
  BY HandlerCases
<1> QED BY <1>1, <1>2, <1>3

\* An access that the space allows goes through, or the pool is empty.
LEMMA AllowedGoesThrough ==
    ASSUME SpaceInv, SharingInv, "copy" \notin client \/ "cow" \notin client,
           NEW path \in VirtualAddresses, NEW kind \in {"read", "write"},
           NEW cur, cur = root_page_table,
           path \in Paths(cur), kind \in RightsAt(cur, path), ~RunsOut(path, kind)
    PROVE  Completes(path, kind)
<1>1. PICK l0, i, word, w, m, h, e :
          /\ l0 = L0Of(path) /\ i = path[3] /\ word = memory[l0][i]
          /\ w = AfterWalk(path) /\ m = AfterAccess(path, kind)
          /\ h = page_fault_handler(Machine, l0, i) /\ e = h.memory[l0][i]
  OBVIOUS
<1>2. ValidAt(root_page_table, path) /\ cur \in roots
  BY DEF Paths, Tree, SpaceInv, Types
<1>3. /\ l0 \in Page /\ allocated[l0] /\ i \in Index /\ word \in Words /\ word.valid
      /\ allocated[word.ppn] /\ PageAt(cur, path) = word.ppn /\ EntryAt(cur, path) = word
  BY <1>1, <1>2, MappedEntry, PathSplits
<1>4. ~m.full
  BY <1>1, <1>2 DEF RunsOut
<1>5. /\ w = IF Faults(word) THEN h ELSE Machine
      /\ m = IF w.full \/ Faults(w.memory[l0][i]) \/ w.memory[l0][i][kind]
             THEN w ELSE page_fault_handler(w, l0, i)
  BY <1>1, AccessIs
<1>6. ASSUME ~Faults(m.memory[l0][i]), m.memory[l0][i][kind] PROVE Completes(path, kind)
  BY <1>1, <1>2, <1>4, <1>6, AccessIs
<1>7. Machine.memory[l0][i] = word /\ ~Machine.full
  BY <1>1, MachineFields
<1>8. (kind = "read" /\ word.read) \/ (kind = "write" /\ (word.write \/ word.custom))
  BY <1>3, WriteRight DEF RightsAt
<1>9. CASE Allows(word, kind)
  <2>1. word[kind]
    BY <1>3, <1>9, KindOf
  <2>2. ~Faults(word)
    BY <1>3, <1>9 DEF Allows, Faults
  <2>3. m = Machine
    BY <1>5, <1>7, <2>1, <2>2
  <2> QED BY <1>6, <1>7, <2>1, <2>2, <2>3
<1>10. CASE ~Allows(word, kind)
  <2>1. kind = "write" /\ word.custom /\ ~word.write
    BY <1>8, <1>10 DEF Allows
  <2>2. ref_num[word.ppn] \in Nat /\ ref_num[word.ppn] >= 1
    BY <1>2, <1>3, <2>1, MarkedIsCounted
  <2>3. h.full \/ (~h.full /\ e \in Words /\ e.valid /\ e.write)
    BY <1>1, <1>3, <2>1, <2>2, HandlerHelps
  <2>4. e \in Words /\ e.write => e[kind]
    BY <2>1, KindOf DEF Allows
  <2>5. ~word[kind]
    BY <1>3, <1>10, KindOf
  <2>6. m = h
    <3>1. CASE Faults(word)
      <4>1. w = h
        BY <1>5, <3>1
      <4>2. h.full \/ e[kind]
        BY <2>3, <2>4
      <4> QED BY <1>1, <1>5, <4>1, <4>2
    <3>2. CASE ~Faults(word)
      <4>1. w = Machine
        BY <1>5, <3>2
      <4>2. m = page_fault_handler(Machine, l0, i)
        BY <1>5, <1>7, <2>5, <3>2, <4>1
      <4> QED BY <1>1, <4>2
    <3> QED BY <3>1, <3>2
  <2>7. e \in Words /\ e.valid /\ e.write /\ e[kind]
    BY <1>4, <2>3, <2>4, <2>6
  <2>8. ~Faults(e)
    BY <2>7 DEF Faults
  <2>9. ~Faults(m.memory[l0][i]) /\ m.memory[l0][i][kind]
    BY <1>1, <2>6, <2>7, <2>8
  <2> QED BY <1>6, <2>9
<1> QED BY <1>9, <1>10

\* An access that fails is a Stop or a Fault.
LEMMA FailsPromises ==
    ASSUME SpaceInv, SharingInv, "copy" \notin client \/ "cow" \notin client,
           NEW path \in VirtualAddresses, NEW kind \in {"read", "write"},
           process = "running", Fails(path, kind)
    PROVE  Promise!Stop \/ Promise!Fault(path, kind)
<1>1. CASE Exits("ENOMEM")
  <2>1. process' \in {"refused", "ENOMEM"} /\ UNCHANGED <<root_page_table, roots, memory>>
    BY <1>1 DEF Exits
  <2> QED BY <2>1, PromisedStop
<1>2. CASE ~RunsOut(path, kind) /\ ~Completes(path, kind) /\ Exits("EFAULT")
  <2>1. process' = "EFAULT" /\ UNCHANGED <<root_page_table, roots, memory>>
    BY <1>2 DEF Exits
  <2>2. ~(path \in Paths(root_page_table) /\ kind \in RightsAt(root_page_table, path))
    BY <1>2, AllowedGoesThrough
  <2>3. root_page_table \in roots
    BY DEF SpaceInv, Types
  <2>4. ~Promise!Allowed(path, kind)
    BY <2>2, <2>3, PromisedRights
  <2> QED BY <2>1, <2>4, PromisedFault
<1> QED BY <1>1, <1>2 DEF Fails

--------------------------------------------------------------------------------
(* The refinement.                                                         *)

\* Paths are virtual addresses.
LEMMA PathsAreAddresses ==
    ASSUME NEW r
    PROVE  Paths(r) \subseteq VirtualAddresses
<1>1. ASSUME NEW p \in Paths(r) PROVE p \in VirtualAddresses
  <2>1. p \in Positions /\ Len(p) = 3
    BY PathsOfTree, TreeIsPositions
  <2>2. p \in Seq(Index)
    BY <2>1, PositionIsSequence
  <2>3. p[1] \in Index /\ p[2] \in Index /\ p[3] \in Index
    BY <2>1, <2>2, ElementOfSeq
  <2>4. PICK q : q = <<p[1], p[2], p[3]>>
    OBVIOUS
  <2>5. q \in Seq(Index) /\ Len(q) = 3 /\ q[1] = p[1] /\ q[2] = p[2] /\ q[3] = p[3]
    BY <2>3, <2>4
  <2>6. \A n \in 1 .. 3 : q[n] = p[n]
    BY <2>5
  <2>7. p = q
    BY <2>1, <2>2, <2>5, <2>6, SeqEqual
  <2> QED BY <2>3, <2>4, <2>7 DEF VirtualAddresses
<1> QED BY <1>1

\* The set-up is a space of zeroes.
LEMMA InitPromises == Init => Promise!Init
<1>1. SUFFICES ASSUME Init PROVE Promise!Init
  OBVIOUS
<1>2. PICK paths \in SUBSET VirtualAddresses : \E perm, S, new : SetUp(paths, perm, S, new)
  BY <1>1, InitSetsUp
<1>3. PICK perm, S, new : SetUp(paths, perm, S, new)
  BY <1>2
<1>4. /\ SpaceInv
      /\ Tree(root_page_table) = S /\ roots = {root_page_table}
      /\ \A p \in S : PageAt(root_page_table, p) = new[p]
      /\ \A page \in Page : allocated[page] => \E p \in S : page = new[p]
      /\ \A page \in Page : ref_num[page] = 0
      /\ \A page \in Page : \A i \in Index :
             ~memory[page][i].custom /\ memory[page][i].value = 0
  BY <1>3, SetUpSpaces
<1>5. PICK root \in Page : root = root_page_table /\ roots = {root}
  BY <1>4 DEF SpaceInv, Types
<1>6. PICK mapped \in SUBSET VirtualAddresses : mapped = Paths(root)
  BY PathsAreAddresses
<1>7. ASSUME NEW a \in mapped PROVE ValueAt(root, a) = 0
  <2>1. PageAt(root, a) \in Page
    BY <1>4, <1>5, <1>6, PathsHeld
  <2> QED BY <1>4, <2>1, VmsAssumption DEF ValueAt
<1>8. Contents = [n \in {root} |-> [a \in mapped |-> 0]]
  <2>1. Contents = [r \in {root} |-> [p \in Paths(r) |-> ValueAt(r, p)]]
    BY <1>5 DEF Contents
  <2>2. [p \in Paths(root) |-> ValueAt(root, p)] = [a \in mapped |-> 0]
    BY <1>6, <1>7
  <2> QED BY <2>1, <2>2
<1>9. PICK rights : rights = [p \in mapped |-> RightsAt(root, p)]
  OBVIOUS
<1>10. rights \in [mapped -> SUBSET {"read", "write"}]
  BY <1>9 DEF RightsAt, PermsOf
<1>11. Rights = [n \in {root} |-> rights]
  <2>1. Rights = [r \in {root} |-> [p \in Paths(r) |-> RightsAt(r, p)]]
    BY <1>5 DEF Rights
  <2>2. [p \in Paths(root) |-> RightsAt(root, p)] = rights
    BY <1>6, <1>9
  <2> QED BY <2>1, <2>2
<1>12. Outcome = "running"
  BY <1>3 DEF SetUp, Outcome
<1> QED BY <1>5, <1>8, <1>10, <1>11, <1>12
        DEF Promise!Init, Contents, Rights, ValueAt, RightsAt, Outcome

\* Every step is a step of AddressSpaces or none.
LEMMA StepPromises ==
    ASSUME SpaceInv, SharingInv, "copy" \notin client \/ "cow" \notin client, [Next]_vars
    PROVE  [Promise!Next]_(Promise!vars)
<1>1. ASSUME UNCHANGED <<process, root_page_table, roots, memory>>
      PROVE  [Promise!Next]_(Promise!vars)
  BY <1>1, PromisedStutter
<1>2. ASSUME Promise!Stop PROVE Promise!Next
  BY <1>2 DEF Promise!Next
<1>3. ASSUME NEW n \in Page, Promise!Fork(n) \/ Promise!Switch(n) \/ Promise!Discard(n)
      PROVE  Promise!Next
  BY <1>3 DEF Promise!Next
<1>4. ASSUME NEW a \in VirtualAddresses, NEW kind \in {"read", "write"}, Promise!Fault(a, kind)
      PROVE  Promise!Next
  BY <1>4 DEF Promise!Next
<1>5. ASSUME NEW a \in VirtualAddresses, NEW value \in Values, Promise!Write(a, value)
      PROVE  Promise!Next
  BY <1>5 DEF Promise!Next
<1>6. CASE vms_fork_copy
  BY <1>2, <1>3, <1>6, ForkCopyPromises
<1>7. CASE vms_fork_copy_on_write
  BY <1>2, <1>3, <1>7, ForkOnWritePromises
<1>8. ASSUME NEW path \in VirtualAddresses, vms_read(path)
      PROVE  [Promise!Next]_(Promise!vars)
  <2>1. process = "running"
    BY <1>8 DEF vms_read
  <2>2. CASE Fails(path, "read")
    BY <1>2, <1>4, <2>1, <2>2, FailsPromises
  <2>3. CASE UNCHANGED <<process, root_page_table, roots, memory>>
    BY <1>1, <2>3
  <2> QED BY <1>8, <2>2, <2>3, ReadDoes
<1>9. ASSUME NEW path \in VirtualAddresses, NEW value \in Values, vms_write(path, value)
      PROVE  Promise!Next
  <2>1. process = "running"
    BY <1>9 DEF vms_write
  <2>2. CASE Fails(path, "write")
    BY <1>2, <1>4, <2>1, <2>2, FailsPromises
  <2>3. CASE Promise!Write(path, value)
    BY <1>5, <2>3
  <2> QED BY <1>9, <2>2, <2>3, WritePromises
<1>10. ASSUME NEW root \in Page, vms_set_root_page_table(root) PROVE Promise!Next
  <2>1. /\ process = "running" /\ root \in roots /\ root_page_table' = root
        /\ UNCHANGED <<process, roots, memory>>
    BY <1>10 DEF vms_set_root_page_table
  <2>2. Promise!Switch(root)
    BY <2>1, PromisedSwitch
  <2> QED BY <1>3, <2>2
<1>11. ASSUME NEW root \in Page, Discard(root) PROVE Promise!Next
  BY <1>3, <1>11, DiscardPromises
<1>12. CASE VmsEnded \/ UNCHANGED vars
  BY <1>1, <1>12 DEF VmsEnded, vars
<1> QED BY <1>6, <1>7, <1>8, <1>9, <1>10, <1>11, <1>12 DEF Next

\* For clients that do not mix the two forks, the simulator implements AddressSpaces:
\* a fork of either kind is a snapshot, vms_write is seen in one space only, and the
\* MMU turns an access away only where the space has no right to it.
THEOREM SpacesKeepPromise ==
    ASSUME \A kinds \in Clients : "copy" \notin kinds \/ "cow" \notin kinds
    PROVE  Spec => ImplementsAddressSpaces
<1>1. SpaceInv /\ SharingInv /\ [Next]_vars => [Promise!Next]_(Promise!vars)
  <2>1. SpaceInv => "copy" \notin client \/ "cow" \notin client
    BY DEF SpaceInv, Types
  <2> QED BY <2>1, StepPromises
<1> QED BY SharingInvariant, InitPromises, <1>1, PTL
        DEF Spec, ImplementsAddressSpaces, Promise!Spec
================================================================================
