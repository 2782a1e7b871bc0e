--------------------------- MODULE PageTablesProofs ----------------------------
(***************************************************************************)
(* Theorems about Pages, for every number of pages and every contents, and *)
(* about PageTables, for every word and every address.                     *)
(***************************************************************************)
EXTENDS PageTables, LeastElement, TLAPS, FiniteSetTheorems

--------------------------------------------------------------------------------
(* The pool of Pages.                                                       *)

Taken == {i \in Page : allocated[i]}

\* The types, the counter against the pages handed out, and the zeroes of the
\* free pages.  The range of the counter follows from its meaning.
PoolInv ==
    /\ allocated \in [Page -> BOOLEAN]
    /\ memory \in [Page -> Contents]
    /\ process \in {"running", "ENOMEM", "SIGABRT"}
    /\ used_pages = Cardinality(Taken)
    /\ FreePagesAreZero

LEMMA TakenIsFinite == IsFiniteSet(Taken) /\ Cardinality(Taken) \in 0 .. MaxPages
<1>1. IsFiniteSet(Page) /\ Cardinality(Page) = MaxPages
  BY FS_Interval, PagesAssumption DEF Page
<1>2. IsFiniteSet(Taken) /\ Cardinality(Taken) <= Cardinality(Page)
  BY <1>1, FS_Subset DEF Taken
<1>3. Cardinality(Taken) \in Nat
  BY <1>2, FS_CardinalityType
<1> QED BY <1>1, <1>2, <1>3, PagesAssumption

\* The search of vms_new_page returns a free page when there is one.
LEMMA LowestFreeIsFree ==
    ASSUME Free # {}
    PROVE  LowestFree \in Free
<1>1. Free \subseteq Nat
  BY PagesAssumption DEF Free, Page
<1>2. \E i \in Free : \A j \in Free : i <= j
  BY <1>1, LeastExists
<1> QED BY <1>2, Zenon DEF LowestFree

--------------------------------------------------------------------------------

LEMMA PoolInvTypes == PoolInv => PagesTypeOK
BY TakenIsFinite DEF PoolInv, PagesTypeOK

LEMMA InitPoolInv == PagesInit => PoolInv
<1> SUFFICES ASSUME PagesInit PROVE PoolInv
  OBVIOUS
<1>1. Taken = {}
  BY DEF PagesInit, Taken
<1>2. Cardinality(Taken) = 0
  BY <1>1, FS_EmptySet
<1>3. allocated \in [Page -> BOOLEAN] /\ memory \in [Page -> Contents]
  BY PagesAssumption DEF PagesInit
<1>4. FreePagesAreZero
  BY DEF PagesInit, FreePagesAreZero, Free
<1> QED BY <1>2, <1>3, <1>4 DEF PagesInit, PoolInv

LEMMA DeathKeepsPoolInv ==
    ASSUME PoolInv, NEW status \in {"ENOMEM", "SIGABRT"}, Dies(status)
    PROVE  PoolInv'
BY DEF PoolInv, Dies, FreePagesAreZero, Free, Taken

LEMMA StepPoolInv == PoolInv /\ [PagesNext]_pageVars => PoolInv'
<1> SUFFICES ASSUME PoolInv, [PagesNext]_pageVars PROVE PoolInv'
  OBVIOUS
<1> USE DEF PoolInv
<1>1. CASE NewPageFound
  <2>1. LowestFree \in Page /\ ~allocated[LowestFree]
    BY <1>1, LowestFreeIsFree DEF NewPageFound, Free
  <2> HIDE DEF PoolInv
  <2>2. Taken' = Taken \cup {LowestFree} /\ LowestFree \notin Taken
    BY <1>1, <2>1 DEF PoolInv, NewPageFound, Taken
  <2>3. used_pages' = Cardinality(Taken')
    BY <1>1, <2>2, TakenIsFinite, FS_AddElement DEF PoolInv, NewPageFound
  <2>4. FreePagesAreZero'
    BY <1>1, <2>1 DEF PoolInv, NewPageFound, FreePagesAreZero, Free
  <2> QED BY <1>1, <2>3, <2>4 DEF PoolInv, NewPageFound
<1>2. ASSUME NEW i \in Page, FreePageCleared(i) PROVE PoolInv'
  <2> HIDE DEF PoolInv
  <2>1. Taken' = Taken \ {i} /\ i \in Taken
    BY <1>2 DEF PoolInv, FreePageCleared, Taken
  <2>2. used_pages' = Cardinality(Taken')
    BY <1>2, <2>1, TakenIsFinite, FS_RemoveElement DEF PoolInv, FreePageCleared
  <2>3. FreePagesAreZero'
    BY <1>2 DEF PoolInv, FreePageCleared, FreePagesAreZero, Free
  <2> QED BY <1>2, <2>2, <2>3, PagesAssumption DEF PoolInv, FreePageCleared
<1>3. ASSUME NEW i \in Page, NEW c \in Contents, Store(i, c) PROVE PoolInv'
  BY <1>3 DEF Store, FreePagesAreZero, Free, Taken
<1>4. ASSUME NEW status \in {"ENOMEM", "SIGABRT"}, Dies(status) PROVE PoolInv'
  BY <1>4, DeathKeepsPoolInv
<1>5. CASE UNCHANGED pageVars
  BY <1>5 DEF pageVars, FreePagesAreZero, Free, Taken
<1> QED BY <1>1, <1>2, <1>3, <1>4, <1>5
        DEF PagesNext, vms_new_page, vms_free_page, PagesEnded

--------------------------------------------------------------------------------
(* Theorems about the pool.                                                 *)

\* PoolInv holds in every reachable state.
THEOREM PoolInvHolds == PagesSpec => []PoolInv
BY InitPoolInv, StepPoolInv, PTL DEF PagesSpec

\* Every variable keeps its type; the counter never leaves 0 .. MAX_PAGES.
THEOREM PagesTypeCorrect == PagesSpec => []PagesTypeOK
<1> QED BY PoolInvTypes, PoolInvHolds, PTL

\* vms_get_used_pages is the number of pages handed out, after any sequence of
\* vms_new_page and vms_free_page.
THEOREM CounterIsExact == PagesSpec => []UsedPagesIsExact
<1>1. PoolInv => UsedPagesIsExact
  BY DEF PoolInv, UsedPagesIsExact, Taken
<1> QED BY <1>1, PoolInvHolds, PTL

\* The page that vms_new_page returns is zero, whoever had it before.
THEOREM NewPagesAreZero == PagesSpec => []FreePagesAreZero
<1>1. PoolInv => FreePagesAreZero
  BY DEF PoolInv
<1> QED BY <1>1, PoolInvHolds, PTL

--------------------------------------------------------------------------------
(* Entries and addresses.                                                   *)

\* What a page number can be: the 44 bits of the field.
PpnBits == 0 .. 43
Field == 10 .. 53

LEMMA MaskIsTheField == PpnMask = Field
BY SMT DEF PpnMask, ShiftRight, ShiftLeft, Bit, PTE_PPN_START_BIT, Field

LEMMA ShiftedIntoField ==
    ASSUME NEW ppn \in SUBSET PpnBits
    PROVE  ShiftRight(ShiftLeft(ppn, 20), PTE_PPN_START_BIT) = {b \in Field : b - 10 \in ppn}
<1>1. \A b \in ShiftRight(ShiftLeft(ppn, 20), 10) : b \in Field /\ b - 10 \in ppn
  BY DEF ShiftRight, ShiftLeft, Bit, PpnBits, Field
<1>2. \A b \in Field : b - 10 \in ppn => b \in ShiftRight(ShiftLeft(ppn, 20), 10)
  BY DEF ShiftRight, ShiftLeft, Bit, PpnBits, Field
<1> QED BY <1>1, <1>2 DEF PTE_PPN_START_BIT

\* A word after vms_pte_set_ppn: the field is the number, the rest is as it was.
LEMMA WordAfterSetPpn ==
    ASSUME NEW e \in Word, NEW ppn \in SUBSET PpnBits
    PROVE  /\ vms_pte_set_ppn(e, ppn) \in Word
           /\ \A b \in Field : b \in vms_pte_set_ppn(e, ppn) <=> b - 10 \in ppn
           /\ \A b \in Bit \ Field : b \in vms_pte_set_ppn(e, ppn) <=> b \in e
<1>1. vms_pte_set_ppn(e, ppn) = (e \ Field) \cup {b \in Field : b - 10 \in ppn}
  BY MaskIsTheField, ShiftedIntoField DEF vms_pte_set_ppn, Not, Word
<1>2. Field \subseteq Bit
  BY DEF Field, Bit
<1> QED BY <1>1, <1>2, Zenon DEF Word

\* vms_pte_get_ppn returns what vms_pte_set_ppn stored, whatever the word held.
LEMMA PpnIsKept ==
    ASSUME NEW e \in Word, NEW ppn \in SUBSET PpnBits
    PROVE  vms_pte_get_ppn(vms_pte_set_ppn(e, ppn)) = ppn
<1> DEFINE f == vms_pte_set_ppn(e, ppn)
<1>1. \A b \in Field : b \in f <=> b - 10 \in ppn
  BY WordAfterSetPpn
<1> HIDE DEF f
<1>2. \A b : b \in vms_pte_get_ppn(f) <=> (b \in Bit /\ b + 10 \in f /\ b + 10 \in Field)
  BY MaskIsTheField DEF vms_pte_get_ppn, ShiftRight, PTE_PPN_START_BIT
<1>3. ASSUME NEW b \in vms_pte_get_ppn(f) PROVE b \in ppn
  <2>1. b \in Bit /\ b + 10 \in f /\ b + 10 \in Field
    BY <1>2
  <2>2. (b + 10) - 10 \in ppn
    BY <1>1, <2>1
  <2>3. (b + 10) - 10 = b
    BY <2>1 DEF Bit
  <2> QED BY <2>2, <2>3
<1>4. ASSUME NEW b \in ppn PROVE b \in vms_pte_get_ppn(f)
  <2>1. b \in Bit /\ b + 10 \in Field /\ (b + 10) - 10 = b
    BY DEF PpnBits, Bit, Field
  <2>2. b + 10 \in f
    BY <1>1, <2>1
  <2> QED BY <1>2, <2>1, <2>2
<1>5. vms_pte_get_ppn(f) = ppn
  BY <1>3, <1>4
<1> QED BY <1>5 DEF f

\* The address of a page comes back from its number.
LEMMA PageIsKept ==
    ASSUME NEW a \in SUBSET (12 .. 46)
    PROVE  /\ vms_page_to_ppn(a) \in SUBSET PpnBits
           /\ vms_ppn_to_page(vms_page_to_ppn(a)) = a
<1>1. \A b : b \in vms_page_to_ppn(a) <=> (b \in Bit /\ b + 12 \in a)
  BY DEF vms_page_to_ppn, ShiftRight, OFFSET_BITS
<1>2. \A b : b \in vms_ppn_to_page(vms_page_to_ppn(a)) <=>
                 (b \in Bit /\ b - 12 \in vms_page_to_ppn(a))
  BY DEF vms_ppn_to_page, ShiftLeft, OFFSET_BITS
<1>3. \A b \in vms_page_to_ppn(a) : b \in PpnBits
  BY <1>1 DEF PpnBits, Bit
<1>4. ASSUME NEW b \in vms_ppn_to_page(vms_page_to_ppn(a)) PROVE b \in a
  <2>1. b \in Bit /\ b - 12 \in Bit /\ (b - 12) + 12 \in a
    BY <1>1, <1>2
  <2>2. (b - 12) + 12 = b
    BY <2>1 DEF Bit
  <2> QED BY <2>1, <2>2
<1>5. ASSUME NEW b \in a PROVE b \in vms_ppn_to_page(vms_page_to_ppn(a))
  <2>1. b \in Bit /\ b - 12 \in Bit /\ (b - 12) + 12 = b
    BY DEF Bit
  <2>2. b - 12 \in vms_page_to_ppn(a)
    BY <1>1, <2>1
  <2> QED BY <1>2, <2>1, <2>2
<1> QED BY <1>3, <1>4, <1>5

--------------------------------------------------------------------------------
(* Virtual addresses.                                                       *)

\* Two virtual addresses that the walk of the page table takes to the same
\* entries and that have the same offset are the same 39-bit address: the
\* indexes of the three levels and the offset neither overlap nor leave a gap.
THEOREM AddressesAreSplit ==
    ASSUME NEW a \in Word, NEW c \in Word,
           \A level \in 0 .. 2 : vms_page_table_index(a, level) = vms_page_table_index(c, level),
           a \cap (0 .. 11) = c \cap (0 .. 11)
    PROVE  a \cap (0 .. 38) = c \cap (0 .. 38)
<1>1. ASSUME NEW x \in Word, NEW level \in 0 .. 2, NEW b \in 0 .. 8
      PROVE  b \in vms_page_table_index(x, level) <=> b + (9 * level + 12) \in x
  BY DEF vms_page_table_index, ShiftRight, ShiftLeft, Bit, INDEX_BITS, OFFSET_BITS, Word
<1>2. ASSUME NEW level \in 0 .. 2, NEW b \in 0 .. 8
      PROVE  b + (9 * level + 12) \in a <=> b + (9 * level + 12) \in c
  BY <1>1
<1>3. ASSUME NEW n \in 12 .. 38 PROVE n \in a <=> n \in c
  <2>1. PICK level \in 0 .. 2 : n - (9 * level + 12) \in 0 .. 8
    <3>1. CASE n <= 20
      BY <3>1
    <3>2. CASE n > 20 /\ n <= 29
      BY <3>2
    <3>3. CASE n > 29
      BY <3>3
    <3> QED BY <3>1, <3>2, <3>3
  <2>2. (n - (9 * level + 12)) + (9 * level + 12) = n
    OBVIOUS
  <2> QED BY <1>2, <2>1, <2>2
<1>4. \A n \in 0 .. 38 : n \in 12 .. 38 \/ n \in 0 .. 11
  OBVIOUS
<1> QED BY <1>3, <1>4

--------------------------------------------------------------------------------
(* The entry.                                                               *)

TablesInv ==
    /\ PoolInv
    /\ entry \in Word
    /\ asked \in [flags : FlagSets, page : Page \cup {-1}]
    /\ EntryIsItsRecord

\* The flags are bits outside the field.
LEMMA FlagBits ==
    ASSUME NEW e \in Word
    PROVE  Flags(e) = [valid |-> 0 \in e, read |-> 1 \in e, write |-> 2 \in e, custom |-> 8 \in e]
BY DEF Flags, vms_pte_valid, vms_pte_read, vms_pte_write, vms_pte_custom,
       PTE_VALID, PTE_READ, PTE_WRITE, PTE_CUSTOM

LEMMA FlagsType == \A e : Flags(e) \in FlagSets
BY DEF FlagSets, Flags, vms_pte_valid, vms_pte_read, vms_pte_write, vms_pte_custom

LEMMA SameBitsSamePpn ==
    ASSUME NEW e \in Word, NEW f \in Word, e \cap Field = f \cap Field
    PROVE  vms_pte_get_ppn(e) = vms_pte_get_ppn(f)
BY MaskIsTheField DEF vms_pte_get_ppn

LEMMA InitTablesInv == TablesInit => TablesInv
<1> SUFFICES ASSUME TablesInit PROVE TablesInv
  OBVIOUS
<1>1. PoolInv
  BY InitPoolInv DEF TablesInit
<1>2. entry \in Word /\ asked = [flags |-> Flags(entry), page |-> -1]
  BY PageTablesAssumption DEF TablesInit
<1>3. -1 \notin Page
  BY DEF Page
<1> QED BY <1>1, <1>2, <1>3, FlagsType DEF TablesInv, EntryIsItsRecord

\* A flag changes one bit outside the field and nothing else.
LEMMA ChangeFlagStep ==
    ASSUME TablesInv, ChangeFlag
    PROVE  /\ entry' \in Word
           /\ entry' \cap Field = entry \cap Field
           /\ entry' \cap NoField = entry \cap NoField
           /\ Flags(entry') = asked'.flags
           /\ asked' \in [flags : FlagSets, page : Page \cup {-1}]
           /\ asked'.page = asked.page
<1>1. PICK bit \in {0, 1, 2, 8}, flag \in {"valid", "read", "write", "custom"}, on \in BOOLEAN :
        /\ bit = (IF flag = "valid" THEN 0 ELSE IF flag = "read" THEN 1
                  ELSE IF flag = "write" THEN 2 ELSE 8)
        /\ entry' = (IF on THEN entry \cup {bit} ELSE entry \ {bit})
        /\ asked' = [asked EXCEPT !.flags[flag] = on]
  <2>1. entry \subseteq Bit
    BY DEF TablesInv, Word
  <2>2. \A bit : entry \cap Not({bit}) = entry \ {bit}
    BY <2>1 DEF Not
  <2> QED BY <2>2 DEF ChangeFlag, Asks, vms_pte_valid_clear, vms_pte_valid_set, vms_pte_read_clear,
       vms_pte_read_set, vms_pte_write_clear, vms_pte_write_set, vms_pte_custom_clear,
       vms_pte_custom_set, PTE_VALID, PTE_READ, PTE_WRITE, PTE_CUSTOM
<1>2. entry \in Word /\ entry' \in Word
  BY <1>1 DEF TablesInv, Word, Bit
<1>3. bit \notin Field /\ bit \notin NoField
  BY DEF Field, NoField, PTE_VALID, PTE_READ, PTE_WRITE, PTE_CUSTOM
<1>4. entry' \cap Field = entry \cap Field /\ entry' \cap NoField = entry \cap NoField
  BY <1>1, <1>3
<1>5. asked.flags \in FlagSets
      /\ asked.page \in Page \cup {-1}
  BY DEF TablesInv
<1>6. /\ asked' \in [flags : FlagSets, page : Page \cup {-1}]
      /\ asked'.page = asked.page
      /\ asked'.flags = [asked.flags EXCEPT ![flag] = on]
  <2>1. [asked.flags EXCEPT ![flag] = on] \in FlagSets
    <3>1. flag = "valid" \/ flag = "read" \/ flag = "write" \/ flag = "custom"
      OBVIOUS
    <3>2. PICK v \in BOOLEAN, r \in BOOLEAN, w \in BOOLEAN, c \in BOOLEAN :
            asked.flags = [valid |-> v, read |-> r, write |-> w, custom |-> c]
      BY <1>5 DEF FlagSets
    <3> QED BY <3>1, <3>2 DEF FlagSets
  <2>2. /\ asked'.page = asked.page
        /\ asked'.flags = [asked.flags EXCEPT ![flag] = on]
        /\ asked' = [flags |-> asked'.flags, page |-> asked'.page]
    BY <1>1 DEF TablesInv
  <2> QED BY <2>1, <2>2, <1>5
<1>7. asked.flags = Flags(entry)
  BY DEF TablesInv, EntryIsItsRecord
<1>8. Flags(entry') = [Flags(entry) EXCEPT ![flag] = on]
  BY <1>1, <1>2, FlagBits
<1> QED BY <1>2, <1>4, <1>6, <1>7, <1>8

\* Pointing the entry at a page changes the field and nothing else.
LEMMA PointToStep ==
    ASSUME TablesInv, NEW page \in Page,
           entry' = vms_pte_set_ppn(entry, vms_page_to_ppn(PageAddress[page]))
    PROVE  /\ entry' \in Word
           /\ entry' \ Field = entry \ Field
           /\ Flags(entry') = Flags(entry)
           /\ vms_ppn_to_page(vms_pte_get_ppn(entry')) = PageAddress[page]
<1>1. entry \in Word /\ PageAddress[page] \in SUBSET (12 .. 46)
  BY PageTablesAssumption DEF TablesInv
<1>2. vms_page_to_ppn(PageAddress[page]) \in SUBSET PpnBits
      /\ vms_ppn_to_page(vms_page_to_ppn(PageAddress[page])) = PageAddress[page]
  BY <1>1, PageIsKept
<1>3. entry' \in Word /\ \A b \in Bit \ Field : b \in entry' <=> b \in entry
  BY <1>1, <1>2, WordAfterSetPpn
<1>4. entry' \ Field = entry \ Field
  BY <1>1, <1>3 DEF Word
<1>5. \A b \in {0, 1, 2, 8} : b \in Bit \ Field
  BY DEF Bit, Field
<1>6. Flags(entry') = Flags(entry)
  BY <1>1, <1>3, <1>5, FlagBits
<1> QED BY <1>1, <1>2, <1>3, <1>4, <1>6, PpnIsKept

LEMMA PointToCases ==
    ASSUME NEW page \in Page, NEW offset \in {{}, {3}}, PointTo(page, offset)
    PROVE  \/ /\ entry' = vms_pte_set_ppn(entry, vms_page_to_ppn(PageAddress[page]))
              /\ asked' = [asked EXCEPT !.page = page]
              /\ UNCHANGED pageVars
           \/ Dies("SIGABRT") /\ UNCHANGED <<entry, asked>>
<1>1. CASE offset = {}
  BY <1>1 DEF PointTo
<1>2. CASE offset = {3}
  <2>1. ~IsPage(PageAddress[page] \cup offset)
    BY <1>2 DEF IsPage
  <2> QED BY <2>1 DEF PointTo
<1> QED BY <1>1, <1>2

LEMMA StepTablesInv ==
    TablesInv /\ [TablesNext]_tableVars => TablesInv' /\ entry' \cap NoField = entry \cap NoField
<1> SUFFICES ASSUME TablesInv, [TablesNext]_tableVars
             PROVE  TablesInv' /\ entry' \cap NoField = entry \cap NoField
  OBVIOUS
<1>1. ASSUME UNCHANGED <<entry, asked>>, PoolInv' PROVE TablesInv' /\ entry' = entry
  BY <1>1 DEF TablesInv, EntryIsItsRecord
<1>2. CASE ([PagesNext]_pageVars) /\ UNCHANGED <<entry, asked>>
  BY <1>1, <1>2, StepPoolInv DEF TablesInv
<1>3. CASE ChangeFlag
  <2>1. PoolInv'
    BY <1>3, StepPoolInv DEF ChangeFlag, TablesInv
  <2>2. vms_pte_get_ppn(entry') = vms_pte_get_ppn(entry)
    BY <1>3, ChangeFlagStep, SameBitsSamePpn DEF TablesInv
  <2>3. EntryIsItsRecord'
    BY <1>3, <2>2, ChangeFlagStep DEF TablesInv, EntryIsItsRecord
  <2> QED BY <1>3, <2>1, <2>3, ChangeFlagStep DEF TablesInv
<1>4. ASSUME NEW page \in Page,
             entry' = vms_pte_set_ppn(entry, vms_page_to_ppn(PageAddress[page])),
             asked' = [asked EXCEPT !.page = page],
             UNCHANGED pageVars
      PROVE  TablesInv' /\ entry' \cap NoField = entry \cap NoField
  <2>1. PoolInv'
    BY <1>4, StepPoolInv DEF TablesInv
  <2>2. /\ asked' \in [flags : FlagSets, page : Page \cup {-1}]
        /\ asked'.flags = asked.flags /\ asked'.page = page
    BY <1>4 DEF TablesInv
  <2>3. EntryIsItsRecord'
    BY <1>4, <2>2, PointToStep DEF TablesInv, EntryIsItsRecord
  <2>4. NoField \cap Field = {}
    BY DEF NoField, Field
  <2> QED BY <1>4, <2>1, <2>2, <2>3, <2>4, PointToStep DEF TablesInv
<1>5. CASE Dies("SIGABRT") /\ UNCHANGED <<entry, asked>>
  BY <1>1, <1>5, DeathKeepsPoolInv DEF TablesInv
<1>6. CASE UNCHANGED tableVars
  BY <1>2, <1>6 DEF tableVars
<1> QED BY <1>2, <1>3, <1>4, <1>5, <1>6, PointToCases DEF TablesNext

--------------------------------------------------------------------------------
(* The theorems.                                                            *)

\* TablesInv holds in every reachable state.
THEOREM TablesInvHolds == TablesSpec => []TablesInv
BY InitTablesInv, StepTablesInv, PTL DEF TablesSpec

\* Every variable keeps its type, the counter of the pool its range.
THEOREM TablesTypeCorrect == TablesSpec => []TablesTypeOK
<1>1. TablesInv => TablesTypeOK
  BY PoolInvTypes DEF TablesInv, TablesTypeOK
<1> QED BY <1>1, TablesInvHolds, PTL

\* For every pool of pages and every word of memory, an entry is the record of
\* flags and page that Vms models it by, whatever was done to it.
THEOREM EntriesAreRecords == TablesSpec => []EntryIsItsRecord
<1>1. TablesInv => EntryIsItsRecord
  BY DEF TablesInv
<1> QED BY <1>1, TablesInvHolds, PTL

\* No operation of pte.c writes a bit outside its fields.
THEOREM NoOtherBitIsWritten == TablesSpec => OtherBitsStay
<1>1. TablesInv /\ [TablesNext]_tableVars => [entry' \cap NoField = entry \cap NoField]_tableVars
  BY StepTablesInv
<1> QED BY <1>1, TablesInvHolds, PTL DEF TablesSpec, OtherBitsStay
================================================================================
