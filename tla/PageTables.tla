------------------------------- MODULE PageTables -------------------------------
(***************************************************************************)
(* Page table entries and addresses, bit for bit: vms/src/pte.c and        *)
(* page_table.c, with the pool the pages come from.  A word of 64 bits is  *)
(* the set of the numbers of its bits that are 1.                          *)
(***************************************************************************)
EXTENDS Pages

CONSTANTS
    PageAddress,  \* the address of each page of the pool
    Clutter       \* words an entry may start with

Bit == 0 .. 63
Word == SUBSET Bit

\* mmap returns addresses of the user's half of the address space, page aligned.
ASSUME PageTablesAssumption ==
    /\ PageAddress \in [Page -> SUBSET (12 .. 46)]
    /\ \A i, k \in Page : PageAddress[i] = PageAddress[k] => i = k
    /\ Clutter \subseteq Word

--------------------------------------------------------------------------------
(* Words.                                                                   *)

ShiftLeft(w, n) == {b \in Bit : b - n \in w}
ShiftRight(w, n) == {b \in Bit : b + n \in w}
Not(w) == Bit \ w

PTE_VALID == {0}
PTE_READ == {1}
PTE_WRITE == {2}
PTE_CUSTOM == {8}
PTE_PPN_START_BIT == 10
INDEX_BITS == 9
OFFSET_BITS == 12

vms_pte_valid_clear(e) == e \cap Not(PTE_VALID)
vms_pte_valid_set(e) == e \cup PTE_VALID
vms_pte_valid(e) == e \cap PTE_VALID # {}
vms_pte_read_clear(e) == e \cap Not(PTE_READ)
vms_pte_read_set(e) == e \cup PTE_READ
vms_pte_read(e) == e \cap PTE_READ # {}
vms_pte_write_clear(e) == e \cap Not(PTE_WRITE)
vms_pte_write_set(e) == e \cup PTE_WRITE
vms_pte_write(e) == e \cap PTE_WRITE # {}
vms_pte_custom_clear(e) == e \cap Not(PTE_CUSTOM)
vms_pte_custom_set(e) == e \cup PTE_CUSTOM
vms_pte_custom(e) == e \cap PTE_CUSTOM # {}

PpnMaskToTheTop ==  \* mutant: the ten bits above the number are not left out
    ShiftLeft(Bit, PTE_PPN_START_BIT)
PpnMask == ShiftRight(ShiftLeft(Bit, 20), PTE_PPN_START_BIT)

vms_pte_get_ppn(e) == ShiftRight(e \cap PpnMask, PTE_PPN_START_BIT)

SetPpnOver(e, ppn) ==  \* mutant: the old number is not cleared
    e \cup ShiftRight(ShiftLeft(ppn, 20), PTE_PPN_START_BIT)
vms_pte_set_ppn(e, ppn) ==
    (e \cap Not(PpnMask)) \cup ShiftRight(ShiftLeft(ppn, 20), PTE_PPN_START_BIT)

vms_page_table_index(address, level) ==
    LET start == INDEX_BITS * level + OFFSET_BITS
    IN  ShiftRight(ShiftLeft(0 .. 8, start) \cap address, start)

vms_ppn_to_page(ppn) == ShiftLeft(ppn, OFFSET_BITS)

\* The address must be page aligned and its last four bits zero, or the call aborts.
IsPage(address) == address \cap (0 .. 11) = {} /\ address \cap (60 .. 63) = {}
vms_page_to_ppn(address) == ShiftRight(address, OFFSET_BITS)

--------------------------------------------------------------------------------
(* An entry of a table that a client holds, with what the client last asked *)
(* of it: the flags and the page, which is all of a word that Vms keeps.    *)

VARIABLES
    entry,  \* the word
    asked   \* the flags the client set last and the page, -1 before the first

tableVars == <<pageVars, entry, asked>>

Flags(e) == [valid |-> vms_pte_valid(e), read |-> vms_pte_read(e),
             write |-> vms_pte_write(e), custom |-> vms_pte_custom(e)]

TablesInit ==
    /\ PagesInit
    /\ entry \in Clutter
    /\ asked = [flags |-> Flags(entry), page |-> -1]

Asks(flag, value) == asked' = [asked EXCEPT !.flags[flag] = value]

ChangeFlag ==
    /\ process = "running"
    /\ \/ entry' = vms_pte_valid_clear(entry) /\ Asks("valid", FALSE)
       \/ entry' = vms_pte_valid_set(entry) /\ Asks("valid", TRUE)
       \/ entry' = vms_pte_read_clear(entry) /\ Asks("read", FALSE)
       \/ entry' = vms_pte_read_set(entry) /\ Asks("read", TRUE)
       \/ entry' = vms_pte_write_clear(entry) /\ Asks("write", FALSE)
       \/ entry' = vms_pte_write_set(entry) /\ Asks("write", TRUE)
       \/ entry' = vms_pte_custom_clear(entry) /\ Asks("custom", FALSE)
       \/ entry' = vms_pte_custom_set(entry) /\ Asks("custom", TRUE)
    /\ UNCHANGED pageVars

\* vms_pte_set_ppn(entry, vms_page_to_ppn(pointer)), the pointer to the page or
\* to a place inside it.
PointTo(page, offset) ==
    LET pointer == PageAddress[page] \cup offset
    IN  /\ process = "running"
        /\ allocated[page]
        /\ IF IsPage(pointer)
           THEN /\ entry' = vms_pte_set_ppn(entry, vms_page_to_ppn(pointer))
                /\ asked' = [asked EXCEPT !.page = page]
                /\ UNCHANGED pageVars
           ELSE Dies("SIGABRT") /\ UNCHANGED <<entry, asked>>

TablesNext ==
    \/ PagesNext /\ UNCHANGED <<entry, asked>>
    \/ ChangeFlag
    \/ \E page \in Page, offset \in {{}, {3}} : PointTo(page, offset)

TablesSpec == TablesInit /\ [][TablesNext]_tableVars

--------------------------------------------------------------------------------
FlagSets == [valid : BOOLEAN, read : BOOLEAN, write : BOOLEAN, custom : BOOLEAN]

TablesTypeOK ==
    /\ PagesTypeOK
    /\ entry \in Word
    /\ asked \in [flags : FlagSets, page : Page \cup {-1}]

\* After any sequence of the operations of pte.c, in any order, a word is the
\* record of flags and page that Vms keeps of it: no operation disturbs what
\* another one wrote, and the page's address comes back from its number whole.
EntryIsItsRecord ==
    /\ Flags(entry) = asked.flags
    /\ asked.page # -1 => vms_ppn_to_page(vms_pte_get_ppn(entry)) = PageAddress[asked.page]

\* The bits of a word that are no field of pte.c (3 to 7, 9, 54 to 63), which it
\* calls reserved or leaves to hardware, keep what the table's memory held.
NoField == Bit \ (PTE_VALID \cup PTE_READ \cup PTE_WRITE \cup PTE_CUSTOM \cup (10 .. 53))
OtherBitsStay == [][entry' \cap NoField = entry \cap NoField]_tableVars
================================================================================
