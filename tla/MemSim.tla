------------------------------- MODULE MemSim -------------------------------
(***************************************************************************)
(* The simulator of address translation (l6-mem-pte, memsim.c): a page     *)
(* table of 16-bit entries in front of a main memory of bytes.  The file   *)
(* is compiled in three ways, for the steps 2, 3 and 4 of the exercise     *)
(* (lines 31-43); step 3 adds permission bits, step 4 has larger pages.    *)
(* The addresses used are a sample, the rest of the memory is left out.    *)
(***************************************************************************)
EXTENDS Integers

CONSTANTS
    Builds,   \* the ways of compiling that are looked at: steps 2, 3, 4
    Addr,     \* virtual addresses
    Value     \* values stored; 0 is what the memory starts with

\* The type uint16_t of an entry, and of an address once it is converted.
UINT16_MAX == 65535
uint16_t == 0 .. UINT16_MAX

ASSUME MemSimAssumption ==
    /\ Builds \in SUBSET (2 .. 4)
    /\ Addr \in SUBSET uint16_t
    /\ Value \in SUBSET (0 .. 255) /\ 0 \in Value

VARIABLES
    build,        \* MEMORY_SIZE_SMALL and MEMORY_PTE_ATTRIBUTES_ACTIVE
    page_table,
    main_mem,
    stored        \* history: what was last stored at a virtual address

simVars == <<build, page_table, main_mem, stored>>

\* MEMORY_SIZE_SMALL is 0 in step 4 only, the attributes are active in step 3.
PAGE_NUM(b) == IF b = 4 THEN 64 ELSE 256
PAGE_SIZE(b) == IF b = 4 THEN 1024 ELSE 256

\* Mutant: the index is taken one bit too low.
HIGH8_Shift7(x) == (x \div 128) % 256

HIGH8(x) == (x \div 256) % 256

LOW8(x) == x % 256
HIGH6(x) == (x \div 8) % 8
LOW10(x) == x % 1024

\* init_page_table: the frame number in the high bits, in step 3 the valid bit
\* 0 and the permission in the bits 1 and 2.  `|= ~VALID_BIT' sets all the
\* other bits of the entries 5 to 8.
pte_init(b, i) ==
    IF b = 3 /\ i \in 5 .. 8 THEN 65535
    ELSE ((((PAGE_NUM(b) - 1) - i) * PAGE_SIZE(b)) % 65536)
         + IF b # 3 THEN 0 ELSE 1 + IF i \in 10 .. 12 THEN 2 ELSE 0

virt_to_pte(vaddr) ==
    page_table[IF build = 4 THEN HIGH6(vaddr) ELSE HIGH8(vaddr)]

\* The byte of the main memory that get_byte reads and store_byte writes.
Cell(pte, vaddr) ==
    IF build = 4 THEN <<HIGH6(pte), LOW10(vaddr)>> ELSE <<HIGH8(pte), LOW8(vaddr)>>
CellOf(vaddr) == Cell(virt_to_pte(vaddr), vaddr)

\* RWX_PATTERN 0, R_PATTERN 1, W_PATTERN 2, X_PATTERN 3.
Rwx(pte) == (pte \div 2) % 4

\* get_byte succeeds: in step 3 the page has to be readable, and valid.
Readable(vaddr) ==
    build = 3 => Rwx(virt_to_pte(vaddr)) \in {0, 1} /\ virt_to_pte(vaddr) % 2 = 1

\* Mutant: the permission of the page is not looked at.
Writable_Always(vaddr) == TRUE

\* store_byte succeeds: its test of the valid bit compares before it masks,
\* and so never refuses a page.
Writable(vaddr) == build = 3 => Rwx(virt_to_pte(vaddr)) \in {0, 2}

-----------------------------------------------------------------------------
SimInit ==
    /\ build \in Builds
    /\ page_table = [i \in 0 .. PAGE_NUM(build) - 1 |-> pte_init(build, i)]
    /\ main_mem = [c \in {} |-> 0]
    /\ stored = [a \in Addr |-> 0]

\* main_mem holds 0 where nothing was stored.
Content(c) == IF c \in DOMAIN main_mem THEN main_mem[c] ELSE 0

store_byte(vaddr, byte) ==
    /\ Writable(vaddr)
    /\ main_mem' = [c \in DOMAIN main_mem \cup {CellOf(vaddr)} |->
                      IF c = CellOf(vaddr) THEN byte ELSE main_mem[c]]
    /\ stored' = [stored EXCEPT ![vaddr] = byte]
    /\ UNCHANGED <<build, page_table>>

SimNext == \E a \in Addr, x \in Value : store_byte(a, x)

SimSpec == SimInit /\ [][SimNext]_simVars

-----------------------------------------------------------------------------
\* get_byte returns what store_byte last put at the same virtual address: no
\* other virtual address reaches the same byte, and none reaches beyond the
\* two arrays (memsim.c:100-109, 142-147, 177-183).
ReadsBack ==
    \A a \in Addr :
        /\ CellOf(a) \in (0 .. PAGE_NUM(build) - 1) \X (0 .. PAGE_SIZE(build) - 1)
        /\ Readable(a) => Content(CellOf(a)) = stored[a]

\* What test_mem_2 expects of the pages: 10 to 12 are read-only, 5 to 8 give a
\* fault on reading, the others are open; and no store, through whatever
\* virtual address, ever changes a page that is read-only.
Protected ==
    build = 3 =>
        \A a \in Addr :
            LET i == HIGH8(a)
            IN  /\ Readable(a) <=> i \notin 5 .. 8
                /\ Writable(a) <=> i \notin 5 .. 8 \cup 10 .. 12
                /\ i \in 10 .. 12 => Content(CellOf(a)) = 0

\* "The virtual addresses are the inverse of the physical ones": the virtual
\* page 0 is the last page of the main memory, and so on.
InverseOfPhysical ==
    \A a \in Addr : CellOf(a)[1] = (PAGE_NUM(build) - 1) - a \div PAGE_SIZE(build)
=============================================================================
