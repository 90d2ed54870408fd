----------------------------- MODULE PageTable -----------------------------
(***************************************************************************)
(* The two-level page tables of SO3 on ARM (arch/arm32/mmu.c) and what the *)
(* kernel does with them when it boots, forks, executes a program, exits   *)
(* and collects a process (kernel/process.c).                              *)
(*                                                                         *)
(* An L1 entry is empty, a section (a whole aligned range of pages) or a   *)
(* pointer to an L2 table, which lives in the heap of the kernel.  The     *)
(* kernel half of the system table is shared with every process: its L1    *)
(* entries are copied, so the L2 tables behind them have several users.    *)
(*                                                                         *)
(* Pages and frames are numbers (an address without its offset), 0 being   *)
(* an empty entry.  The cache attributes are left out.  The loops of       *)
(* duplicate_user_space are unfolded, one page a step; the interrupts are  *)
(* off during them, so nothing else happens meanwhile.                     *)
(***************************************************************************)
EXTENDS Integers, FiniteSets, Functions

CONSTANTS
    L1Entries,     \* TTB_L1_ENTRIES
    L2Entries,     \* TTB_L2_ENTRIES, the pages of a section
    KernelIdx,     \* l1pte_index(CONFIG_KERNEL_VADDR)
    Proc,          \* names of the root tables of processes, 1 for the first
    L2Id,          \* places of the heap for L2 tables
    Frame,         \* the frames get_free_page hands out
    Val,           \* contents of a page
    Identity,      \* L1 indexes that mmu_configure maps to themselves
    KernelSects,   \* sections of the linear mapping of the kernel
    RamSect,       \* the section at CONFIG_RAM_BASE
    UserBase,      \* the page at USER_SPACE_VADDR
    Stack,         \* the pages of the user stack
    ImageFrame,    \* the first frame of the code of the root process
    ImagePages,    \* how many pages it has
    RamdevPage,    \* the page at RAMDEV_VADDR
    RamdevFrame,   \* the first frame of the ram device
    RamdevPages,   \* how many pages it has
    Fixmap         \* the page at FIXMAP_MAPPING

Sys == 0
Root == {Sys} \cup Proc
L1Idx == 0 .. L1Entries - 1
L2Idx == 0 .. L2Entries - 1
UserPage == UserBase .. KernelIdx * L2Entries - 1
Image == ImageFrame .. ImageFrame + ImagePages - 1
Phys == Frame \cup Image
FixIdx == Fixmap \div L2Entries

ASSUME PagingAssumption ==
    /\ L1Entries \in Nat /\ L2Entries \in Nat \ {0, 1}
    /\ KernelIdx \in Nat /\ KernelIdx < L1Entries
    /\ RamSect \in Nat /\ ImageFrame \in Nat /\ ImagePages \in Nat
    /\ RamdevPage \in Nat /\ RamdevFrame \in Nat /\ RamdevPages \in Nat
    /\ Proc \in SUBSET (Nat \ {0}) /\ 1 \in Proc
    /\ Frame \in SUBSET (Nat \ {0}) /\ Image \in SUBSET (Nat \ {0})
    /\ Frame \cap Image = {}
    /\ Val \in SUBSET (Nat \ {0}) /\ Val # {}
    /\ Identity \in SUBSET (0 .. KernelIdx - 1)
    /\ KernelSects \in Nat /\ KernelIdx + KernelSects <= L1Entries
    /\ UserBase \in Nat \ {0} /\ Stack \in SUBSET UserPage /\ Stack # {}
    /\ UserBase .. UserBase + ImagePages - 1 \in SUBSET (UserPage \ Stack)
    /\ Fixmap \in Nat /\ FixIdx \in KernelIdx + KernelSects .. L1Entries - 1
    /\ RamdevPage >= (KernelIdx + KernelSects) * L2Entries
    /\ RamdevPage + RamdevPages <= FixIdx * L2Entries

\* The code of the root process covers no section from end to end.
ASSUME ImageAssumption ==
    \A i \in L1Idx :
        ~ (UserBase <= i * L2Entries /\ (i + 1) * L2Entries <= UserBase + ImagePages)

VARIABLES
    l1,        \* the root tables
    l2,        \* the L2 tables, by their place in the heap
    heap,      \* the places memalign gave out and free did not take back
    root,      \* a process table is unused, live, or of a process that exited
    current,   \* __current_pgtable
    pages,     \* pcb->page_list
    free,      \* the frames get_free_page may return
    mem,       \* what is in the frames
    tlb,       \* the translations the processor holds
    dup,       \* duplicate_user_space under way: the child, the frame in hand
    halted     \* kernel_panic, ASSERT or BUG_ON stopped the system

vars == <<l1, l2, heap, root, current, pages, free, mem, tlb, dup, halted>>

None == [type |-> "none", at |-> 0]
Sect(s) == [type |-> "sect", at |-> s]
Table(id) == [type |-> "table", at |-> id]
L1Entry == {None} \cup [type : {"sect"}, at : Nat] \cup [type : {"table"}, at : L2Id]

NoDup == [to |-> Sys, frame |-> 0]
NoTlb == [v \in UserPage \cup {Fixmap} |-> 0]

TypeOK ==
    /\ l1 \in [Root -> [L1Idx -> L1Entry]]
    /\ l2 \in [L2Id -> [L2Idx -> Nat]]
    /\ heap \in SUBSET L2Id
    /\ root \in [Proc -> {"none", "live", "exited"}]
    /\ current \in Root
    /\ pages \in [Proc -> SUBSET Frame]
    /\ free \in SUBSET Frame
    /\ mem \in [Phys -> Val]
    /\ tlb \in [UserPage \cup {Fixmap} -> Nat]
    /\ dup \in [to : Root, frame : {0} \cup Frame]
    /\ halted \in BOOLEAN

-----------------------------------------------------------------------------
\* What the processor finds when it walks the table t for page v.
Walk(t, v) ==
    LET e == l1[t][v \div L2Entries]
    IN  CASE e.type = "none"  -> 0
          [] e.type = "sect"  -> e.at * L2Entries + (v % L2Entries)
          [] e.type = "table" -> l2[e.at][v % L2Entries]

\* The frame an access by the current process reaches: a held translation is
\* used without a look at the table.
Access(v) == IF tlb[v] # 0 THEN tlb[v] ELSE Walk(current, v)

\* The address virt_to_phys_pt returns: the offset within the page is kept,
\* the place of the page within a section is not.
virt_to_phys_pt(v) ==
    LET e == l1[current][v \div L2Entries]
    IN  IF e.type = "sect" THEN e.at * L2Entries ELSE Walk(current, v)

\* The part lo .. hi - 1 of the pages v .. v + n - 1 under the L1 entry i.
Lo(i, v) == IF v > i * L2Entries THEN v ELSE i * L2Entries
Hi(i, v, n) == IF v + n < (i + 1) * L2Entries THEN v + n ELSE (i + 1) * L2Entries
Touched(v, n) == {i \in L1Idx : Lo(i, v) < Hi(i, v, n)}
WholeSection(i, v, n) == v <= i * L2Entries /\ (i + 1) * L2Entries <= v + n

\* The functions from S to places of the heap that memalign may return.
Placements(S) == {new \in [S -> L2Id \ heap] : IsInjective(new)}

\* Mutant: the end of the range is not looked at.
AsSection_AnyEnd(i, v, f, n) ==
    v <= i * L2Entries /\ (f + i * L2Entries - v) % L2Entries = 0

\* alloc_init_section: a section where the pages and the frames are aligned.
AsSection(i, v, f, n) ==
    WholeSection(i, v, n) /\ (f + i * L2Entries - v) % L2Entries = 0

\* Where alloc_init_pte has to allocate an L2 table: the entry of `row' is empty.
NeedTable(row, v, f, n) ==
    {i \in Touched(v, n) : ~AsSection(i, v, f, n) /\ row[i] = None}

\* The processor forgets what it holds: v7_inval_tlb, mmu_page_table_flush.
v7_inval_tlb == tlb' = NoTlb

\* create_mapping: pages v .. v + n - 1 of the root table t, which contains
\* `row', to the frames f .. f + n - 1, with new L2 tables where `new' has them.
create_mapping(t, row, v, f, n, new) ==
    LET At(i) == IF i \in DOMAIN new THEN new[i] ELSE row[i].at
        Paged == {i \in Touched(v, n) : ~AsSection(i, v, f, n)}
        Fill(i, old) ==
            [j \in L2Idx |-> LET w == i * L2Entries + j
                             IN  IF w \in v .. v + n - 1 THEN f + w - v ELSE old[j]]
        Blank == [j \in L2Idx |-> 0]
    IN  /\ l1' = [l1 EXCEPT ![t] =
                    [i \in L1Idx |->
                       IF i \notin Touched(v, n) THEN row[i]
                       ELSE IF AsSection(i, v, f, n)
                            THEN Sect((f + i * L2Entries - v) \div L2Entries)
                            ELSE IF i \in DOMAIN new THEN Table(new[i]) ELSE row[i]]]
        /\ l2' = [id \in L2Id |->
                    IF \E i \in Paged : At(i) = id
                    THEN LET i == CHOOSE i \in Paged : At(i) = id
                         IN  Fill(i, IF i \in DOMAIN new THEN Blank ELSE l2[id])
                    ELSE l2[id]]
        /\ heap' = heap \cup Range(new)
        /\ v7_inval_tlb

\* Mutant: the L1 entry is emptied and the L2 table never given back.
release_mapping_NoFree(t, v) ==
    LET i == v \div L2Entries
        id == l1[t][i].at
        left == [l2[id] EXCEPT ![v % L2Entries] = 0]
    IN  /\ l1[t][i].type = "table"
        /\ l2' = [l2 EXCEPT ![id] = left]
        /\ l1' = IF \A j \in L2Idx : left[j] = 0 THEN [l1 EXCEPT ![t][i] = None] ELSE l1
        /\ v7_inval_tlb
        /\ UNCHANGED heap

\* release_mapping for one page, as duplicate_user_space calls it: the entry of
\* the L2 table is emptied, and the table freed when it has no entry left.
release_mapping(t, v) ==
    LET i == v \div L2Entries
        id == l1[t][i].at
        left == [l2[id] EXCEPT ![v % L2Entries] = 0]
        empty == \A j \in L2Idx : left[j] = 0
    IN  /\ l1[t][i].type = "table"
        /\ l2' = [l2 EXCEPT ![id] = left]
        /\ heap' = IF empty THEN heap \ {id} ELSE heap
        /\ l1' = IF empty THEN [l1 EXCEPT ![t][i] = None] ELSE l1
        /\ v7_inval_tlb

\* new_root_pgtable and pgtable_copy_kernel_area: nothing in the user half, the
\* entries of the system table in the kernel half.
KernelArea == [i \in L1Idx |-> IF i >= KernelIdx THEN l1[Sys][i] ELSE None]

\* The L2 tables of the user half of t, and t once they are freed.
UserTables(t) ==
    {l1[t][i].at : i \in {k \in L1Idx : k < KernelIdx /\ l1[t][k].type = "table"}}

reset_root_pgtable(t) ==
    /\ l1' = [l1 EXCEPT ![t] = [i \in L1Idx |-> IF i < KernelIdx THEN None ELSE @[i]]]
    /\ heap' = heap \ UserTables(t)
    /\ v7_inval_tlb
    /\ UNCHANGED l2

release_proc_pages(t) ==
    /\ pages' = [pages EXCEPT ![t] = {}]
    /\ free' = free \cup pages[t]

-----------------------------------------------------------------------------
\* mmu_configure: sections only, all of them in the system table.
Init ==
    /\ l1 = [t \in Root |->
               [i \in L1Idx |->
                  IF t # Sys THEN None
                  ELSE IF i \in Identity THEN Sect(i)
                  ELSE IF i \in KernelIdx .. KernelIdx + KernelSects - 1
                       THEN Sect(RamSect + i - KernelIdx)
                       ELSE None]]
    /\ l2 = [id \in L2Id |-> [j \in L2Idx |-> 0]]
    /\ heap = {}
    /\ root = [p \in Proc |-> "none"]
    /\ current = Sys
    /\ pages = [p \in Proc |-> {}]
    /\ free = Frame
    /\ mem \in [Phys -> Val]
    /\ tlb = NoTlb
    /\ dup = NoDup
    /\ halted = FALSE

Running == ~halted /\ dup = NoDup

\* A table of a process has its stack unless fork or exec is at work on it.
Settled(t) == \A v \in Stack : Walk(t, v) # 0

Stop == halted' = TRUE
        /\ UNCHANGED <<l1, l2, heap, root, current, pages, free, mem, tlb, dup>>

\* Boot, when there is a ram device.
ramdev_create_mapping ==
    /\ Running /\ root[1] = "none" /\ current = Sys
    /\ \A i \in Touched(RamdevPage, RamdevPages) : l1[Sys][i] = None
    /\ \E new \in Placements(NeedTable(l1[Sys], RamdevPage, RamdevFrame, RamdevPages)) :
           create_mapping(Sys, l1[Sys], RamdevPage, RamdevFrame, RamdevPages, new)
    /\ UNCHANGED <<root, current, pages, free, mem, dup, halted>>

\* create_root_process, by the boot thread: new_process, ...
create_root_process ==
    /\ Running /\ root[1] = "none" /\ current = Sys
    /\ root' = [root EXCEPT ![1] = "live"]
    /\ l1' = [l1 EXCEPT ![1] = KernelArea]
    /\ UNCHANGED <<l2, heap, current, pages, free, mem, tlb, dup, halted>>

\* ... and, its stack allocated, the code that lies in the image of the kernel.
MapImage ==
    /\ Running /\ current = Sys /\ root[1] = "live" /\ Settled(1)
    /\ Walk(1, UserBase) = 0
    /\ \E new \in Placements(NeedTable(l1[1], UserBase, ImageFrame, ImagePages)) :
           create_mapping(1, l1[1], UserBase, ImageFrame, ImagePages, new)
    /\ UNCHANGED <<root, current, pages, free, mem, dup, halted>>

\* Whose memory is being set up: the first process during the boot, then the
\* current one, in exec.  The stack comes first, page after page.
SetUp(t) ==
    /\ root[t] = "live"
    /\ t = current \/ (current = Sys /\ t = 1)
NextPage(t, v) ==
    /\ Walk(t, v) = 0
    /\ ~Settled(t) => v \in Stack /\ \A w \in Stack : w < v => Walk(t, w) # 0
    /\ Settled(t) => current # Sys

\* allocate_page, for one page.
allocate_page(t, v) ==
    /\ Running /\ SetUp(t) /\ NextPage(t, v)
    /\ \/ /\ \/ free = {}
             \/ l1[t][v \div L2Entries] = None /\ heap = L2Id
          /\ Stop
       \/ \E f \in free : \E new \in Placements(NeedTable(l1[t], v, f, 1)) :
             /\ create_mapping(t, l1[t], v, f, 1, new)
             /\ pages' = [pages EXCEPT ![t] = @ \cup {f}]
             /\ free' = free \ {f}
             /\ UNCHANGED <<root, current, mem, dup, halted>>

\* setup_proc_image_replace drops the old image; allocate_page maps the new one.
DropImage ==
    /\ Running /\ current # Sys /\ root[current] = "live" /\ Settled(current)
    /\ reset_root_pgtable(current)
    /\ release_proc_pages(current)
    /\ UNCHANGED <<root, current, mem, dup, halted>>

\* do_fork up to duplicate_user_space: a PCB and a table for the child.
do_fork(c) ==
    /\ Running /\ current # Sys /\ root[current] = "live" /\ Settled(current)
    /\ root[c] = "none"
    /\ root' = [root EXCEPT ![c] = "live"]
    /\ l1' = [l1 EXCEPT ![c] = KernelArea]
    /\ dup' = [to |-> c, frame |-> 0]
    /\ UNCHANGED <<l2, heap, current, pages, free, mem, tlb, halted>>

\* What is left to duplicate, lowest address first: pages, and the L1 entries
\* whose L2 table is still missing in the child.
PagesLeft == {v \in 0 .. KernelIdx * L2Entries - 1 :
                  Walk(current, v) # 0 /\ Walk(dup.to, v) = 0}
TablesLeft == {i \in L1Idx : i < KernelIdx /\ l1[current][i] # None /\ l1[dup.to][i] = None}
FirstTable(i) ==
    /\ i \in TablesLeft
    /\ \A k \in TablesLeft : i <= k
    /\ \A v \in PagesLeft : i * L2Entries <= v
FirstPage(v) ==
    /\ v \in PagesLeft
    /\ \A w \in PagesLeft : v <= w
    /\ v \div L2Entries \notin TablesLeft

\* A new L2 table for the child; a section is a BUG.
DupTable(i) ==
    /\ ~halted /\ dup.to # Sys /\ dup.frame = 0 /\ FirstTable(i)
    /\ \/ /\ l1[current][i].type = "sect" \/ heap = L2Id
          /\ Stop
       \/ \E id \in L2Id \ heap :
             /\ l1[current][i].type = "table"
             /\ heap' = heap \cup {id}
             /\ l1' = [l1 EXCEPT ![dup.to][i] = Table(id)]
             /\ l2' = [l2 EXCEPT ![id] = [j \in L2Idx |-> 0]]
             /\ UNCHANGED <<root, current, pages, free, mem, tlb, dup, halted>>

\* A frame for page v, visible to the kernel at Fixmap in the current table.
DupFrame(v) ==
    /\ ~halted /\ dup.to # Sys /\ dup.frame = 0 /\ FirstPage(v)
    /\ \/ /\ free = {} \/ (l1[current][FixIdx] = None /\ heap = L2Id)
          /\ Stop
       \/ \E f \in free : \E new \in Placements(NeedTable(l1[current], Fixmap, f, 1)) :
             /\ create_mapping(current, l1[current], Fixmap, f, 1, new)
             /\ pages' = [pages EXCEPT ![dup.to] = @ \cup {f}]
             /\ free' = free \ {f}
             /\ dup' = [dup EXCEPT !.frame = f]
             /\ UNCHANGED <<root, current, mem, halted>>

\* The child maps the frame at v; memcpy fills it through Fixmap.
DupCopy(v) ==
    /\ ~halted /\ dup.frame # 0 /\ FirstPage(v)
    /\ l2' = [l2 EXCEPT ![l1[dup.to][v \div L2Entries].at][v % L2Entries] = dup.frame]
    /\ mem' = [mem EXCEPT ![Access(Fixmap)] = mem[Access(v)]]
    /\ tlb' = [tlb EXCEPT ![Fixmap] = Access(Fixmap), ![v] = Access(v)]
    /\ dup' = [dup EXCEPT !.frame = 0]
    /\ UNCHANGED <<l1, heap, root, current, pages, free, halted>>

\* Nothing left: Fixmap is released and the child may run.
DupEnd ==
    /\ ~halted /\ dup.to # Sys /\ dup.frame = 0
    /\ PagesLeft = {} /\ TablesLeft = {}
    /\ release_mapping(current, Fixmap)
    /\ dup' = NoDup
    /\ UNCHANGED <<root, current, pages, free, mem, halted>>

\* do_exit: the frames are given back, the table still maps them.
do_exit ==
    /\ Running /\ current \notin {Sys, 1} /\ root[current] = "live" /\ Settled(current)
    /\ root' = [root EXCEPT ![current] = "exited"]
    /\ release_proc_pages(current)
    /\ UNCHANGED <<l1, l2, heap, current, mem, tlb, dup, halted>>

\* do_waitpid: the table of an exited child is freed.
do_waitpid(c) ==
    /\ Running /\ current \notin {Sys, c} /\ root[current] = "live" /\ Settled(current)
    /\ root[c] = "exited"
    /\ root' = [root EXCEPT ![c] = "none"]
    /\ reset_root_pgtable(c)
    /\ UNCHANGED <<current, pages, free, mem, dup, halted>>

\* Mutant: the translations of the process that ran before are kept.
mmu_switch_NoFlush(t) ==
    /\ Running /\ t # current
    /\ root[t] = "live" /\ Settled(t) /\ (t = 1 => Walk(t, UserBase) # 0 \/ current # Sys)
    /\ current # Sys => root[current] = "exited" \/ Settled(current)
    /\ current' = t
    /\ UNCHANGED <<l1, l2, heap, root, pages, free, mem, tlb, dup, halted>>

\* The scheduler runs another process.
mmu_switch(t) ==
    /\ Running /\ t # current
    /\ root[t] = "live" /\ Settled(t) /\ (t = 1 => Walk(t, UserBase) # 0 \/ current # Sys)
    /\ current # Sys => root[current] = "exited" \/ Settled(current)
    /\ current' = t
    /\ v7_inval_tlb
    /\ UNCHANGED <<l1, l2, heap, root, pages, free, mem, dup, halted>>

\* The current process stores x in its page v, which is mapped.
UserStore(v, x) ==
    /\ Running /\ current # Sys /\ root[current] = "live" /\ Settled(current)
    /\ Access(v) # 0
    /\ mem' = [mem EXCEPT ![Access(v)] = x]
    /\ tlb' = [tlb EXCEPT ![v] = Access(v)]
    /\ UNCHANGED <<l1, l2, heap, root, current, pages, free, dup, halted>>

Halted == halted /\ UNCHANGED vars

Next ==
    \/ ramdev_create_mapping \/ create_root_process \/ MapImage
    \/ \E t \in Proc, v \in UserPage : allocate_page(t, v)
    \/ \E c \in Proc : do_fork(c)
    \/ \E i \in L1Idx : DupTable(i)
    \/ \E v \in UserPage : DupFrame(v) \/ DupCopy(v)
    \/ DupEnd \/ DropImage \/ do_exit
    \/ \E c \in Proc : do_waitpid(c) \/ mmu_switch(c)
    \/ \E v \in UserPage, x \in Val : UserStore(v, x)
    \/ Halted

Spec == Init /\ [][Next]_vars

-----------------------------------------------------------------------------
InUse == {t \in Proc : root[t] # "none"}

\* Every L2 table of the heap is reached from a table in use and every table in
\* use reaches only L2 tables of the heap: nothing leaks and nothing dangles
\* when create_mapping, release_mapping, duplicate_user_space and
\* reset_root_pgtable allocate and free L2 tables on both sides of a fork. No
\* two entries lead to one L2 table unless both are copies of one kernel
\* entry: the reset of one process never frees what another uses.
TablesAccounted ==
    /\ heap = {l1[x[1]][x[2]].at :
                 x \in {y \in ({Sys} \cup InUse) \X L1Idx : l1[y[1]][y[2]].type = "table"}}
    /\ \A s, t \in {Sys} \cup InUse : \A i, k \in L1Idx :
           /\ l1[s][i].type = "table" /\ l1[t][k].type = "table"
           /\ l1[s][i].at = l1[t][k].at
           => i = k /\ (s = t \/ (i >= KernelIdx /\ i # FixIdx))

\* A translation the processor holds is the one the current table has: no
\* change of a mapping leaves a stale one behind, Fixmap included.
TlbCoherent == \A v \in DOMAIN tlb : tlb[v] # 0 => tlb[v] = Walk(current, v)

\* "The user space has only small (4 KB) pages": the BUG_ON of
\* duplicate_user_space on a section is never reached, and virt_to_phys_pt,
\* which is wrong beyond the first page of a section, agrees with the
\* processor on every user page, the ones do_translate is called for.
SmallPagesOnly ==
    /\ \A t \in InUse : \A i \in L1Idx : i < KernelIdx => l1[t][i].type # "sect"
    /\ \A v \in 0 .. KernelIdx * L2Entries - 1 :
           current # Sys /\ Walk(current, v) # 0 => virt_to_phys_pt(v) = Walk(current, v)

\* What a process finds in its memory.
Memory == INSTANCE PrivateMemory WITH
    running <- current,
    alive <- {t \in Proc : root[t] = "live" /\ t # dup.to},
    space <- [t \in Proc |-> [v \in UserPage |->
                 IF root[t] = "live" /\ t # dup.to /\ Walk(t, v) # 0
                 THEN mem[Walk(t, v)] ELSE 0]]

\* The page tables, the frames, Fixmap and the processor's translations give
\* every process a memory of its own, which fork copies.
PrivateToEach == Memory!Spec

-----------------------------------------------------------------------------
(* The inductive invariant behind the theorems of module PageTableProofs     *)

Used == {Sys} \cup InUse

\* The entries that say where a table of the heap is: the kernel half of a
\* process only repeats those of the system table, Fixmap apart.
Own(t) == {i \in L1Idx : t = Sys \/ i < KernelIdx \/ i = FixIdx}

\* Every place given out is the table of one entry, and of one only.
Owners ==
    /\ heap = {id \in L2Id : \E t \in Used : \E i \in Own(t) : l1[t][i] = Table(id)}
    /\ \A s, t \in Used : \A i \in Own(s), k \in Own(t) : \A id \in L2Id :
           l1[s][i] = Table(id) /\ l1[t][k] = Table(id) => s = t /\ i = k

\* An L2 table in which at most Fixmap is mapped.
FixmapOnly(e) ==
    /\ e.type = "table"
    /\ \A j \in L2Idx : j # Fixmap % L2Entries => l2[e.at][j] = 0

\* What the two halves of a table contain.
Layout ==
    /\ current \in Used
    /\ current = Sys => InUse \subseteq {1}
    /\ l1[Sys][FixIdx] = None
    /\ \A i \in L1Idx : i < KernelIdx => l1[Sys][i].type # "table"
    /\ \A t \in InUse : \A i \in L1Idx :
           /\ i < KernelIdx => l1[t][i].type # "sect"
           /\ i >= KernelIdx /\ i # FixIdx => l1[t][i] = l1[Sys][i]
           /\ i = FixIdx /\ l1[t][i] # None =>
                  t = current /\ dup.to # Sys /\ FixmapOnly(l1[t][i])

Live == {t \in Proc : root[t] = "live"}

\* A frame has one owner, and is mapped by its owner only and once only.
Frames ==
    /\ \A t \in Proc \ Live : pages[t] = {}
    /\ \A t \in Proc : pages[t] \cap free = {}
    /\ \A s, t \in Proc : s # t => pages[s] \cap pages[t] = {}
    /\ \A t \in Live : \A v \in UserPage :
           Walk(t, v) # 0 => Walk(t, v) \in pages[t] \/ (t = 1 /\ Walk(t, v) \in Image)
    /\ \A t \in Live : \A v, w \in UserPage :
           Walk(t, v) # 0 /\ Walk(t, v) = Walk(t, w) => v = w

\* Until its code is mapped the first process has pages of its stack only.
Boot ==
    current = Sys /\ 1 \in Live /\ Walk(1, UserBase) = 0 =>
        \A v \in UserPage : Walk(1, v) # 0 => v \in Stack /\ Walk(1, v) \in pages[1]

\* During duplicate_user_space the child has copies of pages of its parent, and
\* the frame in hand is its own, mapped at Fixmap and not yet in its table.
Copying ==
    /\ dup.to = Sys => dup.frame = 0
    /\ dup.to # Sys =>
           /\ current \in Live /\ dup.to \in Live \ {current}
           /\ \A v \in UserPage : Walk(dup.to, v) # 0 =>
                  Walk(current, v) # 0 /\ mem[Walk(dup.to, v)] = mem[Walk(current, v)]
    /\ dup.frame # 0 =>
           /\ dup.frame \in pages[dup.to] /\ Walk(current, Fixmap) = dup.frame
           /\ \A v \in UserPage : Walk(dup.to, v) # dup.frame

PagingInv ==
    TypeOK /\ Layout /\ Owners /\ Frames /\ Boot /\ Copying /\ TlbCoherent
=============================================================================
