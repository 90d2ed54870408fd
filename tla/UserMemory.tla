---------------------------- MODULE UserMemory ----------------------------
(***************************************************************************)
(* The physical frames and the page tables behind the processes of the SO3 *)
(* kernel (kernel/process.c and arch/arm32/mmu.c): which frames a PCB      *)
(* lists as its own, which its page table maps, how often a frame is       *)
(* referenced and which frames the allocator holds as free.                *)
(*                                                                         *)
(* The operations are fragments of actions: module Process conjoins them   *)
(* with what fork, exec, exit and waitpid do to the processes.  Every one  *)
(* of them runs with the interrupts disabled, so none is split further.    *)
(* Addresses are abstracted: a page table is the set of frames it reaches. *)
(***************************************************************************)
EXTENDS Integers, FiniteSets

CONSTANTS
    MaxPid,       \* bound on the number of processes ever created
    Frame,        \* the page frames the allocator hands out
    RootImage,    \* pages of the kernel image mapped as the root process' code
    StackPages,   \* pages of a user stack (PROC_STACK_SIZE)
    ImagePages    \* pages of an executable: segments, heap and arguments

ASSUME MemoryAssumption ==
    /\ MaxPid \in Nat \ {0}
    /\ IsFiniteSet(Frame)
    /\ IsFiniteSet(RootImage)
    /\ Frame \cap RootImage = {}
    /\ StackPages \in Nat
    /\ ImagePages \in Nat
    /\ StackPages <= Cardinality(Frame)

Pid == 1 .. MaxPid

VARIABLES
    pages,      \* pcb->page_list: the frames a process owns
    refcount,   \* page->refcount
    free,       \* the frames get_free_page may return
    mapped,     \* the user pages reachable from pcb->pgtable
    pgtable     \* the root page table: never allocated, live or freed

memVars == <<pages, refcount, free, mapped, pgtable>>

MemTypeOK ==
    /\ pages \in [Pid -> SUBSET Frame]
    /\ refcount \in [Frame -> Nat]
    /\ free \in SUBSET Frame
    /\ mapped \in [Pid -> SUBSET (Frame \cup RootImage)]
    /\ pgtable \in [Pid -> {"none", "live", "freed"}]

-----------------------------------------------------------------------------
\* The frames that successive calls of get_free_page may return when n are
\* asked for: all there are when they do not suffice.
FrameSets(avail, n) ==
    {N \in SUBSET avail : Cardinality(N) = n \/ (N = avail /\ Cardinality(N) < n)}

\* add_page_to_proc for every frame of N.
add_page_to_proc(rc, N) == [f \in Frame |-> IF f \in N THEN rc[f] + 1 ELSE rc[f]]

\* Mutant: the count goes down twice, in the list and by the allocator.
DropRefs_Twice(p) == [f \in Frame |-> IF f \in pages[p] THEN refcount[f] - 2 ELSE refcount[f]]

\* The reference counts once release_proc_pages has walked the list of p ...
DropRefs(p) == [f \in Frame |-> IF f \in pages[p] THEN refcount[f] - 1 ELSE refcount[f]]

\* ... and the frames it gives back: those whose count reached zero.
Freed(p) == {f \in pages[p] : DropRefs(p)[f] = 0}

\* The boot thread maps a stack and the code of the root process, pid 1.  The
\* code is part of the kernel image: it is mapped but owned by nobody.
MemInit ==
    \E stack \in FrameSets(Frame, StackPages) :
        /\ pages = [p \in Pid |-> IF p = 1 THEN stack ELSE {}]
        /\ refcount = [f \in Frame |-> IF f \in stack THEN 1 ELSE 0]
        /\ free = Frame \ stack
        /\ mapped = [p \in Pid |-> IF p = 1 THEN stack \cup RootImage ELSE {}]
        /\ pgtable = [p \in Pid |-> IF p = 1 THEN "live" ELSE "none"]

\* Does fork find a frame for every page of the parent, root image included?
CanDuplicate(from) == Cardinality(mapped[from]) <= Cardinality(free)

\* fork: a fresh page table for the child in which every page of the parent
\* is backed by a new frame, added to the list of the child; without enough of
\* them the kernel stops, the child having got those there were.
duplicate_user_space(from, to) ==
    \E N \in FrameSets(free, Cardinality(mapped[from])) :
        /\ pages' = [pages EXCEPT ![to] = @ \cup N]
        /\ mapped' = [mapped EXCEPT ![to] = @ \cup N]
        /\ refcount' = add_page_to_proc(refcount, N)
        /\ free' = free \ N
        /\ pgtable' = [pgtable EXCEPT ![to] = "live"]

\* Mutant: the frame goes back to the allocator whatever its count becomes, and
\* stays in the list.
release_proc_pages_KeepList(p) ==
    /\ refcount' = DropRefs(p)
    /\ free' = free \cup pages[p]
    /\ UNCHANGED <<pages, mapped, pgtable>>

\* exit: the frames of p are given back; its page table still maps them.
release_proc_pages(p) ==
    /\ pages' = [pages EXCEPT ![p] = {}]
    /\ refcount' = DropRefs(p)
    /\ free' = free \cup Freed(p)
    /\ UNCHANGED <<mapped, pgtable>>

\* Does exec find a frame for every page of the new image, once its own ones
\* are given back?
CanReplace(p) == StackPages + ImagePages <= Cardinality(free \cup Freed(p))

\* Mutant: the page table is not reset before the new image is mapped.
setup_proc_image_replace_NoReset(p) ==
    \E N \in FrameSets(free \cup Freed(p), StackPages + ImagePages) :
        /\ pages' = [pages EXCEPT ![p] = N]
        /\ mapped' = [mapped EXCEPT ![p] = @ \cup N]
        /\ refcount' = add_page_to_proc(DropRefs(p), N)
        /\ free' = (free \cup Freed(p)) \ N
        /\ UNCHANGED pgtable

\* exec: the page table is emptied, the frames are released, and only then are
\* the stack, the segments, the heap and the argument page allocated, so that
\* a frame just released may be allocated again; without enough frames the
\* kernel stops, the process having got those there were.
setup_proc_image_replace(p) ==
    \E N \in FrameSets(free \cup Freed(p), StackPages + ImagePages) :
        /\ pages' = [pages EXCEPT ![p] = N]
        /\ mapped' = [mapped EXCEPT ![p] = N]
        /\ refcount' = add_page_to_proc(DropRefs(p), N)
        /\ free' = (free \cup Freed(p)) \ N
        /\ UNCHANGED pgtable

\* waitpid: the page table of the child and its second levels are freed.
reset_root_pgtable(c) ==
    /\ mapped' = [mapped EXCEPT ![c] = {}]
    /\ pgtable' = [pgtable EXCEPT ![c] = "freed"]
    /\ UNCHANGED <<pages, refcount, free>>
=============================================================================
