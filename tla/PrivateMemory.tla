--------------------------- MODULE PrivateMemory ---------------------------
(***************************************************************************)
(* What the memory management of SO3 promises to a process: pages of its   *)
(* own, which nobody else reads or writes, and of which fork gives the     *)
(* child a copy.  There are no frames, no tables and no translation here;  *)
(* module PageTable shows how arch/arm32/mmu.c brings this about.          *)
(***************************************************************************)
EXTENDS Naturals

CONSTANTS
    Proc,       \* the processes, numbers other than 0
    UserPage,   \* the virtual pages of the user space
    Val         \* the contents a page may have; 0 stands for "no page here"

VARIABLES
    running,    \* the process that runs, 0 during the boot
    alive,      \* the processes that have a memory
    space       \* what each of them finds at each of its pages

pvars == <<running, alive, space>>

NoPages == [v \in UserPage |-> 0]

Init ==
    /\ running = 0
    /\ alive = {}
    /\ space = [p \in Proc |-> NoPages]

\* The boot creates the first process, with an empty memory.
Create(p) ==
    /\ running = 0
    /\ p \notin alive
    /\ alive' = alive \cup {p}
    /\ UNCHANGED <<running, space>>

\* The scheduler's choice; the one that ran before may be over.
Run(p) ==
    /\ p \in alive
    /\ running' = p
    /\ UNCHANGED <<alive, space>>

\* New pages for the process that runs, or for one the boot creates.  They come
\* with any contents: nobody clears a frame.
Give(p, S) ==
    /\ p \in alive
    /\ running \in {0, p}
    /\ \A v \in S : space[p][v] = 0
    /\ \E new \in [S -> Val] :
          space' = [space EXCEPT ![p] =
                      [v \in UserPage |-> IF v \in S THEN new[v] ELSE space[p][v]]]
    /\ UNCHANGED <<running, alive>>

\* A store of the process that runs: in its own memory.
Store(p, v, x) ==
    /\ p = running /\ p \in alive
    /\ space[p][v] # 0
    /\ space' = [space EXCEPT ![p][v] = x]
    /\ UNCHANGED <<running, alive>>

\* fork: the child starts with the memory of its parent.
Fork(p, c) ==
    /\ p = running /\ p \in alive
    /\ c \notin alive
    /\ alive' = alive \cup {c}
    /\ space' = [space EXCEPT ![c] = space[p]]
    /\ UNCHANGED running

\* exec: the memory is given up, pages of the new image follow.
Clear(p) ==
    /\ p = running /\ p \in alive
    /\ space' = [space EXCEPT ![p] = NoPages]
    /\ UNCHANGED <<running, alive>>

Exit(p) ==
    /\ p = running /\ p \in alive
    /\ alive' = alive \ {p}
    /\ space' = [space EXCEPT ![p] = NoPages]
    /\ UNCHANGED running

Next ==
    \E p \in Proc :
        \/ Create(p)
        \/ Run(p)
        \/ \E S \in SUBSET UserPage : Give(p, S)
        \/ \E v \in UserPage, x \in Val : Store(p, v, x)
        \/ \E c \in Proc : Fork(p, c)
        \/ Clear(p)
        \/ Exit(p)

Spec == Init /\ [][Next]_pvars
=============================================================================
