------------------------------ MODULE Syscalls ------------------------------
(* System calls and what they leave behind in the caller: errno and the heap *)
(* pointer. The stub of the libc clears errno and hands its address over;    *)
(* syscall_handle keeps that address in one variable for all processes, and  *)
(* a call that fails writes through it, in the memory of the caller. The     *)
(* processor may go to another process at any point of a call where the      *)
(* interrupts are on. A program stands for the address its errno is linked   *)
(* at: programs keep errno at different addresses. Processes have one thread.*)
EXTENDS Integers

CONSTANTS Proc, Root,
          Program,
          ENOSYS, ENOENT, ECHILD, ENOMEM,
          Errno,        \* codes that calls outside the repository fail with
          NULL,         \* no address
          IntMax,       \* largest value of an int
          HEAP_SIZE,
          heap_base_of  \* where exec places the heap of each program

ASSUME SyscallsAssumption ==
    /\ Root \in Proc
    /\ NULL \notin Program
    /\ {ENOSYS, ENOENT, ECHILD, ENOMEM} \union Errno \subseteq Nat \ {0}
    /\ IntMax \in Nat /\ HEAP_SIZE \in 1..IntMax
    /\ heap_base_of \in [Program -> Nat]
    /\ \A g \in Program : heap_base_of[g] + HEAP_SIZE <= 2 * IntMax + 1

Int32   == 0 - IntMax - 1..IntMax
Modulus == 2 * IntMax + 2
Calls   == {"sbrk", "execve", "fork", "exit", "waitpid", "settimeofday", "other"}
Codes   == Errno \union {0 - ENOSYS, ENOENT, ECHILD, ENOMEM}

VARIABLES
    current,      \* the process that runs
    mode,         \* "none", "user", or the call a process is in
    prog,         \* the program of each process
    errno_addr,
    word,         \* word[p][g]: the memory of p where g keeps its errno
    heap_base, heap_pointer,
    last,         \* history: how the last call of a process went
    foreign       \* history: another program entered the kernel during it

vars == <<current, mode, prog, errno_addr, word, heap_base, heap_pointer, last, foreign>>

\* errno in a process.
errno(p) == word[p][prog[p]]

Init ==
    /\ \E g \in Program : /\ prog = [p \in Proc |-> g]
                          /\ heap_base = [p \in Proc |-> heap_base_of[g]]
                          /\ heap_pointer = [p \in Proc |-> heap_base_of[g]]
    /\ current = Root
    /\ mode = [p \in Proc |-> IF p = Root THEN "user" ELSE "none"]
    /\ errno_addr = NULL
    /\ word = [p \in Proc |-> [g \in Program |-> 0]]
    /\ last = [p \in Proc |-> 0]
    /\ foreign = [p \in Proc |-> FALSE]
-----------------------------------------------------------------------------
(* Entering and leaving a call *)

\* Mutant: the address is kept from the first call on.
set_errno_addr_Once(addr) == errno_addr' = IF errno_addr = NULL THEN addr ELSE errno_addr

set_errno_addr(addr) == errno_addr' = addr

\* The stub and syscall_handle up to its switch.
Enter(p) ==
    /\ current = p /\ mode[p] = "user"
    /\ \E c \in Calls : mode' = [mode EXCEPT ![p] = c]
    /\ word' = [word EXCEPT ![p][prog[p]] = 0]
    /\ set_errno_addr(prog[p])
    /\ foreign' = [q \in Proc |-> q # p /\ (foreign[q] \/ (mode[q] \in Calls /\ prog[q] # prog[p]))]
    /\ UNCHANGED <<current, prog, heap_base, heap_pointer, last>>

set_errno(p, val) ==
    word' = IF errno_addr # NULL THEN [word EXCEPT ![p][errno_addr] = val] ELSE word

\* The end of a call of p that leaves its image alone.
Succeed(p) ==
    /\ mode' = [mode EXCEPT ![p] = "user"]
    /\ last' = [last EXCEPT ![p] = 0]
    /\ UNCHANGED word

Fail(p, val) ==
    /\ set_errno(p, val)
    /\ mode' = [mode EXCEPT ![p] = "user"]
    /\ last' = [last EXCEPT ![p] = val]

InCall(p, c) == current = p /\ mode[p] = c

keepImage == <<current, prog, errno_addr, heap_base, foreign>>

\* The scheduler: a tick, or the process in the call goes to sleep.
Switch ==
    /\ \E q \in Proc : mode[q] # "none" /\ current' = q
    /\ UNCHANGED <<mode, prog, errno_addr, word, heap_base, heap_pointer, last, foreign>>
-----------------------------------------------------------------------------
(* The calls *)

\* Addition of the int registers, which wraps around.
AddInt(a, b) == IF a + b > IntMax THEN a + b - Modulus
                ELSE IF a + b < 0 - IntMax - 1 THEN a + b + Modulus ELSE a + b

\* Mutant: only growth is checked.
TooMuch_NoUnderflow(req_sz) == req_sz >= HEAP_SIZE

TooMuch(req_sz) == req_sz >= HEAP_SIZE \/ req_sz < 0

do_sbrk(p) ==
    /\ InCall(p, "sbrk")
    /\ \E increment \in Int32 :
        LET cur_sz == heap_pointer[p] - heap_base[p]
            req_sz == AddInt(cur_sz, increment)
        IN  \/ /\ TooMuch(req_sz)
               /\ Fail(p, ENOMEM)
               /\ UNCHANGED heap_pointer
            \/ /\ ~TooMuch(req_sz)
               /\ heap_pointer' = [heap_pointer EXCEPT ![p] = (@ + increment) % Modulus]
               /\ Succeed(p)
    /\ UNCHANGED keepImage

\* The new image: its own memory, its own heap.
setup_proc_image_replace(p, g) ==
    /\ prog' = [prog EXCEPT ![p] = g]
    /\ heap_base' = [heap_base EXCEPT ![p] = heap_base_of[g]]
    /\ heap_pointer' = [heap_pointer EXCEPT ![p] = heap_base_of[g]]
    /\ word' = [word EXCEPT ![p] = [h \in Program |-> 0]]

\* There is no such file, or its image replaces the one of the caller.
do_execve(p) ==
    /\ InCall(p, "execve")
    /\ \/ /\ Fail(p, ENOENT)
          /\ UNCHANGED <<prog, heap_base, heap_pointer>>
       \/ /\ \E g \in Program : setup_proc_image_replace(p, g)
          /\ mode' = [mode EXCEPT ![p] = "user"]
          /\ last' = [last EXCEPT ![p] = 0]
    /\ UNCHANGED <<current, errno_addr, foreign>>

\* The child has a copy of the memory and goes on from the same call.
do_fork(p) ==
    /\ InCall(p, "fork")
    /\ \E q \in Proc :
        /\ mode[q] = "none"
        /\ mode' = [mode EXCEPT ![p] = "user", ![q] = "user"]
        /\ prog' = [prog EXCEPT ![q] = prog[p]]
        /\ word' = [word EXCEPT ![q] = word[p]]
        /\ heap_base' = [heap_base EXCEPT ![q] = heap_base[p]]
        /\ heap_pointer' = [heap_pointer EXCEPT ![q] = heap_pointer[p]]
        /\ last' = [last EXCEPT ![p] = 0, ![q] = 0]
        /\ foreign' = [foreign EXCEPT ![q] = FALSE]
    /\ UNCHANGED <<current, errno_addr>>

\* A process that exits never comes back, and neither errno_addr nor the call
\* another one is in the middle of is touched; the root process stays.
do_exit(p) ==
    /\ InCall(p, "exit") /\ p # Root
    /\ mode' = [mode EXCEPT ![p] = "none"]
    /\ UNCHANGED <<keepImage, word, heap_pointer, last>>

\* There is no such child, or the wait is over.
do_waitpid(p) ==
    /\ InCall(p, "waitpid")
    /\ Fail(p, ECHILD) \/ Succeed(p)
    /\ UNCHANGED <<keepImage, heap_pointer>>

settimeofday(p) ==
    /\ InCall(p, "settimeofday")
    /\ Fail(p, 0 - ENOSYS)
    /\ UNCHANGED <<keepImage, heap_pointer>>

\* The calls of the file system, the threads, the network.
OtherCall(p) ==
    /\ InCall(p, "other")
    /\ Succeed(p) \/ \E e \in Errno : Fail(p, e)
    /\ UNCHANGED <<keepImage, heap_pointer>>

syscall_handle(p) ==
    do_sbrk(p) \/ do_execve(p) \/ do_fork(p) \/ do_exit(p) \/ do_waitpid(p) \/ settimeofday(p) \/ OtherCall(p)

Next == Switch \/ \E p \in Proc : Enter(p) \/ syscall_handle(p)

Spec == Init /\ [][Next]_vars
-----------------------------------------------------------------------------
(* Properties *)

TypeOK ==
    /\ current \in Proc
    /\ mode \in [Proc -> {"none", "user"} \union Calls]
    /\ prog \in [Proc -> Program]
    /\ errno_addr \in Program \union {NULL}
    /\ word \in [Proc -> [Program -> Codes \union {0}]]
    /\ heap_base \in [Proc -> Nat]
    /\ heap_pointer \in [Proc -> Nat]
    /\ last \in [Proc -> Codes \union {0}]
    /\ foreign \in [Proc -> BOOLEAN]

\* The break of a process stays in the heap that exec placed for its program
\* and fork copied, whatever is asked for: the int sum in do_sbrk that wraps
\* around is refused (process.c:605-606, 788-790, 1107-1148).
BreakInHeap ==
    \A p \in Proc : /\ heap_base[p] = heap_base_of[prog[p]]
                    /\ heap_pointer[p] \in heap_base[p]..heap_base[p] + HEAP_SIZE - 1

\* After a call that succeeded errno is 0; after one that failed it is the
\* code of that failure. A failure is lost, and errno is 0, only when a process
\* of another program entered the kernel during the call; processes that share
\* a program, a parent and its child before exec say, do not disturb each
\* other, and never does a process find the code of another call, its own
\* earlier one or somebody else's (syscalls.c:33-57, 73).
ErrnoOfCall ==
    \A p \in Proc : mode[p] = "user" => errno(p) = last[p] \/ (foreign[p] /\ errno(p) = 0)
=============================================================================
