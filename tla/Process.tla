------------------------------ MODULE Process ------------------------------
(***************************************************************************)
(* The life cycle of the processes of the SO3 kernel, kernel/process.c:    *)
(* fork, execve, exit and waitpid on the global list of PCBs, with the     *)
(* local file descriptors and the frames of module UserMemory.             *)
(*                                                                         *)
(* The kernel runs on one core.  A system call is atomic while it keeps    *)
(* the interrupts disabled; it can be interleaved with those of other      *)
(* processes at two points, which split exit and waitpid in two actions:   *)
(*   - do_exit closes the descriptors with the interrupts on;              *)
(*   - do_waitpid sleeps inside thread_join and keeps, on its kernel       *)
(*     stack, a pointer to the PCB of the child.                           *)
(* Only the main thread of a process is modelled.  The threads themselves  *)
(* (thread_join, thread_exit, ready) and ptrace are not in the repository: *)
(* they are modelled from the way process.c uses them.                     *)
(***************************************************************************)
EXTENDS UserMemory

CONSTANTS
    FD_MAX,       \* size of the local table of file descriptors
    StdFds,       \* the descriptors the root process starts with
    Discipline,   \* which processes user programs wait for, see MayWait
    Tracing       \* do user programs use ptrace?

ASSUME ProcessAssumption ==
    /\ FD_MAX \in Nat
    /\ StdFds \subseteq 0 .. FD_MAX - 1
    /\ Discipline \in {"once", "any"}
    /\ Tracing \in BOOLEAN
    /\ Tracing => Discipline = "once"

Fd == 0 .. FD_MAX - 1
NoPid == 0

VARIABLES
    proc_list,   \* the pids in the global list, which is in order of creation
    pid_current, \* the next pid to be given
    state,       \* pcb->state
    parent,      \* pcb->parent, NoPid for NULL
    main_thread, \* pcb->main_thread: NULL, a running or a zombie thread
    pc,          \* where the main thread stands in its system call, if in one
    child,       \* the child do_waitpid of a process is working on
    ptrace,      \* pcb->ptrace_pending_req
    fds,         \* the slots in use in pcb->fd_array
    halted       \* "no", or the reason why the kernel stopped

procVars == <<proc_list, pid_current, state, parent, main_thread, pc, child,
              ptrace, fds, halted>>
vars == <<memVars, procVars>>

\* The kernel stops on a panic or an assertion; the last four are accesses to
\* memory it does not own any more, after which anything may happen.
Halt == {"no", "panic", "assert", "null_thread", "null_join", "use_after_free",
         "double_free"}

TypeOK ==
    /\ MemTypeOK
    /\ proc_list \in SUBSET Pid
    /\ pid_current \in 1 .. MaxPid + 1
    /\ state \in [Pid -> {"NEW", "READY", "WAITING", "ZOMBIE"}]
    /\ parent \in [Pid -> Pid \cup {NoPid}]
    /\ main_thread \in [Pid -> {"null", "live", "zombie"}]
    /\ pc \in [Pid -> {"none", "user", "exiting", "joining", "joined",
                       "stopped", "dead"}]
    /\ child \in [Pid -> Pid \cup {NoPid}]
    /\ ptrace \in [Pid -> {"none", "traceme", "request"}]
    /\ fds \in [Pid -> SUBSET Fd]
    /\ halted \in Halt

-----------------------------------------------------------------------------
\* create_root_process has run: one process, ready, with a stack, the code
\* mapped from the kernel image and the three standard descriptors.
Init ==
    /\ MemInit
    /\ proc_list = {1}
    /\ pid_current = 2
    /\ state = [p \in Pid |-> IF p = 1 THEN "READY" ELSE "NEW"]
    /\ parent = [p \in Pid |-> NoPid]
    /\ main_thread = [p \in Pid |-> IF p = 1 THEN "live" ELSE "null"]
    /\ pc = [p \in Pid |-> IF p = 1 THEN "user" ELSE "none"]
    /\ child = [p \in Pid |-> NoPid]
    /\ ptrace = [p \in Pid |-> "none"]
    /\ fds = [p \in Pid |-> IF p = 1 THEN StdFds ELSE {}]
    /\ halted = "no"

\* The main thread of p is in user space and may enter a system call.
InUserMode(p) == halted = "no" /\ p \in proc_list /\ pc[p] = "user"

\* The threads in the joinQueue of the main thread of c.
Waiters(c) == {q \in Pid : pc[q] = "joining" /\ child[q] = c}

\* pc once the threads that join the main thread of c have been made ready.
WakeWaiters(c) == [q \in Pid |-> IF q \in Waiters(c) THEN "joined" ELSE pc[q]]

\* find_proc_by_parent(p) # NULL
HasChild(p) == \E c \in proc_list : parent[c] = p

\* BUG_ON, kernel_panic or an access to freed memory, before anything else is
\* changed: the machine stops where it is.
Stop(reason) ==
    /\ halted' = reason
    /\ UNCHANGED <<memVars, proc_list, pid_current, state, parent, main_thread,
                   pc, child, ptrace, fds>>

-----------------------------------------------------------------------------
\* do_fork and do_fork2: the child is appended to the list with a fresh pid
\* and the descriptors of its parent, then the memory of the parent is copied.
\* A page without a frame is a BUG, which leaves a child with a part of its
\* memory, new and without a thread; otherwise its main thread is ready.
do_fork(p) ==
    /\ InUserMode(p)
    /\ pid_current \in Pid
    /\ proc_list' = proc_list \cup {pid_current}
    /\ pid_current' = pid_current + 1
    /\ parent' = [parent EXCEPT ![pid_current] = p]
    /\ fds' = [fds EXCEPT ![pid_current] = fds[p]]
    /\ duplicate_user_space(p, pid_current)
    /\ \/ /\ CanDuplicate(p)
          /\ state' = [state EXCEPT ![pid_current] = "READY"]
          /\ main_thread' = [main_thread EXCEPT ![pid_current] = "live"]
          /\ pc' = [pc EXCEPT ![pid_current] = "user"]
          /\ UNCHANGED halted
       \/ /\ ~CanDuplicate(p)
          /\ halted' = "panic"
          /\ UNCHANGED <<state, main_thread, pc>>
    /\ UNCHANGED <<child, ptrace>>

\* do_execve of a file that exists: the image is replaced, then a new main
\* thread takes over the thread that waits for the old one, and the old thread
\* goes.  A page without a frame is a BUG, which leaves a part of the image;
\* the assertions want the waiter to be the parent and to be the only one.
do_execve(p) ==
    /\ InUserMode(p)
    /\ setup_proc_image_replace(p)
    /\ \/ ~CanReplace(p) /\ halted' = "panic"
       \/ CanReplace(p) /\ ~(Waiters(p) \subseteq {parent[p]}) /\ halted' = "assert"
       \/ CanReplace(p) /\ Waiters(p) \subseteq {parent[p]} /\ UNCHANGED halted
    /\ UNCHANGED <<proc_list, pid_current, state, parent, main_thread, pc, child,
                   ptrace, fds>>

\* do_exit up to the closing of the descriptors, interrupts on.  The root
\* process may not finish.
do_exit_close(p) ==
    /\ InUserMode(p)
    /\ \/ parent[p] = NoPid /\ Stop("panic")
       \/ /\ parent[p] # NoPid
          /\ fds' = [fds EXCEPT ![p] = {}]
          /\ pc' = [pc EXCEPT ![p] = "exiting"]
          /\ UNCHANGED <<memVars, proc_list, pid_current, state, parent,
                         main_thread, child, ptrace, halted>>

\* Mutant: the thread ends before the process has given its frames back.
do_exit_finish_KeepsPages(p) ==
    /\ halted = "no" /\ p \in proc_list /\ pc[p] = "exiting"
    /\ state' = [state EXCEPT ![p] = "ZOMBIE"]
    /\ main_thread' = [main_thread EXCEPT ![p] = "zombie"]
    /\ pc' = [WakeWaiters(p) EXCEPT ![p] = "dead"]
    /\ UNCHANGED <<memVars, proc_list, pid_current, parent, child, ptrace, fds, halted>>

\* Mutant: the threads that join the dying thread are not woken up.
do_exit_finish_NoWake(p) ==
    /\ halted = "no" /\ p \in proc_list /\ pc[p] = "exiting"
    /\ state' = [state EXCEPT ![p] = "ZOMBIE"]
    /\ release_proc_pages(p)
    /\ main_thread' = [main_thread EXCEPT ![p] = "zombie"]
    /\ pc' = [pc EXCEPT ![p] = "dead"]
    /\ UNCHANGED <<proc_list, pid_current, parent, child, ptrace, fds, halted>>

\* The rest of do_exit, interrupts off: the process becomes a zombie, gives its
\* frames back, and thread_exit wakes up whoever waits for its main thread.
do_exit_finish(p) ==
    /\ halted = "no" /\ p \in proc_list /\ pc[p] = "exiting"
    /\ state' = [state EXCEPT ![p] = "ZOMBIE"]
    /\ release_proc_pages(p)
    /\ main_thread' = [main_thread EXCEPT ![p] = "zombie"]
    /\ pc' = [WakeWaiters(p) EXCEPT ![p] = "dead"]
    /\ UNCHANGED <<proc_list, pid_current, parent, child, ptrace, fds, halted>>

-----------------------------------------------------------------------------
\* do_waitpid looks the pid up in the whole list and never asks whose child it
\* is; what user programs wait for is an assumption about them:
\*   "once"  a process waits for its own children, for none again after it was
\*           collected, nor for a stopped one without a request;
\*   "any"   it waits for any pid, or for -1.
MayWait(q, c) ==
    Discipline = "once" =>
        /\ parent[c] = q
        /\ main_thread[c] # "null"
        /\ ~(state[c] = "WAITING" /\ ptrace[c] = "none")

\* Mutant: the PCB goes even if the process still has children.
Collect_RemoveAlways(c) ==
    \/ /\ ptrace[c] # "none"
       /\ ptrace' = [ptrace EXCEPT ![c] = "none"]
       /\ UNCHANGED <<memVars, proc_list, halted>>
    \/ /\ ptrace[c] = "none" /\ pgtable[c] # "freed"
       /\ reset_root_pgtable(c)
       /\ proc_list' = proc_list \ {c}
       /\ UNCHANGED <<ptrace, halted>>

\* Mutant: the PCB goes with a pending ptrace request.
Collect_IgnoresPtrace(c) ==
    \/ /\ pgtable[c] = "freed"
       /\ halted' = "double_free"
       /\ UNCHANGED <<memVars, proc_list, ptrace>>
    \/ /\ pgtable[c] # "freed"
       /\ reset_root_pgtable(c)
       /\ proc_list' = IF HasChild(c) THEN proc_list ELSE proc_list \ {c}
       /\ UNCHANGED <<ptrace, halted>>

\* The end of do_waitpid, in both of its branches: a pending ptrace request is
\* reset and the child left alone; without one, the page table of the child is
\* freed, and its PCB too unless it still has children.
Collect(c) ==
    \/ /\ ptrace[c] # "none"
       /\ ptrace' = [ptrace EXCEPT ![c] = "none"]
       /\ UNCHANGED <<memVars, proc_list, halted>>
    \/ /\ ptrace[c] = "none" /\ pgtable[c] = "freed"
       /\ halted' = "double_free"
       /\ UNCHANGED <<memVars, proc_list, ptrace>>
    \/ /\ ptrace[c] = "none" /\ pgtable[c] # "freed"
       /\ reset_root_pgtable(c)
       /\ proc_list' = IF HasChild(c) THEN proc_list ELSE proc_list \ {c}
       /\ UNCHANGED <<ptrace, halted>>

\* thread_join of a thread that still runs: the caller sleeps in its joinQueue.
Block(q, c) ==
    /\ child' = [child EXCEPT ![q] = c]
    /\ UNCHANGED <<memVars, proc_list, pid_current, parent, main_thread, ptrace,
                   fds, halted>>

\* do_waitpid once the child is found.  In this order: a stopped child with a
\* request is resumed, then joined; a stopped child without one is not joined;
\* any other is joined, which is immediate when its thread is a zombie, and
\* follows a NULL pointer when the child was collected before.
WaitFor(q, c) ==
    \/ /\ ptrace[c] = "request" /\ main_thread[c] = "live"
       /\ state' = [state EXCEPT ![c] = "READY"]
       /\ pc' = [pc EXCEPT ![c] = "user", ![q] = "joining"]
       /\ Block(q, c)
    \/ /\ ptrace[c] # "request" /\ state[c] = "WAITING"
       /\ Collect(c)
       /\ UNCHANGED <<pid_current, state, parent, main_thread, pc, child, fds>>
    \/ /\ ptrace[c] # "request" /\ state[c] # "WAITING" /\ main_thread[c] = "live"
       /\ pc' = [pc EXCEPT ![q] = "joining"]
       /\ Block(q, c)
       /\ UNCHANGED state
    \/ /\ ptrace[c] # "request" /\ main_thread[c] = "zombie"
       /\ Collect(c)
       /\ main_thread' = [main_thread EXCEPT ![c] = "null"]
       /\ UNCHANGED <<pid_current, state, parent, pc, child, fds>>
    \/ main_thread[c] = "null" /\ Stop("null_join")

\* do_waitpid(pid): errors, and WNOHANG while the child runs, change nothing.
do_waitpid(q, c) ==
    /\ InUserMode(q)
    /\ c \in proc_list
    /\ MayWait(q, c)
    /\ WaitFor(q, c)

\* find_proc_zombie_to_clean: the first zombie of the list not yet collected.
ZombiesToClean == {c \in proc_list : state[c] = "ZOMBIE" /\ main_thread[c] # "null"}

\* do_waitpid(-1): whoever asks collects the first zombie, whoever its parent is.
do_waitpid_any(q) ==
    /\ InUserMode(q)
    /\ Discipline = "any"
    /\ \E c \in ZombiesToClean :
          /\ \A z \in ZombiesToClean : c <= z
          /\ WaitFor(q, c)

\* The rest of do_waitpid after thread_join slept.  The PCB is the one found
\* before: nothing is looked up again.
do_waitpid_resume(q) ==
    /\ halted = "no" /\ q \in proc_list /\ pc[q] = "joined"
    /\ \/ child[q] \notin proc_list /\ Stop("use_after_free")
       \/ /\ child[q] \in proc_list
          /\ Collect(child[q])
          /\ main_thread' = [main_thread EXCEPT ![child[q]] =
                                IF @ = "zombie" THEN "null" ELSE @]
          /\ pc' = [pc EXCEPT ![q] = "user"]
          /\ child' = [child EXCEPT ![q] = NoPid]
          /\ UNCHANGED <<pid_current, state, parent, fds>>

-----------------------------------------------------------------------------
\* proc_register_fd for open, pipe, dup and socket: the lowest unused slot of
\* the caller.  With no slot left it fails and changes nothing.
proc_register_fd(p) ==
    /\ InUserMode(p)
    /\ \E fd \in Fd \ fds[p] :
          /\ 0 .. fd - 1 \subseteq fds[p]
          /\ fds' = [fds EXCEPT ![p] = @ \cup {fd}]
    /\ UNCHANGED <<memVars, proc_list, pid_current, state, parent, main_thread,
                   pc, child, ptrace, halted>>

\* do_close, external: the slot is unused again.
do_close(p) ==
    /\ InUserMode(p)
    /\ \E fd \in fds[p] : fds' = [fds EXCEPT ![p] = @ \ {fd}]
    /\ UNCHANGED <<memVars, proc_list, pid_current, state, parent, main_thread,
                   pc, child, ptrace, halted>>

\* do_renice, do_ps and dump_proc read pcb->main_thread of a listed process; the
\* first writes its priority, which is not modelled.  NULL stops the kernel.
do_renice(p, c) ==
    /\ InUserMode(p)
    /\ c \in proc_list
    /\ main_thread[c] = "null"
    /\ Stop("null_thread")

\* ptrace, external: a process asks to be traced by its parent ...
TraceMe(p) ==
    /\ InUserMode(p)
    /\ Tracing
    /\ parent[p] # NoPid /\ ptrace[p] = "none"
    /\ ptrace' = [ptrace EXCEPT ![p] = "traceme"]
    /\ UNCHANGED <<memVars, proc_list, pid_current, state, parent, main_thread,
                   pc, child, fds, halted>>

\* ... stops at a stop point, which wakes the parent that waits for it ...
TraceeStop(p) ==
    /\ InUserMode(p)
    /\ Tracing
    /\ ptrace[p] # "none"
    /\ state' = [state EXCEPT ![p] = "WAITING"]
    /\ pc' = [WakeWaiters(p) EXCEPT ![p] = "stopped"]
    /\ UNCHANGED <<memVars, proc_list, pid_current, parent, main_thread, child,
                   ptrace, fds, halted>>

\* ... and the parent leaves a request for its next waitpid.
PtraceRequest(q, c) ==
    /\ InUserMode(q)
    /\ Tracing
    /\ c \in proc_list /\ parent[c] = q
    /\ state[c] = "WAITING" /\ ptrace[c] = "none"
    /\ ptrace' = [ptrace EXCEPT ![c] = "request"]
    /\ UNCHANGED <<memVars, proc_list, pid_current, state, parent, main_thread,
                   pc, child, fds, halted>>

-----------------------------------------------------------------------------
\* One step of process p in the kernel.
Step(p) ==
    \/ do_fork(p)
    \/ do_execve(p)
    \/ do_exit_close(p)
    \/ do_exit_finish(p)
    \/ \E c \in Pid : do_waitpid(p, c)
    \/ do_waitpid_any(p)
    \/ do_waitpid_resume(p)
    \/ proc_register_fd(p)
    \/ do_close(p)
    \/ \E c \in Pid : do_renice(p, c)
    \/ TraceMe(p)
    \/ TraceeStop(p)
    \/ \E c \in Pid : PtraceRequest(p, c)

Next == \E p \in Pid : Step(p)

Spec == Init /\ [][Next]_vars

\* A process inside a system call that is not asleep is in the run queue, and
\* the periodic timer shares the processor among the ready threads: it runs on.
\* What user programs do next is up to them: no fairness there.
FairSpec ==
    /\ Spec
    /\ \A p \in Pid : WF_vars(do_exit_finish(p)) /\ WF_vars(do_waitpid_resume(p))

-----------------------------------------------------------------------------
\* "SO3 approach consists in avoiding having orphan process": do_waitpid frees
\* a PCB only when no process has it as its parent, so that pcb->parent, which
\* do_exit and do_execve follow, never dangles; only the root has none.
NoOrphan ==
    \A p \in proc_list : IF p = 1 THEN parent[p] = NoPid ELSE parent[p] \in proc_list

\* A frame is free when its count is zero; one in the list of a process has a
\* count of one and is in no other list.
FramesOwnedOnce ==
    /\ free = {f \in Frame : refcount[f] = 0}
    /\ \A p \in Pid : \A f \in pages[p] :
          refcount[f] = 1 /\ \A q \in Pid : f \in pages[q] => q = p

\* Between fork, exec, exit and waitpid, a frame is either free or in the list
\* of exactly one process that still has a PCB: no frame is lost with a PCB
\* that goes, none is freed twice, none is in two lists.
FramesAccounted ==
    /\ FramesOwnedOnce
    /\ \A f \in Frame : refcount[f] # 0 => \E p \in proc_list : f \in pages[p]

\* The processes that can still run in user space.
Alive == {p \in proc_list : pc[p] # "dead"}

\* No page of a process is reachable from the page table of another, nor is it
\* free for get_free_page to hand out again, although exec reuses the frames it
\* releases, exit leaves a page table that maps freed frames, and waitpid frees
\* page tables.
Isolation ==
    \A p \in Alive :
        /\ mapped[p] \cap free = {}
        /\ \A q \in Alive : q # p => mapped[p] \cap mapped[q] = {}

\* "All allocated resources should be released except its PCB": what waits for
\* a waitpid, maybe forever, holds no descriptor and no frame, although the
\* descriptors go with the interrupts on and the frames later.
ExitReleases ==
    \A p \in proc_list : state[p] = "ZOMBIE" => fds[p] = {} /\ pages[p] = {}

\* A program that waits once for each of its children never makes do_waitpid
\* use the PCB it kept across thread_join after it was freed, join a thread
\* that is gone, free a page table twice, or break an assertion of do_execve.
WaitIsSafe == halted \notin {"use_after_free", "double_free", "null_join", "assert"}

\* The kernel is never left with nothing to run: with every program waiting for
\* its own children only, some process is always ready to go on.
NotAllBlocked ==
    halted = "no" => \E p \in proc_list : pc[p] \in {"user", "exiting", "joined"}

\* A PCB goes only when its process has finished and has given its frames back;
\* its page table goes with it.
ReapOnlyZombies ==
    [][\A c \in proc_list \ proc_list' :
          state[c] = "ZOMBIE" /\ pages[c] = {} /\ pgtable'[c] = "freed"]_vars

\* A parent asleep in waitpid when its child starts to exit gets out of the
\* kernel again; a child without a ptrace request has then been collected.
WaitReturns ==
    \A q, c \in Pid :
        LET ending == pc[q] = "joining" /\ child[q] = c /\ pc[c] = "exiting"
        IN  /\ ending ~> pc[q] = "user" \/ halted # "no"
            /\ (ending /\ ptrace[c] = "none") ~>
                  (pc[q] = "user" /\ pgtable[c] = "freed") \/ halted # "no"

-----------------------------------------------------------------------------
(* The inductive invariant behind the theorems of module ProcessProofs.      *)

\* A pid not given yet is in no list, owns nothing and is nobody's parent.
FreshPids ==
    \A p \in Pid : p >= pid_current =>
        /\ p \notin proc_list
        /\ state[p] = "NEW" /\ main_thread[p] = "null" /\ pc[p] = "none"
        /\ ptrace[p] = "none" /\ pgtable[p] = "none"
        /\ pages[p] = {} /\ mapped[p] = {}

\* The three records of the death of a process agree, and it left nothing.
DeadAgree ==
    \A p \in Pid :
        /\ state[p] = "ZOMBIE" => /\ pc[p] = "dead" /\ main_thread[p] # "live"
                                  /\ pages[p] = {} /\ fds[p] = {}
        /\ main_thread[p] = "zombie" \/ pc[p] = "dead" => state[p] = "ZOMBIE"
        /\ pc[p] = "exiting" => fds[p] = {} /\ state[p] # "ZOMBIE"

\* Only ptrace stops a process.
StopsAreTraced ==
    ~Tracing => \A p \in Pid : state[p] # "WAITING" /\ ptrace[p] = "none"

\* Who was woken up in thread_join was so because the child finished, or because
\* it stopped, and then its ptrace request is still there to tell.
WokenForAReason ==
    \A q \in Pid : pc[q] = "joined" =>
        /\ child[q] \in Pid
        /\ \/ state[child[q]] = "ZOMBIE"
           \/ state[child[q]] = "WAITING" /\ ptrace[child[q]] # "none"

\* The PCB a waiting process works on is that of a child of its own, still in
\* the list and not yet collected; what is not collected has its page table.
WaiterOwnsChild ==
    Discipline = "once" =>
        /\ \A q \in Pid : pc[q] \in {"joining", "joined"} =>
              /\ child[q] \in proc_list
              /\ parent[child[q]] = q
              /\ main_thread[child[q]] # "null"
        /\ \A p \in Pid : main_thread[p] # "null" => pgtable[p] = "live"

\* The page table of a process that can run maps the frames in its list and,
\* for the root process only, its code in the kernel image.
MapsOwnPages ==
    \A p \in Alive :
        /\ pgtable[p] = "live"
        /\ mapped[p] \cap Frame = pages[p]
        /\ mapped[p] \cap RootImage # {} => p = 1

MemorySound == FramesAccounted /\ MapsOwnPages

IInv ==
    /\ TypeOK
    /\ FreshPids
    /\ NoOrphan
    /\ DeadAgree
    /\ StopsAreTraced
    /\ FramesOwnedOnce
    /\ WokenForAReason
    /\ WaiterOwnsChild
    /\ MemorySound
    /\ Discipline = "once" => WaitIsSafe

\* Waits go from a process to a younger one that is not over: the root process
\* is there, does not stop or finish, and every chain of waits that starts from
\* it ends at a process that can go on.
WaitsGoDown ==
    /\ \A p \in proc_list : p # 1 => parent[p] < p
    /\ \A p \in Pid :
          /\ pc[p] = "stopped" => state[p] = "WAITING"
          /\ pc[p] = "none" => main_thread[p] = "null"
    /\ Discipline = "once" =>
          /\ 1 \in proc_list /\ parent[1] = NoPid
          /\ ptrace[1] = "none" /\ state[1] = "READY"
          /\ pc[1] \in {"user", "joining", "joined"}
          /\ \A q \in Pid : pc[q] = "joining" =>
                pc[child[q]] \in {"user", "exiting", "joining", "joined"}
=============================================================================
