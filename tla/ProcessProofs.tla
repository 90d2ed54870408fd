--------------------------- MODULE ProcessProofs ---------------------------
(***************************************************************************)
(* Proofs, for any number of processes, frames and descriptors, of the     *)
(* safety properties of module Process.                                    *)
(***************************************************************************)
EXTENDS Process, WellFoundedInduction, TLAPS

\* Frames handed out by get_free_page come from the free ones.
LEMMA FrameSetsAreFree ==
    ASSUME NEW avail, NEW n, NEW N \in FrameSets(avail, n)
    PROVE  N \subseteq avail
BY DEF FrameSets

\* Pids can be compared.
LEMMA PidsAreNumbers == 1 \in Pid /\ \A p \in Pid : p \in Nat /\ p >= 1 /\ p # NoPid
BY MemoryAssumption DEF Pid, NoPid

\* A fork of p that gives the child the frames N, all it needs or not ...
ForkWith(p, N) ==
    /\ InUserMode(p) /\ pid_current \in Pid
    /\ pages' = [pages EXCEPT ![pid_current] = @ \cup N]
    /\ mapped' = [mapped EXCEPT ![pid_current] = @ \cup N]
    /\ refcount' = add_page_to_proc(refcount, N)
    /\ free' = free \ N
    /\ pgtable' = [pgtable EXCEPT ![pid_current] = "live"]
    /\ proc_list' = proc_list \cup {pid_current}
    /\ pid_current' = pid_current + 1
    /\ parent' = [parent EXCEPT ![pid_current] = p]
    /\ fds' = [fds EXCEPT ![pid_current] = fds[p]]
    /\ \/ /\ state' = [state EXCEPT ![pid_current] = "READY"]
          /\ main_thread' = [main_thread EXCEPT ![pid_current] = "live"]
          /\ pc' = [pc EXCEPT ![pid_current] = "user"]
          /\ UNCHANGED halted
       \/ halted' = "panic" /\ UNCHANGED <<state, main_thread, pc>>
    /\ UNCHANGED <<child, ptrace>>

\* ... and an exec of p into the frames N.
ExecWith(p, N) ==
    /\ InUserMode(p)
    /\ pages' = [pages EXCEPT ![p] = N]
    /\ mapped' = [mapped EXCEPT ![p] = N]
    /\ refcount' = add_page_to_proc(DropRefs(p), N)
    /\ free' = (free \cup Freed(p)) \ N
    /\ \/ halted' \in {halted, "panic"}
       \/ halted' = "assert" /\ ~(Waiters(p) \subseteq {parent[p]})
    /\ UNCHANGED <<pgtable, proc_list, pid_current, state, parent, main_thread,
                   pc, child, ptrace, fds>>

\* fork gives the child frames that were free.
LEMMA ForkCases ==
    ASSUME NEW p \in Pid, do_fork(p)
    PROVE  \E N \in SUBSET free : ForkWith(p, N)
BY DEF do_fork, duplicate_user_space, FrameSets, ForkWith

\* exec replaces the frames of the process.
LEMMA ExecCases ==
    ASSUME NEW p \in Pid, do_execve(p)
    PROVE  \E N \in SUBSET (free \cup Freed(p)) : ExecWith(p, N)
BY DEF do_execve, setup_proc_image_replace, FrameSets, ExecWith

\* waitpid(-1) is a waitpid for some pid.
LEMMA WaitAnyIsWait ==
    ASSUME NEW p \in Pid, do_waitpid_any(p), TypeOK
    PROVE  \E c \in Pid : do_waitpid(p, c)
BY DEF do_waitpid_any, do_waitpid, ZombiesToClean, MayWait, TypeOK

-----------------------------------------------------------------------------
\* The initial state satisfies the inductive invariant.
LEMMA InitIInv == Init => IInv
<1> SUFFICES ASSUME Init PROVE IInv
    OBVIOUS
<1> USE MemoryAssumption, ProcessAssumption
<1>1. PICK stack \in FrameSets(Frame, StackPages) :
        /\ pages = [p \in Pid |-> IF p = 1 THEN stack ELSE {}]
        /\ refcount = [f \in Frame |-> IF f \in stack THEN 1 ELSE 0]
        /\ free = Frame \ stack
        /\ mapped = [p \in Pid |-> IF p = 1 THEN stack \cup RootImage ELSE {}]
        /\ pgtable = [p \in Pid |-> IF p = 1 THEN "live" ELSE "none"]
    BY DEF Init, MemInit
<1>2. stack \subseteq Frame
    BY FrameSetsAreFree
<1>3. 1 \in Pid
    BY DEF Pid
<1>4. TypeOK
  <2>1. MemTypeOK
    BY <1>1, <1>2 DEF MemTypeOK
  <2>2. QED
    BY <2>1, <1>3 DEF Init, TypeOK, Pid, Fd, NoPid, Halt
<1>5. FreshPids
    BY <1>1, <1>3 DEF Init, FreshPids, Pid
<1>6. NoOrphan /\ DeadAgree /\ StopsAreTraced /\ WokenForAReason
    BY <1>3 DEF Init, NoOrphan, DeadAgree, StopsAreTraced, WokenForAReason, Pid
<1>7. WaiterOwnsChild /\ WaitIsSafe
    BY <1>1 DEF Init, WaiterOwnsChild, WaitIsSafe, Pid
<1>8. FramesOwnedOnce
    BY <1>1, <1>2 DEF FramesOwnedOnce
<1>9. MemorySound
  <2>1. FramesAccounted
    BY <1>8, <1>1, <1>2, <1>3 DEF FramesAccounted, Init
  <2>2. MapsOwnPages
    BY <1>1, <1>2, <1>3 DEF MapsOwnPages, Alive, Init
  <2>3. QED
    BY <2>1, <2>2 DEF MemorySound
<1>10. QED
    BY <1>4, <1>5, <1>6, <1>7, <1>8, <1>9 DEF IInv

-----------------------------------------------------------------------------
\* Stopping the kernel leaves everything but halted as it is.
LEMMA StopKeeps ==
    ASSUME IInv, NEW reason \in Halt, Stop(reason)
    PROVE  /\ TypeOK'
           /\ FreshPids' /\ NoOrphan' /\ DeadAgree' /\ StopsAreTraced'
           /\ WokenForAReason' /\ WaiterOwnsChild' /\ FramesOwnedOnce' /\ MemorySound'
<1> USE DEF Stop, memVars, IInv
<1>1. TypeOK'
    BY DEF TypeOK, MemTypeOK
<1>2. FreshPids' /\ NoOrphan' /\ DeadAgree' /\ StopsAreTraced' /\ WokenForAReason'
    BY DEF FreshPids, NoOrphan, DeadAgree, StopsAreTraced, WokenForAReason
<1>3. WaiterOwnsChild'
    BY DEF WaiterOwnsChild
<1>4. FramesOwnedOnce' /\ MemorySound'
    BY DEF FramesOwnedOnce, MemorySound, FramesAccounted, MapsOwnPages, Alive
<1>5. QED
    BY <1>1, <1>2, <1>3, <1>4

\* A fork changes nothing for the processes there are; the child is new, and
\* has nothing to run or is in user space.
LEMMA ForkAddsOne ==
    ASSUME IInv, NEW p \in Pid, NEW N \in SUBSET free, ForkWith(p, N)
    PROVE  /\ pid_current \in Pid /\ pid_current \notin proc_list
           /\ state[pid_current] = "NEW" /\ pc[pid_current] = "none"
           /\ main_thread[pid_current] = "null"
           /\ state'[pid_current] \in {"NEW", "READY"}
           /\ pgtable'[pid_current] = "live" /\ parent'[pid_current] = p
           /\ \/ pc'[pid_current] = "user"
              \/ pc'[pid_current] = "none" /\ main_thread'[pid_current] = "null"
           /\ proc_list' = proc_list \cup {pid_current}
           /\ UNCHANGED <<child, ptrace>>
           /\ \A q \in Pid : q # pid_current =>
                 /\ state'[q] = state[q] /\ pc'[q] = pc[q] /\ parent'[q] = parent[q]
                 /\ main_thread'[q] = main_thread[q] /\ pgtable'[q] = pgtable[q]
<1>1. TypeOK /\ MemTypeOK /\ FreshPids
    BY DEF IInv, TypeOK
<1>2. /\ pid_current \in Pid /\ pid_current \notin proc_list
      /\ state[pid_current] = "NEW" /\ pc[pid_current] = "none"
      /\ main_thread[pid_current] = "null"
    BY <1>1, PidsAreNumbers DEF ForkWith, FreshPids
<1>3. /\ proc_list' = proc_list \cup {pid_current} /\ UNCHANGED <<child, ptrace>>
      /\ pgtable' = [pgtable EXCEPT ![pid_current] = "live"]
      /\ parent' = [parent EXCEPT ![pid_current] = p]
    BY DEF ForkWith
<1>4. CASE /\ state' = [state EXCEPT ![pid_current] = "READY"]
           /\ main_thread' = [main_thread EXCEPT ![pid_current] = "live"]
           /\ pc' = [pc EXCEPT ![pid_current] = "user"]
    BY <1>1, <1>2, <1>3, <1>4 DEF TypeOK, MemTypeOK
<1>5. CASE UNCHANGED <<state, main_thread, pc>>
    BY <1>1, <1>2, <1>3, <1>5 DEF TypeOK, MemTypeOK
<1>6. QED
    BY <1>4, <1>5 DEF ForkWith

\* Reference counts stay natural numbers when a process drops its references.
LEMMA DropRefsType ==
    ASSUME IInv, NEW p \in Pid
    PROVE  DropRefs(p) \in [Frame -> Nat] /\ Freed(p) \subseteq Frame
BY DEF IInv, FramesOwnedOnce, TypeOK, MemTypeOK, DropRefs, Freed

\* Every step preserves the types.
LEMMA TypeStep ==
    ASSUME IInv, NEW p \in Pid, Step(p)
    PROVE  TypeOK'
<1> USE MemoryAssumption, ProcessAssumption
<1>0. TypeOK /\ MemTypeOK
    BY DEF IInv, TypeOK
<1>0a. ASSUME NEW reason \in Halt, Stop(reason) PROVE TypeOK'
    BY <1>0a, StopKeeps
<1>1. ASSUME NEW N \in SUBSET free, ForkWith(p, N) PROVE TypeOK'
  <2>1. MemTypeOK'
    BY <1>0, <1>1 DEF ForkWith, MemTypeOK, add_page_to_proc
  <2>2. pid_current' \in 1 .. MaxPid + 1
    BY <1>1 DEF ForkWith, Pid
  <2>3. QED
    BY <1>0, <1>1, <2>1, <2>2 DEF ForkWith, TypeOK, Halt
<1>2. ASSUME NEW N \in SUBSET (free \cup Freed(p)), ExecWith(p, N) PROVE TypeOK'
  <2>1. MemTypeOK'
    BY <1>0, <1>2, DropRefsType DEF ExecWith, MemTypeOK, add_page_to_proc
  <2>2. QED
    BY <1>0, <1>2, <2>1 DEF ExecWith, TypeOK, Halt
<1>3. CASE do_exit_close(p)
    BY <1>0, <1>0a, <1>3 DEF do_exit_close, memVars, TypeOK, MemTypeOK, Halt
<1>4. CASE do_exit_finish(p)
  <2>1. MemTypeOK'
    BY <1>0, <1>4, DropRefsType DEF do_exit_finish, release_proc_pages, MemTypeOK
  <2>2. QED
    BY <1>0, <1>4, <2>1 DEF do_exit_finish, WakeWaiters, TypeOK
<1>5. ASSUME NEW c \in Pid, WaitFor(p, c) PROVE TypeOK'
  <2>1. ASSUME Collect(c) PROVE MemTypeOK' /\ proc_list' \in SUBSET Pid
            /\ ptrace' \in [Pid -> {"none", "traceme", "request"}] /\ halted' \in Halt
    BY <1>0, <2>1 DEF Collect, reset_root_pgtable, memVars, MemTypeOK, TypeOK, Halt
  <2>2. ASSUME Block(p, c) PROVE MemTypeOK'
    BY <1>0, <2>2 DEF Block, memVars, MemTypeOK
  <2>3. QED
    BY <1>0, <1>0a, <1>5, <2>1, <2>2 DEF WaitFor, Block, TypeOK, Halt
<1>6. CASE do_waitpid_resume(p)
  <2>1. CASE Stop("use_after_free")
    BY <2>1, <1>0a DEF Halt
  <2>2. CASE child[p] \in proc_list /\ Collect(child[p])
    <3>1. MemTypeOK' /\ proc_list' \in SUBSET Pid /\ halted' \in Halt
            /\ ptrace' \in [Pid -> {"none", "traceme", "request"}]
        BY <1>0, <2>2 DEF Collect, reset_root_pgtable, memVars, MemTypeOK, TypeOK, Halt
    <3>2. QED
        BY <1>0, <1>6, <2>1, <2>2, <3>1 DEF do_waitpid_resume, TypeOK
  <2>3. QED
    BY <1>6, <2>1, <2>2 DEF do_waitpid_resume
<1>7. CASE proc_register_fd(p) \/ do_close(p)
    BY <1>0, <1>7 DEF proc_register_fd, do_close, memVars, TypeOK, MemTypeOK
<1>8. CASE TraceMe(p) \/ \E c \in Pid : PtraceRequest(p, c)
    BY <1>0, <1>8 DEF TraceMe, PtraceRequest, memVars, TypeOK, MemTypeOK
<1>8a. CASE TraceeStop(p)
    BY <1>0, <1>8a DEF TraceeStop, WakeWaiters, memVars, TypeOK, MemTypeOK
<1>9. QED
    BY <1>0, <1>0a, <1>1, <1>2, <1>3, <1>4, <1>5, <1>6, <1>7, <1>8, <1>8a,
       ForkCases, ExecCases, WaitAnyIsWait
    DEF Step, do_waitpid, do_renice, Halt

\* Every step leaves the pids not given yet unused.
LEMMA FreshStep ==
    ASSUME IInv, NEW p \in Pid, Step(p)
    PROVE  FreshPids'
<1>0. TypeOK /\ MemTypeOK /\ FreshPids
    BY DEF IInv, TypeOK
<1>0a. ASSUME NEW reason \in Halt, Stop(reason) PROVE FreshPids'
    BY <1>0a, StopKeeps
<1>1. ASSUME NEW N \in SUBSET free, ForkWith(p, N) PROVE FreshPids'
    BY <1>0, <1>1, PidsAreNumbers
    DEF ForkWith, InUserMode, add_page_to_proc, TypeOK, MemTypeOK, FreshPids
<1>2. ASSUME NEW N \in SUBSET (free \cup Freed(p)), ExecWith(p, N) PROVE FreshPids'
    BY <1>0, <1>2, PidsAreNumbers
    DEF ExecWith, InUserMode, add_page_to_proc, DropRefs, Freed, TypeOK,
        MemTypeOK, FreshPids
<1>3. CASE do_exit_close(p)
    BY <1>0, <1>0a, <1>3, PidsAreNumbers
    DEF do_exit_close, InUserMode, memVars, TypeOK, MemTypeOK, FreshPids, Halt
<1>4. CASE do_exit_finish(p)
    BY <1>0, <1>4, PidsAreNumbers
    DEF do_exit_finish, release_proc_pages, WakeWaiters, Waiters, DropRefs, Freed,
        TypeOK, MemTypeOK, FreshPids
<1>5. ASSUME NEW c \in Pid, do_waitpid(p, c) PROVE FreshPids'
    BY <1>0, <1>0a, <1>5, PidsAreNumbers
    DEF do_waitpid, InUserMode, WaitFor, Block, Collect, reset_root_pgtable, HasChild,
        memVars, TypeOK, MemTypeOK, FreshPids, Halt
<1>6. CASE do_waitpid_resume(p)
    BY <1>0, <1>0a, <1>6, PidsAreNumbers
    DEF do_waitpid_resume, Collect, reset_root_pgtable, HasChild, memVars, TypeOK,
        MemTypeOK, FreshPids, Halt
<1>7. CASE proc_register_fd(p) \/ do_close(p)
    BY <1>0, <1>7, PidsAreNumbers
    DEF proc_register_fd, do_close, InUserMode, memVars, TypeOK, MemTypeOK, FreshPids
<1>8. CASE TraceMe(p) \/ \E c \in Pid : PtraceRequest(p, c)
    BY <1>0, <1>8, PidsAreNumbers
    DEF TraceMe, PtraceRequest, InUserMode, memVars, TypeOK, MemTypeOK, FreshPids
<1>9. CASE TraceeStop(p)
    BY <1>0, <1>9, PidsAreNumbers
    DEF TraceeStop, InUserMode, WakeWaiters, Waiters, memVars, TypeOK, MemTypeOK,
        FreshPids
<1>10. QED
    BY <1>0, <1>0a, <1>1, <1>2, <1>3, <1>4, <1>5, <1>6, <1>7, <1>8, <1>9,
       ForkCases, ExecCases, WaitAnyIsWait
    DEF Step, do_renice, Halt

\* No step leaves a process without its parent.
LEMMA NoOrphanStep ==
    ASSUME IInv, NEW p \in Pid, Step(p)
    PROVE  NoOrphan'
<1>0. TypeOK /\ FreshPids /\ NoOrphan
    BY DEF IInv, TypeOK
<1>0a. ASSUME NEW reason \in Halt, Stop(reason) PROVE NoOrphan'
    BY <1>0a, StopKeeps
<1>1. ASSUME NEW N \in SUBSET free, ForkWith(p, N) PROVE NoOrphan'
    BY <1>0, <1>1, PidsAreNumbers
    DEF ForkWith, InUserMode, add_page_to_proc, TypeOK, FreshPids, NoOrphan
<1>2. ASSUME NEW N \in SUBSET (free \cup Freed(p)), ExecWith(p, N) PROVE NoOrphan'
    BY <1>0, <1>2, PidsAreNumbers
    DEF ExecWith, InUserMode, add_page_to_proc, DropRefs, Freed, TypeOK,
        FreshPids, NoOrphan
<1>3. CASE do_exit_close(p)
    BY <1>0, <1>0a, <1>3, PidsAreNumbers
    DEF do_exit_close, InUserMode, memVars, TypeOK, FreshPids, NoOrphan, Halt
<1>4. CASE do_exit_finish(p)
    BY <1>0, <1>4, PidsAreNumbers
    DEF do_exit_finish, release_proc_pages, WakeWaiters, Waiters, DropRefs, Freed,
        TypeOK, FreshPids, NoOrphan
<1>5. ASSUME NEW c \in Pid, do_waitpid(p, c) PROVE NoOrphan'
    BY <1>0, <1>0a, <1>5, PidsAreNumbers
    DEF do_waitpid, InUserMode, WaitFor, Block, Collect, reset_root_pgtable, HasChild,
        memVars, TypeOK, FreshPids, NoOrphan, Halt
<1>6. CASE do_waitpid_resume(p)
    BY <1>0, <1>0a, <1>6, PidsAreNumbers
    DEF do_waitpid_resume, Collect, reset_root_pgtable, HasChild, memVars, TypeOK,
        FreshPids, NoOrphan, Halt
<1>7. CASE proc_register_fd(p) \/ do_close(p)
    BY <1>0, <1>7, PidsAreNumbers
    DEF proc_register_fd, do_close, InUserMode, memVars, TypeOK, FreshPids, NoOrphan
<1>8. CASE TraceMe(p) \/ \E c \in Pid : PtraceRequest(p, c)
    BY <1>0, <1>8, PidsAreNumbers
    DEF TraceMe, PtraceRequest, InUserMode, memVars, TypeOK, FreshPids, NoOrphan
<1>9. CASE TraceeStop(p)
    BY <1>0, <1>9, PidsAreNumbers
    DEF TraceeStop, InUserMode, WakeWaiters, Waiters, memVars, TypeOK, FreshPids,
        NoOrphan
<1>10. QED
    BY <1>0, <1>0a, <1>1, <1>2, <1>3, <1>4, <1>5, <1>6, <1>7, <1>8, <1>9,
       ForkCases, ExecCases, WaitAnyIsWait
    DEF Step, do_renice, Halt

\* Every step keeps the records of the death of a process in agreement.
LEMMA DeadAgreeStep ==
    ASSUME IInv, NEW p \in Pid, Step(p)
    PROVE  DeadAgree'
<1>0. TypeOK /\ MemTypeOK /\ FreshPids /\ DeadAgree
    BY DEF IInv, TypeOK
<1>0a. ASSUME NEW reason \in Halt, Stop(reason) PROVE DeadAgree'
    BY <1>0a, StopKeeps
<1>1. ASSUME NEW N \in SUBSET free, ForkWith(p, N) PROVE DeadAgree'
    BY <1>0, <1>1
    DEF ForkWith, InUserMode, add_page_to_proc, TypeOK, MemTypeOK, FreshPids, DeadAgree
<1>2. ASSUME NEW N \in SUBSET (free \cup Freed(p)), ExecWith(p, N) PROVE DeadAgree'
    BY <1>0, <1>2
    DEF ExecWith, InUserMode, add_page_to_proc, DropRefs, Freed, TypeOK,
        MemTypeOK, FreshPids, DeadAgree
<1>3. CASE do_exit_close(p)
    BY <1>0, <1>0a, <1>3
    DEF do_exit_close, InUserMode, memVars, TypeOK, MemTypeOK, FreshPids, DeadAgree,
        Halt
<1>4. CASE do_exit_finish(p)
    BY <1>0, <1>4
    DEF do_exit_finish, release_proc_pages, WakeWaiters, Waiters, DropRefs, Freed,
        TypeOK, MemTypeOK, FreshPids, DeadAgree
<1>5. ASSUME NEW c \in Pid, do_waitpid(p, c) PROVE DeadAgree'
    BY <1>0, <1>0a, <1>5
    DEF do_waitpid, InUserMode, WaitFor, Block, Collect, reset_root_pgtable, HasChild,
        memVars, TypeOK, MemTypeOK, FreshPids, DeadAgree, Halt
<1>6. CASE do_waitpid_resume(p)
    BY <1>0, <1>0a, <1>6
    DEF do_waitpid_resume, Collect, reset_root_pgtable, HasChild, memVars, TypeOK,
        MemTypeOK, FreshPids, DeadAgree, Halt
<1>7. CASE proc_register_fd(p) \/ do_close(p)
    BY <1>0, <1>7
    DEF proc_register_fd, do_close, InUserMode, memVars, TypeOK, MemTypeOK, FreshPids,
        DeadAgree
<1>8. CASE TraceMe(p) \/ \E c \in Pid : PtraceRequest(p, c)
    BY <1>0, <1>8
    DEF TraceMe, PtraceRequest, InUserMode, memVars, TypeOK, MemTypeOK, FreshPids,
        DeadAgree
<1>9. CASE TraceeStop(p)
    BY <1>0, <1>9
    DEF TraceeStop, InUserMode, WakeWaiters, Waiters, memVars, TypeOK, MemTypeOK,
        FreshPids, DeadAgree
<1>10. QED
    BY <1>0, <1>0a, <1>1, <1>2, <1>3, <1>4, <1>5, <1>6, <1>7, <1>8, <1>9,
       ForkCases, ExecCases, WaitAnyIsWait
    DEF Step, do_renice, Halt

\* Without ptrace no step stops a process.
LEMMA StopsAreTracedStep ==
    ASSUME IInv, NEW p \in Pid, Step(p)
    PROVE  StopsAreTraced'
<1>0. TypeOK /\ StopsAreTraced
    BY DEF IInv, TypeOK
<1>0a. ASSUME NEW reason \in Halt, Stop(reason) PROVE StopsAreTraced'
    BY <1>0a, StopKeeps
<1>1. ASSUME NEW N \in SUBSET free, ForkWith(p, N) PROVE StopsAreTraced'
    BY <1>0, <1>1 DEF ForkWith, InUserMode, add_page_to_proc, TypeOK, StopsAreTraced
<1>2. ASSUME NEW N \in SUBSET (free \cup Freed(p)), ExecWith(p, N) PROVE StopsAreTraced'
    BY <1>0, <1>2
    DEF ExecWith, InUserMode, add_page_to_proc, DropRefs, Freed, TypeOK,
        StopsAreTraced
<1>3. CASE do_exit_close(p)
    BY <1>0, <1>0a, <1>3 DEF do_exit_close, InUserMode, memVars, TypeOK, StopsAreTraced, Halt
<1>4. CASE do_exit_finish(p)
    BY <1>0, <1>4
    DEF do_exit_finish, release_proc_pages, WakeWaiters, Waiters, DropRefs, Freed,
        TypeOK, StopsAreTraced
<1>5. ASSUME NEW c \in Pid, do_waitpid(p, c) PROVE StopsAreTraced'
    BY <1>0, <1>0a, <1>5
    DEF do_waitpid, InUserMode, WaitFor, Block, Collect, reset_root_pgtable, HasChild,
        memVars, TypeOK, StopsAreTraced, Halt
<1>6. CASE do_waitpid_resume(p)
    BY <1>0, <1>0a, <1>6
    DEF do_waitpid_resume, Collect, reset_root_pgtable, HasChild, memVars, TypeOK,
        StopsAreTraced, Halt
<1>7. CASE proc_register_fd(p) \/ do_close(p)
    BY <1>0, <1>7 DEF proc_register_fd, do_close, InUserMode, memVars, TypeOK, StopsAreTraced
<1>8. CASE TraceMe(p) \/ \E c \in Pid : PtraceRequest(p, c)
    BY <1>0, <1>8 DEF TraceMe, PtraceRequest, InUserMode, memVars, TypeOK, StopsAreTraced
<1>9. CASE TraceeStop(p)
    BY <1>0, <1>9
    DEF TraceeStop, InUserMode, WakeWaiters, Waiters, memVars, TypeOK, StopsAreTraced
<1>10. QED
    BY <1>0, <1>0a, <1>1, <1>2, <1>3, <1>4, <1>5, <1>6, <1>7, <1>8, <1>9,
       ForkCases, ExecCases, WaitAnyIsWait
    DEF Step, do_renice, Halt

\* exec gives back every frame of the process, and takes the frames N.
LEMMA ExecRefs ==
    ASSUME IInv, NEW p \in Pid, NEW N \in SUBSET (free \cup Freed(p)), ExecWith(p, N)
    PROVE  /\ Freed(p) = pages[p]
           /\ \A f \in Frame : refcount'[f] = IF f \in N THEN 1
                                              ELSE IF f \in pages[p] THEN 0 ELSE refcount[f]
<1>0. MemTypeOK /\ FramesOwnedOnce
    BY DEF IInv, TypeOK
<1>1. Freed(p) = pages[p]
    BY <1>0 DEF DropRefs, Freed, MemTypeOK, FramesOwnedOnce
<1>2. \A f \in Frame : DropRefs(p)[f] = IF f \in pages[p] THEN 0 ELSE refcount[f]
    BY <1>0 DEF DropRefs, MemTypeOK, FramesOwnedOnce
<1>3. \A f \in N : DropRefs(p)[f] = 0
    BY <1>0, <1>1, <1>2 DEF MemTypeOK, FramesOwnedOnce
<1>4. QED
    BY <1>1, <1>2, <1>3 DEF ExecWith, add_page_to_proc

\* Every step keeps each frame in at most one list.
LEMMA FramesOwnedStep ==
    ASSUME IInv, NEW p \in Pid, Step(p)
    PROVE  FramesOwnedOnce'
<1>0. TypeOK /\ MemTypeOK /\ FreshPids /\ FramesOwnedOnce
    BY DEF IInv, TypeOK
<1>0a. ASSUME NEW reason \in Halt, Stop(reason) PROVE FramesOwnedOnce'
    BY <1>0a, StopKeeps
<1>1. ASSUME NEW N \in SUBSET free, ForkWith(p, N) PROVE FramesOwnedOnce'
    BY <1>0, <1>1
    DEF ForkWith, InUserMode, add_page_to_proc, TypeOK, MemTypeOK, FreshPids,
        FramesOwnedOnce
<1>2. ASSUME NEW N \in SUBSET (free \cup Freed(p)), ExecWith(p, N) PROVE FramesOwnedOnce'
  <2>0. Freed(p) = pages[p]
    BY <1>2, ExecRefs
  <2>1. \A f \in Frame : refcount'[f] = IF f \in N THEN 1
                                       ELSE IF f \in pages[p] THEN 0 ELSE refcount[f]
    BY <1>2, ExecRefs
  <2>2. \A q \in Pid \ {p} : pages'[q] = pages[q] /\ pages'[q] \cap N = {}
    BY <1>0, <1>2, <2>0, <2>1 DEF ExecWith, MemTypeOK, FramesOwnedOnce
  <2>3. pages'[p] = N
    BY <1>0, <1>2 DEF ExecWith, MemTypeOK
  <2>4. free' = {f \in Frame : refcount'[f] = 0}
    BY <1>0, <1>2, <2>0, <2>1 DEF ExecWith, MemTypeOK, FramesOwnedOnce
  <2>5. ASSUME NEW q \in Pid, NEW f \in pages'[q]
        PROVE  refcount'[f] = 1 /\ \A r \in Pid : f \in pages'[r] => r = q
    <3>1. CASE q = p
        BY <1>0, <2>0, <2>1, <2>2, <2>3, <2>5, <3>1 DEF MemTypeOK
    <3>2. CASE q # p
        BY <1>0, <2>1, <2>2, <2>3, <2>5, <3>2 DEF MemTypeOK, FramesOwnedOnce
    <3>3. QED
        BY <3>1, <3>2
  <2>6. QED
    BY <2>4, <2>5 DEF FramesOwnedOnce
<1>3. CASE do_exit_close(p)
    BY <1>0, <1>0a, <1>3
    DEF do_exit_close, InUserMode, memVars, TypeOK, MemTypeOK, FreshPids,
        FramesOwnedOnce, Halt
<1>4. CASE do_exit_finish(p)
    BY <1>0, <1>4
    DEF do_exit_finish, release_proc_pages, WakeWaiters, Waiters, DropRefs, Freed,
        TypeOK, MemTypeOK, FreshPids, FramesOwnedOnce
<1>5. ASSUME NEW c \in Pid, do_waitpid(p, c) PROVE FramesOwnedOnce'
    BY <1>0, <1>0a, <1>5
    DEF do_waitpid, InUserMode, WaitFor, Block, Collect, reset_root_pgtable, HasChild,
        memVars, TypeOK, MemTypeOK, FreshPids, FramesOwnedOnce, Halt
<1>6. CASE do_waitpid_resume(p)
    BY <1>0, <1>0a, <1>6
    DEF do_waitpid_resume, Collect, reset_root_pgtable, HasChild, memVars, TypeOK,
        MemTypeOK, FreshPids, FramesOwnedOnce, Halt
<1>7. CASE proc_register_fd(p) \/ do_close(p)
    BY <1>0, <1>7
    DEF proc_register_fd, do_close, InUserMode, memVars, TypeOK, MemTypeOK, FreshPids,
        FramesOwnedOnce
<1>8. CASE TraceMe(p) \/ \E c \in Pid : PtraceRequest(p, c)
    BY <1>0, <1>8
    DEF TraceMe, PtraceRequest, InUserMode, memVars, TypeOK, MemTypeOK, FreshPids,
        FramesOwnedOnce
<1>9. CASE TraceeStop(p)
    BY <1>0, <1>9
    DEF TraceeStop, InUserMode, WakeWaiters, Waiters, memVars, TypeOK, MemTypeOK,
        FreshPids, FramesOwnedOnce
<1>10. QED
    BY <1>0, <1>0a, <1>1, <1>2, <1>3, <1>4, <1>5, <1>6, <1>7, <1>8, <1>9,
       ForkCases, ExecCases, WaitAnyIsWait
    DEF Step, do_renice, Halt

-----------------------------------------------------------------------------
\* The child c is collected: it loses its page table, and its PCB unless it has
\* children.
Collected(c) ==
    /\ reset_root_pgtable(c)
    /\ proc_list' = IF HasChild(c) THEN proc_list ELSE proc_list \ {c}

\* A waitpid that does not sleep collects a zombie or nobody ...
LEMMA WaitCollectsZombie ==
    ASSUME IInv, NEW p \in Pid, NEW c \in Pid, do_waitpid(p, c)
    PROVE  UNCHANGED <<memVars, proc_list>> \/ (state[c] = "ZOMBIE" /\ Collected(c))
<1>1. Collect(c) => UNCHANGED <<memVars, proc_list>> \/ (ptrace[c] = "none" /\ Collected(c))
    BY DEF Collect, Collected
<1>2. state[c] = "WAITING" => ptrace[c] # "none"
    BY ProcessAssumption DEF do_waitpid, MayWait, IInv, StopsAreTraced
<1>3. main_thread[c] = "zombie" => state[c] = "ZOMBIE"
    BY DEF IInv, DeadAgree
<1>4. QED
    BY <1>1, <1>2, <1>3 DEF do_waitpid, WaitFor, Block, Stop

\* ... and so does one that slept, for the child it was woken up for.
LEMMA ResumeCollectsZombie ==
    ASSUME IInv, NEW p \in Pid, do_waitpid_resume(p)
    PROVE  \/ UNCHANGED <<memVars, proc_list>>
           \/ child[p] \in Pid /\ state[child[p]] = "ZOMBIE" /\ Collected(child[p])
<1>1. Collect(child[p]) => \/ UNCHANGED <<memVars, proc_list>>
                           \/ ptrace[child[p]] = "none" /\ Collected(child[p])
    BY DEF Collect, Collected
<1>2. child[p] \in Pid /\ (ptrace[child[p]] = "none" => state[child[p]] = "ZOMBIE")
    BY DEF do_waitpid_resume, IInv, WokenForAReason
<1>3. QED
    BY <1>1, <1>2 DEF do_waitpid_resume, Stop

\* A process in thread_join is woken up only for what happened to its child.
LEMMA WokenStep ==
    ASSUME IInv, NEW p \in Pid, Step(p)
    PROVE  WokenForAReason'
<1>0. TypeOK /\ MemTypeOK /\ DeadAgree /\ FreshPids /\ StopsAreTraced /\ WokenForAReason /\ WaiterOwnsChild
    BY DEF IInv, TypeOK
<1>0a. ASSUME NEW reason \in Halt, Stop(reason) PROVE WokenForAReason'
    BY <1>0a, StopKeeps
<1>1. ASSUME NEW N \in SUBSET free, ForkWith(p, N) PROVE WokenForAReason'
    BY <1>0, <1>1, ForkAddsOne DEF WokenForAReason
<1>2. ASSUME NEW N \in SUBSET (free \cup Freed(p)), ExecWith(p, N) PROVE WokenForAReason'
    BY <1>0, <1>2
    DEF ExecWith, InUserMode, add_page_to_proc, DropRefs, Freed, TypeOK,
        FreshPids, DeadAgree, StopsAreTraced, WokenForAReason, WaiterOwnsChild, MayWait
<1>3. CASE do_exit_close(p)
    BY <1>0, <1>0a, <1>3
    DEF do_exit_close, InUserMode, memVars, TypeOK, FreshPids, DeadAgree,
        StopsAreTraced, WokenForAReason, WaiterOwnsChild, MayWait, Halt
<1>4. CASE do_exit_finish(p)
    BY <1>0, <1>4
    DEF do_exit_finish, release_proc_pages, WakeWaiters, Waiters, DropRefs, Freed,
        TypeOK, FreshPids, DeadAgree, StopsAreTraced, WokenForAReason, WaiterOwnsChild,
        MayWait
<1>5. ASSUME NEW c \in Pid, do_waitpid(p, c) PROVE WokenForAReason'
    BY <1>0, <1>0a, <1>5, ProcessAssumption
    DEF do_waitpid, InUserMode, WaitFor, Block, Collect, reset_root_pgtable, HasChild,
        memVars, TypeOK, FreshPids, DeadAgree, StopsAreTraced, WokenForAReason,
        WaiterOwnsChild, MayWait, Halt
<1>6. CASE do_waitpid_resume(p)
    BY <1>0, <1>0a, <1>6, ProcessAssumption
    DEF do_waitpid_resume, Collect, reset_root_pgtable, HasChild, memVars, TypeOK,
        FreshPids, DeadAgree, StopsAreTraced, WokenForAReason, WaiterOwnsChild, MayWait,
        Halt
<1>7. CASE proc_register_fd(p) \/ do_close(p)
    BY <1>0, <1>7
    DEF proc_register_fd, do_close, InUserMode, memVars, TypeOK, FreshPids, DeadAgree,
        StopsAreTraced, WokenForAReason, WaiterOwnsChild, MayWait
<1>8. CASE TraceMe(p) \/ \E c \in Pid : PtraceRequest(p, c)
    BY <1>0, <1>8
    DEF TraceMe, PtraceRequest, InUserMode, memVars, TypeOK, FreshPids, DeadAgree,
        StopsAreTraced, WokenForAReason, WaiterOwnsChild, MayWait
<1>9. CASE TraceeStop(p)
    BY <1>0, <1>9
    DEF TraceeStop, InUserMode, WakeWaiters, Waiters, memVars, TypeOK, FreshPids,
        DeadAgree, StopsAreTraced, WokenForAReason, WaiterOwnsChild, MayWait
<1>10. QED
    BY <1>0, <1>0a, <1>1, <1>2, <1>3, <1>4, <1>5, <1>6, <1>7, <1>8, <1>9,
       ForkCases, ExecCases, WaitAnyIsWait
    DEF Step, do_renice, Halt

\* The child a process waits for stays its own.
LEMMA WaiterOwnsStep ==
    ASSUME IInv, NEW p \in Pid, Step(p)
    PROVE  WaiterOwnsChild'
<1>0. TypeOK /\ MemTypeOK /\ DeadAgree /\ FreshPids /\ WokenForAReason /\ WaiterOwnsChild
    BY DEF IInv, TypeOK
<1>0a. ASSUME NEW reason \in Halt, Stop(reason) PROVE WaiterOwnsChild'
    BY <1>0a, StopKeeps
<1>1. ASSUME NEW N \in SUBSET free, ForkWith(p, N) PROVE WaiterOwnsChild'
    BY <1>0, <1>1, ForkAddsOne DEF WaiterOwnsChild, TypeOK
<1>2. ASSUME NEW N \in SUBSET (free \cup Freed(p)), ExecWith(p, N) PROVE WaiterOwnsChild'
    BY <1>0, <1>2
    DEF ExecWith, InUserMode, add_page_to_proc, DropRefs, Freed, TypeOK,
        MemTypeOK, FreshPids, DeadAgree, WokenForAReason, WaiterOwnsChild, MayWait
<1>3. CASE do_exit_close(p)
    BY <1>0, <1>0a, <1>3
    DEF do_exit_close, InUserMode, memVars, TypeOK, MemTypeOK, FreshPids, DeadAgree,
        WokenForAReason, WaiterOwnsChild, MayWait, Halt
<1>4. CASE do_exit_finish(p)
  <2>1. Discipline = "once" => pgtable[p] = "live"
    BY <1>4 DEF IInv, MemorySound, MapsOwnPages, Alive, do_exit_finish
  <2>2. QED
    BY <1>0, <1>4, <2>1
    DEF do_exit_finish, release_proc_pages, WakeWaiters, Waiters, TypeOK, MemTypeOK,
        WaiterOwnsChild
<1>5. ASSUME NEW c \in Pid, do_waitpid(p, c) PROVE WaiterOwnsChild'
    BY <1>0, <1>0a, <1>5
    DEF do_waitpid, InUserMode, WaitFor, Block, Collect, reset_root_pgtable, HasChild,
        memVars, TypeOK, MemTypeOK, FreshPids, DeadAgree, WokenForAReason,
        WaiterOwnsChild, MayWait, Halt
<1>6. CASE do_waitpid_resume(p)
    BY <1>0, <1>0a, <1>6
    DEF do_waitpid_resume, Collect, reset_root_pgtable, HasChild, memVars, TypeOK,
        MemTypeOK, FreshPids, DeadAgree, WokenForAReason, WaiterOwnsChild, MayWait, Halt
<1>7. CASE proc_register_fd(p) \/ do_close(p)
    BY <1>0, <1>7
    DEF proc_register_fd, do_close, InUserMode, memVars, TypeOK, MemTypeOK, FreshPids,
        DeadAgree, WokenForAReason, WaiterOwnsChild, MayWait
<1>8. CASE TraceMe(p) \/ \E c \in Pid : PtraceRequest(p, c)
    BY <1>0, <1>8
    DEF TraceMe, PtraceRequest, InUserMode, memVars, TypeOK, MemTypeOK, FreshPids,
        DeadAgree, WokenForAReason, WaiterOwnsChild, MayWait
<1>9. CASE TraceeStop(p)
    BY <1>0, <1>9
    DEF TraceeStop, InUserMode, WakeWaiters, Waiters, memVars, TypeOK, MemTypeOK,
        FreshPids, DeadAgree, WokenForAReason, WaiterOwnsChild, MayWait
<1>10. QED
    BY <1>0, <1>0a, <1>1, <1>2, <1>3, <1>4, <1>5, <1>6, <1>7, <1>8, <1>9,
       ForkCases, ExecCases, WaitAnyIsWait
    DEF Step, do_renice, Halt

\* Every step of disciplined programs keeps the memory sound.
LEMMA MemoryStep ==
    ASSUME IInv, NEW p \in Pid, Step(p)
    PROVE  MemorySound'
<1>0. TypeOK /\ MemTypeOK /\ DeadAgree /\ FreshPids /\ FramesOwnedOnce /\ FramesOwnedOnce' /\ MemorySound
    BY FramesOwnedStep DEF IInv, TypeOK
<1>0a. ASSUME NEW reason \in Halt, Stop(reason) PROVE MemorySound'
    BY <1>0a, StopKeeps
<1>1. ASSUME NEW N \in SUBSET free, ForkWith(p, N) PROVE MemorySound'
    BY <1>0, <1>1, MemoryAssumption
    DEF ForkWith, InUserMode, add_page_to_proc, TypeOK, MemTypeOK, FreshPids, DeadAgree,
        MemorySound, FramesAccounted, FramesOwnedOnce, MapsOwnPages, Alive
<1>2. ASSUME NEW N \in SUBSET (free \cup Freed(p)), ExecWith(p, N) PROVE MemorySound'
  <2>1. N \subseteq Frame
    BY <1>0, <1>2, ExecRefs DEF MemTypeOK
  <2>2. FramesAccounted'
    <3>1. SUFFICES ASSUME NEW f \in Frame, refcount'[f] # 0
                   PROVE  \E q \in proc_list' : f \in pages'[q]
        BY <1>0 DEF FramesAccounted
    <3>2. /\ p \in proc_list /\ proc_list' = proc_list /\ pages'[p] = N
          /\ \A q \in Pid \ {p} : pages'[q] = pages[q]
        BY <1>0, <1>2 DEF ExecWith, InUserMode, MemTypeOK
    <3>3. f \in N \/ (f \notin pages[p] /\ refcount[f] # 0)
        BY <1>2, <3>1, ExecRefs
    <3>4. QED
        BY <1>0, <3>1, <3>2, <3>3 DEF TypeOK, MemorySound, FramesAccounted
  <2>3. MapsOwnPages'
    BY <1>0, <1>2, <2>1, MemoryAssumption
    DEF ExecWith, InUserMode, TypeOK, MemTypeOK, MemorySound, MapsOwnPages, Alive
  <2>4. QED
    BY <2>2, <2>3 DEF MemorySound
<1>3. CASE do_exit_close(p)
    BY <1>0, <1>0a, <1>3, MemoryAssumption
    DEF do_exit_close, InUserMode, memVars, TypeOK, MemTypeOK, FreshPids, DeadAgree,
        MemorySound, FramesAccounted, FramesOwnedOnce, MapsOwnPages, Alive, Halt
<1>4. CASE do_exit_finish(p)
    BY <1>0, <1>4, MemoryAssumption
    DEF do_exit_finish, release_proc_pages, WakeWaiters, Waiters, DropRefs, Freed,
        TypeOK, MemTypeOK, FreshPids, DeadAgree, MemorySound, FramesAccounted,
        FramesOwnedOnce, MapsOwnPages, Alive
<1>5. ASSUME NEW c \in Pid, do_waitpid(p, c) PROVE MemorySound'
  <2>2. \A x \in Pid : pc[x] = "dead" => pc'[x] = "dead"
    BY <1>0, <1>5 DEF do_waitpid, InUserMode, WaitFor, Block, Stop, TypeOK, DeadAgree
  <2>3. QED
    BY <1>0, <1>5, <2>2, WaitCollectsZombie
    DEF Collected, reset_root_pgtable, memVars, TypeOK, MemTypeOK, DeadAgree,
        MemorySound, FramesAccounted, MapsOwnPages, Alive
<1>6. CASE do_waitpid_resume(p)
  <2>2. \A x \in Pid : pc[x] = "dead" => pc'[x] = "dead"
    BY <1>0, <1>6 DEF do_waitpid_resume, Stop, TypeOK
  <2>3. QED
    BY <1>0, <1>6, <2>2, ResumeCollectsZombie
    DEF Collected, reset_root_pgtable, memVars, TypeOK, MemTypeOK, DeadAgree,
        MemorySound, FramesAccounted, MapsOwnPages, Alive
<1>7. CASE proc_register_fd(p) \/ do_close(p)
    BY <1>0, <1>7, MemoryAssumption
    DEF proc_register_fd, do_close, InUserMode, memVars, TypeOK, MemTypeOK, FreshPids,
        DeadAgree, MemorySound, FramesAccounted, FramesOwnedOnce, MapsOwnPages, Alive
<1>8. CASE TraceMe(p) \/ \E c \in Pid : PtraceRequest(p, c)
    BY <1>0, <1>8, MemoryAssumption
    DEF TraceMe, PtraceRequest, InUserMode, memVars, TypeOK, MemTypeOK, FreshPids,
        DeadAgree, MemorySound, FramesAccounted, FramesOwnedOnce, MapsOwnPages, Alive
<1>9. CASE TraceeStop(p)
    BY <1>0, <1>9, MemoryAssumption
    DEF TraceeStop, InUserMode, WakeWaiters, Waiters, memVars, TypeOK, MemTypeOK,
        FreshPids, DeadAgree, MemorySound, FramesAccounted, FramesOwnedOnce,
        MapsOwnPages, Alive
<1>10. QED
    BY <1>0, <1>0a, <1>1, <1>2, <1>3, <1>4, <1>5, <1>6, <1>7, <1>8, <1>9,
       ForkCases, ExecCases, WaitAnyIsWait
    DEF Step, do_renice, Halt

\* A disciplined waitpid is safe: the PCB it keeps is still there, the thread it
\* joins too, the page table it frees is live; and exec finds only the parent.
LEMMA WaitSafeStep ==
    ASSUME IInv, NEW p \in Pid, Step(p), Discipline = "once"
    PROVE  WaitIsSafe'
<1>0. TypeOK /\ DeadAgree /\ WokenForAReason /\ WaiterOwnsChild /\ WaitIsSafe
    BY DEF IInv
<1>1. ASSUME NEW N, ForkWith(p, N) PROVE WaitIsSafe'
    BY <1>0, <1>1 DEF ForkWith, WaitIsSafe
<1>2. Waiters(p) \subseteq {parent[p]}
    BY <1>0 DEF Waiters, WaiterOwnsChild
<1>3. ASSUME NEW N, ExecWith(p, N) PROVE WaitIsSafe'
    BY <1>0, <1>2, <1>3 DEF ExecWith, WaitIsSafe
<1>4. ASSUME Stop("panic") \/ Stop("null_thread") PROVE WaitIsSafe'
    BY <1>4 DEF Stop, WaitIsSafe
<1>5. ASSUME NEW c \in Pid, do_waitpid(p, c) PROVE WaitIsSafe'
  <2>1. main_thread[c] # "null" /\ pgtable[c] = "live"
    BY <1>0, <1>5 DEF do_waitpid, MayWait, WaiterOwnsChild
  <2>2. QED
    BY <1>0, <1>5, <2>1 DEF do_waitpid, WaitFor, Block, Collect, WaitIsSafe
<1>6. CASE do_waitpid_resume(p)
  <2>1. child[p] \in proc_list /\ pgtable[child[p]] = "live"
    BY <1>0, <1>6 DEF do_waitpid_resume, TypeOK, WaiterOwnsChild
  <2>2. QED
    BY <1>0, <1>6, <2>1 DEF do_waitpid_resume, Collect, WaitIsSafe
<1>7. CASE do_exit_close(p) \/ do_exit_finish(p)
    BY <1>0, <1>4, <1>7 DEF do_exit_close, do_exit_finish, WaitIsSafe
<1>8. CASE proc_register_fd(p) \/ do_close(p)
    BY <1>0, <1>8 DEF proc_register_fd, do_close, WaitIsSafe
<1>9. CASE TraceMe(p) \/ TraceeStop(p) \/ \E c \in Pid : PtraceRequest(p, c)
    BY <1>0, <1>9 DEF TraceMe, TraceeStop, PtraceRequest, WaitIsSafe
<1>10. QED
    BY <1>0, <1>1, <1>2, <1>3, <1>4, <1>5, <1>6, <1>7, <1>8, <1>9,
       ForkCases, ExecCases, WaitAnyIsWait
    DEF Step, do_renice

\* The invariant is inductive.
LEMMA NextIInv == IInv /\ [Next]_vars => IInv'
<1>1. ASSUME IInv, UNCHANGED vars PROVE IInv'
  <2> USE <1>1 DEF IInv, vars, memVars, procVars
  <2>1. TypeOK' /\ FreshPids' /\ NoOrphan' /\ DeadAgree' /\ StopsAreTraced'
    BY DEF TypeOK, MemTypeOK, FreshPids, NoOrphan, DeadAgree, StopsAreTraced
  <2>2. WokenForAReason' /\ WaiterOwnsChild' /\ (Discipline = "once" => WaitIsSafe')
    BY DEF WokenForAReason, WaiterOwnsChild, WaitIsSafe
  <2>3. FramesOwnedOnce' /\ MemorySound'
    BY DEF FramesOwnedOnce, MemorySound, FramesAccounted, MapsOwnPages, Alive
  <2>4. QED
    BY <2>1, <2>2, <2>3
<1>2. ASSUME IInv, NEW p \in Pid, Step(p) PROVE IInv'
    BY <1>2, TypeStep, FreshStep, NoOrphanStep, DeadAgreeStep, StopsAreTracedStep,
       FramesOwnedStep, WokenStep, WaiterOwnsStep, MemoryStep, WaitSafeStep DEF IInv
<1>3. QED
    BY <1>1, <1>2 DEF Next

\* The inductive invariant holds throughout.
THEOREM Invariance == Spec => []IInv
<1>1. QED
    BY InitIInv, NextIInv, PTL DEF Spec

-----------------------------------------------------------------------------
\* Every variable of the kernel keeps its type; in particular, no reference
\* count ever becomes negative in release_proc_pages.
THEOREM TypeCorrect == Spec => []TypeOK
<1>1. IInv => TypeOK
    BY DEF IInv
<1>2. QED
    BY Invariance, <1>1, PTL

\* Whatever programs wait for, do_waitpid never leaves a PCB in the list whose
\* parent has been freed.
THEOREM NeverOrphaned == Spec => []NoOrphan
<1>1. IInv => NoOrphan
    BY DEF IInv
<1>2. QED
    BY Invariance, <1>1, PTL

\* A process that do_exit has made a zombie holds no frame and no descriptor.
THEOREM ExitCorrect == Spec => []ExitReleases
<1>1. IInv => ExitReleases
    BY DEF IInv, DeadAgree, TypeOK, ExitReleases
<1>2. QED
    BY Invariance, <1>1, PTL

\* Whatever programs wait for, no frame is lost, freed twice or owned by two processes ...
THEOREM FramesCorrect == Spec => []FramesAccounted
<1>1. IInv => FramesAccounted
    BY DEF IInv, MemorySound
<1>2. QED
    BY Invariance, <1>1, PTL

\* ... and the address spaces of the processes are disjoint.
THEOREM IsolationCorrect == Spec => []Isolation
<1>1. IInv => Isolation
  <2>1. SUFFICES ASSUME IInv PROVE Isolation
    OBVIOUS
  <2>2. TypeOK /\ MemTypeOK /\ FramesOwnedOnce /\ MapsOwnPages
    BY <2>1 DEF IInv, TypeOK, MemorySound
  <2>3. \A p \in Alive : p \in Pid /\ mapped[p] \subseteq pages[p] \cup RootImage
    BY <2>2 DEF Alive, TypeOK, MemTypeOK, MapsOwnPages
  <2>4. ASSUME NEW p \in Alive PROVE mapped[p] \cap free = {}
    BY <2>2, <2>3, MemoryAssumption DEF MemTypeOK, FramesOwnedOnce
  <2>5. ASSUME NEW p \in Alive, NEW q \in Alive, q # p PROVE mapped[p] \cap mapped[q] = {}
    BY <2>2, <2>3, <2>5, MemoryAssumption DEF MemTypeOK, FramesOwnedOnce, MapsOwnPages
  <2>6. QED
    BY <2>4, <2>5 DEF Isolation
<1>2. QED
    BY Invariance, <1>1, PTL

\* Programs that wait once for each child never make do_waitpid use a freed PCB,
\* a thread that is gone or a freed page table, nor break do_execve's assertions.
THEOREM WaitSafe == ASSUME Discipline = "once" PROVE Spec => []WaitIsSafe
<1>1. IInv => WaitIsSafe
    BY DEF IInv
<1>2. QED
    BY Invariance, <1>1, PTL

\* A PCB goes only after its process has finished and released its frames.
THEOREM ReapCorrect == Spec => ReapOnlyZombies
<1>1. ASSUME IInv, [Next]_vars
      PROVE  [\A c \in proc_list \ proc_list' :
                 state[c] = "ZOMBIE" /\ pages[c] = {} /\ pgtable'[c] = "freed"]_vars
  <2>1. CASE UNCHANGED vars
    BY <2>1
  <2>2. ASSUME NEW p \in Pid, Step(p), NEW c \in proc_list \ proc_list'
        PROVE  state[c] = "ZOMBIE" /\ pages[c] = {} /\ pgtable'[c] = "freed"
    <3>0. TypeOK /\ MemTypeOK /\ DeadAgree
        BY <1>1 DEF IInv, TypeOK
    <3>1. ASSUME NEW d \in Pid, state[d] = "ZOMBIE", Collected(d)
          PROVE  state[c] = "ZOMBIE" /\ pages[c] = {} /\ pgtable'[c] = "freed"
        BY <2>2, <3>0, <3>1 DEF Collected, reset_root_pgtable, MemTypeOK, DeadAgree
    <3>2. ASSUME NEW d \in Pid, do_waitpid(p, d)
          PROVE  state[c] = "ZOMBIE" /\ pages[c] = {} /\ pgtable'[c] = "freed"
        BY <1>1, <2>2, <3>1, <3>2, WaitCollectsZombie
    <3>3. ASSUME do_waitpid_resume(p)
          PROVE  state[c] = "ZOMBIE" /\ pages[c] = {} /\ pgtable'[c] = "freed"
        BY <1>1, <2>2, <3>1, <3>3, ResumeCollectsZombie
    <3>4. ~do_fork(p) /\ ~do_execve(p)
        BY <2>2, ForkCases, ExecCases DEF ForkWith, ExecWith, Stop
    <3>5. QED
        BY <2>2, <3>0, <3>2, <3>3, <3>4, WaitAnyIsWait
        DEF Step, do_exit_close, do_exit_finish, proc_register_fd, do_close,
            do_renice, TraceMe, TraceeStop, PtraceRequest, Stop
  <2>3. QED
    BY <1>1, <2>1, <2>2 DEF Next
<1>2. QED
    BY Invariance, <1>1, PTL DEF Spec, ReapOnlyZombies

-----------------------------------------------------------------------------
\* Every step keeps the waits going from older to younger processes.
LEMMA WaitsGoDownStep ==
    ASSUME IInv, NEW p \in Pid, Step(p), WaitsGoDown
    PROVE  WaitsGoDown'
<1>0. /\ TypeOK /\ FreshPids /\ NoOrphan /\ DeadAgree /\ WokenForAReason /\ WaiterOwnsChild
      /\ WaitsGoDown
    BY DEF IInv, TypeOK
<1>0a. ASSUME NEW reason \in Halt, Stop(reason) PROVE WaitsGoDown'
    BY <1>0, <1>0a DEF Stop, memVars, WaitsGoDown
<1>1. ASSUME NEW N \in SUBSET free, ForkWith(p, N) PROVE WaitsGoDown'
  <2>0. /\ pid_current \in Pid /\ pid_current \notin proc_list
        /\ proc_list' = proc_list \cup {pid_current} /\ UNCHANGED <<child, ptrace>>
        /\ parent'[pid_current] = p /\ state'[pid_current] \in {"NEW", "READY"}
        /\ pc[pid_current] = "none"
        /\ \/ pc'[pid_current] = "user"
           \/ pc'[pid_current] = "none" /\ main_thread'[pid_current] = "null"
        /\ \A q \in Pid : q # pid_current =>
              /\ state'[q] = state[q] /\ pc'[q] = pc[q] /\ parent'[q] = parent[q]
              /\ main_thread'[q] = main_thread[q]
    BY <1>0, <1>1, ForkAddsOne
  <2>1. ASSUME NEW q \in proc_list', q # 1 PROVE parent'[q] < q
    <3>1. CASE q = pid_current
      <4>1. p \in proc_list /\ p < pid_current
        BY <1>0, <1>1, PidsAreNumbers DEF ForkWith, InUserMode, FreshPids, TypeOK
      <4>2. QED
        BY <2>0, <3>1, <4>1
    <3>2. CASE q # pid_current
        BY <1>0, <2>0, <2>1, <3>2 DEF WaitsGoDown, TypeOK
    <3>3. QED
        BY <3>1, <3>2
  <2>2. ASSUME NEW q \in Pid
        PROVE  /\ pc'[q] = "stopped" => state'[q] = "WAITING"
               /\ pc'[q] = "none" => main_thread'[q] = "null"
    BY <1>0, <2>0 DEF WaitsGoDown
  <2>3. ASSUME Discipline = "once"
        PROVE  /\ 1 \in proc_list' /\ parent'[1] = NoPid
               /\ ptrace'[1] = "none" /\ state'[1] = "READY"
               /\ pc'[1] \in {"user", "joining", "joined"}
    BY <1>0, <2>0, <2>3, PidsAreNumbers DEF WaitsGoDown
  <2>4. ASSUME Discipline = "once", NEW q \in Pid, pc'[q] = "joining"
        PROVE  pc'[child'[q]] \in {"user", "exiting", "joining", "joined"}
    <3>1. pc[q] = "joining"
        BY <2>0, <2>4
    <3>2. child[q] \in Pid /\ pc[child[q]] \in {"user", "exiting", "joining", "joined"}
        BY <1>0, <2>4, <3>1 DEF WaitsGoDown, WaiterOwnsChild, TypeOK
    <3>3. QED
        BY <2>0, <3>2
  <2>5. QED
    BY <2>1, <2>2, <2>3, <2>4 DEF WaitsGoDown
<1>2. ASSUME NEW N \in SUBSET (free \cup Freed(p)), ExecWith(p, N) PROVE WaitsGoDown'
    BY <1>0, <1>2, PidsAreNumbers
    DEF ExecWith, InUserMode, add_page_to_proc, DropRefs, Freed, TypeOK,
        FreshPids, DeadAgree, WaiterOwnsChild, WaitsGoDown, NoPid
<1>3. CASE do_exit_close(p)
    BY <1>0, <1>0a, <1>3, PidsAreNumbers
    DEF do_exit_close, InUserMode, memVars, TypeOK, FreshPids, DeadAgree,
        WaiterOwnsChild, WaitsGoDown, NoPid, Halt
<1>4. CASE do_exit_finish(p)
    BY <1>0, <1>4, PidsAreNumbers
    DEF do_exit_finish, release_proc_pages, WakeWaiters, Waiters, DropRefs, Freed,
        TypeOK, FreshPids, DeadAgree, WaiterOwnsChild, WaitsGoDown, NoPid
<1>5. ASSUME NEW c \in Pid, do_waitpid(p, c) PROVE WaitsGoDown'
  <2>1. \A x \in proc_list' : x \in proc_list /\ parent'[x] = parent[x]
    BY <1>5 DEF do_waitpid, WaitFor, Block, Collect, memVars, Stop
  <2>2. \A x \in Pid : /\ pc'[x] = "stopped" => state'[x] = "WAITING"
                       /\ pc'[x] = "none" => main_thread'[x] = "null"
    <3>1. \A x \in Pid : /\ pc'[x] \in {pc[x], "user", "joining"}
                         /\ state'[x] = state[x] \/ pc'[x] \in {"user", "joining"}
        BY <1>0, <1>5 DEF do_waitpid, WaitFor, Block, Stop, TypeOK
    <3>2. \A x \in Pid : main_thread'[x] \in {main_thread[x], "null"}
        BY <1>0, <1>5 DEF do_waitpid, WaitFor, Block, Stop, TypeOK
    <3>3. QED
        BY <1>0, <3>1, <3>2 DEF WaitsGoDown
  <2>3. ASSUME Discipline = "once"
        PROVE  /\ 1 \in proc_list' /\ parent'[1] = NoPid
               /\ ptrace'[1] = "none" /\ state'[1] = "READY"
               /\ pc'[1] \in {"user", "joining", "joined"}
    <3>1. c # 1
        BY <1>0, <1>5, <2>3, PidsAreNumbers DEF do_waitpid, MayWait, WaitsGoDown
    <3>2. QED
        BY <1>0, <1>5, <2>3, <3>1, PidsAreNumbers
        DEF do_waitpid, InUserMode, WaitFor, Block, Collect, memVars, Stop, TypeOK, WaitsGoDown
  <2>4. ASSUME Discipline = "once", NEW q \in Pid, pc'[q] = "joining"
        PROVE  pc'[child'[q]] \in {"user", "exiting", "joining", "joined"}
    <3>1. main_thread[c] = "live" /\ state[c] # "WAITING"
            => pc[c] \in {"user", "exiting", "joining", "joined"}
        <4>1. pc[c] \in {"none", "user", "exiting", "joining", "joined", "stopped", "dead"}
            BY <1>0 DEF TypeOK
        <4>2. pc[c] = "dead" => main_thread[c] # "live"
            BY <1>0 DEF DeadAgree
        <4>3. /\ pc[c] = "stopped" => state[c] = "WAITING"
              /\ pc[c] = "none" => main_thread[c] = "null"
            BY <1>0 DEF WaitsGoDown
        <4>4. QED
            BY <4>1, <4>2, <4>3
    <3>2. CASE q = p
        BY <1>0, <1>5, <2>4, <3>1, <3>2
        DEF do_waitpid, InUserMode, WaitFor, Block, Collect, Stop, TypeOK
    <3>3. CASE q # p
        BY <1>0, <1>5, <2>4, <3>3
        DEF do_waitpid, InUserMode, WaitFor, Block, Collect, Stop, TypeOK,
            WaiterOwnsChild, WaitsGoDown
    <3>4. QED
        BY <3>2, <3>3
  <2>5. QED
    BY <1>0, <2>1, <2>2, <2>3, <2>4 DEF WaitsGoDown
<1>6. CASE do_waitpid_resume(p)
    BY <1>0, <1>0a, <1>6, PidsAreNumbers
    DEF do_waitpid_resume, Collect, reset_root_pgtable, HasChild, memVars, TypeOK,
        FreshPids, DeadAgree, WaiterOwnsChild, WaitsGoDown, NoPid, Halt
<1>7. CASE proc_register_fd(p) \/ do_close(p)
    BY <1>0, <1>7, PidsAreNumbers
    DEF proc_register_fd, do_close, InUserMode, memVars, TypeOK, FreshPids, DeadAgree,
        WaiterOwnsChild, WaitsGoDown, NoPid
<1>8. CASE TraceMe(p) \/ \E c \in Pid : PtraceRequest(p, c)
    BY <1>0, <1>8, PidsAreNumbers
    DEF TraceMe, PtraceRequest, InUserMode, memVars, TypeOK, FreshPids, DeadAgree,
        WaiterOwnsChild, WaitsGoDown, NoPid
<1>9. CASE TraceeStop(p)
    BY <1>0, <1>9, PidsAreNumbers
    DEF TraceeStop, InUserMode, WakeWaiters, Waiters, memVars, TypeOK, FreshPids,
        DeadAgree, WaiterOwnsChild, WaitsGoDown, NoPid
<1>10. QED
    BY <1>0, <1>0a, <1>1, <1>2, <1>3, <1>4, <1>5, <1>6, <1>7, <1>8, <1>9,
       ForkCases, ExecCases, WaitAnyIsWait
    DEF Step, do_renice, Halt

\* A set of pids that is not empty has a greatest member.
LEMMA GreatestPid ==
    ASSUME NEW S \in SUBSET Pid, S # {}
    PROVE  \E g \in S : \A q \in S : q <= g
<1> DEFINE T == {MaxPid - q : q \in S}
<1>1. T \subseteq Nat /\ T # {}
    BY MemoryAssumption DEF Pid
<1>2. PICK x \in T : \A y \in T : ~(<<y, x>> \in OpToRel(<, Nat))
    BY <1>1, NatLessThanWellFounded, WFMin
<1>3. \A y \in T : ~(y < x)
    BY <1>1, <1>2 DEF OpToRel
<1>4. PICK g \in S : x = MaxPid - g
    OBVIOUS
<1>5. \A q \in S : q <= g
  <2>1. SUFFICES ASSUME NEW q \in S PROVE q <= g
    OBVIOUS
  <2>2. MaxPid - q \in T
    OBVIOUS
  <2>3. ~(MaxPid - q < MaxPid - g)
    BY <1>3, <1>4, <2>2
  <2>4. QED
    BY <2>3, MemoryAssumption DEF Pid
<1>6. QED
    BY <1>5

\* With programs that wait once for each child, the chain of waits from the root
\* process ends at a process that can run: the youngest of those that wait waits
\* for one that does not.
THEOREM SomethingRuns == ASSUME Discipline = "once" PROVE Spec => []NotAllBlocked
<1>1. Init => WaitsGoDown
    BY PidsAreNumbers DEF Init, WaitsGoDown
<1>2. IInv /\ WaitsGoDown /\ [Next]_vars => WaitsGoDown'
  <2>1. ASSUME IInv, WaitsGoDown, UNCHANGED vars PROVE WaitsGoDown'
    BY <2>1 DEF vars, procVars, WaitsGoDown
  <2>2. QED
    BY <2>1, WaitsGoDownStep DEF Next
<1>3. IInv /\ WaitsGoDown => NotAllBlocked
  <2>1. SUFFICES ASSUME IInv, WaitsGoDown
                 PROVE  \E p \in proc_list : pc[p] \in {"user", "exiting", "joined"}
    BY DEF NotAllBlocked
  <2>2. /\ TypeOK /\ WaiterOwnsChild
        /\ 1 \in proc_list /\ pc[1] \in {"user", "joining", "joined"}
    BY <2>1 DEF IInv, WaitsGoDown
  <2> DEFINE S == {q \in Pid : pc[q] = "joining"}
  <2>3. CASE S = {}
    BY <2>2, <2>3, PidsAreNumbers
  <2>4. CASE S # {}
    <3>1. PICK g \in S : \A q \in S : q <= g
        BY <2>4, GreatestPid
    <3>2. /\ child[g] \in proc_list /\ child[g] \in Pid
          /\ parent[child[g]] = g
          /\ pc[child[g]] \in {"user", "exiting", "joining", "joined"}
        BY <2>1, <2>2 DEF TypeOK, WaiterOwnsChild, WaitsGoDown
    <3>3. child[g] # 1
        BY <2>1, <3>2, PidsAreNumbers DEF WaitsGoDown
    <3>4. g < child[g]
        BY <2>1, <3>2, <3>3 DEF WaitsGoDown
    <3>5. child[g] \notin S
        BY <3>1, <3>2, <3>4, PidsAreNumbers
    <3>6. QED
        BY <3>2, <3>5
  <2>5. QED
    BY <2>3, <2>4
<1>4. QED
    BY Invariance, <1>1, <1>2, <1>3, PTL DEF Spec
=============================================================================
