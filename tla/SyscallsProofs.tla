-------------------------- MODULE SyscallsProofs ---------------------------
(* For any number of processes and programs and any width of int: the break  *)
(* stays in the heap, and errno tells how the call went, or nothing when     *)
(* another program entered the kernel meanwhile.                             *)
EXTENDS Syscalls, TLAPS

\* During a call errno is still clear, and errno_addr is the caller's unless
\* another program came in between.
DuringCall ==
    \A p \in Proc : mode[p] \in Calls => /\ errno(p) = 0
                                         /\ ~foreign[p] => errno_addr = prog[p]

IInv == TypeOK /\ BreakInHeap /\ DuringCall /\ ErrnoOfCall

\* A break that do_sbrk accepts is in the heap: either the sum did not wrap
\* around, or it came out negative and was refused.
LEMMA SbrkBound ==
    ASSUME NEW base \in Nat, base + HEAP_SIZE <= 2 * IntMax + 1,
           NEW hp \in base..base + HEAP_SIZE - 1,
           NEW inc \in Int32,
           ~TooMuch(AddInt(hp - base, inc))
    PROVE  (hp + inc) % Modulus \in base..base + HEAP_SIZE - 1
  <1> USE SyscallsAssumption
  <1>1. hp - base \in 0..HEAP_SIZE - 1 /\ inc \in Int /\ hp \in Int
    BY DEF Int32
  <1>2. AddInt(hp - base, inc) = hp - base + inc
    BY <1>1 DEF AddInt, TooMuch, Modulus, Int32
  <1>3. hp + inc \in base..base + HEAP_SIZE - 1
    BY <1>1, <1>2 DEF TooMuch
  <1>4. \A x \in 0..Modulus - 1 : x % Modulus = x
    <2>1. Modulus \in Nat \ {0}
      BY DEF Modulus
    <2> HIDE DEF Modulus
    <2> QED BY <2>1
  <1>5. hp + inc \in 0..Modulus - 1
    BY <1>3 DEF Modulus
  <1> QED BY <1>3, <1>4, <1>5

\* It holds of the initial state.
LEMMA InitInv == Init => IInv
  <1> SUFFICES ASSUME Init PROVE IInv
    OBVIOUS
  <1> USE SyscallsAssumption
  <1>1. PICK g \in Program : /\ prog = [p \in Proc |-> g]
                             /\ heap_base = [p \in Proc |-> heap_base_of[g]]
                             /\ heap_pointer = [p \in Proc |-> heap_base_of[g]]
    BY DEF Init
  <1>2. heap_base_of[g] \in Nat
    BY <1>1
  <1>3. TypeOK
    BY <1>1, <1>2 DEF Init, TypeOK, Codes
  <1>4. BreakInHeap
    <2> SUFFICES ASSUME NEW p \in Proc
                 PROVE  /\ heap_base[p] = heap_base_of[prog[p]]
                        /\ heap_pointer[p] \in heap_base[p]..heap_base[p] + HEAP_SIZE - 1
      BY DEF BreakInHeap
    <2>1. prog[p] = g /\ heap_base[p] = heap_base_of[g] /\ heap_pointer[p] = heap_base_of[g]
      BY <1>1
    <2> QED BY <2>1, <1>2
  <1>5. DuringCall
    BY DEF Init, DuringCall, Calls
  <1>6. ErrnoOfCall
    BY <1>1 DEF Init, ErrnoOfCall, errno
  <1> QED BY <1>3, <1>4, <1>5, <1>6 DEF IInv

\* A call that fails writes errno in the memory of its caller alone.
LEMMA FailInv ==
    ASSUME IInv, NEW p \in Proc, mode[p] \in Calls, NEW val \in Codes,
           Fail(p, val), UNCHANGED <<keepImage, heap_pointer>>
    PROVE  IInv'
  <1> USE SyscallsAssumption
  <1>1. UNCHANGED <<current, prog, errno_addr, heap_base, heap_pointer, foreign>>
    BY DEF keepImage
  <1>2. /\ mode' = [mode EXCEPT ![p] = "user"] /\ last' = [last EXCEPT ![p] = val]
        /\ word' = IF errno_addr # NULL THEN [word EXCEPT ![p][errno_addr] = val] ELSE word
    BY DEF Fail, set_errno
  <1>3. word' \in [Proc -> [Program -> Codes \union {0}]]
    <2>1. word \in [Proc -> [Program -> Codes \union {0}]] /\ errno_addr \in Program \union {NULL}
      BY DEF IInv, TypeOK
    <2>2. CASE errno_addr # NULL
      <3>1. word[p] \in [Program -> Codes \union {0}] /\ errno_addr \in Program
        BY <2>1, <2>2
      <3>2. [word[p] EXCEPT ![errno_addr] = val] \in [Program -> Codes \union {0}]
        BY <3>1
      <3>3. word' = [word EXCEPT ![p] = [word[p] EXCEPT ![errno_addr] = val]]
        BY <1>2, <2>2
      <3> QED BY <2>1, <3>2, <3>3
    <2> QED BY <2>1, <2>2, <1>2
  <1>4. TypeOK'
    BY <1>1, <1>2, <1>3 DEF IInv, TypeOK
  <1>5. BreakInHeap'
    BY <1>1 DEF IInv, BreakInHeap
  <1>6. ASSUME NEW q \in Proc, q # p
        PROVE  mode'[q] = mode[q] /\ last'[q] = last[q] /\ word'[q] = word[q]
    BY <1>2, <1>6 DEF IInv, TypeOK
  <1>7. DuringCall'
    BY <1>1, <1>2, <1>6 DEF IInv, TypeOK, DuringCall, Calls, errno
  <1>8. ErrnoOfCall'
    <2> SUFFICES ASSUME NEW q \in Proc, mode'[q] = "user"
                 PROVE  errno(q)' = last'[q] \/ (foreign'[q] /\ errno(q)' = 0)
      BY DEF ErrnoOfCall
    <2>1. CASE q = p
      <3>1. /\ prog[p] \in Program /\ word[p][prog[p]] = 0
            /\ foreign[p] \/ errno_addr = prog[p]
        BY DEF IInv, TypeOK, DuringCall, errno
      <3>2. last'[p] = val
        BY <1>2 DEF IInv, TypeOK
      <3>3. CASE errno_addr = prog[p]
        <4>1. word'[p][prog[p]] = val
          BY <3>1, <3>3, <1>2 DEF IInv, TypeOK
        <4> QED BY <2>1, <3>2, <4>1, <1>1 DEF errno
      <3>4. CASE errno_addr # prog[p]
        <4>1. word'[p][prog[p]] = 0
          BY <3>1, <3>4, <1>2 DEF IInv, TypeOK
        <4> QED BY <2>1, <3>1, <3>4, <4>1, <1>1 DEF errno
      <3> QED BY <3>3, <3>4
    <2>2. CASE q # p
      BY <2>2, <1>1, <1>6 DEF IInv, ErrnoOfCall, errno
    <2> QED BY <2>1, <2>2
  <1> QED BY <1>4, <1>5, <1>7, <1>8 DEF IInv

\* A call that succeeds leaves errno as the stub cleared it.
LEMMA SucceedInv ==
    ASSUME IInv, NEW p \in Proc, mode[p] \in Calls, Succeed(p), UNCHANGED keepImage,
           heap_pointer' \in [Proc -> Nat], BreakInHeap'
    PROVE  IInv'
  <1> USE SyscallsAssumption
  <1>1. UNCHANGED <<current, prog, errno_addr, heap_base, foreign, word>>
    BY DEF keepImage, Succeed
  <1>2. mode' = [mode EXCEPT ![p] = "user"] /\ last' = [last EXCEPT ![p] = 0]
    BY DEF Succeed
  <1>3. TypeOK'
    BY <1>1, <1>2 DEF IInv, TypeOK
  <1>4. DuringCall'
    BY <1>1, <1>2 DEF IInv, TypeOK, DuringCall, Calls, errno
  <1>5. ErrnoOfCall'
    BY <1>1, <1>2 DEF IInv, TypeOK, DuringCall, ErrnoOfCall, errno
  <1> QED BY <1>3, <1>4, <1>5 DEF IInv

\* Entering a call.
LEMMA EnterInv ==
    ASSUME IInv, NEW p \in Proc, Enter(p)
    PROVE  IInv'
  <1> USE SyscallsAssumption
  <1>1. UNCHANGED <<current, prog, heap_base, heap_pointer, last>> /\ mode[p] = "user"
    BY DEF Enter
  <1>2. PICK c \in Calls : mode' = [mode EXCEPT ![p] = c]
    BY DEF Enter
  <1>3. /\ errno_addr' = prog[p] /\ prog[p] \in Program
        /\ word' = [word EXCEPT ![p][prog[p]] = 0]
        /\ foreign' = [q \in Proc |-> q # p /\ (foreign[q] \/ (mode[q] \in Calls /\ prog[q] # prog[p]))]
    BY DEF Enter, set_errno_addr, IInv, TypeOK
  <1>4. word' \in [Proc -> [Program -> Codes \union {0}]] /\ word'[p][prog[p]] = 0
    <2>1. word \in [Proc -> [Program -> Codes \union {0}]]
      BY DEF IInv, TypeOK
    <2>2. word[p] \in [Program -> Codes \union {0}]
      BY <2>1
    <2>3. [word[p] EXCEPT ![prog[p]] = 0] \in [Program -> Codes \union {0}]
      BY <2>2, <1>3
    <2>4. word' = [word EXCEPT ![p] = [word[p] EXCEPT ![prog[p]] = 0]]
      BY <1>3
    <2>5. word' \in [Proc -> [Program -> Codes \union {0}]]
      BY <2>1, <2>3, <2>4
    <2>6. word'[p] = [word[p] EXCEPT ![prog[p]] = 0]
      BY <2>1, <2>4
    <2> QED BY <2>2, <2>5, <2>6, <1>3
  <1>5. foreign' \in [Proc -> BOOLEAN]
    BY <1>3, Zenon
  <1>6. mode' \in [Proc -> {"none", "user"} \union Calls] /\ mode'[p] = c
    BY <1>2 DEF IInv, TypeOK
  <1>7. TypeOK'
    BY <1>1, <1>3, <1>4, <1>5, <1>6 DEF IInv, TypeOK
  <1>8. BreakInHeap'
    BY <1>1 DEF IInv, BreakInHeap
  <1>9. ASSUME NEW q \in Proc, q # p
        PROVE  /\ mode'[q] = mode[q] /\ word'[q] = word[q]
               /\ foreign'[q] = (foreign[q] \/ (mode[q] \in Calls /\ prog[q] # prog[p]))
    <2>1. mode'[q] = mode[q] /\ word'[q] = word[q]
      BY <1>2, <1>3, <1>9 DEF IInv, TypeOK
    <2>2. foreign'[q] = (foreign[q] \/ (mode[q] \in Calls /\ prog[q] # prog[p]))
      BY <1>3, <1>9, Zenon
    <2> QED BY <2>1, <2>2
  <1>10. DuringCall'
    <2> SUFFICES ASSUME NEW q \in Proc, mode'[q] \in Calls
                 PROVE  errno(q)' = 0 /\ (~foreign'[q] => errno_addr' = prog'[q])
      BY DEF DuringCall
    <2>1. CASE q = p
      BY <2>1, <1>1, <1>3, <1>4 DEF errno
    <2>2. CASE q # p
      <3>1. mode[q] \in Calls /\ errno(q) = 0 /\ errno(q)' = errno(q)
        BY <2>2, <1>1, <1>9 DEF IInv, DuringCall, errno
      <3>2. ~foreign'[q] => prog[q] = prog[p]
        BY <2>2, <1>9, <3>1
      <3> QED BY <3>1, <3>2, <1>1, <1>3
    <2> QED BY <2>1, <2>2
  <1>11. ErrnoOfCall'
    <2> SUFFICES ASSUME NEW q \in Proc, mode'[q] = "user"
                 PROVE  errno(q)' = last'[q] \/ (foreign'[q] /\ errno(q)' = 0)
      BY DEF ErrnoOfCall
    <2>1. q # p
      BY <1>6 DEF Calls
    <2>2. mode[q] = "user" /\ (foreign[q] => foreign'[q])
      BY <2>1, <1>9
    <2> QED BY <2>1, <2>2, <1>1, <1>9 DEF IInv, ErrnoOfCall, errno
  <1> QED BY <1>7, <1>8, <1>10, <1>11 DEF IInv

\* sbrk
LEMMA SbrkInv ==
    ASSUME IInv, NEW p \in Proc, do_sbrk(p)
    PROVE  IInv'
  <1> USE SyscallsAssumption
  <1>1. mode[p] \in Calls
    BY DEF do_sbrk, InCall, Calls
  <1>2. ENOMEM \in Codes
    BY DEF Codes
  <1>3. UNCHANGED keepImage
    BY DEF do_sbrk
  <1>4. PICK increment \in Int32 :
          \/ /\ Fail(p, ENOMEM)
             /\ UNCHANGED heap_pointer
          \/ /\ ~TooMuch(AddInt(heap_pointer[p] - heap_base[p], increment))
             /\ heap_pointer' = [heap_pointer EXCEPT ![p] = (heap_pointer[p] + increment) % Modulus]
             /\ Succeed(p)
    BY DEF do_sbrk
  <1>5. CASE Fail(p, ENOMEM) /\ UNCHANGED heap_pointer
    BY <1>1, <1>2, <1>3, <1>5, FailInv
  <1>6. CASE /\ ~TooMuch(AddInt(heap_pointer[p] - heap_base[p], increment))
             /\ heap_pointer' = [heap_pointer EXCEPT ![p] = (heap_pointer[p] + increment) % Modulus]
             /\ Succeed(p)
    <2> DEFINE new == (heap_pointer[p] + increment) % Modulus
    <2>1. /\ heap_base[p] \in Nat /\ heap_base[p] + HEAP_SIZE <= 2 * IntMax + 1
          /\ heap_pointer[p] \in heap_base[p]..heap_base[p] + HEAP_SIZE - 1
      BY DEF IInv, TypeOK, BreakInHeap
    <2>2. new \in heap_base[p]..heap_base[p] + HEAP_SIZE - 1
      BY <1>6, <2>1, SbrkBound
    <2> HIDE DEF new
    <2>3. new \in Nat
      BY <2>1, <2>2
    <2>4. heap_pointer' = [heap_pointer EXCEPT ![p] = new]
      BY <1>6 DEF new
    <2>5. heap_pointer' \in [Proc -> Nat]
      BY <2>3, <2>4 DEF IInv, TypeOK
    <2>6. heap_pointer'[p] = new /\ \A q \in Proc : q # p => heap_pointer'[q] = heap_pointer[q]
      BY <2>4 DEF IInv, TypeOK
    <2>7. UNCHANGED <<heap_base, prog>>
      BY <1>3 DEF keepImage
    <2>8. BreakInHeap'
      <3> SUFFICES ASSUME NEW q \in Proc
                   PROVE  /\ heap_base'[q] = heap_base_of[prog'[q]]
                          /\ heap_pointer'[q] \in heap_base'[q]..heap_base'[q] + HEAP_SIZE - 1
        BY DEF BreakInHeap
      <3>1. /\ heap_base[q] = heap_base_of[prog[q]]
            /\ heap_pointer[q] \in heap_base[q]..heap_base[q] + HEAP_SIZE - 1
        BY DEF IInv, BreakInHeap
      <3>2. CASE q = p
        BY <3>1, <3>2, <2>2, <2>6, <2>7
      <3>3. CASE q # p
        BY <3>1, <3>3, <2>6, <2>7
      <3> QED BY <3>2, <3>3
    <2> QED BY <1>1, <1>3, <1>6, <2>5, <2>8, SucceedInv
  <1> QED BY <1>4, <1>5, <1>6

\* exec: the new image starts with a clear errno and an empty heap.
LEMMA ExecInv ==
    ASSUME IInv, NEW p \in Proc, do_execve(p)
    PROVE  IInv'
  <1> USE SyscallsAssumption
  <1>1. mode[p] \in Calls /\ UNCHANGED <<current, errno_addr, foreign>>
    BY DEF do_execve, InCall, Calls
  <1>2. CASE Fail(p, ENOENT) /\ UNCHANGED <<prog, heap_base, heap_pointer>>
    <2>1. UNCHANGED <<keepImage, heap_pointer>>
      BY <1>1, <1>2 DEF keepImage
    <2> QED BY <1>1, <1>2, <2>1, FailInv DEF Codes
  <1>3. CASE /\ \E g \in Program : setup_proc_image_replace(p, g)
             /\ mode' = [mode EXCEPT ![p] = "user"]
             /\ last' = [last EXCEPT ![p] = 0]
    <2>1. PICK g \in Program : /\ prog' = [prog EXCEPT ![p] = g]
                               /\ heap_base' = [heap_base EXCEPT ![p] = heap_base_of[g]]
                               /\ heap_pointer' = [heap_pointer EXCEPT ![p] = heap_base_of[g]]
                               /\ word' = [word EXCEPT ![p] = [h \in Program |-> 0]]
      BY <1>3 DEF setup_proc_image_replace
    <2>2. heap_base_of[g] \in Nat
      OBVIOUS
    <2>3. TypeOK'
      BY <1>1, <1>3, <2>1, <2>2 DEF IInv, TypeOK
    <2>4. /\ prog'[p] = g /\ heap_base'[p] = heap_base_of[g] /\ heap_pointer'[p] = heap_base_of[g]
          /\ word'[p] = [h \in Program |-> 0] /\ mode'[p] = "user" /\ last'[p] = 0
      BY <1>3, <2>1 DEF IInv, TypeOK
    <2>5. ASSUME NEW q \in Proc, q # p
          PROVE  /\ prog'[q] = prog[q] /\ heap_base'[q] = heap_base[q] /\ heap_pointer'[q] = heap_pointer[q]
                 /\ word'[q] = word[q] /\ mode'[q] = mode[q] /\ last'[q] = last[q]
      BY <1>3, <2>1, <2>5 DEF IInv, TypeOK
    <2>6. BreakInHeap'
      BY <2>2, <2>4, <2>5 DEF IInv, BreakInHeap
    <2>7. DuringCall'
      BY <1>1, <2>4, <2>5 DEF IInv, DuringCall, errno, Calls
    <2>8. ErrnoOfCall'
      BY <1>1, <2>4, <2>5 DEF IInv, ErrnoOfCall, errno
    <2> QED BY <2>3, <2>6, <2>7, <2>8 DEF IInv
  <1> QED BY <1>2, <1>3 DEF do_execve

\* fork: the child has the heap of its parent, and a clear errno.
LEMMA ForkInv ==
    ASSUME IInv, NEW p \in Proc, do_fork(p)
    PROVE  IInv'
  <1> USE SyscallsAssumption
  <1>1. mode[p] \in Calls /\ UNCHANGED <<current, errno_addr>>
    BY DEF do_fork, InCall, Calls
  <1>2. PICK q \in Proc :
        /\ mode[q] = "none"
        /\ mode' = [mode EXCEPT ![p] = "user", ![q] = "user"]
        /\ prog' = [prog EXCEPT ![q] = prog[p]]
        /\ word' = [word EXCEPT ![q] = word[p]]
        /\ heap_base' = [heap_base EXCEPT ![q] = heap_base[p]]
        /\ heap_pointer' = [heap_pointer EXCEPT ![q] = heap_pointer[p]]
        /\ last' = [last EXCEPT ![p] = 0, ![q] = 0]
        /\ foreign' = [foreign EXCEPT ![q] = FALSE]
    BY DEF do_fork
  <1>3. q # p
    BY <1>1, <1>2 DEF Calls
  <1>4. TypeOK'
    <2>1. /\ prog[p] \in Program /\ word[p] \in [Program -> Codes \union {0}]
          /\ heap_base[p] \in Nat /\ heap_pointer[p] \in Nat
      BY DEF IInv, TypeOK
    <2>2. foreign' \in [Proc -> BOOLEAN]
      BY <1>2 DEF IInv, TypeOK
    <2> QED BY <1>1, <1>2, <2>1, <2>2 DEF IInv, TypeOK
  <1>5. /\ prog'[q] = prog[p] /\ heap_base'[q] = heap_base[p] /\ heap_pointer'[q] = heap_pointer[p]
        /\ word'[q] = word[p] /\ mode'[q] = "user" /\ last'[q] = 0
    BY <1>2, <1>3 DEF IInv, TypeOK
  <1>6. mode'[p] = "user" /\ last'[p] = 0
    BY <1>2, <1>3 DEF IInv, TypeOK
  <1>7. ASSUME NEW r \in Proc, r # q
        PROVE  /\ prog'[r] = prog[r] /\ heap_base'[r] = heap_base[r] /\ heap_pointer'[r] = heap_pointer[r]
               /\ word'[r] = word[r] /\ foreign'[r] = foreign[r]
               /\ r # p => mode'[r] = mode[r] /\ last'[r] = last[r]
    BY <1>2, <1>7 DEF IInv, TypeOK
  <1>8. BreakInHeap'
    BY <1>5, <1>7, <1>3 DEF IInv, BreakInHeap
  <1>9. DuringCall'
    BY <1>1, <1>5, <1>6, <1>7 DEF IInv, DuringCall, errno, Calls
  <1>10. errno(p) = 0
    BY <1>1 DEF IInv, DuringCall
  <1>11. ErrnoOfCall'
    BY <1>3, <1>5, <1>6, <1>7, <1>10 DEF IInv, ErrnoOfCall, errno
  <1> QED BY <1>4, <1>8, <1>9, <1>11 DEF IInv

\* The invariant holds always.
THEOREM SyscallsInvariance == Spec => []IInv
  <1> USE SyscallsAssumption
  <1>1. IInv /\ [Next]_vars => IInv'
    <2> SUFFICES ASSUME IInv, [Next]_vars PROVE IInv'
      OBVIOUS
    <2>1. CASE Switch
      BY <2>1 DEF Switch, IInv, TypeOK, BreakInHeap, DuringCall, ErrnoOfCall, errno
    <2>2. CASE UNCHANGED vars
      BY <2>2 DEF vars, IInv, TypeOK, BreakInHeap, DuringCall, ErrnoOfCall, errno
    <2>3. ASSUME NEW p \in Proc, Enter(p) \/ syscall_handle(p)
          PROVE  IInv'
      <3>1. CASE do_waitpid(p) \/ settimeofday(p) \/ OtherCall(p)
        <4>1. mode[p] \in Calls /\ UNCHANGED <<keepImage, heap_pointer>>
          BY <3>1 DEF do_waitpid, settimeofday, OtherCall, InCall, Calls
        <4>2. \/ Succeed(p)
              \/ \E e \in Codes : Fail(p, e)
          BY <3>1 DEF do_waitpid, settimeofday, OtherCall, Codes
        <4>3. heap_pointer' \in [Proc -> Nat] /\ BreakInHeap'
          BY <4>1 DEF keepImage, IInv, TypeOK, BreakInHeap
        <4> QED BY <4>1, <4>2, <4>3, SucceedInv, FailInv
      <3>2. CASE do_exit(p)
        <4>1. mode' = [mode EXCEPT ![p] = "none"]
              /\ UNCHANGED <<current, prog, errno_addr, heap_base, foreign, word, heap_pointer, last>>
          BY <3>2 DEF do_exit, keepImage
        <4> QED BY <4>1 DEF IInv, TypeOK, BreakInHeap, DuringCall, ErrnoOfCall, errno, Calls
      <3> QED BY <2>3, <3>1, <3>2, EnterInv, SbrkInv, ExecInv, ForkInv DEF syscall_handle
    <2> QED BY <2>1, <2>2, <2>3 DEF Next
  <1> QED BY InitInv, <1>1, PTL DEF Spec

\* For every width of int and every heap that fits in the address space, the
\* break never leaves the heap (process.c:1094-1149).
THEOREM BreakCorrect == Spec => []BreakInHeap
  <1>1. IInv => BreakInHeap
    BY DEF IInv
  <1> QED BY <1>1, SyscallsInvariance, PTL

\* errno is that of the caller's own last call, for any number of processes,
\* or 0 when another program entered the kernel during it, and never the code
\* of another call (syscalls.c:33-57).
THEOREM ErrnoCorrect == Spec => []ErrnoOfCall
  <1>1. IInv => ErrnoOfCall
    BY DEF IInv
  <1> QED BY <1>1, SyscallsInvariance, PTL
=============================================================================
