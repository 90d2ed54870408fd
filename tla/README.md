# Models and proofs for the SYE labs of SO3

This directory keeps TLA+ models of the code of the SYE operating-system labs:
parts of the SO3 kernel (ARM, one core) and the user programs the labs are
about. TLC checks the models on small instances; TLAPS proves the most
important results for every instance. `PROJECT.json` has the index: components,
runs, the lines each definition stands for, hazards, findings and theorems.

To check a run: `tlc -config MCProcess_waits.cfg MCProcess`; to check the
proofs: `tlapm ProcessProofs.tla`, and likewise for `PageTableProofs`,
`TicTacToeProofs`, `SimulatorProofs`, `LetterCountProofs`, `SyscallsProofs`,
`SocketsProofs` and `ShellProofs`.

## The system

| Part | State | Operations | Interacts with |
|---|---|---|---|
| Process life cycle (`l5 process.c`; `l2 process.c` is an earlier copy) | list of PCBs, states, parents, main threads, descriptors, ptrace requests | fork, execve, exit, waitpid, close, renice | frames, page tables, threads and ptrace (outside the repository) |
| Frames and their owners (`process.c`) | free frames, reference counts, `page_list` of each PCB | `add_page_to_proc`, `allocate_page`, `release_proc_pages` | process life cycle, MMU |
| MMU (`l5 mmu.c`) | root tables, second level tables in the kernel heap, current table, TLB | create, release and duplicate mappings, reset, switch, translate | process life cycle, heap, `do_translate` |
| Heap of a process (`do_sbrk`), argument page, loading | heap base and heap pointer, argument page | sbrk, exec, fork | MMU |
| System calls and errno (`l2 syscalls.c`, stub in `crt0.S`) | address of errno, one for the kernel | enter, dispatch, `set_errno` | everything above, the scheduler |
| Tic-tac-toe (`tictactoe_gm.c`, `_player.c`, `_ipc.c`) | board, turn; two pipes | ask, answer, reject, verdict, end | fork, exec, pipe, waitpid |
| Page replacement simulator (`l7 memreplace.c`) | page table bits, times, RAM and swap | access under LRU or WSC | user input |
| Address translation simulator (`l6 memsim.c`) | page table, main memory | get and store a byte | - |
| Shell (`l1 sh.c`) | tokens, argument arrays, children, pipe | launch, pipe, background, kill, wait | fork, exec, waitpid, pipes, signals |
| Letter count with threads (`l3 threads.c`) | text, chunk and counters of each thread | load, split, create, count, join, gather, free | threads, malloc |
| Parallel count (`l2 count_parallel.c`) | pids of the children | fork, exec, wait | fork and waitpid |
| Socket client and server (`l4`) | `message_to_send`, connections, counter | connect, send, receive, accept, serve, close | signals, TCP |
| Boot and timer, `ls`, `ln`, `hello`, `memory` | - | - | - |

What is hard in this code: a waitpid that sleeps with a pointer to a PCB that
others may free; an exit that is not atomic; exec, exit and waitpid that give
frames and page tables back at different moments; second level tables shared
between the system table and all processes, but only in the kernel half; a
fork that copies every page through one and the same virtual page; two
processes that wait for each other over two pipes; a client whose signal
handlers change a variable that its loop reads twice; three processes that
inherit both ends of a pipe; threads that use buffers the main thread frees;
one errno address for all processes, with preemption in the middle of a call;
counters of one byte that wrap around; a file compiled in three ways.
`hazards` in `PROJECT.json` lists each at its line.

What makes each part correct:
* processes: no dangling PCB, a process collected only once it is over, every
  waiting parent woken up, something always able to run, no frame lost or
  shared, no page of a live process reachable from another;
* MMU: no second level table lost, freed twice or used after it was freed, no
  stale translation, a private memory for each process that fork copies;
* tic-tac-toe: the two processes never wait for each other, and together play
  the game, one turn after the other, and tell its result;
* system calls: errno never tells the error of another call; the break stays in the
  heap whatever increment is asked for;
* sockets: an answer shown is that of the request, a signal counts once at
  most, nobody waits for ever for an answer, Quitter stops the server;
* shell: programs get the words typed for them, what ran in the foreground is
  collected, no pipeline is stuck and every one ends;
* letter count: each letter counted as often as it occurs, no buffer freed
  under a thread, the program ends;
* simulators: three pages in RAM, the right page replaced; what is stored is
  read back, and the permissions hold.

## Modules

**`UserMemory`** - frames and who owns and maps them. `pages` is
`pcb->page_list`, `refcount` is `page->refcount`, `mapped` the user pages
reachable from `pcb->pgtable`. Its operators are fragments of actions. Fork
and exec take the frames they need one after the other; when there are too few
they get all there are (`FrameSets`) and the kernel stops, so that the state it
stops in, half an address space, is a state of the model.

**`Process`** extends it - `kernel/process.c`. `proc_list` is the global list,
`pc` says where the main thread of a process stands, `child` is the PCB pointer
that `do_waitpid` keeps on its kernel stack. A system call is one action
while the interrupts are off. Two are not atomic: `do_exit` closes descriptors
with the interrupts on (`do_exit_close`, `do_exit_finish`), and `do_waitpid`
sleeps in `thread_join` (`do_waitpid` or `do_waitpid_any`, then
`do_waitpid_resume`). `halted` records why the kernel stopped: a panic, an
assertion, or a use of memory that is gone. A fork that panics leaves the child
in the list, new, with a part of its memory and without a thread; an exec that
panics leaves a part of the new image; both satisfy the invariants on frames,
page tables and parents. `Discipline` says how user programs
wait: `"once"`, each program once for each of its children, or `"any"`, for
whatever pid. Threads and ptrace are outside the repository; `TraceMe`,
`TraceeStop`, `PtraceRequest`, `Waiters` and `WakeWaiters` model what
`process.c` relies on. `Tracing` enables them, for programs of discipline
`"once"` only.

**`PrivateMemory`** - the abstract specification of memory: each process has
pages with contents; a store changes one page of the process that runs, and no
other; fork copies.

**`PageTable`** - `arch/arm32/mmu.c` with its callers in `process.c`. Root
tables (`l1`) have entries that are empty, a section, or a pointer to a second
level table (`l2`) at a place of the kernel heap (`heap`). `create_mapping`
has the three cases of `alloc_init_section` and `alloc_init_pte`; its loops
over distinct entries are written as functions. `duplicate_user_space` is
unfolded into `DupTable`, `DupFrame`, `DupCopy` and `DupEnd`, in the order of
the addresses; the interrupts are off during it, so `dup` blocks all other
actions. `tlb` holds the translations used since the last invalidation, and an
access uses it before the table. That `mmu_page_table_flush` invalidates the
TLB is an assumption about code outside the repository: `create_mapping` does
it explicitly only for the system table (188), although its comment (185)
speaks of the current one, and the copy of a fork through `FIXMAP_MAPPING`
depends on it. `PageTable` refines `PrivateMemory` (`PrivateToEach`).
`PagingAssumption` says how the address space is laid out: the code of the first
process and the stack apart from each other in the user half, Fixmap in an
entry of its own behind the sections of the kernel, the ram device between
them, the frames of the image apart from those given out. `ImageAssumption`
says that the code is too small, or not aligned, to be mapped by a section.

**`TicTacToeRules`**, **`TicTacToeGame`**, **`Minmax`**, **`TicTacToe`** - the
win test as the code has it, the game as an abstract specification, the search
of the computer (recursive, for TLC only), and the two processes with their
pipes, which refine the game (`PlaysTheGame`). `computers_turn` is a constant
operator in `TicTacToe`: the proofs hold for any choice of a free cell, the
runs use `ChooseMove` of `Minmax`. `FairGame` relates the board to whose turn it
is and to the verdict: `win()` does not say who filled a line, and
`check_game_state` goes by the side that moved.

**`MemReplace`** - `memreplace.c`; the policy is chosen at the start as in the
program. `WORD` is the number of values of a counter, 256 in the code.
`newer`, `last` and `wrapped` are history variables.

**`MemSim`** - `memsim.c`; the three ways of compiling are values of `build`,
page table entries are 16-bit numbers (`uint16_t`). `stored`, what was last
stored at each virtual address, is a history variable. Its `SimInit`, `SimNext`
and `SimSpec` have names of their own because `SimulatorProofs` is about both
simulators.

**`Syscalls`** - the stub of the libc (`crt0.S`), `syscall_handle` with
`errno_addr`, and of each call what it does to errno, the image and the heap
pointer. `mode` says in which call a process is; `Enter` is the stub and the
dispatcher up to its switch, then one action per call ends it. Between the two
the processor may go to another process (`Switch`): calls run with the
interrupts on but for the stretches `Process` treats as atomic. A program
stands for the address its errno is linked at, and `word[p][g]` is the memory
of `p` at that address, so that a write through the address of another program
goes where it really goes, into the caller's own memory. `IntMax` is the width
of `int`: the sum in `do_sbrk`, whose overflow is undefined in C, wraps around
as in the code the compiler produces for ARM. Each process has one thread.
`last` and `foreign` are history variables.

**`LetterCount`** - `threads.c`. The main thread is one action per phase or
turn of a loop, a thread one action per character. A file is a sequence of
characters, of which `strlen` sees those before the first NUL.
`tolower` maps the characters `isalpha` accepts. Failures of the allocations
and of `pthread_create` that the code does not look at are left out.

**`Sockets`** - `socket_client.c` and `socket_server.c`. A client stands at its
prompt (`"loop"`), between the two switches over `message_to_send` (`"sent"`)
or in `recv` (`"recv"`); `int_handler` and `user_handler` are actions that may
come at any of these points. `NobodyForgotten` says that a client asleep in
`recv` has its answer, or a closed connection to notice, or its request in
front of the server, now or at its turn in the queue. The server accepts one connection at a time;
others are in `backlog`. TCP is two queues per connection; a read returns a
whole message of `BUFFER_LEN` bytes, which is how both programs use it. `open`
says which ends are open: a write to a closed connection is lost or kills the
writer, a read from one returns nothing.

**`Shell`** - `sh.c` with the processes it launches. `tokens` is the global
array; `Marks` says where the loop over it stops and where it meets bars, and
`PrepareArgs` gives `argv` and `argv2` as the loop leaves them, an entry never
written being `"?"` (no word of a line is `"?"` or `"NULL"`, which stand for
what is no string in the code). With a pipe the child of the shell makes
the pipe, forks the producer and becomes the consumer; `holds` are the ends
each process has open. Programs, pipes and `exec` are external: a producer
writes what it has and ends, a consumer reads up to the end of file, and a
program may not exist. `CanGoOn` says when a process may take its next step, and
`PipelinesGoOn` that one which may not has another at the opposite end of its
pipe that may. `foreground`, the processes the shell forked without `&`, is a
history variable: `ForegroundCollected` says that they are all collected but the
one the shell waits for. A line of exactly `TOKEN_NR` tokens makes the loop read
the string after the array, which is one of two values in the model. Signals
end a process; the user may kill any process the shell launched, but not the
shell itself.

`MC*.tla` and `*.cfg` instantiate these for TLC; `*Proofs.tla` hold theorems.
Definitions named `X_Something` above a definition `X` are mutants: faulty
variants, each of which makes a property fail.

## Runs

| Run | Question | Bounds |
|---|---|---|
| `process_memory` | Do PCB list, frames and page tables stay consistent whatever programs wait for? | 3 processes, 5 frames: one too few for all to have exec'd, so that allocation fails too; frames symmetric |
| `process_waits` | Is waitpid safe, does it return, does something always run? | 3 processes of one page, traced or not: a process with both a parent and a child of its own |
| `pagetable` | Are tables accounted for, translations fresh, memories private? | 2 processes that come and go, 2 + 5 L1 entries of 2 pages, 4 frames, 6 second level tables, 2 values: forks that succeed, that lack a frame and that lack a table; a ram device that needs two tables and a section. The view identifies states that differ in names of frames and heap places |
| `tictactoe` | Do the processes play the game to its end, in turns, and tell who won? | all games against the computer |
| `win_lines` | a finding, below | the same |
| `memreplace` | Do both policies keep RAM consistent and take the right page, past the wrap-around? | 5 pages, counters of 4 values, more than there are pages in RAM |
| `memsim` | Are bytes read back, permissions kept? | steps 2 and 3; 7 addresses in pages of every kind and pages whose numbers differ in one bit or in all |
| `memsim_step4` | a finding, below | step 4 |
| `syscalls` | Is errno the caller's, is the break in the heap? | 2 processes that come and go, 2 programs at different addresses, ints of 4 bits, heaps of 3 bytes one of which lies beyond the largest int: every increment is tried from every break, sums that wrap around both ways included |
| `lettercount` | Is every letter counted once, nothing used after free, does the program end? | up to 4 threads, 7 texts of length 0 to 9: lengths below, at and above the number of threads, with and without a rest; refused arguments; every interleaving |
| `sockets` | Do requests and answers stay paired, is no client forgotten, does everyone get on? | 2 clients, of which one waits in the queue while the other is served, 2 signals for the counter (`MaxCounting`), any number of the others |
| `shell` | Are arguments right, children collected, can pipelines always go on and do they end? | 15 kinds of lines, 3 processes at most over a run (`MaxPid`): two commands of which one is a pipeline, one in the background; a pipe of one item, writers of up to two, so that it fills |

`process_*` and `pagetable` bound the number of processes; pids grow without
end in the code, but a third process already brings every relation the actions
look at (parent, child, stranger). The deadlock check is off for `process_*`,
where the kernel stops on a panic; `PageTable` has the action `Halted` for that
and is checked for deadlock, so that no fork gets stuck half way. It is off for
`sockets`, `shell` and `lettercount`, whose programs end; there the temporal
properties say who may not get stuck. The action `Refuse` of `Shell` stands for
no code: it throws a line away once the pids of the instance are used up.

The type invariants of `MemReplace`, `PageTable` and `TicTacToe` are theorems
for every value of the constants, so no run repeats them on an instance.

### Fairness

`process_waits`: weak fairness of `do_exit_finish` and `do_waitpid_resume`. A
process in these places is ready, and the periodic timer makes the scheduler
share the processor among ready threads. What programs do next is up to them.
`tictactoe`: weak fairness of both processes for the same reason, and strong
fairness of the user entering a free cell: a user who enters taken cells for
ever keeps the game from ending. `lettercount`, `sockets` and `shell`: weak
fairness of each thread, of the server and each client, of the shell and each
process it launched, which the scheduler runs; signals come, and the user
types, without any fairness.

## Proofs

**`ProcessProofs`**. `IInv` (in `Process`) is inductive; the theorems on types,
orphans, exit, frames, isolation, collection and safe waits follow from it. No
property alone is inductive, hence its parts: `FreshPids` (a pid not given yet
owns nothing, so that fork starts clean), `DeadAgree` (state, thread and
program counter agree on who is over), `WokenForAReason` and
`WaiterOwnsChild` (what a process finds when `thread_join` returns),
`FramesOwnedOnce` and `MapsOwnPages` (frames of lists and of page tables
agree). `NotAllBlocked` needs `WaitsGoDown` too: waits go from parents to
younger children, so by well-founded induction on pids every chain of waits
from the root process ends at a process that can go on. Assumed:
`MemoryAssumption`, `ProcessAssumption`; `WaitSafe` and `SomethingRuns` also
that programs wait once for each child, without which the findings below are
counterexamples.

**`PageTableProofs`**. `PagingInv` (in `PageTable`) is inductive, for tables of
any size and any number of processes, frames and places of the heap. Its parts:
`Layout` (no section in a user half, no second level table below a user entry of
the system table, the kernel half of every process is that of the system table
but for Fixmap, which only the process that copies has mapped), `Owners` (each
place of the heap given out is the table of one entry and of one only), `Frames`
(a frame has one owner, and only its owner maps it, at one page), `Boot` (until
its code is mapped the first process has only pages of its stack, so the code
replaces nothing) and `Copying` (in the middle of a fork the child's pages are
copies, and the frame in hand is the child's, mapped at Fixmap and nowhere
else).
`TlbCoherent` is a part of it, since a store through the TLB has to reach
what the table says. `TablesAccounted` and `SmallPagesOnly` follow. The
refinement (`MemoryIsPrivate`) goes step by step: a store through `Walk` changes
one page of the process that runs, as `Frames` leaves no second way to its
frame; a step of `DupCopy` is a stutter, since the child is not yet alive in the
abstract memory; `DupEnd` is the abstract fork, as by then the child has a copy
of every page (`Copying`). Assumed: `PagingAssumption` and `ImageAssumption`.

**`TicTacToeProofs`**. `GameInv` is inductive: the verdict and the end of the
loop agree and an unfinished board has a free cell, which is what the
computer's move needs. From it, types and the refinement of the game, for any
choice the computer makes. `Exchange` says for each point of the game manager
what is in the two pipes and where the player stands; with `GameInv` it gives
that while the game manager waits there is one question, or one answer to it,
and none otherwise (`OneQuestion`), and that the player shows the verdict that
was reached before the game manager goes on (`VerdictShown`). That the game is
fair (`GameIsFair`) is proved of the moves of the abstract game and carried over
by the refinement: a symbol on a free cell adds one to the cells of its side and
completes no line of the other (`SymbolAdded`), so that, nobody having a line
before the move, the side that moved is the one `win()` saw (`FairMove`).

**`SimulatorProofs`**. Of `MemReplace`: types and the three pages in RAM, for every number of
pages and every width, and that no page is lost between RAM and swap
(`NothingLost`); with `TimesInOrder` (until the wrap-around the recorded times
follow the order of the accesses) the choice of LRU. For the other policy,
`RefsInRam` (a reference bit belongs to a page in RAM) and, with
`LastReferenced` (the page used last has its bit set), that the page just used
is replaced only if it is the first one in RAM and no page is old
(`JustUsedStays`).
Of `MemSim`: `SimInv` is inductive, for any set of addresses and of values. It
says that the table is as it was built, that a readable byte holds what was
stored last, and that the bytes of read-only pages hold 0. It needs the
arithmetic of the entries (`Entries`, `Translation`), by which two addresses in
mapped pages reach the same byte only if they are the same (`OneAddressPerByte`):
then a store changes what one address reads, and none of a read-only page.
`ReadsBack` and `Protected` follow for the builds of the steps 2 and 3; for
step 4 `StepFourSharesOnePage` proves the finding below for every address.
Assumed: `ReplaceAssumption`, `MemSimAssumption`.

**`LetterCountProofs`**. `IInv` is inductive for every set of texts, letters and
every number of threads. Its parts: `Phases` (which threads exist, run or are
joined at each point of the main thread), `Chunks` (thread `t` has the
characters from `t * chunk_size`, the last one the rest), `Positions` (a thread
that is over is at the end of its chunk), `CountedSoFar` (the counters of a
thread are the occurrences in the part it has passed) and `Gathered` (the
result is the occurrences in the chunks added up so far). The final count
follows as the chunks are adjacent and end where the text ends.

**`SyscallsProofs`**. `BreakInHeap` rests on a lemma on the sum of ints
(`SbrkBound`): a sum that wraps around comes out negative and is refused,
as the heap is no larger than the largest int; `SyscallsAssumption` says so,
and that the heap lies in the address space. `ErrnoOfCall` needs `DuringCall`:
in the middle of a call errno is still clear and `errno_addr` is the caller's,
unless a process of another program entered the kernel since. A failure then
goes to another word of the caller's memory, or to errno after all: errno is the
code of this call or 0, and never that of another one.

**`SocketsProofs`**. `SocketsInv` (in `Sockets`) is inductive for any set of
clients and any number of signals. `Connections` says which clients the server
can be reading from and which wait in the queue; `UnderWay` gives, for each
point of a client, what can be in its two queues (one message at most, and the
answer of the request written last); `Counting` says that no two clients have
been sent the same value of the counter, none above `counter`, and that
`counter` plus the clients with a signal still to count is at most the number of
signals there were.
`AnswerOfRequest` and `CountedOnce` follow. `NobodyForgotten` needs `Attended`
besides: a connection whose server end is open is the one being served or in the
queue, and a server that is done has an empty queue, so that what a waiting
client wrote, which `UnderWay` puts in its queue, is before the server. It is
the safety part of `Answered`.

**`ShellProofs`**. `ShellInv` (in `Shell`) is inductive for any set of lines,
any sizes of the arrays and any number of processes. `TokensOfLine` says that
the array is empty at the prompt and holds the line typed last, and nothing of
an earlier one, while a command is processed; `ForegroundCollected` is a part of
it, with the fact that a process of the foreground has a pid below `next`, so
that no later fork takes its place. That `PrepareArgs` gives the
words typed for a line with at most one bar is a lemma of its own
(`PreparedAsTyped`), from the ends of the command and the place of the bar in
the line; from it `ArgsAsTyped`. `PipelinesGoOn`
rests on an invariant of its own, `PipeInv`: by the stage of a process `EndsOf`
says which ends of which pipe it holds. Once it runs, a reader holds the reading
end of its own pipe only and a writer the writing end of another's only, so
whoever keeps a reader from the end of file is a writer, which finds an empty
pipe, or has not started yet; and whoever keeps a writer from giving up is a
reader with something to read, or has not started yet. It is the safety part of
`CommandsEnd`. Assumed:
`ShellAssumption`, that lines are sequences of words which fit into the array,
and that `argv` is longer than it.

Only TLC checks: everything under fairness (`WaitReturns`, `GameEnds`,
`Answered`, `QuitHeard`, `CommandsEnd`, `Ends`), which the prover does not
reach, and `Minmax`, which is recursive: the theorems about the game leave the
computer's choice of a free cell open instead. All other properties of the runs
that pass are stated by a theorem.

## Findings

With a run:
* `win_lines` - the diagonals of `win()` are wrong.
* `memsim_step4` - as committed, all virtual pages are one page of the memory;
  `test_mem` cannot see it.

Met on the way, without a run:
* `do_waitpid` takes any pid; if that process then calls execve, an assertion
  (`process.c:748`) stops the kernel, although the comment at 744 says that the
  one who waits is the parent;
* a collected PCB kept for its children has no main thread, which `do_renice`,
  `do_ps` and `dump_proc` read, and it is never removed once its last child is
  gone;
* `virt_to_phys_pt` keeps 12 bits of the offset within a section
  (`mmu.c:560`), so it is not "valid for any virt. address" (546);
  `SmallPagesOnly` shows that it is right on user pages, the only ones passed
  to it in the repository;
* errno is written through the address of the program that entered the kernel
  last: a call that sleeps and fails after a process of another program came in
  leaves its own errno 0 and changes some other word of its memory, where
  `syscall.h` says of call after call "-1 on error and set errno" (360, 388,
  395); `ErrnoOfCall` lets errno be 0 under that condition (`foreign`) for that
  reason;
* `settimeofday` sets errno to `-ENOSYS` (`syscalls.c:98`), all others to a
  positive code; an unknown call number returns -1 with errno 0;
* a failed execve has already renamed the process (`process.c:703`);
* `preserve_args_and_env` reports failure as NULL, and the caller tests for a
  value below zero (`process.c:566`): the program starts without arguments;
* children of the shell in the background are never collected, as it has no
  handler of SIGCHLD (comment at `sh.c:210`);
* `kill` of the shell with an option it does not know uses an uninitialised pid
  (`sh.c:125`), with signal 0; a line of ten tokens makes `process_cmd` read
  beyond the array (136);
* a client that gets SIGINT between its two switches (`socket_client.c:133`)
  closes the connection without having sent Quitter, so the server goes on;
  signals that come while it waits for an answer are forgotten (143);
* a child of `count_parallel` whose exec fails goes on with the loop of its
  parent and forks children of its own (`count_parallel.c:47`), and the ids from
  10 on do not fit in their buffer (43);
* waiting twice for the same kept PCB joins a NULL thread (`halted` then has the
  value `"null_join"`, which discipline `"once"` excludes);
* a stopped child without a ptrace request would lose its page table to a
  waitpid, which does not join it then (`process.c:1017-1028`, 1061-1074);
  discipline `"once"` excludes such a wait, and `WaitIsSafe` and
  `ReapOnlyZombies` hold under it; a traced
  child that exited is reported as stopped (`process.c:1031`);
* error returns of `do_waitpid`, `do_fork` and `do_execve` leave the interrupts
  off;
* the computer's "best move" is always the first free cell;
* under LRU the page of the very first access has the time of pages never
  accessed and is replaced before them; once the time of one byte has wrapped
  around (`memreplace.c:70`) the recorded times no longer follow the order of
  the accesses, and LRU may replace a page used after another one, the one used
  last included: `LeastRecentGoes` is about the accesses before that, the other
  properties hold beyond it;
* in `memsim.c`, `|= ~VALID_BIT` (322) leaves the valid bit set although the
  comment says "not valid", and the test of that bit in `store_byte` (171)
  never refuses; the pages are refused only for their execute-only pattern;
* `reset_root_pgtable` (417) flushes a quarter of the table, the pointer being
  a `void *`, and does so after freeing it.

## Not modelled

* Cache attributes, system registers and `dump_pgtable` (I/O only);
  `clear_l1pte`, `copy_root_pgtable` and the release of several pages, which
  nothing in the repository calls.
* Names and exit codes of processes, the argument page: data that no other step
  depends on. Threads other than the main one of a process: thread creation is
  outside the repository, so a race of two threads in `do_sbrk` is listed among
  the hazards only, and the error return of a fork from another thread
  (`process.c:816-820`) is left out.
* The closing of descriptors one by one in `do_exit` (`process.c:923-938`): no
  other process reads or changes them, so it is one step.
* Lines with more words than `tokens` holds, which `parse_token` would copy
  beyond it (`sh.c:48-49`): `ShellAssumption` excludes them.
* `count_parallel.c`: a loop of forks and waits, whose children are as in
  `Process`; a failed exec in it is noted above.
* The environment and the SIGINT handler of the shell, the printing of all
  programs, the reading of numbers in the simulators.
* Boot (a fixed sequence of calls outside the repository) and timer (device
  registers); `ls`, `ln`, `hello`, `memory` (a library call and its output).

## Plan

1. Threads in `Syscalls`, once a condition for the race in `do_sbrk` is stated:
   then `BreakInHeap` would hold under it only.
2. The registers of the timer and the parallel count, should their code grow
   beyond a loop.
