------------------------------- MODULE Shell -------------------------------
(* The shell of lab 1 and the processes it launches. tokens is the global    *)
(* array, which parse_token fills and the main loop resets. A command is a   *)
(* fork; with a pipe the child makes the pipe, forks the producer and        *)
(* becomes the consumer itself, so that the shell waits for the consumer     *)
(* only. Programs and pipes are outside the file: a program at the writing   *)
(* end writes what it has and ends, one at the reading end reads up to the   *)
(* end of file, and whether exec finds a program is up to the file system.   *)
EXTENDS Naturals, Sequences, FiniteSetsExt, TLC

CONSTANTS Lines,      \* lines the user may type, as sequences of tokens
          TOKEN_NR,   \* length of tokens
          ARGS_MAX,   \* length of argv and argv2
          MaxPid,     \* bound on the processes launched: 2..MaxPid
          PipeSize,   \* what a pipe holds
          MaxWrites   \* what a program has to write, at most

\* A token whose first character is 0.
NoWord == ""

ASSUME ShellAssumption ==
    /\ TOKEN_NR \in Nat \ {0} /\ ARGS_MAX \in Nat /\ ARGS_MAX > TOKEN_NR + 1
    /\ \A l \in Lines : /\ l \in Seq(STRING) /\ Len(l) <= TOKEN_NR
                         /\ \A i \in DOMAIN l : l[i] \notin {NoWord, "NULL", "?"}
    /\ MaxPid \in Nat /\ PipeSize \in Nat \ {0} /\ MaxWrites \in Nat

Pid == 2..MaxPid
Ends == Pid \X {"r", "w"}     \* a pipe has the name of the process that made it

VARIABLES
    root,      \* whether the shell is the process with pid 1
    shell,     \* where the shell stands: "prompt", "cmd", "wait", "done"
    tokens,    \* the global array; NoWord after the last one
    waitfor,   \* the pid the shell waits for, or 0
    next,      \* the next pid
    pc,        \* where each process stands
    job,       \* what a process knows from its fork: the prepared arguments
    holds,     \* the ends of pipes each process has open
    left,      \* what a program at the writing end has still to write
    inpipe,    \* contents of the pipes
    line,      \* history: the line typed last
    foreground \* history: the processes the shell forked in the foreground

procVars == <<next, pc, job, holds, left, inpipe>>
vars == <<root, shell, tokens, waitfor, line, foreground, procVars>>

NoJob == [name |-> NoWord, argv |-> <<>>, argv2 |-> <<>>, pipe_on |-> FALSE, background |-> FALSE, line |-> <<>>]

NoTokens == [i \in 0..TOKEN_NR - 1 |-> NoWord]

Init ==
    /\ root \in BOOLEAN
    /\ shell = "prompt" /\ tokens = NoTokens /\ waitfor = 0 /\ next = 2
    /\ pc = [p \in Pid |-> "none"]
    /\ job = [p \in Pid |-> NoJob]
    /\ holds = [p \in Pid |-> {}]
    /\ left = [p \in Pid |-> 0]
    /\ inpipe = [p \in Pid |-> 0]
    /\ line = <<>> /\ foreground = {}
-----------------------------------------------------------------------------
(* Reading a line *)

\* Mutant: nothing is reset.
Reset_Nothing == UNCHANGED tokens /\ line' = <<>>

\* The top of the main loop, whenever the shell comes back to its prompt.
Reset == tokens' = NoTokens /\ line' = <<>>

parse_token(l) == [i \in 0..TOKEN_NR - 1 |-> IF i < Len(l) THEN l[i + 1] ELSE tokens[i]]

\* One turn of the main loop, up to process_cmd; an empty line has no token.
ReadLine ==
    /\ shell = "prompt"
    /\ \E l \in Lines : /\ line' = l
                        /\ tokens' = parse_token(l)
                        /\ shell' = IF tokens'[0] = NoWord THEN "prompt" ELSE "cmd"
    /\ UNCHANGED <<root, waitfor, foreground, procVars>>
-----------------------------------------------------------------------------
(* The commands of the shell itself *)

Builtins == {"dumpsched", "dumpproc", "env", "exit", "setenv", "kill"}

\* dumpsched, dumpproc and env only print, setenv changes the environment,
\* which no step here depends on.
NoProcess ==
    /\ shell = "cmd" /\ tokens[0] \in {"dumpsched", "dumpproc", "env", "setenv"}
    /\ shell' = "prompt" /\ Reset
    /\ UNCHANGED <<root, waitfor, foreground, procVars>>

ExitShell ==
    /\ shell = "cmd" /\ tokens[0] = "exit"
    /\ shell' = IF root THEN "prompt" ELSE "done"
    /\ Reset
    /\ UNCHANGED <<root, waitfor, foreground, procVars>>

Alive(p) == pc[p] \notin {"none", "zombie", "gone"}

\* What exit and the death by a signal do: the descriptors are closed.
Die(p) ==
    /\ pc' = [pc EXCEPT ![p] = "zombie"]
    /\ holds' = [holds EXCEPT ![p] = {}]
    /\ job' = [job EXCEPT ![p] = NoJob]
    /\ left' = [left EXCEPT ![p] = 0]

\* The signal and the pid kill sends. With an option it does not know, the
\* signal is 0, which is sent to nobody, and pid is not initialized.
KillSignal == CASE tokens[2] = NoWord -> "SIGTERM"
                [] tokens[2] # NoWord /\ tokens[1] = "-USR1" -> "SIGUSR1"
                [] tokens[2] # NoWord /\ tokens[1] = "-9" -> "SIGKILL"
                [] OTHER -> "0"
KillTarget == {p \in Pid : ToString(p) = (IF tokens[2] = NoWord THEN tokens[1] ELSE tokens[2]) /\ Alive(p)}

Kill ==
    /\ shell = "cmd" /\ tokens[0] = "kill"
    /\ shell' = "prompt" /\ Reset
    /\ IF KillSignal = "0" \/ KillTarget = {}
       THEN UNCHANGED procVars
       ELSE /\ \E p \in KillTarget : Die(p)
            /\ UNCHANGED <<next, inpipe>>
    /\ UNCHANGED <<root, waitfor, foreground>>
-----------------------------------------------------------------------------
(* Launching programs *)

\* The loop over the tokens stops at the first empty one or at "&". A line of
\* TOKEN_NR tokens makes it read beyond the array, where it finds beyond.
TokenAt(i, beyond) == IF i < TOKEN_NR THEN tokens[i] ELSE IF i = TOKEN_NR THEN beyond ELSE NoWord
Stop(beyond) == Min({i \in 0..TOKEN_NR + 1 : TokenAt(i, beyond) \in {NoWord, "&"}})
Bars(beyond) == {i \in 0..Stop(beyond) - 1 : TokenAt(i, beyond) = "|"}

\* What the loop meets: the number of tokens before it stops, the bars among
\* them, and the tokens after the first bar that are no bars.
Marks(beyond) ==
    LET n    == Stop(beyond)
        bars == Bars(beyond)
    IN  [n |-> n, bars |-> bars,
         after |-> {i \in 0..n - 1 : \E b \in bars : b < i} \ bars]

\* How many of the tokens after the bar precede the token i.
Place(i, after) == Cardinality({k \in after : k < i})

\* argv and argv2 as the loop leaves them; "?" is an entry never written. All
\* tokens after the first bar go to argv2, further bars are dropped from it.
PrepareArgs(m, beyond) ==
    LET on == m.bars # {}
    IN  [name |-> tokens[0],
         argv |-> [i \in 0..ARGS_MAX - 1 |->
                     CASE i < m.n /\ \A b \in m.bars : i < b -> TokenAt(i, beyond)
                       [] i \in m.bars \/ (i = m.n /\ ~on) -> "NULL"
                       [] OTHER -> "?"],
         argv2 |-> [k \in 0..ARGS_MAX - 1 |->
                     CASE \E i \in m.after : Place(i, m.after) = k ->
                              TokenAt(CHOOSE i \in m.after : Place(i, m.after) = k, beyond)
                       [] on /\ k = Cardinality(m.after) -> "NULL"
                       [] OTHER -> "?"],
         pipe_on |-> on,
         background |-> TokenAt(m.n, beyond) = "&",
         line |-> line]

\* Processes that are yet to be forked by those that exist.
Reserved == Cardinality({p \in Pid : pc[p] = "child" /\ job[p].pipe_on})

\* The rest of process_cmd in the shell: fork, then wait or not.
Launch ==
    /\ shell = "cmd" /\ tokens[0] \notin Builtins
    /\ \E beyond \in {NoWord, "so3%"} :
        /\ beyond # NoWord => tokens[TOKEN_NR - 1] # NoWord
        /\ \E m \in {Marks(beyond)} : \E j \in {PrepareArgs(m, beyond)} :
              /\ next + Reserved + (IF j.pipe_on THEN 1 ELSE 0) <= MaxPid
              /\ job' = [job EXCEPT ![next] = j]
              /\ shell' = IF j.background THEN "prompt" ELSE "wait"
              /\ waitfor' = IF j.background THEN 0 ELSE next
              /\ foreground' = IF j.background THEN foreground ELSE foreground \cup {next}
              /\ IF j.background THEN Reset ELSE UNCHANGED <<tokens, line>>
    /\ pc' = [pc EXCEPT ![next] = "child"]
    /\ next' = next + 1
    /\ UNCHANGED <<root, holds, left, inpipe>>

\* The bound on pids is reached: nothing more is launched.
Refuse ==
    /\ shell = "cmd" /\ tokens[0] \notin Builtins
    /\ next + Reserved + (IF Bars(NoWord) # {} THEN 1 ELSE 0) > MaxPid
    /\ shell' = "prompt" /\ Reset
    /\ UNCHANGED <<root, waitfor, foreground, procVars>>

\* Mutant: the shell goes on without its child being over.
WaitDone_NoWait ==
    /\ shell = "wait"
    /\ pc' = [pc EXCEPT ![waitfor] = IF @ = "zombie" THEN "gone" ELSE @]
    /\ shell' = "prompt" /\ waitfor' = 0 /\ Reset
    /\ UNCHANGED <<root, foreground, next, job, holds, left, inpipe>>

\* waitpid(pid_child, NULL, 0) returns.
WaitDone ==
    /\ shell = "wait" /\ pc[waitfor] = "zombie"
    /\ pc' = [pc EXCEPT ![waitfor] = "gone"]
    /\ shell' = "prompt" /\ waitfor' = 0 /\ Reset
    /\ UNCHANGED <<root, foreground, next, job, holds, left, inpipe>>
-----------------------------------------------------------------------------
(* The child and, with a pipe, its child *)

shellVars == <<root, shell, tokens, waitfor, line, foreground>>

\* pipe and fork: both have both ends.
ForkProducer(p) ==
    /\ pc[p] = "child" /\ job[p].pipe_on
    /\ pc' = [pc EXCEPT ![p] = "consumer", ![next] = "producer"]
    /\ holds' = [holds EXCEPT ![p] = {p} \X {"r", "w"}, ![next] = {p} \X {"r", "w"}]
    /\ job' = [job EXCEPT ![next] = job[p]]
    /\ next' = next + 1
    /\ UNCHANGED <<shellVars, left, inpipe>>

\* execv: the program runs as role with the ends it holds, or there is no
\* such file, and the process exits. Without a name to copy it dies before.
Exec(p, name, ends, role) ==
    \/ /\ name # "NULL"
       /\ pc' = [pc EXCEPT ![p] = role]
       /\ holds' = [holds EXCEPT ![p] = ends]
       /\ job' = [job EXCEPT ![p] = NoJob]
       /\ IF role = "writer" THEN \E n \in 0..MaxWrites : left' = [left EXCEPT ![p] = n] ELSE UNCHANGED left
    \/ Die(p)

RunPlain(p) ==
    /\ pc[p] = "child" /\ ~job[p].pipe_on
    /\ Exec(p, job[p].name, {}, "plain")
    /\ UNCHANGED <<shellVars, next, inpipe>>

\* Mutant: the producer keeps the reading end.
RunProducer_KeepsRead(p) ==
    /\ pc[p] = "producer"
    /\ Exec(p, job[p].argv[0], holds[p], "writer")
    /\ UNCHANGED <<shellVars, next, inpipe>>

\* close(pipe_fd[0]), dup2, execv
RunProducer(p) ==
    /\ pc[p] = "producer"
    /\ Exec(p, job[p].argv[0], {e \in holds[p] : e[2] # "r"}, "writer")
    /\ UNCHANGED <<shellVars, next, inpipe>>

\* Mutant: the consumer keeps the writing end.
RunConsumer_KeepsWrite(p) ==
    /\ pc[p] = "consumer"
    /\ Exec(p, job[p].argv2[0], holds[p], "reader")
    /\ UNCHANGED <<shellVars, next, inpipe>>

\* close(pipe_fd[1]), dup2, execv
RunConsumer(p) ==
    /\ pc[p] = "consumer"
    /\ Exec(p, job[p].argv2[0], {e \in holds[p] : e[2] # "w"}, "reader")
    /\ UNCHANGED <<shellVars, next, inpipe>>

Held(e) == \E q \in Pid : e \in holds[q]

\* A program writes; with nobody left to read, that ends it.
Write(p) ==
    /\ pc[p] = "writer" /\ left[p] > 0
    /\ \E e \in holds[p] :
        /\ e[2] = "w"
        /\ \/ /\ Held(<<e[1], "r">>) /\ inpipe[e[1]] < PipeSize
              /\ inpipe' = [inpipe EXCEPT ![e[1]] = @ + 1]
              /\ left' = [left EXCEPT ![p] = @ - 1]
              /\ UNCHANGED <<pc, holds, job>>
           \/ /\ ~Held(<<e[1], "r">>)
              /\ Die(p)
              /\ UNCHANGED inpipe
    /\ UNCHANGED <<shellVars, next>>

\* A program reads; at the end of file it is over.
Read(p) ==
    /\ pc[p] = "reader"
    /\ \/ /\ inpipe[p] > 0
          /\ inpipe' = [inpipe EXCEPT ![p] = @ - 1]
          /\ UNCHANGED <<pc, holds, job, left>>
       \/ /\ inpipe[p] = 0 /\ ~Held(<<p, "w">>)
          /\ Die(p)
          /\ UNCHANGED inpipe
    /\ UNCHANGED <<shellVars, next>>

\* A program with nothing left to do ends.
Finish(p) ==
    /\ pc[p] = "plain" \/ (pc[p] = "writer" /\ left[p] = 0)
    /\ Die(p)
    /\ UNCHANGED <<shellVars, next, inpipe>>

ProcStep(p) ==
    ForkProducer(p) \/ RunPlain(p) \/ RunProducer(p) \/ RunConsumer(p) \/ Write(p) \/ Read(p) \/ Finish(p)

ShellStep == NoProcess \/ ExitShell \/ Kill \/ Launch \/ Refuse \/ WaitDone

Next == ReadLine \/ ShellStep \/ \E p \in Pid : ProcStep(p)

\* Every process that can go on is scheduled; the user types when it pleases.
Fairness == WF_vars(ShellStep) /\ \A p \in Pid : WF_vars(ProcStep(p))

Spec == Init /\ [][Next]_vars /\ Fairness
-----------------------------------------------------------------------------
(* Properties *)

\* The lines the shell is made for: words, at most one bar between them, and
\* what follows "&" ignored.
Command(l)   == IF \E i \in DOMAIN l : l[i] = "&" THEN SubSeq(l, 1, Min({i \in DOMAIN l : l[i] = "&"}) - 1) ELSE l
BarsIn(l)    == {i \in DOMAIN Command(l) : l[i] = "|"}
WellFormed(l) == /\ Len(l) < TOKEN_NR
                 /\ Command(l) # <<>>
                 /\ Cardinality(BarsIn(l)) <= 1
                 /\ BarsIn(l) \intersect {1, Len(Command(l))} = {}
Left(l)      == IF BarsIn(l) = {} THEN Command(l) ELSE SubSeq(l, 1, Min(BarsIn(l)) - 1)
Right(l)     == SubSeq(Command(l), Min(BarsIn(l)) + 1, Len(Command(l)))

\* What exec reads of an array of arguments: the entries before the first NULL.
Entries(a) == LET n == Min({i \in DOMAIN a : a[i] = "NULL"}) IN [i \in 1..n |-> a[i - 1]]

\* The arguments are the words typed, on either side of a bar.
AsTyped(j) ==
    /\ Entries(j.argv) = Left(j.line)
    /\ j.pipe_on = (BarsIn(j.line) # {})
    /\ j.pipe_on => Entries(j.argv2) = Right(j.line)

\* A program is given the words typed for it, all of them and none of an
\* earlier line, on either side of a bar, with a NULL at the end
\* (sh.c:38-50, 133-158, 247).
ArgsAsTyped ==
    \A p \in Pid :
        (pc[p] \in {"child", "producer", "consumer"} /\ WellFormed(job[p].line)) => AsTyped(job[p])

\* Every process the shell forked in the foreground is over and collected,
\* except the one it waits for: no zombie of such a process is left when the
\* shell is back at its prompt, whoever ended it and in whatever order the
\* processes of a pipeline ended (sh.c:213-215).
ForegroundCollected ==
    \A p \in foreground : pc[p] # "gone" => shell = "wait" /\ waitfor = p

\* The prompt comes back after every command, and every process ends: the end
\* of file reaches the consumer, as nobody but the producer keeps the writing
\* end, and the producer of a consumer that could not be started or was killed
\* is not its own reader (sh.c:169, 176-192, 213).
CommandsEnd ==
    /\ (shell = "wait") ~> (shell = "prompt")
    /\ \A p \in Pid : Alive(p) ~> ~Alive(p)

\* A process has something to do: it does not sleep in a read from a pipe that
\* is empty, or in a write to one that is full.
CanGoOn(p) ==
    \/ pc[p] \in {"child", "consumer", "producer", "plain"}
    \/ /\ pc[p] = "writer"
       /\ \/ left[p] = 0
          \/ \E e \in holds[p] :
                e[2] = "w" /\ (inpipe[e[1]] < PipeSize \/ ~Held(<<e[1], "r">>))
    \/ pc[p] = "reader" /\ (inpipe[p] > 0 \/ ~Held(<<p, "w">>))

\* Two processes at the opposite ends of a pipe.
Opposite(p, q) ==
    \E r \in Pid : \/ <<r, "r">> \in holds[p] /\ <<r, "w">> \in holds[q]
                   \/ <<r, "w">> \in holds[p] /\ <<r, "r">> \in holds[q]

\* No pipeline is ever stuck: a process that sleeps at its pipe has another one
\* at the opposite end that can go on, never itself and never one that sleeps
\* too, whoever was killed or could not be started; and the shell waits for a
\* process that is there to end, or has ended (sh.c:163-192, 213).
PipelinesGoOn ==
    /\ \A p \in Pid : Alive(p) /\ ~CanGoOn(p) =>
            \E q \in Pid \ {p} : Opposite(p, q) /\ CanGoOn(q)
    /\ shell = "wait" => waitfor \in Pid /\ pc[waitfor] \notin {"none", "gone"}
-----------------------------------------------------------------------------
(* The invariant behind them *)

\* The array of tokens holds the words of l and nothing else.
Holds(l) == tokens = [i \in 0..TOKEN_NR - 1 |-> IF i < Len(l) THEN l[i + 1] ELSE NoWord]

Stages == {"none", "child", "consumer", "producer", "plain", "writer", "reader", "zombie", "gone"}

\* A command is processed with the tokens of its own line: nothing is left in
\* the array when the shell is at its prompt.
TokensOfLine ==
    /\ shell \in {"prompt", "cmd", "wait", "done"}
    /\ shell = "prompt" => tokens = NoTokens
    /\ shell = "cmd" => line \in Lines /\ Holds(line)

\* What ends of pipes a process q holds, by where it stands: the consumer has
\* the name of the pipe, the producer is another process.
EndsOf(q, stage, ends) ==
    \/ stage \in {"none", "child", "plain", "zombie", "gone"} /\ ends = {}
    \/ stage = "consumer" /\ ends = {<<q, "r">>, <<q, "w">>}
    \/ stage = "reader"   /\ ends = {<<q, "r">>}
    \/ stage = "producer" /\ \E r \in Pid \ {q} : ends = {<<r, "r">>, <<r, "w">>}
    \/ stage = "writer"   /\ \E r \in Pid \ {q} : ends = {<<r, "w">>}

\* The processes are those up to next, each with the ends of its stage.
PipeInv ==
    /\ pc \in [Pid -> Stages] /\ DOMAIN holds = Pid
    /\ left \in [Pid -> Nat] /\ inpipe \in [Pid -> 0..PipeSize]
    /\ next \in Nat /\ next >= 2
    /\ \A q \in Pid : pc[q] = "none" <=> next <= q
    /\ \A q \in Pid : EndsOf(q, pc[q], holds[q])
    /\ shell = "wait" => waitfor \in Pid /\ pc[waitfor] \notin {"none", "gone"}

ShellInv ==
    /\ pc \in [Pid -> Stages] /\ DOMAIN job = Pid
    /\ TokensOfLine
    /\ next \in Nat /\ next >= 2
    /\ foreground \subseteq {p \in Pid : p < next}
    /\ ForegroundCollected
    /\ ArgsAsTyped
=============================================================================
