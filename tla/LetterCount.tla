---------------------------- MODULE LetterCount ----------------------------
(* The letter count of lab 3: the main thread splits a text among threads,   *)
(* each of which counts the letters of its chunk in counters of its own,     *)
(* joins them and adds their counters up. The threads run interleaved, a     *)
(* character at a time. A file is a sequence of characters, of which strlen  *)
(* sees those before the first NUL.                                          *)
EXTENDS Integers, Sequences, FiniteSets

CONSTANTS Files,            \* contents a file may have
          Nums,             \* values atoi may give for the first argument
          MAX_THREAD_NUM,
          Letters,          \* the counted letters, in lower case
          tolower           \* maps the characters isalpha accepts to Letters

ASSUME LetterCountAssumption ==
    /\ Nums \subseteq Int
    /\ MAX_THREAD_NUM \in Nat \ {0}
    /\ \A c \in DOMAIN tolower : tolower[c] \in Letters
    /\ \A f \in Files : Len(f) \in Nat

Tid == 0..MAX_THREAD_NUM - 1

VARIABLES
    pc,          \* where the main thread stands
    i,           \* its loop variable
    thread_num,
    text,        \* the buffer, up to the first NUL
    params,      \* chunk and counters of each thread
    thr,         \* "none", "run", "exited" or "joined"
    pos,         \* loop variable of each thread
    result_counters,
    allocated    \* the buffers malloc gave and free did not take back

vars == <<pc, i, thread_num, text, params, thr, pos, result_counters, allocated>>

Zero == [l \in Letters |-> 0]

\* The character at place k is counted as the letter l.
CountedAs(k, l) == text[k] \in DOMAIN tolower /\ tolower[text[k]] = l

Init ==
    /\ pc = "args" /\ i = 0 /\ thread_num = 0 /\ text = <<>>
    /\ params = [t \in Tid |-> [text_pointer |-> 0, size |-> 0, counters |-> Zero]]
    /\ thr = [t \in Tid |-> "none"]
    /\ pos = [t \in Tid |-> 0]
    /\ result_counters = Zero
    /\ allocated = {}
-----------------------------------------------------------------------------
(* The main thread *)

CheckArgs ==
    /\ pc = "args"
    /\ \E n \in Nums :
        /\ thread_num' = n
        /\ pc' = IF n <= 0 \/ n > MAX_THREAD_NUM THEN "failed" ELSE "load"
    /\ UNCHANGED <<i, text, params, thr, pos, result_counters, allocated>>

\* The characters before the first NUL.
strlen(f) == Cardinality({k \in 1..Len(f) : \A j \in 1..k : f[j] # "NUL"})

\* The file does not open, has no size, or does not fit in memory.
LoadFails ==
    /\ pc = "load"
    /\ pc' = "failed"
    /\ UNCHANGED <<i, thread_num, text, params, thr, pos, result_counters, allocated>>

buffer_from_file ==
    /\ pc = "load"
    /\ \E f \in Files : text' = [k \in 1..strlen(f) |-> f[k]]
    /\ allocated' = allocated \union {"text"}
    /\ pc' = "split"
    /\ UNCHANGED <<i, thread_num, params, thr, pos, result_counters>>

chunk_size == Len(text) \div thread_num
leftovers  == Len(text) % thread_num

\* Mutant: the rest of the division is dropped.
SizeOf_NoLeftovers(t) == chunk_size

SizeOf(t) == IF t = thread_num - 1 THEN chunk_size + leftovers ELSE chunk_size

Split ==
    /\ pc = "split"
    /\ params' = [t \in Tid |-> IF t < thread_num
                                THEN [text_pointer |-> t * chunk_size, size |-> SizeOf(t), counters |-> Zero]
                                ELSE params[t]]
    /\ allocated' = allocated \union {"params", "threads"}
    /\ pc' = "create" /\ i' = 0
    /\ UNCHANGED <<thread_num, text, thr, pos, result_counters>>

\* One turn of a loop of the main thread that goes on at next.
Turn(next) == IF i + 1 < thread_num THEN pc' = pc /\ i' = i + 1 ELSE pc' = next /\ i' = 0

\* Mutant: the loop that creates the threads is one turn short.
Create_OneLess ==
    /\ pc = "create"
    /\ thr' = [thr EXCEPT ![i] = "run"]
    /\ IF i + 2 < thread_num THEN pc' = pc /\ i' = i + 1 ELSE pc' = "join" /\ i' = 0
    /\ UNCHANGED <<thread_num, text, params, pos, result_counters, allocated>>

Create ==
    /\ pc = "create"
    /\ thr' = [thr EXCEPT ![i] = "run"]
    /\ Turn("join")
    /\ UNCHANGED <<thread_num, text, params, pos, result_counters, allocated>>

\* Mutant: the loop leaves the last thread out.
Join_NotLast ==
    /\ pc = "join"
    /\ i + 1 < thread_num => thr[i] = "exited"
    /\ thr' = [thr EXCEPT ![i] = IF @ = "exited" THEN "joined" ELSE @]
    /\ Turn("gather")
    /\ UNCHANGED <<thread_num, text, params, pos, result_counters, allocated>>

\* pthread_join(threads[i]) returns once the thread is over.
Join ==
    /\ pc = "join"
    /\ thr[i] = "exited"
    /\ thr' = [thr EXCEPT ![i] = "joined"]
    /\ Turn("gather")
    /\ UNCHANGED <<thread_num, text, params, pos, result_counters, allocated>>

Gather ==
    /\ pc = "gather"
    /\ result_counters' = [l \in Letters |-> result_counters[l] + params[i].counters[l]]
    /\ Turn("free")
    /\ UNCHANGED <<thread_num, text, params, thr, pos, allocated>>

\* After the results are shown.
Free ==
    /\ pc = "free"
    /\ allocated' = {}
    /\ pc' = "done"
    /\ UNCHANGED <<i, thread_num, text, params, thr, pos, result_counters>>
-----------------------------------------------------------------------------
(* The threads *)

threadUnchanged == <<pc, i, thread_num, text, result_counters, allocated>>

\* The character at hand is counted as l.
Counted(t, l) == CountedAs(params[t].text_pointer + pos[t] + 1, l)

\* Mutant: the thread runs until the end of the text.
count_letters_ToTheEnd(t) ==
    /\ thr[t] = "run"
    /\ params[t].text_pointer + pos[t] < Len(text)
    /\ params' = [params EXCEPT ![t].counters = [l \in Letters |-> @[l] + (IF Counted(t, l) THEN 1 ELSE 0)]]
    /\ pos' = [pos EXCEPT ![t] = @ + 1]
    /\ UNCHANGED <<thr, threadUnchanged>>

\* One turn of the loop of count_letters.
count_letters(t) ==
    /\ thr[t] = "run"
    /\ pos[t] < params[t].size
    /\ params' = [params EXCEPT ![t].counters = [l \in Letters |-> @[l] + (IF Counted(t, l) THEN 1 ELSE 0)]]
    /\ pos' = [pos EXCEPT ![t] = @ + 1]
    /\ UNCHANGED <<thr, threadUnchanged>>

ThreadReturn(t) ==
    /\ thr[t] = "run"
    /\ pos[t] >= params[t].size
    /\ thr' = [thr EXCEPT ![t] = "exited"]
    /\ UNCHANGED <<params, pos, threadUnchanged>>

MainStep == CheckArgs \/ LoadFails \/ buffer_from_file \/ Split \/ Create \/ Join \/ Gather \/ Free

ThreadStep(t) == count_letters(t) \/ ThreadReturn(t)

Next == MainStep \/ \E t \in Tid : ThreadStep(t)

\* The scheduler runs every thread that can go on.
Fairness == WF_vars(MainStep) /\ \A t \in Tid : WF_vars(ThreadStep(t))

Spec == Init /\ [][Next]_vars /\ Fairness
-----------------------------------------------------------------------------
(* Properties *)

\* The variables of main and of the threads keep their types; a thread stays
\* within its chunk and the chunk within the text (threads.c:33-34, 158-160).
TypeOK ==
    /\ pc \in {"args", "load", "split", "create", "join", "gather", "free", "done", "failed"}
    /\ i \in Tid
    /\ thread_num \in Int
    /\ pc \notin {"args", "failed"} => thread_num \in 1..MAX_THREAD_NUM
    /\ thr \in [Tid -> {"none", "run", "exited", "joined"}]
    /\ allocated \subseteq {"text", "params", "threads"}
    /\ params \in [Tid -> [text_pointer : Nat, size : Nat, counters : [Letters -> Nat]]]
    /\ pos \in [Tid -> Nat]
    /\ result_counters \in [Letters -> Nat]
    /\ \A t \in Tid : /\ pos[t] <= params[t].size
                      /\ params[t].text_pointer + params[t].size <= Len(text)

\* While a thread runs, the text it reads and the parameters it writes to are
\* allocated: main frees them only after it joined everyone (threads.c:185-207).
BuffersLive ==
    \A t \in Tid : thr[t] \in {"run", "exited"} => {"text", "params", "threads"} \subseteq allocated

Occurrences(n, l) == {k \in 1..n : CountedAs(k, l)}

\* What main shows is, for each letter, how often it occurs in the text in
\* either case: no character is left out by the split, none is counted twice,
\* and no counter is read before its thread is over (threads.c:153-193).
CountsRight ==
    pc \in {"free", "done"} =>
        \A l \in Letters : result_counters[l] = Cardinality(Occurrences(Len(text), l))

\* The program comes to its end, whatever the order the threads run in.
Ends == <>(pc \in {"done", "failed"})
=============================================================================
