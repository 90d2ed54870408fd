------------------------- MODULE LetterCountProofs -------------------------
(* For every text, every number of threads and every interleaving: threads   *)
(* stay within live buffers, and the letters shown are those of the text.    *)
EXTENDS LetterCount, FiniteSetTheorems, TLAPS

\* Letters l at the places from a + 1 to a + n.
Within(a, n, l) == {k \in a + 1..a + n : CountedAs(k, l)}

\* How far the threads are when main is at pc.
Phases ==
    /\ pc \in {"args", "load", "split"} => \A t \in Tid : thr[t] = "none"
    /\ pc = "failed" => \A t \in Tid : thr[t] = "none"
    /\ pc = "create" => \A t \in Tid : t >= i => thr[t] = "none"
    /\ pc = "join" => \A t \in Tid : t < i => thr[t] = "joined"
    /\ pc \in {"create", "join", "gather"} => i < thread_num
    /\ pc \in {"create", "join", "gather", "free", "done"} =>
           \A t \in Tid : t >= thread_num => thr[t] = "none"
    /\ pc \in {"gather", "free", "done"} => \A t \in Tid : t < thread_num => thr[t] = "joined"
    /\ pc = "split" => "text" \in allocated
    /\ pc \in {"create", "join", "gather", "free"} => {"text", "params", "threads"} \subseteq allocated

\* The chunks lie one after the other and cover the text.
Chunks ==
    /\ pc \in {"create", "join", "gather", "free", "done"} =>
           \A t \in Tid : t < thread_num => /\ params[t].text_pointer = t * chunk_size
                                            /\ params[t].size = SizeOf(t)
    /\ pc \in {"args", "load", "split", "failed"} =>
           \A t \in Tid : params[t].text_pointer = 0 /\ params[t].size = 0

\* A thread that has not started is at the beginning, one that is over at the end.
Positions ==
    \A t \in Tid : /\ thr[t] = "none" => pos[t] = 0
                   /\ thr[t] \in {"exited", "joined"} => pos[t] = params[t].size

\* A thread has counted what lies behind it.
CountedSoFar ==
    \A t \in Tid : \A l \in Letters :
        params[t].counters[l] = Cardinality(Within(params[t].text_pointer, pos[t], l))

\* Main has added up the chunks before the i-th.
Gathered ==
    /\ pc \in {"args", "load", "split", "create", "join"} => result_counters = Zero
    /\ pc = "gather" => \A l \in Letters : result_counters[l] = Cardinality(Within(0, i * chunk_size, l))

IInv ==
    /\ Len(text) \in Nat
    /\ TypeOK
    /\ Phases
    /\ Chunks
    /\ Positions
    /\ CountedSoFar
    /\ Gathered
    /\ CountsRight
-----------------------------------------------------------------------------
(* Arithmetic of the split, and what a chunk adds to a count *)

\* The chunks and the rest make up the text.
LEMMA Division ==
    ASSUME NEW n \in Nat, NEW d \in Nat \ {0}
    PROVE  /\ n \div d \in Nat
           /\ n % d \in Nat
           /\ n = d * (n \div d) + (n % d)
  OBVIOUS

\* Every chunk ends within the text, and the last one at its end.
LEMMA ChunkWithin ==
    ASSUME NEW n \in Nat, NEW d \in Nat \ {0}, NEW t \in 0..d - 1
    PROVE  /\ t * (n \div d) \in Nat
           /\ (t + 1) * (n \div d) = t * (n \div d) + (n \div d)
           /\ t * (n \div d) + (n \div d) <= n
           /\ t = d - 1 => t * (n \div d) + (n \div d) + (n % d) = n
  <1> DEFINE c == n \div d
             r == n % d
  <1>1. c \in Nat /\ r \in Nat /\ n = d * c + r
    BY Division
  <1> HIDE DEF c, r
  <1>2. (t + 1) * c = t * c + c /\ t * c \in Nat
    BY <1>1
  <1>3. (t + 1) * c <= d * c
    <2>1. PICK e \in Nat : d = (t + 1) + e
      <3>1. d - (t + 1) \in Nat /\ d = (t + 1) + (d - (t + 1))
        OBVIOUS
      <3> QED BY <3>1
    <2>2. d * c = (t + 1) * c + e * c /\ e * c \in Nat /\ (t + 1) * c \in Nat
      BY <2>1, <1>1
    <2> QED BY <2>2
  <1>4. t * c + c <= n
    BY <1>1, <1>2, <1>3
  <1>5. t = d - 1 => t * c + c + r = n
    <2>1. t = d - 1 => d * c = (t + 1) * c
      BY <1>1
    <2> QED BY <1>1, <1>2, <2>1
  <1> QED BY <1>2, <1>4, <1>5 DEF c, r

\* Occurrences are finitely many.
LEMMA WithinFinite ==
    ASSUME NEW a \in Nat, NEW n \in Nat, NEW l
    PROVE  IsFiniteSet(Within(a, n, l)) /\ Cardinality(Within(a, n, l)) \in Nat
  <1>1. IsFiniteSet(a + 1..a + n)
    BY FS_Interval
  <1>2. IsFiniteSet(Within(a, n, l))
    BY <1>1, FS_Subset DEF Within
  <1> QED BY <1>2, FS_CardinalityType

\* Nothing lies within nothing.
LEMMA WithinNone ==
    ASSUME NEW a \in Nat, NEW l
    PROVE  Cardinality(Within(a, 0, l)) = 0
  <1>1. Within(a, 0, l) = {}
    BY DEF Within
  <1> QED BY <1>1, FS_EmptySet

\* One more character counts one more, if it is counted.
LEMMA WithinStep ==
    ASSUME NEW a \in Nat, NEW n \in Nat, NEW l
    PROVE  Cardinality(Within(a, n + 1, l)) =
               Cardinality(Within(a, n, l)) + (IF CountedAs(a + n + 1, l) THEN 1 ELSE 0)
  <1>1. CASE CountedAs(a + n + 1, l)
    <2>1. Within(a, n + 1, l) = Within(a, n, l) \union {a + n + 1}
      BY <1>1 DEF Within
    <2>2. a + n + 1 \notin Within(a, n, l)
      BY DEF Within
    <2> QED BY <1>1, <2>1, <2>2, WithinFinite, FS_AddElement
  <1>2. CASE ~CountedAs(a + n + 1, l)
    <2>1. Within(a, n + 1, l) = Within(a, n, l)
      BY <1>2 DEF Within
    <2> QED BY <1>2, <2>1, WithinFinite
  <1> QED BY <1>1, <1>2

\* Two adjacent stretches add up.
LEMMA WithinJoin ==
    ASSUME NEW a \in Nat, NEW n \in Nat, NEW l
    PROVE  Cardinality(Within(0, a + n, l)) = Cardinality(Within(0, a, l)) + Cardinality(Within(a, n, l))
  <1> DEFINE S == Within(0, a, l)
             T == Within(a, n, l)
  <1>1. Within(0, a + n, l) = S \union T
    BY DEF Within
  <1>2. S \intersect T = {}
    BY DEF Within
  <1>3. IsFiniteSet(S) /\ IsFiniteSet(T) /\ Cardinality(S) \in Nat /\ Cardinality(T) \in Nat
    BY WithinFinite
  <1> HIDE DEF S, T
  <1>4. Cardinality(S \union T) = Cardinality(S) + Cardinality(T) - Cardinality(S \intersect T)
    BY <1>3, FS_Union
  <1>5. Cardinality(S \intersect T) = 0
    BY <1>2, FS_EmptySet
  <1>6. Cardinality(S \union T) = Cardinality(S) + Cardinality(T)
    BY <1>3, <1>4, <1>5
  <1> QED BY <1>1, <1>6 DEF S, T
-----------------------------------------------------------------------------
(* The invariant *)

\* It holds of the initial state.
LEMMA InitInv == Init => IInv
  <1> SUFFICES ASSUME Init PROVE IInv
    OBVIOUS
  <1> USE LetterCountAssumption
  <1>1. Len(text) \in Nat /\ Len(text) = 0
    BY DEF Init
  <1>2. TypeOK
    BY <1>1 DEF Init, TypeOK, Tid, Zero
  <1>3. Phases /\ Chunks /\ Positions /\ Gathered /\ CountsRight
    BY DEF Init, Phases, Chunks, Positions, Gathered, CountsRight
  <1>4. CountedSoFar
    <2> SUFFICES ASSUME NEW t \in Tid, NEW l \in Letters
                 PROVE  params[t].counters[l] = Cardinality(Within(params[t].text_pointer, pos[t], l))
      BY DEF CountedSoFar
    <2>1. params[t].counters[l] = 0 /\ params[t].text_pointer = 0 /\ pos[t] = 0
      BY DEF Init, Zero
    <2> QED BY <2>1, WithinNone
  <1> QED BY <1>1, <1>2, <1>3, <1>4 DEF IInv

\* A step that leaves the text and the work of the threads alone leaves the
\* counts of the threads right.
LEMMA CountsStay ==
    ASSUME CountedSoFar, UNCHANGED <<text, params, pos>>
    PROVE  CountedSoFar'
  BY DEF CountedSoFar, Within, CountedAs

\* Reading the file: no thread is there yet.
LEMMA LoadInv == IInv /\ buffer_from_file => IInv'
  <1> SUFFICES ASSUME IInv, buffer_from_file PROVE IInv'
    OBVIOUS
  <1> USE LetterCountAssumption
  <1>1. PICK f \in Files : text' = [k \in 1..strlen(f) |-> f[k]]
    BY DEF buffer_from_file
  <1>2. strlen(f) \in Nat
    <2>1. IsFiniteSet(1..Len(f))
      BY FS_Interval
    <2>2. IsFiniteSet({k \in 1..Len(f) : \A j \in 1..k : f[j] # "NUL"})
      BY <2>1, FS_Subset
    <2> QED BY <2>2, FS_CardinalityType DEF strlen
  <1>3. Len(text') \in Nat
    BY <1>1, <1>2
  <1>4. TypeOK'
    <2>1. \A t \in Tid : params'[t].text_pointer + params'[t].size <= Len(text)'
      <3> SUFFICES ASSUME NEW t \in Tid
                   PROVE  params'[t].text_pointer + params'[t].size <= Len(text)'
        OBVIOUS
      <3>1. params'[t].text_pointer = 0 /\ params'[t].size = 0
        BY DEF IInv, Chunks, buffer_from_file
      <3>2. Len(text)' \in Nat
        BY <1>3
      <3> QED BY <3>1, <3>2
    <2> QED BY <2>1 DEF IInv, TypeOK, buffer_from_file
  <1>5. Phases' /\ Chunks' /\ Positions' /\ Gathered' /\ CountsRight'
    BY DEF IInv, Phases, Chunks, Positions, Gathered, CountsRight, buffer_from_file
  <1>6. CountedSoFar'
    <2> SUFFICES ASSUME NEW t \in Tid, NEW l \in Letters
                 PROVE  (params[t].counters[l] = Cardinality(Within(params[t].text_pointer, pos[t], l)))'
      BY DEF CountedSoFar
    <2>1. params[t].text_pointer = 0 /\ pos[t] = 0 /\ params' = params /\ pos' = pos
      BY DEF IInv, Phases, Positions, Chunks, buffer_from_file
    <2>2. params[t].counters[l] = 0
      BY <2>1, WithinNone DEF IInv, CountedSoFar
    <2>3. Within(params[t].text_pointer, pos[t], l)' = {}
      BY <2>1 DEF Within
    <2> QED BY <2>1, <2>2, <2>3, FS_EmptySet
  <1> QED BY <1>3, <1>4, <1>5, <1>6 DEF IInv

\* The split: the chunks lie within the text.
LEMMA SplitInv == IInv /\ Split => IInv'
  <1> SUFFICES ASSUME IInv, Split PROVE IInv'
    OBVIOUS
  <1> USE LetterCountAssumption
  <1> DEFINE n == Len(text)
  <1>1. n \in Nat /\ thread_num \in 1..MAX_THREAD_NUM /\ thread_num \in Nat \ {0} /\ n' = n
    BY DEF IInv, TypeOK, Split
  <1>2. chunk_size \in Nat /\ leftovers \in Nat
    BY <1>1, Division DEF chunk_size, leftovers
  <1>3. ASSUME NEW t \in Tid, t < thread_num
        PROVE  /\ t * chunk_size \in Nat
               /\ SizeOf(t) \in Nat
               /\ t * chunk_size + SizeOf(t) <= n
    <2>1. t \in 0..thread_num - 1
      BY <1>1, <1>3 DEF Tid
    <2>2. /\ t * chunk_size \in Nat
          /\ t * chunk_size + chunk_size <= n
          /\ t = thread_num - 1 => t * chunk_size + chunk_size + leftovers = n
      BY <1>1, <2>1, ChunkWithin DEF chunk_size, leftovers
    <2>3. CASE t = thread_num - 1
      BY <2>2, <2>3, <1>2, <1>1 DEF SizeOf
    <2>4. CASE t # thread_num - 1
      BY <2>2, <2>4, <1>2, <1>1 DEF SizeOf
    <2> QED BY <2>3, <2>4
  <1>4. ASSUME NEW t \in Tid
        PROVE  /\ params'[t] \in [text_pointer : Nat, size : Nat, counters : [Letters -> Nat]]
               /\ pos'[t] = 0 /\ thr'[t] = "none"
               /\ params'[t].text_pointer + params'[t].size <= n
               /\ \A l \in Letters : params'[t].counters[l] = 0
    <2>1. pos[t] = 0 /\ thr[t] = "none"
      BY DEF IInv, Phases, Positions, Split
    <2>3. params[t].text_pointer = 0 /\ params[t].size = 0
      BY DEF IInv, Chunks, Split
    <2>2. \A l \in Letters : params[t].counters[l] = 0
      <3> SUFFICES ASSUME NEW l \in Letters PROVE params[t].counters[l] = 0
        OBVIOUS
      <3>1. params[t].counters[l] = Cardinality(Within(params[t].text_pointer, pos[t], l))
        BY DEF IInv, CountedSoFar
      <3>2. Cardinality(Within(0, 0, l)) = 0
        BY WithinNone
      <3> QED BY <2>1, <2>3, <3>1, <3>2
    <2>4. CASE t < thread_num
      <3>1. params'[t] = [text_pointer |-> t * chunk_size, size |-> SizeOf(t), counters |-> Zero]
        BY <2>4 DEF Split
      <3> HIDE DEF n
      <3> QED BY <3>1, <2>1, <2>4, <1>3 DEF Split, Zero
    <2>5. CASE ~(t < thread_num)
      <3>1. params'[t] = params[t]
        BY <2>5 DEF Split
      <3> QED BY <3>1, <2>1, <2>2, <2>3, <1>1 DEF Split, IInv, TypeOK
    <2> QED BY <2>4, <2>5
  <1>5. TypeOK'
    <2>1. params' \in [Tid -> [text_pointer : Nat, size : Nat, counters : [Letters -> Nat]]]
      BY <1>4 DEF Split
    <2>2. \A t \in Tid : pos'[t] <= params'[t].size /\ params'[t].text_pointer + params'[t].size <= Len(text)'
      <3> SUFFICES ASSUME NEW t \in Tid
                   PROVE  pos'[t] <= params'[t].size /\ params'[t].text_pointer + params'[t].size <= Len(text)'
        OBVIOUS
      <3>1. params'[t].size \in Nat
        BY <2>1
      <3> QED BY <3>1, <1>4, <1>1
    <2>3. i' \in Tid
      BY DEF Split, Tid
    <2> QED BY <2>1, <2>2, <2>3 DEF Split, IInv, TypeOK
  <1>6. Phases'
    <2>1. \A t \in Tid : thr'[t] = "none"
      BY <1>4
    <2>2. /\ pc' = "create" /\ i' = 0 /\ thread_num' = thread_num /\ thread_num > 0
          /\ {"text", "params", "threads"} \subseteq allocated'
      BY <1>1 DEF Split, IInv, Phases
    <2> QED BY <2>1, <2>2 DEF Phases
  <1>7. Chunks'
    BY DEF Chunks, Split, SizeOf, chunk_size, leftovers
  <1>8. Positions'
    BY <1>4 DEF Positions
  <1>9. Gathered' /\ CountsRight'
    BY DEF IInv, Gathered, CountsRight, Split
  <1>10. CountedSoFar'
    <2> SUFFICES ASSUME NEW t \in Tid, NEW l \in Letters
                 PROVE  (params[t].counters[l] = Cardinality(Within(params[t].text_pointer, pos[t], l)))'
      BY DEF CountedSoFar
    <2>1. params'[t].text_pointer \in Nat /\ pos'[t] = 0 /\ params'[t].counters[l] = 0
      BY <1>4
    <2>2. Within(params[t].text_pointer, pos[t], l)' = {}
      BY <2>1 DEF Within
    <2> QED BY <2>1, <2>2, FS_EmptySet
  <1> QED BY <1>1, <1>5, <1>6, <1>7, <1>8, <1>9, <1>10 DEF IInv

\* The steps of main that touch neither the text nor what the threads work on.
LEMMA MainInv ==
    IInv /\ (CheckArgs \/ LoadFails \/ Create \/ Join \/ Free) => IInv'
  <1> SUFFICES ASSUME IInv, CheckArgs \/ LoadFails \/ Create \/ Join \/ Free PROVE IInv'
    OBVIOUS
  <1> USE LetterCountAssumption
  <1>1. UNCHANGED <<text, params, pos, result_counters>>
    BY DEF CheckArgs, LoadFails, Create, Join, Free
  <1>2. CountedSoFar'
    BY <1>1, CountsStay DEF IInv
  <1>3. Len(text)' \in Nat
    BY <1>1 DEF IInv
  <1>a. i \in Tid /\ thread_num \in Int /\ \A t \in Tid : t \in Int
    BY DEF IInv, TypeOK, Tid
  <1>b. pc \in {"create", "join"} => thread_num \in 1..MAX_THREAD_NUM /\ i < thread_num
    BY DEF IInv, TypeOK, Phases
  <1>4. CASE CheckArgs
    <2>1. TypeOK'
      BY <1>4 DEF IInv, TypeOK, CheckArgs
    <2>2. Phases' /\ Chunks' /\ Positions' /\ Gathered' /\ CountsRight'
      BY <1>4 DEF IInv, Phases, Chunks, Positions, Gathered, CountsRight, CheckArgs
    <2> QED BY <2>1, <2>2, <1>2, <1>3 DEF IInv
  <1>5. CASE LoadFails
    <2>1. TypeOK'
      BY <1>5 DEF IInv, TypeOK, LoadFails
    <2>2. Phases' /\ Chunks' /\ Positions' /\ Gathered' /\ CountsRight'
      BY <1>5 DEF IInv, Phases, Chunks, Positions, Gathered, CountsRight, LoadFails
    <2> QED BY <2>1, <2>2, <1>2, <1>3 DEF IInv
  <1>6. CASE Create
    <2>1. TypeOK'
      <3>1. i' \in Tid /\ pc' \in {"create", "join", "gather"}
        BY <1>6, <1>a, <1>b DEF Create, Turn, Tid
      <3>2. thr' \in [Tid -> {"none", "run", "exited", "joined"}]
        BY <1>6, <1>a DEF IInv, TypeOK, Create
      <3>3. thread_num' \in 1..MAX_THREAD_NUM /\ thread_num' \in Int
        BY <1>6, <1>b DEF Create
      <3> QED BY <3>1, <3>2, <3>3, <1>6 DEF IInv, TypeOK, Create
    <2>2. Phases'
      <3>1. CASE i + 1 < thread_num
        <4>1. pc' = "create" /\ i' = i + 1 /\ thread_num' = thread_num /\ allocated' = allocated
          BY <1>6, <3>1 DEF Create, Turn
        <4>2. \A t \in Tid : t # i => thr'[t] = thr[t]
          BY <1>6 DEF Create, IInv, TypeOK
        <4>3. \A t \in Tid : (t >= i => thr[t] = "none") /\ (t >= thread_num => thr[t] = "none")
          BY <1>6 DEF Create, IInv, Phases
        <4>4. \A t \in Tid : (t >= i' => thr'[t] = "none") /\ (t >= thread_num => thr'[t] = "none")
          BY <4>1, <4>2, <4>3, <3>1, <1>a DEF Tid
        <4> QED BY <4>1, <4>4, <3>1, <1>6 DEF IInv, Phases, Create
      <3>2. CASE ~(i + 1 < thread_num)
        <4>1. pc' = "join" /\ i' = 0 /\ thread_num' = thread_num /\ allocated' = allocated
          BY <1>6, <3>2 DEF Create, Turn
        <4>2. \A t \in Tid : t # i => thr'[t] = thr[t]
          BY <1>6 DEF Create, IInv, TypeOK
        <4>3. \A t \in Tid : t >= thread_num => thr'[t] = "none"
          BY <1>6, <1>a, <1>b, <4>2 DEF Create, IInv, Phases, Tid
        <4>4. \A t \in Tid : ~(t < i')
          BY <4>1 DEF Tid
        <4>5. i' < thread_num'
          BY <4>1, <1>6, <1>b DEF Create
        <4> QED BY <4>1, <4>3, <4>4, <4>5, <1>6 DEF IInv, Phases, Create
      <3> QED BY <3>1, <3>2
    <2>3. Chunks'
      BY <1>6 DEF IInv, Chunks, Create, Turn, SizeOf, chunk_size, leftovers
    <2>4. Positions'
      BY <1>6 DEF IInv, TypeOK, Positions, Create
    <2>5. Gathered' /\ CountsRight'
      BY <1>6 DEF IInv, Gathered, CountsRight, Create, Turn
    <2> QED BY <2>1, <2>2, <2>3, <2>4, <2>5, <1>2, <1>3 DEF IInv
  <1>7. CASE Join
    <2>1. TypeOK'
      <3>1. i' \in Tid /\ pc' \in {"create", "join", "gather"}
        BY <1>7, <1>a, <1>b DEF Join, Turn, Tid
      <3>2. thr' \in [Tid -> {"none", "run", "exited", "joined"}]
        BY <1>7, <1>a DEF IInv, TypeOK, Join
      <3>3. thread_num' \in 1..MAX_THREAD_NUM /\ thread_num' \in Int
        BY <1>7, <1>b DEF Join
      <3> QED BY <3>1, <3>2, <3>3, <1>7 DEF IInv, TypeOK, Join
    <2>2. Phases'
      <3>a. /\ \A t \in Tid : t # i => thr'[t] = thr[t]
            /\ thr'[i] = "joined"
        BY <1>7, <1>a DEF Join, IInv, TypeOK
      <3>3. \A t \in Tid : t >= thread_num => thr'[t] = "none"
        BY <1>7, <1>a, <1>b, <3>a DEF Join, IInv, Phases, Tid
      <3>4. \A t \in Tid : t < i + 1 => thr'[t] = "joined"
        BY <1>7, <1>a, <3>a DEF Join, IInv, Phases, Tid
      <3>1. CASE i + 1 < thread_num
        <4>1. pc' = "join" /\ i' = i + 1 /\ thread_num' = thread_num /\ allocated' = allocated
          BY <1>7, <3>1 DEF Join, Turn
        <4> QED BY <4>1, <3>3, <3>4, <3>1, <1>7 DEF IInv, Phases, Join
      <3>2. CASE ~(i + 1 < thread_num)
        <4>1. pc' = "gather" /\ i' = 0 /\ thread_num' = thread_num /\ allocated' = allocated
          BY <1>7, <3>2 DEF Join, Turn
        <4>2. \A t \in Tid : t < thread_num => thr'[t] = "joined"
          BY <3>2, <3>4, <1>a
        <4>5. i' < thread_num'
          BY <4>1, <1>7, <1>b DEF Join
        <4> QED BY <4>1, <4>2, <4>5, <3>3, <1>7 DEF IInv, Phases, Join
      <3> QED BY <3>1, <3>2
    <2>3. Chunks'
      BY <1>7 DEF IInv, Chunks, Join, Turn, SizeOf, chunk_size, leftovers
    <2>4. Positions'
      BY <1>7 DEF IInv, TypeOK, Positions, Join
    <2>5. Gathered' /\ CountsRight'
      <3>1. pc' \in {"join", "gather"} /\ result_counters' = Zero
        BY <1>7 DEF IInv, Gathered, Join, Turn
      <3>2. CountsRight'
        BY <3>1 DEF CountsRight
      <3>3. ASSUME pc' = "gather", NEW l \in Letters
            PROVE  (result_counters[l] = Cardinality(Within(0, i * chunk_size, l)))'
        <4>1. i' = 0 /\ chunk_size' \in Nat
          <5>1. i' = 0
            BY <1>7, <3>3 DEF Join, Turn
          <5>2. Len(text)' \in Nat /\ thread_num' \in Nat \ {0}
            BY <1>7, <1>3, <2>1 DEF TypeOK, Join, Turn
          <5>3. chunk_size' \in Nat
            BY <5>2, Division DEF chunk_size
          <5> QED BY <5>1, <5>3
        <4>2. \A x \in Nat : 0 * x = 0
          OBVIOUS
        <4>3. (i * chunk_size)' = 0
          BY <4>1, <4>2, Zenon
        <4>4. Within(0, i * chunk_size, l)' = {}
          BY <4>3 DEF Within
        <4> QED BY <3>1, <4>4, FS_EmptySet DEF Zero
      <3> QED BY <3>1, <3>2, <3>3 DEF Gathered
    <2> QED BY <2>1, <2>2, <2>3, <2>4, <2>5, <1>2, <1>3 DEF IInv
  <1>8. CASE Free
    <2>1. TypeOK'
      BY <1>8 DEF IInv, TypeOK, Free
    <2>2. Phases' /\ Chunks' /\ Positions' /\ Gathered'
      BY <1>8 DEF IInv, Phases, Chunks, Positions, Gathered, Free, SizeOf, chunk_size, leftovers
    <2>3. CountsRight'
      BY <1>8 DEF IInv, CountsRight, Free, Occurrences, CountedAs
    <2> QED BY <2>1, <2>2, <2>3, <1>2, <1>3 DEF IInv
  <1> QED BY <1>4, <1>5, <1>6, <1>7, <1>8

\* Gathering: the chunk at hand follows those already added up.
LEMMA GatherInv == IInv /\ Gather => IInv'
  <1> SUFFICES ASSUME IInv, Gather PROVE IInv'
    OBVIOUS
  <1> USE LetterCountAssumption
  <1>1. UNCHANGED <<thread_num, text, params, thr, pos, allocated>> /\ pc = "gather"
    BY DEF Gather
  <1>2. CountedSoFar'
    BY <1>1, CountsStay DEF IInv
  <1>3. /\ Len(text) \in Nat /\ thread_num \in Nat \ {0} /\ thread_num \in 1..MAX_THREAD_NUM
        /\ i \in Tid /\ i \in Nat /\ i < thread_num /\ i \in 0..thread_num - 1
    BY <1>1 DEF IInv, TypeOK, Phases, Tid
  <1>4. i' \in Tid /\ pc' \in {"gather", "free"}
    BY <1>1, <1>3 DEF Gather, Turn, Tid
  <1>5. chunk_size \in Nat /\ leftovers \in Nat
    BY <1>3, Division DEF chunk_size, leftovers
  <1>6. /\ i * chunk_size \in Nat
        /\ (i + 1) * chunk_size = i * chunk_size + chunk_size
        /\ i = thread_num - 1 => i * chunk_size + chunk_size + leftovers = Len(text)
    BY <1>3, ChunkWithin DEF chunk_size, leftovers
  <1>7. /\ params[i].text_pointer = i * chunk_size
        /\ params[i].size = SizeOf(i) /\ SizeOf(i) \in Nat
        /\ pos[i] = SizeOf(i)
    <2>1. params[i].text_pointer = i * chunk_size /\ params[i].size = SizeOf(i) /\ thr[i] = "joined"
      BY <1>1, <1>3 DEF IInv, Chunks, Phases
    <2>2. pos[i] = params[i].size /\ params[i].size \in Nat
      BY <2>1, <1>3 DEF IInv, Positions, TypeOK
    <2> QED BY <2>1, <2>2
  <1>8. ASSUME NEW l \in Letters
        PROVE  result_counters'[l] = Cardinality(Within(0, i * chunk_size + SizeOf(i), l))
    <2>1. result_counters[l] = Cardinality(Within(0, i * chunk_size, l))
      BY <1>1 DEF IInv, Gathered
    <2>2. params[i].counters[l] = Cardinality(Within(i * chunk_size, SizeOf(i), l))
      BY <1>3, <1>7 DEF IInv, CountedSoFar
    <2>3. result_counters'[l] = result_counters[l] + params[i].counters[l]
      BY DEF Gather
    <2> QED BY <2>1, <2>2, <2>3, <1>6, <1>7, WithinJoin
  <1>9. TypeOK'
    <2>1. result_counters' \in [Letters -> Nat]
      BY <1>3 DEF Gather, IInv, TypeOK
    <2> QED BY <2>1, <1>1, <1>3, <1>4 DEF IInv, TypeOK
  <1>10. Chunks' /\ Positions'
    BY <1>1, <1>4 DEF IInv, Chunks, Positions, SizeOf, chunk_size, leftovers
  <1>11. Phases' /\ Gathered' /\ CountsRight'
    <2>1. CASE i + 1 < thread_num
      <3>1. pc' = "gather" /\ i' = i + 1 /\ chunk_size' = chunk_size
        BY <1>1, <2>1 DEF Gather, Turn, chunk_size
      <3>2. SizeOf(i) = chunk_size /\ (i + 1) * chunk_size = i * chunk_size + SizeOf(i)
        BY <2>1, <1>3, <1>6 DEF SizeOf
      <3>3. Phases'
        BY <3>1, <1>1, <2>1 DEF IInv, Phases
      <3>4. \A l \in Letters : (result_counters[l] = Cardinality(Within(0, i * chunk_size, l)))'
        <4> SUFFICES ASSUME NEW l \in Letters
                     PROVE  (result_counters[l] = Cardinality(Within(0, i * chunk_size, l)))'
          OBVIOUS
        <4>1. (i * chunk_size)' = i * chunk_size + SizeOf(i)
          BY <3>1, <3>2, Zenon
        <4>2. Within(0, i * chunk_size, l)' = Within(0, i * chunk_size + SizeOf(i), l)
          BY <4>1, <1>1 DEF Within, CountedAs
        <4> QED BY <4>2, <1>8
      <3> QED BY <3>1, <3>3, <3>4 DEF Gathered, CountsRight
    <2>2. CASE ~(i + 1 < thread_num)
      <3>1. pc' = "free"
        BY <1>1, <2>2 DEF Gather, Turn
      <3>2. i * chunk_size + SizeOf(i) = Len(text)
        <4>1. i = thread_num - 1
          BY <1>3, <2>2
        <4>2. SizeOf(i) = chunk_size + leftovers
          BY <4>1 DEF SizeOf
        <4> QED BY <4>1, <4>2, <1>5, <1>6
      <3>3. Phases' /\ Gathered'
        BY <3>1, <1>1 DEF IInv, Phases, Gathered
      <3>4. ASSUME NEW l \in Letters
            PROVE  (result_counters[l] = Cardinality(Occurrences(Len(text), l)))'
        <4>1. Occurrences(Len(text), l)' = Within(0, Len(text), l)
          BY <1>1, <1>3 DEF Occurrences, Within, CountedAs
        <4> QED BY <4>1, <3>2, <1>8
      <3> QED BY <3>3, <3>4 DEF CountsRight
    <2> QED BY <2>1, <2>2
  <1> QED BY <1>1, <1>2, <1>9, <1>10, <1>11 DEF IInv

\* A step of a thread.
LEMMA ThreadInv == \A t \in Tid : IInv /\ ThreadStep(t) => IInv'
  <1> SUFFICES ASSUME NEW u \in Tid, IInv, ThreadStep(u) PROVE IInv'
    OBVIOUS
  <1> USE LetterCountAssumption
  <1>1. UNCHANGED threadUnchanged /\ thr[u] = "run"
    BY DEF ThreadStep, count_letters, ThreadReturn
  <1>2. UNCHANGED <<pc, i, thread_num, text, result_counters, allocated>>
    BY <1>1 DEF threadUnchanged
  <1>3. Gathered' /\ CountsRight' /\ Len(text)' \in Nat
    BY <1>2 DEF IInv, Gathered, CountsRight, Occurrences, Within, CountedAs, chunk_size
  <1>4. CASE ThreadReturn(u)
    <2>1. UNCHANGED <<params, pos>> /\ pos[u] >= params[u].size
      BY <1>4 DEF ThreadReturn
    <2>2. /\ thr'[u] = "exited" /\ \A t \in Tid : t # u => thr'[t] = thr[t]
          /\ thr' \in [Tid -> {"none", "run", "exited", "joined"}]
      BY <1>4 DEF ThreadReturn, IInv, TypeOK
    <2>3. TypeOK'
      BY <1>2, <2>1, <2>2 DEF IInv, TypeOK
    <2>4. Phases'
      BY <1>1, <1>2, <2>2 DEF IInv, Phases
    <2>5. Chunks'
      BY <1>2, <2>1 DEF IInv, Chunks, SizeOf, chunk_size, leftovers
    <2>6. Positions'
      <3>1. pos[u] = params[u].size
        BY <2>1 DEF IInv, TypeOK
      <3> QED BY <3>1, <2>1, <2>2 DEF IInv, Positions
    <2>7. CountedSoFar'
      BY <1>2, <2>1, CountsStay DEF IInv
    <2> QED BY <1>3, <2>3, <2>4, <2>5, <2>6, <2>7 DEF IInv
  <1>5. CASE count_letters(u)
    <2>1. pos[u] < params[u].size /\ UNCHANGED thr
      BY <1>5 DEF count_letters
    <2>2. /\ pos' = [pos EXCEPT ![u] = pos[u] + 1]
          /\ params' = [params EXCEPT ![u].counters =
                           [l \in Letters |-> params[u].counters[l] + (IF Counted(u, l) THEN 1 ELSE 0)]]
      BY <1>5 DEF count_letters
    <2>3. ASSUME NEW t \in Tid
          PROVE  params'[t].text_pointer = params[t].text_pointer /\ params'[t].size = params[t].size
      BY <2>2 DEF IInv, TypeOK
    <2>4. pos'[u] = pos[u] + 1 /\ \A t \in Tid : t # u => pos'[t] = pos[t] /\ params'[t] = params[t]
      BY <2>2 DEF IInv, TypeOK
    <2>5. \A l \in Letters : params'[u].counters[l] = params[u].counters[l] + (IF Counted(u, l) THEN 1 ELSE 0)
      BY <2>2 DEF IInv, TypeOK
    <2>6. TypeOK'
      <3>1. pos' \in [Tid -> Nat]
        BY <2>2 DEF IInv, TypeOK
      <3>2. params' \in [Tid -> [text_pointer : Nat, size : Nat, counters : [Letters -> Nat]]]
        <4> DEFINE R == [text_pointer : Nat, size : Nat, counters : [Letters -> Nat]]
                   c == [l \in Letters |-> params[u].counters[l] + (IF Counted(u, l) THEN 1 ELSE 0)]
        <4>1. params \in [Tid -> R]
          BY DEF IInv, TypeOK
        <4>2. params[u] \in R /\ params[u].counters \in [Letters -> Nat]
          BY <4>1
        <4>3. c \in [Letters -> Nat]
          BY <4>2
        <4>4. params' = [params EXCEPT ![u].counters = c]
          BY <2>2
        <4> HIDE DEF c
        <4>5. [params[u] EXCEPT !.counters = c] \in R
          BY <4>2, <4>3
        <4>6. params' = [params EXCEPT ![u] = [params[u] EXCEPT !.counters = c]]
          BY <4>4, <4>1
        <4> HIDE DEF R
        <4>7. params' \in [Tid -> R]
          BY <4>1, <4>5, <4>6
        <4> QED BY <4>7 DEF R
      <3>3. \A t \in Tid : pos'[t] <= params'[t].size
        <4> SUFFICES ASSUME NEW t \in Tid PROVE pos'[t] <= params'[t].size
          OBVIOUS
        <4>1. pos[t] \in Nat /\ params[t].size \in Nat /\ pos[t] <= params[t].size
          BY DEF IInv, TypeOK
        <4> QED BY <4>1, <2>1, <2>3, <2>4
      <3> QED BY <1>2, <2>1, <2>3, <3>1, <3>2, <3>3 DEF IInv, TypeOK
    <2>7. Phases'
      BY <1>2, <2>1 DEF IInv, Phases
    <2>8. Chunks'
      BY <1>2, <2>3 DEF IInv, Chunks, SizeOf, chunk_size, leftovers
    <2>9. Positions'
      BY <1>1, <2>1, <2>3, <2>4 DEF IInv, Positions
    <2>10. CountedSoFar'
      <3> SUFFICES ASSUME NEW t \in Tid, NEW l \in Letters
                   PROVE  (params[t].counters[l] = Cardinality(Within(params[t].text_pointer, pos[t], l)))'
        BY DEF CountedSoFar
      <3>1. params[t].counters[l] = Cardinality(Within(params[t].text_pointer, pos[t], l))
        BY DEF IInv, CountedSoFar
      <3>2. params[t].text_pointer \in Nat /\ pos[t] \in Nat
        BY DEF IInv, TypeOK
      <3>3. CASE t = u
        <4>1. Cardinality(Within(params[t].text_pointer, pos[t] + 1, l)) =
                  Cardinality(Within(params[t].text_pointer, pos[t], l)) + (IF Counted(t, l) THEN 1 ELSE 0)
          BY <3>2, WithinStep DEF Counted
        <4>2. Within(params[t].text_pointer, pos[t], l)' = Within(params[t].text_pointer, pos[t] + 1, l)
          BY <1>2, <2>3, <2>4, <3>3 DEF Within, CountedAs
        <4> QED BY <4>1, <4>2, <3>1, <3>3, <2>5
      <3>4. CASE t # u
        <4>1. Within(params[t].text_pointer, pos[t], l)' = Within(params[t].text_pointer, pos[t], l)
          BY <1>2, <2>4, <3>4 DEF Within, CountedAs
        <4> QED BY <4>1, <3>1, <3>4, <2>4
      <3> QED BY <3>3, <3>4
    <2> QED BY <1>3, <2>6, <2>7, <2>8, <2>9, <2>10 DEF IInv
  <1> QED BY <1>4, <1>5 DEF ThreadStep

\* A stuttering step.
LEMMA StutterInv == IInv /\ UNCHANGED vars => IInv'
  <1> SUFFICES ASSUME IInv, UNCHANGED vars PROVE IInv'
    OBVIOUS
  <1>1. UNCHANGED <<pc, i, thread_num, text, params, thr, pos, result_counters, allocated>>
    BY DEF vars
  <1>2. Len(text)' \in Nat /\ TypeOK' /\ Phases' /\ Positions'
    BY <1>1 DEF IInv, TypeOK, Phases, Positions
  <1>3. Chunks' /\ Gathered' /\ CountsRight'
    BY <1>1 DEF IInv, Chunks, Gathered, CountsRight, SizeOf, chunk_size, leftovers, Occurrences, Within, CountedAs
  <1> QED BY <1>1, <1>2, <1>3, CountsStay DEF IInv

\* The invariant holds always: chunks, positions and counts agree at every
\* point of every interleaving (threads.c:30-40, 142-207).
THEOREM Invariance == Spec => []IInv
  <1>1. IInv /\ [Next]_vars => IInv'
    <2> SUFFICES ASSUME IInv, [Next]_vars PROVE IInv'
      OBVIOUS
    <2>1. CASE MainStep
      BY <2>1, LoadInv, SplitInv, MainInv, GatherInv DEF MainStep
    <2>2. CASE \E t \in Tid : ThreadStep(t)
      BY <2>2, ThreadInv
    <2>3. CASE UNCHANGED vars
      BY <2>3, StutterInv
    <2> QED BY <2>1, <2>2, <2>3 DEF Next
  <1> QED BY InitInv, <1>1, PTL DEF Spec

\* For every text and every number of threads, a thread stays within its
\* chunk and the chunk within the text (threads.c:33-34, 158-160).
THEOREM LetterCountTypeCorrect == Spec => []TypeOK
  <1>1. IInv => TypeOK
    BY DEF IInv
  <1> QED BY <1>1, Invariance, PTL

\* No thread runs on buffers that main has freed (threads.c:185-207).
THEOREM NoUseAfterFree == Spec => []BuffersLive
  <1>1. IInv => BuffersLive
    <2> SUFFICES ASSUME IInv, NEW t \in Tid, thr[t] \in {"run", "exited"}
                 PROVE  {"text", "params", "threads"} \subseteq allocated
      BY DEF BuffersLive
    <2>1. t \in Int /\ thread_num \in Int
      BY DEF IInv, TypeOK, Tid
    <2>2. pc \in {"create", "join"}
      BY <2>1 DEF IInv, TypeOK, Phases
    <2> QED BY <2>2 DEF IInv, Phases
  <1> QED BY <1>1, Invariance, PTL

\* The counts shown are those of the text, for every text, every number of
\* threads and every interleaving (threads.c:153-193).
THEOREM CountCorrect == Spec => []CountsRight
  <1>1. IInv => CountsRight
    BY DEF IInv
  <1> QED BY <1>1, Invariance, PTL
=============================================================================
