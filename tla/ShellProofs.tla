---------------------------- MODULE ShellProofs ----------------------------
(***************************************************************************)
(* Proofs that the shell of lab 1 hands a program the words typed for it   *)
(* and waits for what it runs in the foreground, for any set of lines and  *)
(* any number of processes.                                                *)
(***************************************************************************)
EXTENDS Shell, FiniteSetTheorems, SequenceTheorems, WellFoundedInduction, NaturalsInduction, TLAPS

\* The least element of a set, when one is known.
LEMMA MinIs ==
    ASSUME NEW S \in SUBSET Nat, NEW x \in S, \A y \in S : x <= y
    PROVE  Min(S) = x
<1>1. \A z \in S : (\A y \in S : z <= y) => z = x
    OBVIOUS
<1>2. QED
    BY <1>1 DEF Min

\* A set of numbers that is not empty has a least element.
LEMMA MinExists ==
    ASSUME NEW S \in SUBSET Nat, S # {}
    PROVE  Min(S) \in S /\ \A y \in S : Min(S) <= y
<1>1. PICK x \in S : \A y \in S : ~(<<y, x>> \in OpToRel(<, Nat))
    BY NatLessThanWellFounded, WFMin
<1>2. \A y \in S : x \in Nat /\ y \in Nat /\ ~(y < x)
  <2>1. x \in Nat /\ \A y \in S : y \in Nat
    OBVIOUS
  <2>2. QED
    BY <1>1, <2>1 DEF OpToRel
<1>3. \A y \in S : x <= y
    BY <1>2
<1>4. QED
    BY <1>3, MinIs

\* A set of one element at most is empty or a singleton.
LEMMA AtMostOne ==
    ASSUME NEW S, IsFiniteSet(S), Cardinality(S) <= 1
    PROVE  S = {} \/ \E x : S = {x}
<1>1. Cardinality(S) \in Nat
    BY FS_CardinalityType
<1>2. Cardinality(S) = 0 \/ Cardinality(S) = 1
    BY <1>1
<1>3. QED
    BY <1>2, FS_EmptySet, FS_Singleton

\* A line is a sequence of words.
LEMMA LineType ==
    ASSUME NEW l \in Lines
    PROVE  /\ l \in Seq(STRING) /\ Len(l) \in Nat /\ TOKEN_NR \in Nat /\ Len(l) <= TOKEN_NR
           /\ DOMAIN l = 1..Len(l)
           /\ \A i \in 1..Len(l) : l[i] \in STRING /\ l[i] \notin {NoWord, "NULL", "?"}
<1>1. l \in Seq(STRING) /\ Len(l) <= TOKEN_NR
    BY ShellAssumption
<1>2. \A i \in DOMAIN l : l[i] \notin {NoWord, "NULL", "?"}
    BY ShellAssumption
<1>3. TOKEN_NR \in Nat
    BY ShellAssumption
<1>4. Len(l) \in Nat /\ DOMAIN l = 1..Len(l)
    BY <1>1
<1>5. \A i \in 1..Len(l) : l[i] \in STRING
    BY <1>1
<1>6. QED
    BY <1>1, <1>2, <1>3, <1>4, <1>5

\* The tokens of a line, and a mark after them.
LEMMA TokenOfLine ==
    ASSUME NEW l \in Lines, Holds(l), Len(l) < TOKEN_NR, NEW beyond, NEW i \in 0..Len(l)
    PROVE  TokenAt(i, beyond) = IF i < Len(l) THEN l[i + 1] ELSE NoWord
<1>1. Len(l) \in Nat /\ TOKEN_NR \in Nat
    BY LineType
<1>2. i \in 0..TOKEN_NR - 1
    BY <1>1
<1>3. QED
    BY <1>1, <1>2 DEF TokenAt, Holds

\* A command is the beginning of its line, up to "&" if there is one: what
\* the loop over the tokens reads of it.
LEMMA CommandOfLine ==
    ASSUME NEW l \in Lines
    PROVE  /\ Command(l) \in Seq(STRING) /\ Len(Command(l)) \in 0..Len(l)
           /\ \A i \in 1..Len(Command(l)) : Command(l)[i] = l[i] /\ l[i] \notin {NoWord, "NULL", "?", "&"}
           /\ Len(Command(l)) < Len(l) => l[Len(Command(l)) + 1] = "&"
<1> DEFINE D == {i \in DOMAIN l : l[i] = "&"}
<1>0. /\ l \in Seq(STRING) /\ Len(l) \in Nat /\ DOMAIN l = 1..Len(l)
      /\ \A i \in 1..Len(l) : l[i] \in STRING /\ l[i] \notin {NoWord, "NULL", "?"}
    BY LineType
<1>1. CASE D = {}
  <2>1. Command(l) = l
    BY <1>1 DEF Command
  <2>2. QED
    BY <1>0, <1>1, <2>1
<1>2. CASE D # {}
  <2>1. Min(D) \in D /\ \A y \in D : Min(D) <= y
    <3>1. D \in SUBSET Nat
        BY <1>0
    <3>2. QED
        BY ONLY <1>2, <3>1, MinExists
  <2>2. PICK m \in 1..Len(l) : m = Min(D)
    BY <1>0, <2>1
  <2>3. Command(l) = SubSeq(l, 1, m - 1)
    BY <1>2, <2>2 DEF Command
  <2>4. l[m] = "&" /\ \A i \in 1..m - 1 : l[i] \in STRING /\ l[i] \notin {NoWord, "NULL", "?", "&"}
    <3>1. l[m] = "&" /\ \A y \in 1..Len(l) : l[y] = "&" => m <= y
        BY <1>0, <2>1, <2>2
    <3>2. \A i \in 1..m - 1 : i \in 1..Len(l) /\ ~(m <= i)
        BY <1>0
    <3>3. QED
        BY <1>0, <3>1, <3>2
  <2>5. /\ SubSeq(l, 1, m - 1) \in Seq(STRING)
        /\ Len(SubSeq(l, 1, m - 1)) = m - 1
        /\ \A i \in 1..m - 1 : SubSeq(l, 1, m - 1)[i] = l[i]
    <3>1. m - 1 \in Int /\ \A i \in 1..m - 1 : l[i] \in STRING
        BY <1>0, <2>4
    <3>2. QED
        BY <1>0, <3>1, SubSeqProperties
  <2>6. QED
    BY ONLY <1>0, m \in 1..Len(l), <2>3, <2>4, <2>5
<1>3. QED
    BY <1>1, <1>2

\* The loop stops where the command ends.
LEMMA StopsAtEnd ==
    ASSUME NEW l \in Lines, Holds(l), Len(l) < TOKEN_NR, NEW beyond
    PROVE  Stop(beyond) = Len(Command(l))
<1> DEFINE n == Len(Command(l))
           S == {i \in 0..TOKEN_NR + 1 : TokenAt(i, beyond) \in {NoWord, "&"}}
<1>1. n \in 0..Len(l) /\ Len(l) \in Nat /\ TOKEN_NR \in Nat
    BY CommandOfLine, LineType
<1>2. TokenAt(n, beyond) \in {NoWord, "&"}
  <2>1. TokenAt(n, beyond) = IF n < Len(l) THEN l[n + 1] ELSE NoWord
    BY <1>1, TokenOfLine
  <2>2. QED
    BY <1>1, <2>1, CommandOfLine
<1>3. \A i \in 0..n - 1 : TokenAt(i, beyond) \notin {NoWord, "&"}
  <2>1. TAKE i \in 0..n - 1
  <2>2. TokenAt(i, beyond) = l[i + 1]
    BY <1>1, TokenOfLine
  <2>3. QED
    BY <1>1, <2>2, CommandOfLine
<1>4. n \in S /\ S \in SUBSET Nat
    BY <1>1, <1>2
<1>5. \A y \in S : n <= y
    BY <1>1, <1>3
<1>6. QED
    BY <1>4, <1>5, MinIs DEF Stop

\* What an array of arguments holds before its only NULL.
LEMMA EntriesUpTo ==
    ASSUME NEW a, DOMAIN a \in SUBSET Nat, NEW n \in DOMAIN a,
           \A i \in DOMAIN a : a[i] = "NULL" <=> i = n
    PROVE  Entries(a) = [i \in 1..n |-> a[i - 1]]
<1>1. {i \in DOMAIN a : a[i] = "NULL"} = {n}
    OBVIOUS
<1>2. Min({n}) = n
  <2>1. {n} \in SUBSET Nat /\ n \in {n} /\ \A y \in {n} : n <= y
    OBVIOUS
  <2>2. QED
    BY ONLY <2>1, MinIs
<1>3. QED
    BY <1>1, <1>2 DEF Entries

\* The marks of a line: the end of its command and the bars of it.
LEMMA MarksOfLine ==
    ASSUME NEW l \in Lines, Holds(l), Len(l) < TOKEN_NR, NEW beyond
    PROVE  /\ BarsIn(l) = {i \in 1..Len(Command(l)) : l[i] = "|"}
           /\ Marks(beyond).n = Len(Command(l))
           /\ Marks(beyond).bars = {i \in 0..Len(Command(l)) - 1 : l[i + 1] = "|"}
           /\ Marks(beyond).after = {i \in 0..Len(Command(l)) - 1 :
                                       \E b \in Marks(beyond).bars : b < i} \ Marks(beyond).bars
           /\ \A i \in 0..Len(Command(l)) - 1 : TokenAt(i, beyond) = l[i + 1]
<1>1. Len(Command(l)) \in 0..Len(l) /\ Len(l) \in Nat /\ DOMAIN Command(l) = 1..Len(Command(l))
    BY CommandOfLine, LineType
<1>2. BarsIn(l) = {i \in 1..Len(Command(l)) : l[i] = "|"}
    BY <1>1 DEF BarsIn
<1>3. Stop(beyond) = Len(Command(l))
    BY StopsAtEnd
<1>4. \A i \in 0..Len(Command(l)) - 1 : TokenAt(i, beyond) = l[i + 1]
  <2>1. TAKE i \in 0..Len(Command(l)) - 1
  <2>2. i \in 0..Len(l) /\ i < Len(l)
    BY <1>1
  <2>3. QED
    BY <2>2, TokenOfLine
<1>5. Bars(beyond) = {i \in 0..Len(Command(l)) - 1 : l[i + 1] = "|"}
    BY <1>3, <1>4 DEF Bars
<1>6. QED
    BY <1>2, <1>3, <1>4, <1>5 DEF Marks

\* The arguments of a line without a bar.
LEMMA PlainAsTyped ==
    ASSUME NEW l \in Lines, Holds(l), Len(l) < TOKEN_NR, line = l, NEW beyond, BarsIn(l) = {}
    PROVE  AsTyped(PrepareArgs(Marks(beyond), beyond))
<1> DEFINE n == Len(Command(l))
           j == PrepareArgs(Marks(beyond), beyond)
<1>1. /\ n \in Nat /\ n < ARGS_MAX /\ ARGS_MAX \in Nat
      /\ \A i \in 1..n : Command(l)[i] = l[i] /\ l[i] # "NULL"
      /\ Command(l) \in Seq(STRING)
    BY CommandOfLine, LineType, ShellAssumption
<1>2. /\ Marks(beyond).n = n /\ Marks(beyond).bars = {}
      /\ \A i \in 0..n - 1 : TokenAt(i, beyond) = l[i + 1]
  <2>1. \A i \in 1..n : l[i] # "|"
    BY MarksOfLine, SMTT(20)
  <2>2. \A i \in 0..n - 1 : i + 1 \in 1..n
    BY <1>1
  <2>3. {i \in 0..n - 1 : l[i + 1] = "|"} = {}
    BY <2>1, <2>2
  <2>4. QED
    BY <2>3, MarksOfLine
<1>3. j.pipe_on = FALSE /\ j.line = l
    BY <1>2 DEF PrepareArgs
<1>4. j.argv = [i \in 0..ARGS_MAX - 1 |-> IF i < n THEN l[i + 1] ELSE IF i = n THEN "NULL" ELSE "?"]
  <2>1. j.argv = [i \in 0..ARGS_MAX - 1 |->
                    CASE i < n /\ \A b \in {} : i < b -> TokenAt(i, beyond)
                      [] i \in {} \/ (i = n /\ ~({} # {})) -> "NULL"
                      [] OTHER -> "?"]
    BY <1>2 DEF PrepareArgs
  <2>2. \A i \in 0..ARGS_MAX - 1 : i < n => TokenAt(i, beyond) = l[i + 1]
    BY <1>1, <1>2
  <2>3. QED
    BY <2>1, <2>2
<1>5. Entries(j.argv) = [i \in 1..n |-> j.argv[i - 1]]
  <2>1. DOMAIN j.argv = 0..ARGS_MAX - 1 /\ n \in 0..ARGS_MAX - 1
    BY <1>1, <1>4
  <2>2. \A i \in 0..ARGS_MAX - 1 : j.argv[i] = "NULL" <=> i = n
    <3>1. \A i \in 0..ARGS_MAX - 1 : i < n => i + 1 \in 1..n
        BY <1>1
    <3>2. QED
        BY <1>1, <1>4, <3>1
  <2>3. QED
    <3>1. /\ DOMAIN j.argv \in SUBSET Nat /\ n \in DOMAIN j.argv
          /\ \A i \in DOMAIN j.argv : j.argv[i] = "NULL" <=> i = n
        BY <1>1, <2>1, <2>2
    <3> HIDE DEF j, n
    <3>2. QED
        BY ONLY <3>1, EntriesUpTo
<1>6. Entries(j.argv) = Command(l)
  <2>1. \A i \in 1..n : j.argv[i - 1] = l[i]
    BY <1>1, <1>4
  <2>2. Command(l) = [i \in 1..n |-> Command(l)[i]]
    BY <1>1
  <2>3. QED
    BY <1>1, <1>5, <2>1, <2>2
<1>7. QED
    BY <1>3, <1>6 DEF AsTyped, Left

\* Places after the bar follow each other.
LEMMA PlacesInOrder ==
    ASSUME NEW b \in Nat, NEW n \in Nat, b <= n
    PROVE  /\ Cardinality(b..n - 1) = n - b
           /\ \A i \in b..n - 1 : Place(i, b..n - 1) = i - b
<1>1. Cardinality(b..n - 1) = IF b > n - 1 THEN 0 ELSE (n - 1) - b + 1
  <2>1. b \in Int /\ n - 1 \in Int
    OBVIOUS
  <2>2. QED
    BY ONLY <2>1, FS_Interval
<1>2. \A i \in b..n - 1 : Place(i, b..n - 1) = i - b
  <2>1. TAKE i \in b..n - 1
  <2>2. {k \in b..n - 1 : k < i} = b..i - 1
    OBVIOUS
  <2>3. Cardinality(b..i - 1) = IF b > i - 1 THEN 0 ELSE (i - 1) - b + 1
    <3>1. b \in Int /\ i - 1 \in Int
        OBVIOUS
    <3>2. QED
        BY ONLY <3>1, FS_Interval
  <2>4. Cardinality(b..i - 1) = i - b
    BY <2>3
  <2>5. Place(i, b..n - 1) = Cardinality(b..i - 1)
    BY <2>2 DEF Place
  <2>6. QED
    BY <2>4, <2>5
<1>3. QED
    BY <1>1, <1>2

\* The arguments of a line with one bar between its words.
LEMMA PipeAsTyped ==
    ASSUME NEW l \in Lines, Holds(l), Len(l) < TOKEN_NR, line = l, NEW beyond,
           NEW b, BarsIn(l) = {b}, b \notin {1, Len(Command(l))}
    PROVE  AsTyped(PrepareArgs(Marks(beyond), beyond))
<1> DEFINE n == Len(Command(l))
           m == Marks(beyond)
           j == PrepareArgs(m, beyond)
<1>1. /\ n \in Nat /\ n < ARGS_MAX /\ ARGS_MAX \in Nat
      /\ \A i \in 1..n : Command(l)[i] = l[i] /\ l[i] # "NULL" /\ l[i] \in STRING
      /\ Command(l) \in Seq(STRING)
    BY CommandOfLine, LineType, ShellAssumption
<1>2. b \in 2..n - 1
  <2>1. b \in 1..n
    BY MarksOfLine
  <2>2. QED
    BY <1>1, <2>1
<1>3. m.n = n /\ m.bars = {b - 1} /\ m.after = b..n - 1
  <2>1. \A i \in 1..n : l[i] = "|" <=> i = b
    BY MarksOfLine
  <2>2. \A i \in 0..n - 1 : i + 1 \in 1..n
    BY <1>1
  <2>3. {i \in 0..n - 1 : l[i + 1] = "|"} = {b - 1}
    BY <1>1, <1>2, <2>1, <2>2
  <2>4. {i \in 0..n - 1 : \E c \in {b - 1} : c < i} \ {b - 1} = b..n - 1
    BY <1>1, <1>2
  <2>5. m.n = n /\ m.bars = {b - 1}
    BY <2>3, MarksOfLine
  <2>6. m.after = {i \in 0..n - 1 : \E c \in m.bars : c < i} \ m.bars
    BY MarksOfLine
  <2>7. QED
    BY <2>4, <2>5, <2>6
<1>4. \A i \in 0..n - 1 : TokenAt(i, beyond) = l[i + 1]
    BY MarksOfLine
<1>5. j.pipe_on = TRUE /\ j.line = l
    BY <1>3 DEF PrepareArgs
<1>6. j.argv = [i \in 0..ARGS_MAX - 1 |->
                  IF i < b - 1 THEN l[i + 1] ELSE IF i = b - 1 THEN "NULL" ELSE "?"]
  <2>1. j.argv = [i \in 0..ARGS_MAX - 1 |->
                    CASE i < n /\ \A c \in {b - 1} : i < c -> TokenAt(i, beyond)
                      [] i \in {b - 1} \/ (i = n /\ ~({b - 1} # {})) -> "NULL"
                      [] OTHER -> "?"]
    BY <1>3 DEF PrepareArgs
  <2>2. \A i \in 0..ARGS_MAX - 1 : i < b - 1 => i < n /\ TokenAt(i, beyond) = l[i + 1]
    BY <1>1, <1>2, <1>4
  <2>3. QED
    BY <2>1, <2>2
<1>7. Entries(j.argv) = Left(l)
  <2>1. /\ DOMAIN j.argv \in SUBSET Nat /\ b - 1 \in DOMAIN j.argv
        /\ \A i \in DOMAIN j.argv : j.argv[i] = "NULL" <=> i = b - 1
    <3>1. \A i \in 0..ARGS_MAX - 1 : i < b - 1 => l[i + 1] # "NULL"
        BY <1>1, <1>2
    <3>2. QED
        BY <1>1, <1>2, <1>6, <3>1
  <2>2. Entries(j.argv) = [i \in 1..b - 1 |-> j.argv[i - 1]]
    <3> HIDE DEF j
    <3>1. QED
        BY ONLY <2>1, EntriesUpTo
  <2>3. \A i \in 1..b - 1 : j.argv[i - 1] = l[i]
    BY <1>1, <1>2, <1>6
  <2>4. Left(l) = SubSeq(l, 1, b - 1)
    <3>1. Min({b}) = b
        BY <1>2, MinIs
    <3>2. BarsIn(l) # {} /\ Min(BarsIn(l)) = b
        BY <3>1
    <3>3. QED
        BY <3>2 DEF Left
  <2>5. SubSeq(l, 1, b - 1) = [i \in 1..b - 1 |-> l[i]]
    BY <1>1, <1>2
  <2>6. QED
    BY <2>2, <2>3, <2>4, <2>5
<1>8. j.argv2 = [k \in 0..ARGS_MAX - 1 |->
                   IF k < n - b THEN l[b + k + 1] ELSE IF k = n - b THEN "NULL" ELSE "?"]
  <2>1. j.argv2 = [k \in 0..ARGS_MAX - 1 |->
                     CASE \E i \in b..n - 1 : Place(i, b..n - 1) = k ->
                              TokenAt(CHOOSE i \in b..n - 1 : Place(i, b..n - 1) = k, beyond)
                       [] {b - 1} # {} /\ k = Cardinality(b..n - 1) -> "NULL"
                       [] OTHER -> "?"]
    BY <1>3 DEF PrepareArgs
  <2>2. /\ Cardinality(b..n - 1) = n - b
        /\ \A i \in b..n - 1 : Place(i, b..n - 1) = i - b
    BY <1>1, <1>2, PlacesInOrder
  <2>3. ASSUME NEW k \in 0..ARGS_MAX - 1
        PROVE  (\E i \in b..n - 1 : Place(i, b..n - 1) = k) <=> k < n - b
    <3>1. ASSUME NEW i \in b..n - 1, Place(i, b..n - 1) = k PROVE k < n - b
        BY <1>1, <1>2, <2>2, <3>1
    <3>2. ASSUME k < n - b PROVE b + k \in b..n - 1 /\ Place(b + k, b..n - 1) = k
      <4>1. b + k \in b..n - 1
        BY <1>1, <1>2, <3>2
      <4>2. QED
        BY <1>1, <1>2, <2>2, <4>1
    <3>3. QED
        BY <3>1, <3>2
  <2>4. ASSUME NEW k \in 0..ARGS_MAX - 1, k < n - b
        PROVE  TokenAt(CHOOSE i \in b..n - 1 : Place(i, b..n - 1) = k, beyond) = l[b + k + 1]
    <3>1. b + k \in b..n - 1 /\ Place(b + k, b..n - 1) = k
      <4>1. b + k \in b..n - 1
        BY <1>1, <1>2, <2>4
      <4>2. QED
        BY <1>1, <1>2, <2>2, <4>1
    <3>2. \A i \in b..n - 1 : Place(i, b..n - 1) = k => i = b + k
        BY <1>1, <1>2, <2>2, <2>4
    <3>3. (CHOOSE i \in b..n - 1 : Place(i, b..n - 1) = k) = b + k
        BY <3>1, <3>2
    <3>4. QED
      <4>1. TokenAt(b + k, beyond) = l[b + k + 1]
        BY <1>1, <1>2, <1>4, <3>1
      <4>2. QED
        BY <3>3, <4>1
  <2> DEFINE There(k) == \E i \in b..n - 1 : Place(i, b..n - 1) = k
             Token(k) == TokenAt(CHOOSE i \in b..n - 1 : Place(i, b..n - 1) = k, beyond)
  <2>5. j.argv2 = [k \in 0..ARGS_MAX - 1 |->
                     CASE There(k) -> Token(k)
                       [] {b - 1} # {} /\ k = Cardinality(b..n - 1) -> "NULL"
                       [] OTHER -> "?"]
    BY <2>1
  <2>6. \A k \in 0..ARGS_MAX - 1 : /\ There(k) <=> k < n - b
                                   /\ k < n - b => Token(k) = l[b + k + 1]
    BY <2>3, <2>4
  <2> HIDE DEF There, Token
  <2>7. {b - 1} # {} /\ Cardinality(b..n - 1) = n - b
    BY <2>2
  <2>8. ASSUME NEW k \in 0..ARGS_MAX - 1
        PROVE  (CASE There(k) -> Token(k)
                  [] {b - 1} # {} /\ k = Cardinality(b..n - 1) -> "NULL"
                  [] OTHER -> "?")
               = IF k < n - b THEN l[b + k + 1] ELSE IF k = n - b THEN "NULL" ELSE "?"
    <3>1. k \in Int /\ n - b \in Int
        BY <1>1, <1>2
    <3>2. CASE k < n - b
      <4>1. There(k) /\ Token(k) = l[b + k + 1] /\ k # n - b
        BY <2>6, <3>1, <3>2
      <4>2. QED
        BY ONLY <2>7, <3>2, <4>1
    <3>3. CASE ~(k < n - b)
      <4>1. ~There(k)
        BY <2>6, <3>3
      <4>2. QED
        BY ONLY <2>7, <3>3, <4>1
    <3>4. QED
        BY <3>2, <3>3
  <2>9. QED
    BY ONLY <2>5, <2>8
<1>9. Entries(j.argv2) = Right(l)
  <2>1. /\ DOMAIN j.argv2 \in SUBSET Nat /\ n - b \in DOMAIN j.argv2
        /\ \A k \in DOMAIN j.argv2 : j.argv2[k] = "NULL" <=> k = n - b
    <3>1. \A k \in 0..ARGS_MAX - 1 : k < n - b => l[b + k + 1] # "NULL"
        BY <1>1, <1>2
    <3>2. QED
        BY <1>1, <1>2, <1>8, <3>1
  <2>2. Entries(j.argv2) = [i \in 1..n - b |-> j.argv2[i - 1]]
    <3> HIDE DEF j, n
    <3>1. QED
        BY ONLY <2>1, EntriesUpTo
  <2>3. \A i \in 1..n - b : j.argv2[i - 1] = l[b + i]
    BY <1>1, <1>2, <1>8
  <2>4. Right(l) = SubSeq(Command(l), b + 1, n)
    <3>1. Min({b}) = b
        BY <1>2, MinIs
    <3>2. QED
        BY <3>1 DEF Right
  <2>5. SubSeq(Command(l), b + 1, n) = [i \in 1..n - b |-> l[b + i]]
    BY <1>1, <1>2
  <2>6. QED
    BY <2>2, <2>3, <2>4, <2>5
<1>10. QED
    BY <1>5, <1>7, <1>9 DEF AsTyped

\* Whatever the shell prepares from a line is as typed.
LEMMA PreparedAsTyped ==
    ASSUME TokensOfLine, shell = "cmd", NEW beyond,
           WellFormed(PrepareArgs(Marks(beyond), beyond).line)
    PROVE  AsTyped(PrepareArgs(Marks(beyond), beyond))
<1>1. line \in Lines /\ Holds(line)
    BY DEF TokensOfLine
<1>2. PrepareArgs(Marks(beyond), beyond).line = line
    BY DEF PrepareArgs
<1>3. WellFormed(line)
    BY <1>2
<1>4. PICK l \in Lines : l = line
    BY <1>1
<1>5. /\ Len(l) < TOKEN_NR /\ Cardinality(BarsIn(l)) <= 1
      /\ BarsIn(l) \intersect {1, Len(Command(l))} = {}
    BY <1>3, <1>4 DEF WellFormed
<1>6. Holds(l)
    BY <1>1, <1>4
<1>7. IsFiniteSet(BarsIn(l))
  <2>1. Len(Command(l)) \in Int /\ 1 \in Int
    BY CommandOfLine, LineType
  <2>2. IsFiniteSet(1..Len(Command(l)))
    BY ONLY <2>1, FS_Interval
  <2>3. BarsIn(l) \in SUBSET (1..Len(Command(l)))
    BY <1>5, <1>6, MarksOfLine
  <2>4. QED
    BY ONLY <2>2, <2>3, FS_Subset
<1>8. BarsIn(l) = {} \/ \E b : BarsIn(l) = {b}
    BY ONLY <1>5, <1>7, AtMostOne
<1>9. CASE BarsIn(l) = {}
    BY <1>4, <1>5, <1>6, <1>9, PlainAsTyped
<1>10. CASE \E b : BarsIn(l) = {b}
  <2>1. PICK b : BarsIn(l) = {b}
    BY <1>10
  <2>2. b \notin {1, Len(Command(l))}
    BY <1>5, <2>1
  <2>3. QED
    BY <1>4, <1>5, <1>6, <2>1, <2>2, PipeAsTyped
<1>11. QED
    BY <1>8, <1>9, <1>10

\* The shell forks within the bound on pids.
LEMMA LaunchesPid ==
    ASSUME next \in Nat, next >= 2, Launch
    PROVE  next \in Pid
<1>1. PICK k \in {0, 1} : next + Reserved + k <= MaxPid
    BY DEF Launch
<1>2. Reserved \in Nat
  <2>1. IsFiniteSet(2..MaxPid)
    <3>1. 2 \in Int /\ MaxPid \in Int
        BY ShellAssumption
    <3>2. QED
        BY ONLY <3>1, FS_Interval
  <2>2. {q \in Pid : pc[q] = "child" /\ job[q].pipe_on} \in SUBSET (2..MaxPid)
    BY DEF Pid
  <2>3. IsFiniteSet({q \in Pid : pc[q] = "child" /\ job[q].pipe_on})
    BY ONLY <2>1, <2>2, FS_Subset
  <2>4. Cardinality({q \in Pid : pc[q] = "child" /\ job[q].pipe_on}) \in Nat
    BY ONLY <2>3, FS_CardinalityType
  <2>5. QED
    BY <2>4 DEF Reserved
<1>3. QED
    BY <1>1, <1>2, ShellAssumption DEF Pid

\* What a step may do to a process that is not new: leave it alone, start its
\* program, or end it, when it was not collected yet; a producer's program is
\* a writer.
Kept(q) == pc'[q] = pc[q] /\ job'[q] = job[q]
Starts(q) == pc[q] \in {"child", "consumer"} /\ pc'[q] \in {"plain", "reader"}
Over(q) == pc[q] # "gone" /\ pc'[q] \in {"zombie", "gone", "writer"}

\* Such a step changes no arguments and brings back no process collected.
LEMMA NothingNew ==
    ASSUME ShellInv, \A q \in Pid : Kept(q) \/ Starts(q) \/ Over(q)
    PROVE  /\ ArgsAsTyped'
           /\ \A q \in Pid : pc[q] = "gone" => pc'[q] = "gone"
<1>1. ArgsAsTyped'
  <2>1. ASSUME NEW q \in Pid, pc'[q] \in {"child", "producer", "consumer"}
        PROVE  pc[q] = pc'[q] /\ job'[q] = job[q]
    BY <2>1 DEF Kept, Starts, Over
  <2>2. ASSUME NEW q \in Pid, pc'[q] \in {"child", "producer", "consumer"}, WellFormed(job'[q].line)
        PROVE  AsTyped(job'[q])
    <3>1. pc[q] = pc'[q] /\ job'[q] = job[q]
        BY <2>1, <2>2
    <3>2. pc[q] \in {"child", "producer", "consumer"} /\ WellFormed(job[q].line)
        BY <2>2, <3>1
    <3>3. AsTyped(job[q])
        BY <3>2 DEF ShellInv, ArgsAsTyped
    <3>4. QED
        BY <3>1, <3>3
  <2>3. QED
    BY <2>2 DEF ArgsAsTyped
<1>2. ASSUME NEW q \in Pid, pc[q] = "gone" PROVE pc'[q] = "gone"
    BY <1>2 DEF Kept, Starts, Over
<1>3. QED
    BY <1>1, <1>2

\* A process that dies or is collected.
LEMMA DeathIsOver ==
    ASSUME ShellInv, NEW p \in Pid, pc[p] # "gone", Die(p)
    PROVE  /\ pc' \in [Pid -> Stages] /\ DOMAIN job' = Pid
           /\ \A q \in Pid : Kept(q) \/ Starts(q) \/ Over(q)
BY DEF ShellInv, Die, Kept, Over, Stages

\* A program that is started, or is not.
LEMMA ExecStarts ==
    ASSUME ShellInv, NEW p \in Pid, NEW name, NEW ends, NEW role, Exec(p, name, ends, role),
           \/ pc[p] = "child" /\ role = "plain"
           \/ pc[p] = "producer" /\ role = "writer"
           \/ pc[p] = "consumer" /\ role = "reader"
    PROVE  /\ pc' \in [Pid -> Stages] /\ DOMAIN job' = Pid
           /\ \A q \in Pid : Kept(q) \/ Starts(q) \/ Over(q)
<1>1. CASE Die(p)
    BY <1>1, DeathIsOver
<1>2. CASE /\ pc' = [pc EXCEPT ![p] = role]
           /\ job' = [job EXCEPT ![p] = NoJob]
  <2>1. role \in {"plain", "writer", "reader"}
    OBVIOUS
  <2>2. pc' \in [Pid -> Stages] /\ DOMAIN job' = Pid
    BY <1>2, <2>1 DEF ShellInv, Stages
  <2>3. pc'[p] = role
    BY <1>2 DEF ShellInv
  <2>4. Starts(p) \/ Over(p)
    BY <2>3 DEF Starts, Over
  <2>5. \A q \in Pid : q # p => Kept(q)
    BY <1>2 DEF ShellInv, Kept
  <2>6. QED
    BY <2>2, <2>4, <2>5
<1>3. QED
    BY <1>1, <1>2 DEF Exec

\* The shell waits on, and its processes go on.
LEMMA ProcessesGoOn ==
    ASSUME ShellInv, UNCHANGED <<shellVars, next>>, pc' \in [Pid -> Stages], DOMAIN job' = Pid,
           \A q \in Pid : Kept(q) \/ Starts(q) \/ Over(q)
    PROVE  ShellInv'
<1>1. ArgsAsTyped' /\ \A q \in Pid : pc[q] = "gone" => pc'[q] = "gone"
    BY NothingNew
<1>2. TokensOfLine'
    BY DEF ShellInv, TokensOfLine, Holds, shellVars
<1>3. ForegroundCollected'
    BY <1>1 DEF ShellInv, ForegroundCollected, shellVars
<1>4. QED
    BY <1>1, <1>2, <1>3 DEF ShellInv, shellVars

\* Initially nothing runs.
LEMMA InitShell == Init => ShellInv
<1> SUFFICES ASSUME Init PROVE ShellInv
    OBVIOUS
<1>1. pc \in [Pid -> Stages] /\ DOMAIN job = Pid
    BY DEF Init, Stages
<1>2. TokensOfLine
    BY DEF Init, TokensOfLine
<1>3. ForegroundCollected /\ ArgsAsTyped
    BY DEF Init, ForegroundCollected, ArgsAsTyped
<1>4. QED
    BY <1>1, <1>2, <1>3 DEF ShellInv, Init

\* A step in which the shell comes back to its prompt with the tokens reset,
\* and every process of the foreground is collected.
LEMMA BackToPrompt ==
    ASSUME ShellInv, shell' \in {"prompt", "done"}, Reset, UNCHANGED <<foreground, next>>,
           pc' \in [Pid -> Stages], DOMAIN job' = Pid,
           \A q \in Pid : Kept(q) \/ Starts(q) \/ Over(q),
           \A q \in foreground : pc'[q] = "gone"
    PROVE  ShellInv'
<1>1. ArgsAsTyped'
    BY NothingNew
<1>2. TokensOfLine'
    BY DEF TokensOfLine, Reset, NoTokens
<1>3. ForegroundCollected'
    BY DEF ForegroundCollected
<1>4. QED
    BY <1>1, <1>2, <1>3 DEF ShellInv

\* The tokens of a line are read into an empty array.
LEMMA ReadLineKeeps == ASSUME ShellInv, ReadLine PROVE ShellInv'
<1>1. PICK l \in Lines : /\ line' = l /\ tokens' = parse_token(l)
                         /\ shell' = IF tokens'[0] = NoWord THEN "prompt" ELSE "cmd"
    BY DEF ReadLine
<1>2. shell = "prompt" /\ UNCHANGED <<pc, job, waitfor, foreground, next>>
    BY DEF ReadLine, procVars
<1>3. tokens' = [i \in 0..TOKEN_NR - 1 |-> IF i < Len(l) THEN l[i + 1] ELSE NoWord]
    BY <1>1, <1>2 DEF parse_token, ShellInv, TokensOfLine, NoTokens
<1>4. shell' = "prompt" => tokens' = NoTokens
  <2>1. TOKEN_NR \in Nat \ {0} /\ Len(l) \in Nat
    BY LineType, ShellAssumption
  <2>2. ASSUME 0 < Len(l) PROVE tokens'[0] # NoWord
    <3>1. l[1] # NoWord
        BY <2>1, <2>2, LineType
    <3>2. tokens'[0] = l[1]
        BY <1>3, <2>1, <2>2
    <3>3. QED
        BY <3>1, <3>2
  <2>3. ASSUME ~(0 < Len(l)) PROVE tokens' = NoTokens
    <3>1. \A i \in 0..TOKEN_NR - 1 : ~(i < Len(l))
        BY <2>1, <2>3
    <3>2. QED
        BY <1>3, <3>1 DEF NoTokens
  <2>4. QED
    BY <1>1, <2>2, <2>3
<1>5. TokensOfLine'
    BY <1>1, <1>3, <1>4 DEF TokensOfLine, Holds
<1>6. ForegroundCollected'
    BY <1>2 DEF ShellInv, ForegroundCollected
<1>7. ArgsAsTyped'
    BY <1>2 DEF ShellInv, ArgsAsTyped
<1>8. QED
    BY <1>2, <1>5, <1>6, <1>7 DEF ShellInv

\* A child is given what was prepared for it, and the shell waits for it
\* unless it runs in the background.
LEMMA LaunchKeeps == ASSUME ShellInv, Launch PROVE ShellInv'
<1>1. shell = "cmd" /\ pc' = [pc EXCEPT ![next] = "child"] /\ next' = next + 1
    BY DEF Launch
<1>2. PICK beyond, j :
        /\ j = PrepareArgs(Marks(beyond), beyond)
        /\ job' = [job EXCEPT ![next] = j]
        /\ shell' = IF j.background THEN "prompt" ELSE "wait"
        /\ waitfor' = IF j.background THEN 0 ELSE next
        /\ foreground' = IF j.background THEN foreground ELSE foreground \cup {next}
        /\ IF j.background THEN Reset ELSE UNCHANGED <<tokens, line>>
    BY DEF Launch
<1>3. WellFormed(j.line) => AsTyped(j)
    BY <1>1, <1>2, PreparedAsTyped DEF ShellInv
<1>4. /\ job' = [job EXCEPT ![next] = j]
      /\ shell' = IF j.background THEN "prompt" ELSE "wait"
      /\ waitfor' = IF j.background THEN 0 ELSE next
      /\ foreground' = IF j.background THEN foreground ELSE foreground \cup {next}
      /\ IF j.background THEN Reset ELSE UNCHANGED <<tokens, line>>
    BY <1>2
<1>5. pc' \in [Pid -> Stages] /\ DOMAIN job' = Pid
    BY <1>1, <1>4 DEF ShellInv, Stages
<1>6. \A q \in Pid : q # next => pc'[q] = pc[q] /\ job'[q] = job[q]
    BY <1>1, <1>4 DEF ShellInv
<1>7. next \in Pid => job'[next] = j
    BY <1>4 DEF ShellInv
<1>8. TokensOfLine'
    BY <1>4 DEF TokensOfLine, Reset, NoTokens
<1>9. /\ next' \in Nat /\ next' >= 2
      /\ foreground' \subseteq {q \in Pid : q < next'}
  <2>1. next \in Nat /\ next >= 2 /\ foreground \subseteq {q \in Pid : q < next}
    BY DEF ShellInv
  <2>2. next \in Pid
    BY <2>1, LaunchesPid
  <2>3. \A q \in foreground : q \in Pid /\ q < next'
    <3>1. \A q \in Pid : q \in Nat
        BY ShellAssumption DEF Pid
    <3>2. QED
        BY <1>1, <2>1, <3>1
  <2>4. next' \in Nat /\ next' >= 2 /\ next < next'
    BY <1>1, <2>1
  <2>5. QED
    BY <1>4, <2>2, <2>3, <2>4
<1>12. ForegroundCollected'
  <2>1. \A q \in foreground : pc'[q] = "gone"
    <3>1. TAKE q \in foreground
    <3>2. pc[q] = "gone" /\ q \in Pid /\ q < next
        BY <1>1 DEF ShellInv, ForegroundCollected
    <3>3. q # next
        BY <3>2, ShellAssumption DEF ShellInv, Pid
    <3>4. QED
        BY <1>6, <3>2, <3>3
  <2>2. CASE j.background
    BY <1>4, <2>1, <2>2 DEF ForegroundCollected
  <2>3. CASE ~j.background
    BY <1>4, <2>1, <2>3 DEF ForegroundCollected
  <2>4. QED
    BY <2>2, <2>3
<1>10. ArgsAsTyped'
  <2>1. ASSUME NEW q \in Pid, pc'[q] \in {"child", "producer", "consumer"}, WellFormed(job'[q].line)
        PROVE  AsTyped(job'[q])
    <3>1. CASE q # next
      <4>1. pc'[q] = pc[q] /\ job'[q] = job[q]
        BY <1>6, <3>1
      <4>2. pc[q] \in {"child", "producer", "consumer"} /\ WellFormed(job[q].line)
        BY <2>1, <4>1
      <4>3. QED
        BY <4>1, <4>2 DEF ShellInv, ArgsAsTyped
    <3>2. CASE q = next
      <4>1. job'[q] = j
        BY <1>7, <3>2
      <4>2. QED
        BY <1>3, <2>1, <4>1
    <3>3. QED
        BY <3>1, <3>2
  <2>2. QED
    BY <2>1 DEF ArgsAsTyped
<1>11. QED
    BY <1>5, <1>8, <1>9, <1>10, <1>12 DEF ShellInv

\* The child of a pipeline becomes the consumer; the producer has its job.
LEMMA ForkProducerKeeps ==
    ASSUME ShellInv, NEW p \in Pid, ForkProducer(p)
    PROVE  ShellInv'
<1>1. /\ pc[p] = "child" /\ UNCHANGED shellVars
      /\ pc' = [pc EXCEPT ![p] = "consumer", ![next] = "producer"]
      /\ job' = [job EXCEPT ![next] = job[p]] /\ next' = next + 1
    BY DEF ForkProducer
<1>2. pc' \in [Pid -> Stages] /\ DOMAIN job' = Pid
    BY <1>1 DEF ShellInv, Stages
<1>3. \A q \in Pid : q # p /\ q # next => pc'[q] = pc[q] /\ job'[q] = job[q]
    BY <1>1 DEF ShellInv
<1>4. /\ pc'[p] \in {"consumer", "producer"} /\ job'[p] = job[p]
      /\ next \in Pid => pc'[next] = "producer" /\ job'[next] = job[p]
    BY <1>1 DEF ShellInv
<1>5. TokensOfLine'
    BY <1>1 DEF ShellInv, TokensOfLine, Holds, shellVars
<1>6. ForegroundCollected' /\ foreground' \subseteq {q \in Pid : q < next'}
  <2>1. ASSUME NEW q \in foreground
        PROVE  q \in Pid /\ q < next /\ q \in Nat /\ next \in Nat
    BY ShellAssumption DEF ShellInv, Pid
  <2>2. ASSUME NEW q \in foreground, pc[q] = "gone" PROVE pc'[q] = "gone"
    <3>1. q # p /\ q # next
        BY <1>1, <2>1, <2>2
    <3>2. QED
        BY <1>3, <2>1, <2>2, <3>1
  <2>3. \A q \in foreground : q \in Pid /\ q < next'
    BY <1>1, <2>1
  <2>4. QED
    BY <1>1, <2>2, <2>3 DEF ShellInv, ForegroundCollected, shellVars
<1>9. next' \in Nat /\ next' >= 2
    BY <1>1 DEF ShellInv
<1>7. ArgsAsTyped'
  <2>1. ASSUME NEW q \in Pid, pc'[q] \in {"child", "producer", "consumer"}, WellFormed(job'[q].line)
        PROVE  AsTyped(job'[q])
    <3>1. PICK r \in Pid : job'[q] = job[r] /\ pc[r] \in {"child", "producer", "consumer"}
      <4>1. CASE q = next \/ q = p
        BY <1>1, <1>4, <4>1
      <4>2. CASE q # p /\ q # next
        BY <1>3, <2>1, <4>2
      <4>3. QED
        BY <4>1, <4>2
    <3>2. WellFormed(job[r].line)
        BY <2>1, <3>1
    <3>3. AsTyped(job[r])
        BY <3>1, <3>2 DEF ShellInv, ArgsAsTyped
    <3>4. QED
        BY <3>1, <3>3
  <2>2. QED
    BY <2>1 DEF ArgsAsTyped
<1>8. QED
    BY <1>2, <1>5, <1>6, <1>7, <1>9 DEF ShellInv

\* A program that has ended, by itself or by a signal.
LEMMA DeathKeeps ==
    ASSUME ShellInv, NEW p \in Pid, pc[p] # "gone", Die(p), UNCHANGED <<shellVars, next>>
    PROVE  ShellInv'
BY DeathIsOver, ProcessesGoOn

\* A program that is started by a process of its own.
LEMMA RunKeeps ==
    ASSUME ShellInv, NEW p \in Pid, RunPlain(p) \/ RunProducer(p) \/ RunConsumer(p)
    PROVE  ShellInv'
<1>1. UNCHANGED <<shellVars, next>>
    BY DEF RunPlain, RunProducer, RunConsumer
<1>2. \E name, ends, role : /\ Exec(p, name, ends, role)
                            /\ \/ pc[p] = "child" /\ role = "plain"
                               \/ pc[p] = "producer" /\ role = "writer"
                               \/ pc[p] = "consumer" /\ role = "reader"
  <2>1. CASE RunPlain(p)
    <3>1. Exec(p, job[p].name, {}, "plain") /\ pc[p] = "child"
        BY <2>1 DEF RunPlain
    <3>2. QED
        BY <3>1
  <2>2. CASE RunProducer(p)
    <3>1. Exec(p, job[p].argv[0], {e \in holds[p] : e[2] # "r"}, "writer") /\ pc[p] = "producer"
        BY <2>2 DEF RunProducer
    <3>2. QED
        BY <3>1
  <2>3. CASE RunConsumer(p)
    <3>1. Exec(p, job[p].argv2[0], {e \in holds[p] : e[2] # "w"}, "reader") /\ pc[p] = "consumer"
        BY <2>3 DEF RunConsumer
    <3>2. QED
        BY <3>1
  <2>4. QED
    BY <2>1, <2>2, <2>3
<1>3. /\ pc' \in [Pid -> Stages] /\ DOMAIN job' = Pid
      /\ \A q \in Pid : Kept(q) \/ Starts(q) \/ Over(q)
    BY <1>2, ExecStarts
<1>4. QED
    BY <1>1, <1>3, ProcessesGoOn

\* A step of a process.
LEMMA ProcStepKeeps ==
    ASSUME ShellInv, NEW p \in Pid, ProcStep(p)
    PROVE  ShellInv'
<1>1. CASE ForkProducer(p)
    BY <1>1, ForkProducerKeeps
<1>2. CASE RunPlain(p) \/ RunProducer(p) \/ RunConsumer(p)
    BY <1>2, RunKeeps
<1>3. CASE Write(p) \/ Read(p) \/ Finish(p)
  <2>1. pc[p] # "gone" /\ UNCHANGED <<shellVars, next>> /\ (Die(p) \/ UNCHANGED <<pc, job>>)
    BY <1>3 DEF Write, Read, Finish
  <2>2. CASE Die(p)
    BY <2>1, <2>2, DeathKeeps
  <2>3. CASE UNCHANGED <<pc, job>>
    <3>1. \A q \in Pid : Kept(q)
        BY <2>3 DEF Kept
    <3>2. pc' \in [Pid -> Stages] /\ DOMAIN job' = Pid
        BY <2>3 DEF ShellInv
    <3>3. QED
        BY <2>1, <3>1, <3>2, ProcessesGoOn
  <2>4. QED
    BY <2>1, <2>2, <2>3
<1>4. QED
    BY <1>1, <1>2, <1>3 DEF ProcStep

\* A command that launches nothing.
LEMMA CommandKeeps ==
    ASSUME ShellInv, NoProcess \/ ExitShell \/ Kill \/ Refuse
    PROVE  ShellInv'
<1>1. /\ shell = "cmd" /\ shell' \in {"prompt", "done"} /\ Reset
      /\ UNCHANGED <<foreground, next>>
    BY DEF NoProcess, ExitShell, Kill, Refuse, procVars
<1>2. \A q \in foreground : q \in Pid /\ pc[q] = "gone"
    BY <1>1 DEF ShellInv, ForegroundCollected
<1>3. UNCHANGED <<pc, job>> \/ \E p \in Pid : pc[p] # "gone" /\ Die(p)
  <2>1. \A p \in KillTarget : p \in Pid /\ pc[p] # "gone"
    BY DEF KillTarget, Alive
  <2>2. QED
    BY <2>1 DEF NoProcess, ExitShell, Kill, Refuse, procVars
<1>4. CASE UNCHANGED <<pc, job>>
  <2>1. \A q \in Pid : Kept(q)
    BY <1>4 DEF Kept
  <2>2. pc' \in [Pid -> Stages] /\ DOMAIN job' = Pid
    BY <1>4 DEF ShellInv
  <2>3. \A q \in foreground : pc'[q] = "gone"
    BY <1>2, <1>4
  <2>4. QED
    BY <1>1, <2>1, <2>2, <2>3, BackToPrompt
<1>5. CASE \E p \in Pid : pc[p] # "gone" /\ Die(p)
  <2>1. /\ pc' \in [Pid -> Stages] /\ DOMAIN job' = Pid
        /\ \A q \in Pid : Kept(q) \/ Starts(q) \/ Over(q)
    BY <1>5, DeathIsOver
  <2>2. \A q \in foreground : pc'[q] = "gone"
    BY <1>2, <2>1, NothingNew
  <2>3. QED
    BY <1>1, <2>1, <2>2, BackToPrompt
<1>6. QED
    BY <1>3, <1>4, <1>5

\* The shell comes back when its child is a zombie, and collects it.
LEMMA WaitDoneKeeps == ASSUME ShellInv, WaitDone PROVE ShellInv'
<1>1. /\ shell = "wait" /\ pc[waitfor] = "zombie" /\ shell' = "prompt" /\ Reset
      /\ pc' = [pc EXCEPT ![waitfor] = "gone"] /\ job' = job
      /\ UNCHANGED <<foreground, next>>
    BY DEF WaitDone
<1>2. pc' \in [Pid -> Stages] /\ DOMAIN job' = Pid
    BY <1>1 DEF ShellInv, Stages
<1>3. \A q \in Pid : Kept(q) \/ Over(q)
    BY <1>1 DEF ShellInv, Kept, Over
<1>4. \A q \in foreground : pc'[q] = "gone"
    BY <1>1 DEF ShellInv, ForegroundCollected
<1>5. QED
    BY <1>1, <1>2, <1>3, <1>4, BackToPrompt

\* No step breaks the invariant.
LEMMA NextShell == ShellInv /\ [Next]_vars => ShellInv'
<1> SUFFICES ASSUME ShellInv, [Next]_vars PROVE ShellInv'
    OBVIOUS
<1>1. CASE ReadLine
    BY <1>1, ReadLineKeeps
<1>2. CASE NoProcess \/ ExitShell \/ Kill \/ Refuse
    BY <1>2, CommandKeeps
<1>3. CASE Launch
    BY <1>3, LaunchKeeps
<1>4. CASE WaitDone
    BY <1>4, WaitDoneKeeps
<1>5. ASSUME NEW p \in Pid, ProcStep(p) PROVE ShellInv'
    BY <1>5, ProcStepKeeps
<1>6. CASE UNCHANGED vars
  <2>1. UNCHANGED <<shellVars, next>> /\ UNCHANGED <<pc, job>>
    BY <1>6 DEF vars, shellVars, procVars
  <2>2. \A q \in Pid : Kept(q)
    BY <2>1 DEF Kept
  <2>3. pc' \in [Pid -> Stages] /\ DOMAIN job' = Pid
    BY <2>1 DEF ShellInv
  <2>4. QED
    BY <2>1, <2>2, <2>3, ProcessesGoOn
<1>7. QED
    BY <1>1, <1>2, <1>3, <1>4, <1>5, <1>6 DEF Next, ShellStep

\* At its prompt and while it processes a command the array of tokens holds
\* the line typed last and nothing else, every process forked in the
\* foreground is collected but the one the shell waits for, and what was
\* prepared for a program is what was typed (sh.c:38-50, 133-158, 213-215, 247).
THEOREM ShellInvariant == Spec => []ShellInv
<1>1. Init => ShellInv
    BY InitShell
<1>2. ShellInv /\ [Next]_vars => ShellInv'
    BY NextShell
<1>3. QED
    BY <1>1, <1>2, PTL DEF Spec

\* Every program is given the words typed for it, whatever the lines before
\* it, on either side of a bar (sh.c:38-50, 133-158, 247).
THEOREM WordsReachPrograms == Spec => []ArgsAsTyped
<1>1. ShellInv => ArgsAsTyped
    BY DEF ShellInv
<1>2. QED
    BY <1>1, ShellInvariant, PTL

\* No process forked in the foreground is left, running or as a zombie, but
\* the one the shell waits for (sh.c:213-215).
THEOREM PromptMeansDone == Spec => []ForegroundCollected
<1>1. ShellInv => ForegroundCollected
    BY DEF ShellInv
<1>2. QED
    BY <1>1, ShellInvariant, PTL

-----------------------------------------------------------------------------
\* The pipelines: nobody is at the end of a pipe but where it stands.
LEMMA InitPipes == Init => PipeInv
<1> SUFFICES ASSUME Init PROVE PipeInv
    OBVIOUS
<1>1. /\ pc = [p \in Pid |-> "none"] /\ holds = [p \in Pid |-> {}]
      /\ left = [p \in Pid |-> 0] /\ inpipe = [p \in Pid |-> 0]
      /\ next = 2 /\ shell = "prompt"
    BY DEF Init
<1>2. PipeSize \in Nat \ {0} /\ MaxPid \in Nat
    BY ShellAssumption
<1>3. /\ pc \in [Pid -> Stages] /\ DOMAIN holds = Pid
      /\ left \in [Pid -> Nat] /\ inpipe \in [Pid -> 0..PipeSize]
    BY <1>1, <1>2 DEF Stages
<1>4. \A q \in Pid : pc[q] = "none" /\ next <= q
    BY <1>1, <1>2 DEF Pid
<1>5. \A q \in Pid : EndsOf(q, pc[q], holds[q])
    BY <1>1 DEF EndsOf
<1>6. QED
    BY <1>1, <1>3, <1>4, <1>5 DEF PipeInv

\* One process comes to another stage with the ends for it.
LEMMA OneMoves ==
    ASSUME PipeInv, NEW p \in Pid, NEW stage \in Stages \ {"none", "gone"}, NEW ends,
           pc[p] # "none", EndsOf(p, stage, ends),
           pc' = [pc EXCEPT ![p] = stage], holds' = [holds EXCEPT ![p] = ends],
           left' \in [Pid -> Nat], inpipe' \in [Pid -> 0..PipeSize], next' = next,
           shell' = "wait" => shell = "wait" /\ waitfor' = waitfor
    PROVE  PipeInv'
<1>1. /\ pc \in [Pid -> Stages] /\ DOMAIN holds = Pid
      /\ next \in Nat /\ next >= 2
      /\ \A q \in Pid : pc[q] = "none" <=> next <= q
      /\ \A q \in Pid : EndsOf(q, pc[q], holds[q])
    BY DEF PipeInv
<1>2. pc' \in [Pid -> Stages] /\ DOMAIN holds' = Pid
    BY <1>1
<1>3. \A q \in Pid : /\ q # p => pc'[q] = pc[q] /\ holds'[q] = holds[q]
                     /\ q = p => pc'[q] = stage /\ holds'[q] = ends
    BY <1>1
<1>4. \A q \in Pid : pc'[q] = "none" <=> next' <= q
    BY <1>1, <1>3
<1>5. \A q \in Pid : EndsOf(q, pc'[q], holds'[q])
    BY <1>1, <1>3
<1>6. shell' = "wait" => waitfor' \in Pid /\ pc'[waitfor'] \notin {"none", "gone"}
    BY <1>3 DEF PipeInv
<1>7. QED
    BY <1>1, <1>2, <1>4, <1>5, <1>6 DEF PipeInv, EndsOf

\* A process that dies leaves its pipes.
LEMMA DeathLeavesPipes ==
    ASSUME PipeInv, NEW p \in Pid, pc[p] # "none", Die(p), UNCHANGED <<next, inpipe>>,
           shell' = "wait" => shell = "wait" /\ waitfor' = waitfor
    PROVE  PipeInv'
<1>1. /\ pc' = [pc EXCEPT ![p] = "zombie"] /\ holds' = [holds EXCEPT ![p] = {}]
      /\ left' = [left EXCEPT ![p] = 0]
    BY DEF Die
<1>2. EndsOf(p, "zombie", {}) /\ "zombie" \in Stages \ {"none", "gone"}
    BY DEF EndsOf, Stages
<1>3. left' \in [Pid -> Nat] /\ inpipe' \in [Pid -> 0..PipeSize]
    BY <1>1 DEF PipeInv
<1>4. QED
    BY <1>1, <1>2, <1>3, OneMoves

\* A program is started with the ends for it, or not at all.
LEMMA ExecTakesEnds ==
    ASSUME PipeInv, NEW p \in Pid, pc[p] # "none", NEW name, NEW ends,
           NEW role \in {"plain", "writer", "reader"}, EndsOf(p, role, ends),
           Exec(p, name, ends, role), UNCHANGED <<shellVars, next, inpipe>>
    PROVE  PipeInv'
<1>0. shell' = "wait" => shell = "wait" /\ waitfor' = waitfor
    BY DEF shellVars
<1>1. CASE Die(p)
    BY <1>0, <1>1, DeathLeavesPipes
<1>2. CASE /\ pc' = [pc EXCEPT ![p] = role] /\ holds' = [holds EXCEPT ![p] = ends]
           /\ IF role = "writer" THEN \E n \in 0..MaxWrites : left' = [left EXCEPT ![p] = n]
                                 ELSE UNCHANGED left
  <2>1. left' \in [Pid -> Nat] /\ inpipe' \in [Pid -> 0..PipeSize]
    BY <1>2, ShellAssumption DEF PipeInv
  <2>2. role \in Stages \ {"none", "gone"}
    BY DEF Stages
  <2>3. QED
    BY <1>0, <1>2, <2>1, <2>2, OneMoves
<1>3. QED
    BY <1>1, <1>2 DEF Exec

\* Closing the ends that a program does not use leaves it the others.
LEMMA RunPipes ==
    ASSUME PipeInv, NEW p \in Pid, RunPlain(p) \/ RunProducer(p) \/ RunConsumer(p)
    PROVE  PipeInv'
<1>1. EndsOf(p, pc[p], holds[p])
    BY DEF PipeInv
<1>2. CASE RunPlain(p)
  <2>1. /\ pc[p] = "child" /\ Exec(p, job[p].name, {}, "plain")
        /\ UNCHANGED <<shellVars, next, inpipe>>
    BY <1>2 DEF RunPlain
  <2>2. EndsOf(p, "plain", {})
    BY DEF EndsOf
  <2>3. QED
    BY <2>1, <2>2, ExecTakesEnds
<1>3. CASE RunProducer(p)
  <2> DEFINE ends == {e \in holds[p] : e[2] # "r"}
  <2>1. /\ pc[p] = "producer" /\ Exec(p, job[p].argv[0], ends, "writer")
        /\ UNCHANGED <<shellVars, next, inpipe>>
    BY <1>3 DEF RunProducer
  <2>2. EndsOf(p, "writer", ends)
    <3>1. PICK r \in Pid \ {p} : holds[p] = {<<r, "r">>, <<r, "w">>}
        BY <1>1, <2>1 DEF EndsOf
    <3>2. ends = {<<r, "w">>}
        BY <3>1
    <3>3. QED
        BY <3>2 DEF EndsOf
  <2> HIDE DEF ends
  <2>3. QED
    BY <2>1, <2>2, ExecTakesEnds
<1>4. CASE RunConsumer(p)
  <2> DEFINE ends == {e \in holds[p] : e[2] # "w"}
  <2>1. /\ pc[p] = "consumer" /\ Exec(p, job[p].argv2[0], ends, "reader")
        /\ UNCHANGED <<shellVars, next, inpipe>>
    BY <1>4 DEF RunConsumer
  <2>2. EndsOf(p, "reader", ends)
    <3>1. holds[p] = {<<p, "r">>, <<p, "w">>}
        BY <1>1, <2>1 DEF EndsOf
    <3>2. ends = {<<p, "r">>}
        BY <3>1
    <3>3. QED
        BY <3>2 DEF EndsOf
  <2> HIDE DEF ends
  <2>3. QED
    BY <2>1, <2>2, ExecTakesEnds
<1>5. QED
    BY <1>2, <1>3, <1>4

\* The producer is a new process with both ends of the pipe of another one.
LEMMA ForkPipes ==
    ASSUME PipeInv, NEW p \in Pid, ForkProducer(p)
    PROVE  PipeInv'
<1>1. /\ pc[p] = "child" /\ UNCHANGED <<shellVars, left, inpipe>>
      /\ pc' = [pc EXCEPT ![p] = "consumer", ![next] = "producer"]
      /\ holds' = [holds EXCEPT ![p] = {p} \X {"r", "w"}, ![next] = {p} \X {"r", "w"}]
      /\ next' = next + 1
    BY DEF ForkProducer
<1>2. /\ pc \in [Pid -> Stages] /\ DOMAIN holds = Pid
      /\ next \in Nat /\ next >= 2
      /\ \A q \in Pid : pc[q] = "none" <=> next <= q
      /\ \A q \in Pid : EndsOf(q, pc[q], holds[q])
    BY DEF PipeInv
<1>3. p # next /\ p < next /\ Pid \subseteq Nat
    BY <1>1, <1>2, ShellAssumption DEF Pid
<1>4. {p} \X {"r", "w"} = {<<p, "r">>, <<p, "w">>}
    OBVIOUS
<1>5. pc' \in [Pid -> Stages] /\ DOMAIN holds' = Pid
    BY <1>1, <1>2 DEF Stages
<1>6. \A q \in Pid :
        /\ q # p /\ q # next => pc'[q] = pc[q] /\ holds'[q] = holds[q]
        /\ q = p => pc'[q] = "consumer" /\ holds'[q] = {<<p, "r">>, <<p, "w">>}
        /\ q = next => pc'[q] = "producer" /\ holds'[q] = {<<p, "r">>, <<p, "w">>}
    BY <1>1, <1>2, <1>3, <1>4
<1>7. \A q \in Pid : pc'[q] = "none" <=> next' <= q
  <2>1. TAKE q \in Pid
  <2>2. CASE q # p /\ q # next
    <3>1. pc'[q] = pc[q] /\ (next + 1 <= q <=> next <= q)
        BY <1>2, <1>3, <1>6, <2>2
    <3>2. QED
        BY <1>1, <1>2, <3>1
  <2>3. CASE q = p
    BY <1>1, <1>2, <1>3, <1>6, <2>3
  <2>4. CASE q = next
    BY <1>1, <1>2, <1>6, <2>4
  <2>5. QED
    BY <2>2, <2>3, <2>4
<1>8. \A q \in Pid : EndsOf(q, pc'[q], holds'[q])
  <2>1. TAKE q \in Pid
  <2>2. CASE q # p /\ q # next
    BY <1>2, <1>6, <2>2
  <2>3. CASE q = p
    BY <1>6, <2>3 DEF EndsOf
  <2>4. CASE q = next
    BY <1>3, <1>6, <2>4 DEF EndsOf
  <2>5. QED
    BY <2>2, <2>3, <2>4
<1>9. shell' = "wait" => waitfor' \in Pid /\ pc'[waitfor'] \notin {"none", "gone"}
  <2>1. SUFFICES ASSUME shell = "wait"
                 PROVE  waitfor \in Pid /\ pc'[waitfor] \notin {"none", "gone"}
    BY <1>1 DEF shellVars
  <2>2. waitfor \in Pid /\ pc[waitfor] \notin {"none", "gone"}
    BY <2>1 DEF PipeInv
  <2>3. QED
    BY <1>6, <2>2
<1>10. left' \in [Pid -> Nat] /\ inpipe' \in [Pid -> 0..PipeSize] /\ next' \in Nat /\ next' >= 2
    BY <1>1, <1>2 DEF PipeInv
<1>11. QED
    BY <1>5, <1>7, <1>8, <1>9, <1>10 DEF PipeInv, EndsOf

\* A process the shell forks is a new one and has no pipe.
LEMMA LaunchPipes == ASSUME PipeInv, Launch PROVE PipeInv'
<1>1. /\ pc' = [pc EXCEPT ![next] = "child"] /\ next' = next + 1
      /\ UNCHANGED <<holds, left, inpipe>>
      /\ shell' = "wait" => waitfor' = next
    BY DEF Launch
<1>2. /\ pc \in [Pid -> Stages] /\ DOMAIN holds = Pid
      /\ next \in Nat /\ next >= 2
      /\ \A q \in Pid : pc[q] = "none" <=> next <= q
      /\ \A q \in Pid : EndsOf(q, pc[q], holds[q])
    BY DEF PipeInv
<1>3. next \in Pid
    BY <1>2, LaunchesPid
<1>4. /\ pc' \in [Pid -> Stages] /\ DOMAIN holds' = Pid
      /\ pc'[next] = "child" /\ \A q \in Pid : q # next => pc'[q] = pc[q]
    BY <1>1, <1>2, <1>3 DEF Stages
<1>5. \A q \in Pid : pc'[q] = "none" <=> next' <= q
  <2>1. TAKE q \in Pid
  <2>2. q \in Nat
    BY ShellAssumption DEF Pid
  <2>3. CASE q = next
    BY <1>1, <1>2, <1>4, <2>3
  <2>4. CASE q # next
    <3>1. pc'[q] = pc[q] /\ (next + 1 <= q <=> next <= q)
        BY <1>2, <1>4, <2>2, <2>4
    <3>2. QED
        BY <1>1, <1>2, <3>1
  <2>5. QED
    BY <2>3, <2>4
<1>6. \A q \in Pid : EndsOf(q, pc'[q], holds'[q])
  <2>1. TAKE q \in Pid
  <2>2. CASE q = next
    <3>1. pc[q] = "none"
        BY <1>2, <2>2
    <3>2. EndsOf(q, "none", holds[q]) /\ holds'[q] = holds[q] /\ pc'[q] = "child"
        BY <1>1, <1>2, <1>4, <2>2, <3>1
    <3>3. QED
        BY <3>2 DEF EndsOf
  <2>3. CASE q # next
    BY <1>1, <1>2, <1>4, <2>3
  <2>4. QED
    BY <2>2, <2>3
<1>7. QED
    BY <1>1, <1>2, <1>3, <1>4, <1>5, <1>6 DEF PipeInv, EndsOf

\* What programs do at their pipes keeps the contents within bounds.
LEMMA ProgramPipes ==
    ASSUME PipeInv, NEW p \in Pid, Write(p) \/ Read(p) \/ Finish(p)
    PROVE  PipeInv'
<1>1. pc[p] # "none" /\ UNCHANGED <<shellVars, next>>
    BY DEF Write, Read, Finish
<1>2. shell' = "wait" => shell = "wait" /\ waitfor' = waitfor
    BY <1>1 DEF shellVars
<1>3. CASE Die(p) /\ inpipe' = inpipe
    BY <1>1, <1>2, <1>3, DeathLeavesPipes
<1>4. ASSUME NEW r, pc[p] = "writer", left[p] > 0, inpipe[r] < PipeSize,
             inpipe' = [inpipe EXCEPT ![r] = @ + 1],
             left' = [left EXCEPT ![p] = @ - 1], UNCHANGED <<pc, holds, job>>
      PROVE  PipeInv'
  <2>1. left' \in [Pid -> Nat]
    BY <1>4 DEF PipeInv
  <2>2. inpipe' \in [Pid -> 0..PipeSize]
    <3>1. inpipe \in [Pid -> 0..PipeSize] /\ PipeSize \in Nat
        BY ShellAssumption DEF PipeInv
    <3>2. r \in Pid => inpipe[r] + 1 \in 0..PipeSize
        BY <1>4, <3>1
    <3>3. QED
        BY <1>4, <3>1, <3>2
  <2>3. QED
    BY <1>1, <1>4, <2>1, <2>2 DEF PipeInv, EndsOf, shellVars
<1>5. ASSUME inpipe[p] > 0, inpipe' = [inpipe EXCEPT ![p] = @ - 1],
             UNCHANGED <<pc, holds, job, left>>
      PROVE  PipeInv'
  <2>1. inpipe' \in [Pid -> 0..PipeSize]
    <3>1. inpipe \in [Pid -> 0..PipeSize] /\ PipeSize \in Nat
        BY ShellAssumption DEF PipeInv
    <3>2. inpipe[p] - 1 \in 0..PipeSize
        BY <1>5, <3>1
    <3>3. QED
        BY <1>5, <3>1, <3>2
  <2>2. QED
    BY <1>1, <1>5, <2>1 DEF PipeInv, EndsOf, shellVars
<1>6. CASE Write(p)
    BY <1>3, <1>4, <1>6 DEF Write
<1>7. CASE Read(p)
    BY <1>3, <1>5, <1>7 DEF Read
<1>8. CASE Finish(p)
    BY <1>3, <1>8 DEF Finish
<1>9. QED
    BY <1>6, <1>7, <1>8

\* Steps that neither fork nor touch a pipe.
LEMMA PipesAlone ==
    ASSUME PipeInv, UNCHANGED procVars,
           shell' = "wait" => shell = "wait" /\ waitfor' = waitfor
    PROVE  PipeInv'
<1>1. UNCHANGED <<next, pc, holds, left, inpipe>>
    BY DEF procVars
<1>2. QED
    BY <1>1 DEF PipeInv, EndsOf

\* The child that is collected had left its pipes.
LEMMA WaitDonePipes == ASSUME PipeInv, WaitDone PROVE PipeInv'
<1>1. /\ shell = "wait" /\ shell' = "prompt" /\ pc[waitfor] = "zombie"
      /\ pc' = [pc EXCEPT ![waitfor] = "gone"]
      /\ UNCHANGED <<next, holds, left, inpipe>>
    BY DEF WaitDone
<1>2. waitfor \in Pid
    BY <1>1 DEF PipeInv
<1>3. EndsOf(waitfor, "zombie", holds[waitfor])
    BY <1>1, <1>2 DEF PipeInv
<1>4. EndsOf(waitfor, "gone", holds[waitfor])
    BY <1>3 DEF EndsOf
<1>5. \A q \in Pid : EndsOf(q, pc'[q], holds'[q])
    BY <1>1, <1>2, <1>4 DEF PipeInv
<1>6. QED
    BY <1>1, <1>2, <1>5 DEF PipeInv, Stages, EndsOf

\* No step breaks the invariant.
LEMMA NextPipes == PipeInv /\ [Next]_vars => PipeInv'
<1> SUFFICES ASSUME PipeInv, [Next]_vars PROVE PipeInv'
    OBVIOUS
<1>1. CASE ReadLine \/ NoProcess \/ ExitShell \/ Refuse
  <2>1. UNCHANGED procVars /\ shell' # "wait"
    BY <1>1 DEF ReadLine, NoProcess, ExitShell, Refuse
  <2>2. QED
    BY <2>1, PipesAlone
<1>2. CASE Kill
  <2>1. shell' # "wait" /\ \A p \in KillTarget : p \in Pid /\ pc[p] # "none"
    BY <1>2 DEF Kill, KillTarget, Alive
  <2>2. CASE UNCHANGED procVars
    BY <2>1, <2>2, PipesAlone
  <2>3. CASE (\E p \in KillTarget : Die(p)) /\ UNCHANGED <<next, inpipe>>
    BY <2>1, <2>3, DeathLeavesPipes
  <2>4. QED
    BY <1>2, <2>2, <2>3 DEF Kill
<1>3. CASE Launch
    BY <1>3, LaunchPipes
<1>4. CASE WaitDone
    BY <1>4, WaitDonePipes
<1>5. ASSUME NEW p \in Pid, ProcStep(p) PROVE PipeInv'
    BY <1>5, ForkPipes, RunPipes, ProgramPipes DEF ProcStep
<1>6. CASE UNCHANGED vars
    BY <1>6, PipesAlone DEF vars
<1>7. QED
    BY <1>1, <1>2, <1>3, <1>4, <1>5, <1>6 DEF Next, ShellStep

\* Who sleeps at a pipe faces somebody who does not: an empty pipe has room for
\* the writer and a full one something to read.
LEMMA SomebodyGoesOn ==
    ASSUME PipeInv, NEW p \in Pid, Alive(p), ~CanGoOn(p)
    PROVE  \E q \in Pid \ {p} : Opposite(p, q) /\ CanGoOn(q)
<1>1. \A q \in Pid : pc[q] \in Stages /\ EndsOf(q, pc[q], holds[q])
    BY DEF PipeInv
<1>2. left \in [Pid -> Nat] /\ inpipe \in [Pid -> 0..PipeSize] /\ PipeSize \in Nat \ {0}
    BY ShellAssumption DEF PipeInv
<1>3. pc[p] \in {"reader", "writer"}
    BY <1>1 DEF Alive, CanGoOn, Stages
<1>4. CASE pc[p] = "reader"
  <2>1. holds[p] = {<<p, "r">>} /\ inpipe[p] = 0 /\ Held(<<p, "w">>)
    <3>1. ~(inpipe[p] > 0) /\ Held(<<p, "w">>)
        BY <1>4 DEF CanGoOn
    <3>2. holds[p] = {<<p, "r">>}
        BY <1>1, <1>4 DEF EndsOf
    <3>3. QED
        BY <1>2, <3>1, <3>2
  <2>2. PICK q \in Pid : <<p, "w">> \in holds[q]
    BY <2>1 DEF Held
  <2>3. q # p
    BY <2>1, <2>2
  <2>4. CanGoOn(q)
    <3>1. EndsOf(q, pc[q], holds[q])
        BY <1>1
    <3>2. pc[q] \in {"consumer", "producer", "writer"}
        BY <2>2, <3>1 DEF EndsOf
    <3>3. inpipe[p] < PipeSize
        BY <1>2, <2>1
    <3>4. <<p, "w">>[2] = "w" /\ <<p, "w">>[1] = p
        OBVIOUS
    <3>5. QED
        BY <2>2, <3>2, <3>3, <3>4 DEF CanGoOn
  <2>5. QED
    BY <2>1, <2>2, <2>3, <2>4 DEF Opposite
<1>5. CASE pc[p] = "writer"
  <2>1. PICK r \in Pid \ {p} : holds[p] = {<<r, "w">>}
    BY <1>1, <1>5 DEF EndsOf
  <2>2. ~(inpipe[r] < PipeSize) /\ Held(<<r, "r">>)
    <3>1. <<r, "w">> \in holds[p] /\ <<r, "w">>[2] = "w" /\ <<r, "w">>[1] = r
        BY <2>1
    <3>2. QED
        BY <1>5, <3>1 DEF CanGoOn
  <2>3. PICK q \in Pid : <<r, "r">> \in holds[q]
    BY <2>2 DEF Held
  <2>4. q # p
    BY <2>1, <2>3
  <2>5. CanGoOn(q)
    <3>1. EndsOf(q, pc[q], holds[q])
        BY <1>1
    <3>2. pc[q] \in {"consumer", "producer"} \/ (pc[q] = "reader" /\ q = r)
        BY <2>3, <3>1 DEF EndsOf
    <3>3. inpipe[r] > 0
        BY <1>2, <2>2
    <3>4. QED
        BY <3>2, <3>3 DEF CanGoOn
  <2>6. QED
    BY <2>1, <2>3, <2>4, <2>5 DEF Opposite
<1>6. QED
    BY <1>3, <1>4, <1>5

\* No pipeline is ever stuck and the shell never waits for a process that is
\* not there, for any number of processes and any size of the pipes
\* (sh.c:163-192, 213).
THEOREM NoPipelineStuck == Spec => []PipelinesGoOn
<1>1. Init => PipeInv
    BY InitPipes
<1>2. PipeInv /\ [Next]_vars => PipeInv'
    BY NextPipes
<1>3. PipeInv => PipelinesGoOn
  <2>1. ASSUME PipeInv, NEW p \in Pid, Alive(p), ~CanGoOn(p)
        PROVE  \E q \in Pid \ {p} : Opposite(p, q) /\ CanGoOn(q)
    BY <2>1, SomebodyGoesOn
  <2>2. PipeInv => (shell = "wait" => waitfor \in Pid /\ pc[waitfor] \notin {"none", "gone"})
    BY DEF PipeInv
  <2>3. QED
    BY <2>1, <2>2 DEF PipelinesGoOn
<1>4. QED
    BY <1>1, <1>2, <1>3, PTL DEF Spec
=============================================================================
