--------------------------- MODULE MCLetterCount ---------------------------
\* Instances of LetterCount for TLC: texts with letters in both cases, other
\* characters, NUL, and lengths below, at and above the number of threads.
EXTENDS LetterCount, TLC

SomeFiles == { <<>>, <<"a">>, <<"A", "b", ".">>, <<"b", "a", "A", "a">>,
               <<"a", ".", "b", "B", "a">>, <<"a", "b", "NUL", "a", "b">>,
               <<"b", "b", "a", ".", "A", "B", "a", "a", "B">> }
SomeNums == {-1, 0, 1, 2, 3, 4, 5}
Lower == "a" :> "a" @@ "A" :> "a" @@ "b" :> "b" @@ "B" :> "b"
=============================================================================
