------------------------------ MODULE MCShell ------------------------------
\* Instances of Shell for TLC.
EXTENDS Shell

\* Lines of every kind: programs with and without arguments, pipelines, in the
\* foreground and in the background; lines the shell is not made for; the
\* commands of the shell itself; and one that fills the array of tokens.
SampleLines == {
    <<>>, <<"ls">>, <<"ls", "a", "&", "b">>,
    <<"ls", "a", "|", "more", "b">>, <<"ls", "|", "more", "&">>,
    <<"ls", "|">>, <<"|", "more">>, <<"&">>,
    <<"kill", "2">>, <<"kill", "-9", "3">>, <<"kill", "-USR1", "2">>, <<"kill", "-1", "2">>,
    <<"exit">>, <<"env">>,
    <<"ls", "a", "b", "c", "d", "e">> }
=============================================================================
