------------------------------ MODULE MCMemSim ------------------------------
EXTENDS MemSim

\* The same offsets in pages that are open, without access and read-only, and
\* in pages whose numbers differ in one bit, or in all of them.
SampleAddr ==
    {page * 256 + 3 : page \in {0, 5, 10, 128, 245, 255}} \cup {10 * 256 + 255}
=============================================================================
