----------------------------- MODULE MCSyscalls -----------------------------
\* Instances of Syscalls for TLC: ints of four bits, heaps of different places.
EXTENDS Syscalls, TLC
CONSTANTS p1, p2, sh, ls
Bases == sh :> 3 @@ ls :> 8
=============================================================================
