----------------------------- MODULE MCProcess -----------------------------
(* Small instances of module Process for TLC. *)
EXTENDS Process, TLC

\* Nothing tells two free frames apart.
FrameSymmetry == Permutations(Frame)
=============================================================================
