---------------------------- MODULE MCMemReplace ----------------------------
(* Small instances of module MemReplace for TLC. *)
EXTENDS MemReplace
=============================================================================
