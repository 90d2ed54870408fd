---------------------------- MODULE MCTicTacToe ----------------------------
(* The two tic-tac-toe processes, with the computer's moves from minmax. *)
EXTENDS TicTacToe, Minmax
=============================================================================
