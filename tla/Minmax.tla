------------------------------- MODULE Minmax -------------------------------
(***************************************************************************)
(* computers_turn and minmax of usr/src/tictactoe_gm.c.                    *)
(***************************************************************************)
EXTENDS TicTacToeRules, FiniteSetsExt

CONSTANT MAX_DEPTH
ASSUME DepthAssumption == MAX_DEPTH \in Nat \ {0}

\* The score the loop of minmax keeps: the first positive one, which ends the
\* loop, or else the best.
LoopScore(score) ==
    LET positive == {i \in DOMAIN score : score[i] > 0}
    IN  IF positive # {} THEN score[Min(positive)] ELSE Max({score[i] : i \in DOMAIN score})

RECURSIVE minmax(_, _, _)
minmax(grid, player, depth) ==
    IF depth = 0 \/ EmptyCells(grid) = {} THEN 0
    ELSE LoopScore([i \in EmptyCells(grid) |->
                       -minmax([grid EXCEPT ![i] = player], -player, depth - 1)])

\* The index of the first empty cell with the best score; -1 on a full board.
ChooseMove(grid) ==
    LET score == [i \in EmptyCells(grid) |->
                     -minmax([grid EXCEPT ![i] = AI_ID], AI_ID, MAX_DEPTH - 1)]
        best == Max({score[i] : i \in DOMAIN score})
    IN  IF EmptyCells(grid) = {} THEN -1 ELSE Min({i \in DOMAIN score : score[i] = best})
=============================================================================
