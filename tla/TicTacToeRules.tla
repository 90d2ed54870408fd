--------------------------- MODULE TicTacToeRules ---------------------------
(***************************************************************************)
(* The board of usr/src/tictactoe_gm.c and the way its win() judges it.    *)
(* The values of the identifiers are in a header that is not in the        *)
(* repository: the code needs EMPTY_ID to be 0 and AI_ID and PLAYER_ID to  *)
(* be opposite.                                                            *)
(***************************************************************************)
EXTENDS Integers, FiniteSets

GRID_SIZE == 9
Cell == 0 .. GRID_SIZE - 1

EMPTY_ID == 0
PLAYER_ID == 1
AI_ID == -1

Opponent(id) == IF id = PLAYER_ID THEN AI_ID ELSE PLAYER_ID

Grid == [Cell -> {EMPTY_ID, PLAYER_ID, AI_ID}]

EmptyCells(grid) == {i \in Cell : grid[i] = EMPTY_ID}

\* The cells that win() tests for each side, as the code lists them.
Rows == {{0, 1, 2}, {3, 4, 5}, {6, 7, 8}}
Columns == {{0, 3, 6}, {1, 4, 7}, {2, 5, 8}}
WinLines(id) ==
    Rows \cup Columns \cup
        {{0, 4, 5}, IF id = PLAYER_ID THEN {2, 4, 6} ELSE {2, 5, 6}}

\* Has win() found the side id to have filled one of the lines it tests?
Holds(grid, line, id) == \A i \in line : grid[i] = id

win(grid) ==
    IF \E id \in {PLAYER_ID, AI_ID} : \E l \in WinLines(id) : Holds(grid, l, id)
    THEN "WIN"
    ELSE IF EmptyCells(grid) = {} THEN "DRAW" ELSE "PROGRESS"

\* Three symbols in a row, a column or a diagonal: what "aligned" means.
Lines == Rows \cup Columns \cup {{0, 4, 8}, {2, 4, 6}}
Aligned(grid, id) == \E l \in Lines : Holds(grid, l, id)
=============================================================================
