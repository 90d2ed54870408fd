--------------------------- MODULE TicTacToeGame ---------------------------
(***************************************************************************)
(* What the tic-tac-toe programs promise, without processes or pipes: the  *)
(* user and the computer put a symbol on an empty cell in turn, the user   *)
(* first, until win() ends the game; then another game may start.          *)
(***************************************************************************)
EXTENDS TicTacToeRules

VARIABLES
    grid,      \* the board
    player,    \* whose turn it is
    outcome    \* how the game ended, "none" while it goes on

gameVars == <<grid, player, outcome>>

Verdict == {"none", "YOU_WIN", "YOU_LOSE", "NO_WINNER"}

\* The verdict on the board g after a move of the side id.
VerdictOf(g, id) ==
    CASE win(g) = "WIN" -> IF id = PLAYER_ID THEN "YOU_WIN" ELSE "YOU_LOSE"
      [] win(g) = "DRAW" -> "NO_WINNER"
      [] win(g) = "PROGRESS" -> "none"

GameInit ==
    /\ grid = [i \in Cell |-> EMPTY_ID]
    /\ player = PLAYER_ID
    /\ outcome = "none"

Move ==
    /\ outcome = "none"
    /\ \E i \in EmptyCells(grid) : grid' = [grid EXCEPT ![i] = player]
    /\ outcome' = VerdictOf(grid', player)
    /\ player' = Opponent(player)

NewGame ==
    /\ outcome # "none"
    /\ grid' = [i \in Cell |-> EMPTY_ID]
    /\ player' = PLAYER_ID
    /\ outcome' = "none"

GameNext == Move \/ NewGame

GameSpec == GameInit /\ [][GameNext]_gameVars
=============================================================================
