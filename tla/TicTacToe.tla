----------------------------- MODULE TicTacToe -----------------------------
(***************************************************************************)
(* The game manager (tictactoe_gm.c) and the player (tictactoe_player.c),  *)
(* two processes that exchange commands over the two pipes of              *)
(* tictactoe_ipc.c.  A process runs from one blocking read to the next; a  *)
(* pipe is a queue, and a write never blocks (a pipe holds more commands   *)
(* than are ever in it, see OneQuestion).                                  *)
(*                                                                         *)
(* The player is started by fork and exec, which are taken to succeed, and *)
(* every read and write is taken to succeed.                               *)
(***************************************************************************)
EXTENDS TicTacToeRules, Sequences

CONSTANT computers_turn(_)   \* the cell the computer chooses on a board

\* It chooses an empty cell when there is one.
ASSUME ComputerAssumption ==
    \A g \in Grid : EmptyCells(g) # {} => computers_turn(g) \in EmptyCells(g)

VARIABLES
    grid,       \* game.grid
    over,       \* game.over
    player,     \* whose turn it is in game_manager
    outcome,    \* the verdict check_game_state sent last, "none" before
    gm,         \* where the game manager stands
    prompt,     \* where the player stands
    shown,      \* the verdict the player has displayed
    toPlayer,   \* pipe2, from the game manager to the player
    toGm        \* pipe1, from the player to the game manager

vars == <<grid, over, player, outcome, gm, prompt, shown, toPlayer, toGm>>

G == INSTANCE TicTacToeGame

Cmd == {"GAME_START", "GAME_END", "YOU_CAN_PLAY", "MOVE_REJECTED", "NO_WINNER",
        "YOU_WIN", "YOU_LOSE"}

\* One type for all: "begin", "turn" (the loop of game_manager), "wait" (in
\* gm_get_cmd), "waitpid", "again" (asks for another game).
TypeOK ==
    /\ grid \in Grid
    /\ over \in BOOLEAN
    /\ player \in {PLAYER_ID, AI_ID}
    /\ outcome \in G!Verdict
    /\ gm \in {"begin", "turn", "wait", "waitpid", "again"}
    /\ prompt \in {"read", "input", "exited"}
    /\ shown \in G!Verdict \cup {"unexpected"}
    /\ toPlayer \in Seq(Cmd)
    /\ toGm \in Seq(Cell)

Init ==
    /\ grid = [i \in Cell |-> EMPTY_ID]
    /\ over = FALSE
    /\ player = PLAYER_ID
    /\ outcome = "none"
    /\ gm = "begin"
    /\ prompt = "read"
    /\ shown = "none"
    /\ toPlayer = <<>>
    /\ toGm = <<>>

-----------------------------------------------------------------------------
\* game_manager tells the player that the game starts.
GmStart ==
    /\ gm = "begin"
    /\ toPlayer' = Append(toPlayer, "GAME_START")
    /\ gm' = "turn"
    /\ UNCHANGED <<grid, over, player, outcome, prompt, shown, toGm>>

\* Mutant: the read that follows the question does not block.
GmAsk_NoWait ==
    /\ gm = "turn" /\ ~over /\ player = PLAYER_ID
    /\ toPlayer' = Append(toPlayer, "YOU_CAN_PLAY")
    /\ UNCHANGED <<grid, over, player, outcome, gm, prompt, shown, toGm>>

\* get_player_move asks the player for a move and waits for it.
GmAsk ==
    /\ gm = "turn" /\ ~over /\ player = PLAYER_ID
    /\ toPlayer' = Append(toPlayer, "YOU_CAN_PLAY")
    /\ gm' = "wait"
    /\ UNCHANGED <<grid, over, player, outcome, prompt, shown, toGm>>

\* Mutant: the verdict is not sent when the game is a draw.
check_game_state_SilentDraw(g, id) ==
    /\ outcome' = G!VerdictOf(g, id)
    /\ over' = (outcome' # "none")
    /\ toPlayer' = IF outcome' \in {"none", "NO_WINNER"} THEN toPlayer
                   ELSE Append(toPlayer, outcome')

\* check_game_state, once the side id has moved to the board g.
check_game_state(g, id) ==
    /\ outcome' = G!VerdictOf(g, id)
    /\ over' = (outcome' # "none")
    /\ toPlayer' = IF outcome' = "none" THEN toPlayer ELSE Append(toPlayer, outcome')

\* Mutant: a move to a cell that is taken is not rejected.
GmRejects_OutOfRangeOnly(move) == move \notin Cell

\* The moves get_player_move does not accept.
GmRejects(move) == move \notin Cell \/ grid[move] # EMPTY_ID

\* get_player_move reads a move: it rejects it and waits again, or accepts it
\* and game_manager applies it, judges the board and turns to the computer.
GmGetMove ==
    /\ gm = "wait"
    /\ toGm # <<>>
    /\ toGm' = Tail(toGm)
    /\ LET move == Head(toGm) IN
          \/ /\ GmRejects(move)
             /\ toPlayer' = Append(toPlayer, "MOVE_REJECTED")
             /\ UNCHANGED <<grid, over, player, outcome, gm>>
          \/ /\ ~GmRejects(move)
             /\ grid' = [grid EXCEPT ![move] = PLAYER_ID]
             /\ check_game_state(grid', PLAYER_ID)
             /\ player' = AI_ID
             /\ gm' = "turn"
    /\ UNCHANGED <<prompt, shown>>

\* Mutant: the board is judged for the user after the computer's move too.
GmComputer_AsUser ==
    /\ gm = "turn" /\ ~over /\ player = AI_ID
    /\ grid' = [grid EXCEPT ![computers_turn(grid)] = AI_ID]
    /\ check_game_state(grid', PLAYER_ID)
    /\ player' = PLAYER_ID
    /\ UNCHANGED <<gm, prompt, shown, toGm>>

\* The computer's turn.
GmComputer ==
    /\ gm = "turn" /\ ~over /\ player = AI_ID
    /\ grid' = [grid EXCEPT ![computers_turn(grid)] = AI_ID]
    /\ check_game_state(grid', AI_ID)
    /\ player' = PLAYER_ID
    /\ UNCHANGED <<gm, prompt, shown, toGm>>

\* The end of game_manager: GAME_END, then main waits for the player.
GmEnd ==
    /\ gm = "turn" /\ over
    /\ toPlayer' = Append(toPlayer, "GAME_END")
    /\ gm' = "waitpid"
    /\ UNCHANGED <<grid, over, player, outcome, prompt, shown, toGm>>

GmWaitpid ==
    /\ gm = "waitpid" /\ prompt = "exited"
    /\ gm' = "again"
    /\ UNCHANGED <<grid, over, player, outcome, prompt, shown, toPlayer, toGm>>

\* main closes the pipes and starts over: a new board, new pipes, a new player.
GmAgain ==
    /\ gm = "again"
    /\ grid' = [i \in Cell |-> EMPTY_ID]
    /\ over' = FALSE
    /\ player' = PLAYER_ID
    /\ outcome' = "none"
    /\ gm' = "begin"
    /\ prompt' = "read"
    /\ shown' = "none"
    /\ toPlayer' = <<>>
    /\ toGm' = <<>>

-----------------------------------------------------------------------------
\* Mutant: a rejected move is not asked for again.
PlayerGet_NoRetry ==
    /\ prompt = "read" /\ toPlayer # <<>>
    /\ toPlayer' = Tail(toPlayer)
    /\ prompt' = IF Head(toPlayer) = "YOU_CAN_PLAY" THEN "input" ELSE "read"
    /\ UNCHANGED <<grid, over, player, outcome, gm, shown, toGm>>

\* The loop of the player: a command is read and obeyed.  A verdict, or the end
\* of the game, ends the process.
PlayerGet ==
    /\ prompt = "read" /\ toPlayer # <<>>
    /\ toPlayer' = Tail(toPlayer)
    /\ LET cmd == Head(toPlayer) IN
          \/ cmd = "GAME_START" /\ UNCHANGED <<prompt, shown>>
          \/ /\ cmd \in {"YOU_CAN_PLAY", "MOVE_REJECTED"}
             /\ prompt' = "input"
             /\ UNCHANGED shown
          \/ /\ cmd \in {"NO_WINNER", "YOU_WIN", "YOU_LOSE", "GAME_END"}
             /\ prompt' = "exited"
             /\ shown' = IF cmd = "GAME_END" THEN "unexpected" ELSE cmd
    /\ UNCHANGED <<grid, over, player, outcome, gm, toGm>>

\* get_input_move: lines that parse_line refuses are asked for again, so what is
\* sent is the index of a cell, free or not.
PlayerInput(move) ==
    /\ prompt = "input"
    /\ toGm' = Append(toGm, move)
    /\ prompt' = "read"
    /\ UNCHANGED <<grid, over, player, outcome, gm, shown, toPlayer>>

GmNext ==
    GmStart \/ GmAsk \/ GmGetMove \/ GmComputer \/ GmEnd \/ GmWaitpid

Next == GmNext \/ GmAgain \/ PlayerGet \/ \E move \in Cell : PlayerInput(move)

Spec == Init /\ [][Next]_vars

\* Both processes are scheduled, and the user who is asked again and again at
\* some point enters a cell that is free.  Another game is the user's choice.
FairSpec ==
    /\ Spec
    /\ WF_vars(GmNext)
    /\ WF_vars(PlayerGet)
    /\ SF_vars(\E move \in EmptyCells(grid) : PlayerInput(move))

-----------------------------------------------------------------------------
\* The commands of toPlayer the player answers with a move.
Questions == {i \in 1 .. Len(toPlayer) : toPlayer[i] \in {"YOU_CAN_PLAY", "MOVE_REJECTED"}}

\* The game manager waits for a move exactly when one question is on its way to
\* the player, or the player is asking its user, or one answer is on its way
\* back: a move never answers a question of an earlier turn, no question stays
\* without an answer, and both processes never wait for each other. The pipes
\* never hold more than two commands, so that no write fills one up.
OneQuestion ==
    /\ Cardinality(Questions) + (IF prompt = "input" THEN 1 ELSE 0) + Len(toGm)
           = (IF gm = "wait" THEN 1 ELSE 0)
    /\ Len(toPlayer) <= 2

\* When the game manager is done with a game, the player has told its user how
\* it ended, and never that it "ended unexpectedly".
VerdictShown ==
    /\ shown # "none" => shown = outcome
    /\ gm = "again" => shown # "none"

\* The cells a side has taken, and whether it has filled a line that win() tests
\* for it, on the board g.
Taken(g, id) == {i \in Cell : g[i] = id}
Filled(g, id) == \E l \in WinLines(id) : Holds(g, l, id)

\* Both sides have had as many moves, the user one more at the computer's turn,
\* whatever was rejected in between; and the verdict names the side that filled
\* a line, although win() does not say which one did and check_game_state goes
\* by whose move it was: never do both sides, nor one before its verdict, and a
\* full board without a line is a draw (tictactoe_gm.c:153-198, 272-336).
FairGame ==
    /\ Cardinality(Taken(grid, PLAYER_ID))
           = Cardinality(Taken(grid, AI_ID)) + (IF player = AI_ID THEN 1 ELSE 0)
    /\ outcome = "YOU_WIN" <=> Filled(grid, PLAYER_ID)
    /\ outcome = "YOU_LOSE" <=> Filled(grid, AI_ID)
    /\ outcome = "NO_WINNER" <=>
           EmptyCells(grid) = {} /\ ~Filled(grid, PLAYER_ID) /\ ~Filled(grid, AI_ID)

\* The two processes play the game: each accepted move is one move of it, the
\* rest of the protocol does not show.
PlaysTheGame == G!GameSpec

\* Every game ends, and the game manager gets to know that the player is gone.
GameEnds == (gm = "begin") ~> (gm = "again")

\* The inductive invariant behind the theorems of module TicTacToeProofs: the
\* game is over when a verdict was sent, a board without one has a free cell,
\* and the game manager waits only for the player it asked.
GameInv ==
    /\ TypeOK
    /\ over = (outcome # "none")
    /\ ~over => EmptyCells(grid) # {}
    /\ gm \in {"begin", "wait"} => player = PLAYER_ID /\ ~over
    /\ gm \in {"waitpid", "again"} => over

\* What is in the two pipes, and where the player stands, at each point of the
\* game manager. GAME_START may stay unread until the player is asked; after
\* its first answer the player has read all it was sent when the game manager
\* runs; the verdict is read before GAME_END, which nobody reads.
Exchange ==
    /\ gm = "begin" =>
           prompt = "read" /\ shown = "none" /\ toPlayer = <<>> /\ toGm = <<>>
    /\ gm = "turn" /\ ~over =>
           /\ prompt = "read" /\ shown = "none" /\ toGm = <<>>
           /\ toPlayer = <<>> \/ (toPlayer = <<"GAME_START">> /\ player = PLAYER_ID)
    /\ gm = "wait" =>
           /\ shown = "none"
           /\ \/ /\ prompt = "read" /\ toGm = <<>>
                 /\ toPlayer \in {<<"GAME_START", "YOU_CAN_PLAY">>, <<"YOU_CAN_PLAY">>,
                                  <<"MOVE_REJECTED">>}
              \/ prompt = "input" /\ toPlayer = <<>> /\ toGm = <<>>
              \/ prompt = "read" /\ toPlayer = <<>> /\ Len(toGm) = 1
    /\ gm = "turn" /\ over =>
           /\ toGm = <<>>
           /\ \/ prompt = "read" /\ shown = "none" /\ toPlayer = <<outcome>>
              \/ prompt = "exited" /\ shown = outcome /\ toPlayer = <<>>
    /\ gm = "waitpid" =>
           /\ toGm = <<>>
           /\ \/ prompt = "read" /\ shown = "none" /\ toPlayer = <<outcome, "GAME_END">>
              \/ prompt = "exited" /\ shown = outcome /\ toPlayer = <<"GAME_END">>
    /\ gm = "again" =>
           prompt = "exited" /\ shown = outcome /\ toPlayer = <<"GAME_END">> /\ toGm = <<>>

-----------------------------------------------------------------------------
(* What a comment of tictactoe_gm.c says, and the code does not do.          *)

\* win(), 147-148: "The participant who has aligned three symbols wins the
\* game".  One diagonal is not tested, for the computer none is; instead, three
\* cells that are not aligned win.
AlignedWins ==
    outcome \in {"YOU_WIN", "YOU_LOSE"} <=> Aligned(grid, PLAYER_ID) \/ Aligned(grid, AI_ID)
=============================================================================
