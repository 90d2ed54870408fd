-------------------------- MODULE TicTacToeProofs --------------------------
(***************************************************************************)
(* Proofs that the two tic-tac-toe processes play the game of module       *)
(* TicTacToeGame, whatever cell the computer chooses.                      *)
(***************************************************************************)
EXTENDS TicTacToe, FiniteSetTheorems, SequenceTheorems, TLAPS

\* A verdict is one of the four, and there is none only when a cell is free.
LEMMA VerdictType ==
    ASSUME NEW g \in Grid, NEW id \in {PLAYER_ID, AI_ID}
    PROVE  /\ G!VerdictOf(g, id) \in G!Verdict
           /\ G!VerdictOf(g, id) \in Cmd \cup {"none"}
           /\ G!VerdictOf(g, id) = "none" => EmptyCells(g) # {}
<1>1. G!win(g) \in {"WIN", "DRAW", "PROGRESS"}
    BY DEF G!win
<1>2. G!win(g) = "PROGRESS" => EmptyCells(g) # {}
    BY DEF G!win, G!EmptyCells, EmptyCells, G!Cell, Cell, G!GRID_SIZE, GRID_SIZE,
           G!EMPTY_ID, EMPTY_ID
<1>3. QED
    BY <1>1, <1>2 DEF G!VerdictOf, G!Verdict, Cmd

\* What check_game_state leaves behind.
LEMMA CheckType ==
    ASSUME TypeOK, NEW g \in Grid, NEW id \in {PLAYER_ID, AI_ID}, check_game_state(g, id)
    PROVE  /\ outcome' \in G!Verdict
           /\ over' \in BOOLEAN /\ over' = (outcome' # "none")
           /\ ~over' => EmptyCells(g) # {}
           /\ toPlayer' \in Seq(Cmd)
<1>1. outcome' \in G!Verdict /\ outcome' \in Cmd \cup {"none"}
    BY VerdictType DEF check_game_state
<1>2. over' \in BOOLEAN /\ over' = (outcome' # "none")
    BY DEF check_game_state
<1>3. ~over' => EmptyCells(g) # {}
    BY <1>2, VerdictType DEF check_game_state
<1>4. toPlayer' \in Seq(Cmd)
    BY <1>1 DEF check_game_state, TypeOK
<1>5. QED
    BY <1>1, <1>2, <1>3, <1>4

\* The board a game starts with.
LEMMA EmptyGrid ==
    /\ [i \in Cell |-> EMPTY_ID] \in Grid
    /\ EmptyCells([i \in Cell |-> EMPTY_ID]) # {}
<1>1. 0 \in Cell
    BY DEF Cell, GRID_SIZE
<1>2. QED
    BY <1>1 DEF Grid, EmptyCells

\* The initial state satisfies the invariant.
LEMMA InitGameInv == Init => GameInv
<1> SUFFICES ASSUME Init PROVE GameInv
    OBVIOUS
<1>1. grid \in Grid /\ EmptyCells(grid) # {}
    BY EmptyGrid DEF Init
<1>2. /\ player \in {PLAYER_ID, AI_ID} /\ outcome \in G!Verdict
      /\ shown \in G!Verdict /\ toPlayer \in Seq(Cmd) /\ toGm \in Seq(Cell)
    BY DEF Init, G!Verdict
<1>3. QED
    BY <1>1, <1>2 DEF Init, GameInv, TypeOK

\* Every step preserves it.
LEMMA NextGameInv == GameInv /\ [Next]_vars => GameInv'
<1> SUFFICES ASSUME GameInv, [Next]_vars PROVE GameInv'
    OBVIOUS
<1>0. TypeOK
    BY DEF GameInv
<1>1. CASE UNCHANGED vars
    BY <1>1 DEF vars, GameInv, TypeOK
<1>2. CASE GmStart
    BY <1>0, <1>2 DEF GmStart, GameInv, TypeOK, Cmd
<1>3. CASE GmAsk
    BY <1>0, <1>3 DEF GmAsk, GameInv, TypeOK, Cmd
<1>4. CASE GmGetMove
  <2>1. toGm' \in Seq(Cell)
    BY <1>0, <1>4 DEF GmGetMove, TypeOK
  <2>2. CASE GmRejects(Head(toGm))
    <3>1. toPlayer' \in Seq(Cmd)
        <4>1. toPlayer' = Append(toPlayer, "MOVE_REJECTED")
            BY <1>4, <2>2 DEF GmGetMove
        <4>2. toPlayer \in Seq(Cmd) /\ "MOVE_REJECTED" \in Cmd
            BY <1>0 DEF TypeOK, Cmd
        <4>3. QED
            BY ONLY <4>1, <4>2
    <3>2. QED
        BY <1>0, <1>4, <2>1, <2>2, <3>1 DEF GmGetMove, GameInv, TypeOK
  <2>3. CASE ~GmRejects(Head(toGm))
    <3>1. grid' \in Grid
        BY <1>0, <1>4, <2>3 DEF GmGetMove, TypeOK, Grid
    <3>2. check_game_state(grid', PLAYER_ID) /\ player' = AI_ID /\ gm' = "turn"
        BY <1>4, <2>3 DEF GmGetMove
    <3>3. QED
        BY <1>0, <1>4, <2>1, <3>1, <3>2, CheckType DEF GmGetMove, GameInv, TypeOK
  <2>4. QED
    BY <2>2, <2>3
<1>5. CASE GmComputer
  <2>1. grid' \in Grid
    BY <1>0, <1>5 DEF GmComputer, TypeOK, Grid
  <2>2. QED
    BY <1>0, <1>5, <2>1, CheckType DEF GmComputer, GameInv, TypeOK
<1>6. CASE GmEnd
  <2>1. toPlayer' \in Seq(Cmd)
    BY <1>0, <1>6 DEF GmEnd, TypeOK, Cmd
  <2>2. QED
    BY <1>0, <1>6, <2>1 DEF GmEnd, GameInv, TypeOK
<1>7. CASE GmWaitpid
    BY <1>0, <1>7 DEF GmWaitpid, GameInv, TypeOK
<1>8. CASE GmAgain
  <2>1. grid' \in Grid /\ EmptyCells(grid') # {}
    BY <1>8, EmptyGrid DEF GmAgain
  <2>2. /\ player' \in {PLAYER_ID, AI_ID} /\ outcome' \in G!Verdict
        /\ shown' \in G!Verdict /\ toPlayer' \in Seq(Cmd) /\ toGm' \in Seq(Cell)
    BY <1>8 DEF GmAgain, G!Verdict
  <2>3. QED
    BY <1>8, <2>1, <2>2 DEF GmAgain, GameInv, TypeOK
<1>9. CASE PlayerGet
    BY <1>0, <1>9 DEF PlayerGet, GameInv, TypeOK, G!Verdict
<1>10. CASE \E move \in Cell : PlayerInput(move)
    BY <1>0, <1>10 DEF PlayerInput, GameInv, TypeOK
<1>11. QED
    BY <1>1, <1>2, <1>3, <1>4, <1>5, <1>6, <1>7, <1>8, <1>9, <1>10 DEF Next, GmNext

\* The two processes keep their types: the game manager never puts a symbol
\* outside the board and every command is one the player knows.
THEOREM GameTypeCorrect == Spec => []TypeOK
<1>1. GameInv => TypeOK
    BY DEF GameInv
<1>2. QED
    BY InitGameInv, NextGameInv, <1>1, PTL DEF Spec

\* Every behaviour of the two processes is a game: symbols go on empty cells, in
\* turn, until the first verdict and not after it, whatever the player sends.
THEOREM Refinement == Spec => PlaysTheGame
<1>1. Init => G!GameInit
    BY DEF Init, G!GameInit, G!Cell, G!GRID_SIZE, G!EMPTY_ID, G!PLAYER_ID, Cell,
           GRID_SIZE, EMPTY_ID, PLAYER_ID
<1>2. GameInv /\ GameInv' /\ [Next]_vars => [G!GameNext]_(G!gameVars)
  <2> SUFFICES ASSUME GameInv, GameInv', [Next]_vars PROVE [G!GameNext]_(G!gameVars)
    OBVIOUS
  <2> USE DEF G!gameVars
  <2>1. CASE UNCHANGED <<grid, player, outcome>>
    BY <2>1
  <2>2. ASSUME outcome = "none", NEW i \in Cell, grid[i] = EMPTY_ID,
               grid' = [grid EXCEPT ![i] = player],
               outcome' = G!VerdictOf(grid', player), player' = Opponent(player)
        PROVE  G!GameNext
    BY <2>2 DEF G!GameNext, G!Move, G!EmptyCells, G!Cell, Cell,
                G!GRID_SIZE, GRID_SIZE, G!EMPTY_ID, EMPTY_ID, G!Opponent, Opponent,
                G!PLAYER_ID, PLAYER_ID, G!AI_ID, AI_ID
  <2>3. CASE GmGetMove /\ ~GmRejects(Head(toGm))
    <3>1. player = PLAYER_ID /\ outcome = "none"
        BY <2>3 DEF GmGetMove, GameInv
    <3>2. /\ Head(toGm) \in Cell /\ grid[Head(toGm)] = EMPTY_ID
          /\ grid' = [grid EXCEPT ![Head(toGm)] = PLAYER_ID]
          /\ outcome' = G!VerdictOf(grid', PLAYER_ID) /\ player' = AI_ID
        BY <2>3 DEF GmGetMove, GmRejects, check_game_state
    <3>3. QED
        BY <2>2, <3>1, <3>2 DEF Opponent
  <2>4. CASE GmComputer
    <3>1. player = AI_ID /\ outcome = "none" /\ EmptyCells(grid) # {} /\ grid \in Grid
        BY <2>4 DEF GmComputer, GameInv, TypeOK
    <3>2. computers_turn(grid) \in Cell /\ grid[computers_turn(grid)] = EMPTY_ID
        BY <3>1, ComputerAssumption DEF EmptyCells
    <3>3. PICK i \in Cell : i = computers_turn(grid)
        BY <3>2
    <3>4. /\ grid[i] = EMPTY_ID /\ grid' = [grid EXCEPT ![i] = player]
          /\ outcome' = G!VerdictOf(grid', AI_ID)
        BY <2>4, <3>1, <3>2, <3>3 DEF GmComputer, check_game_state
    <3>5. outcome' = G!VerdictOf(grid', player)
        BY <3>1, <3>4
    <3>6. player' = Opponent(player)
        BY <2>4, <3>1 DEF GmComputer, Opponent, PLAYER_ID, AI_ID
    <3>7. QED
        BY <2>2, <3>1, <3>4, <3>5, <3>6
  <2>5. CASE GmAgain
    BY <2>5 DEF GmAgain, GameInv, G!GameNext, G!NewGame, G!Cell, Cell, G!GRID_SIZE,
                GRID_SIZE, G!EMPTY_ID, EMPTY_ID, G!PLAYER_ID, PLAYER_ID
  <2>6. CASE GmGetMove /\ GmRejects(Head(toGm))
    BY <2>1, <2>6 DEF GmGetMove
  <2>7. CASE GmStart \/ GmAsk \/ GmEnd \/ GmWaitpid \/ UNCHANGED vars
    BY <2>1, <2>7 DEF GmStart, GmAsk, GmEnd, GmWaitpid, vars
  <2>8. CASE PlayerGet \/ \E move \in Cell : PlayerInput(move)
    BY <2>1, <2>8 DEF PlayerGet, PlayerInput
  <2>9. QED
    BY <2>3, <2>4, <2>5, <2>6, <2>7, <2>8 DEF Next, GmNext
<1>3. QED
    BY InitGameInv, NextGameInv, <1>1, <1>2, PTL DEF Spec, PlaysTheGame, G!GameSpec

\* A verdict is a command of its own: neither the end of the game nor a question.
LEMMA VerdictCommand ==
    ASSUME outcome \in G!Verdict, outcome # "none"
    PROVE  outcome \in {"NO_WINNER", "YOU_WIN", "YOU_LOSE"}
BY DEF G!Verdict

\* A second command behind the first.
LEMMA SecondCommand == ASSUME NEW a, NEW b PROVE Append(<<a>>, b) = <<a, b>>
<1>1. /\ <<a>> \in Seq({a, b}) /\ <<a, b>> \in Seq({a, b}) /\ b \in {a, b}
      /\ Len(<<a>>) = 1 /\ Len(<<a, b>>) = 2
    OBVIOUS
<1>2. Append(<<a>>, b) \in Seq({a, b}) /\ Len(Append(<<a>>, b)) = 2
    BY <1>1
<1>3. \A i \in 1 .. 2 : Append(<<a>>, b)[i] = <<a, b>>[i]
    BY <1>1
<1>4. QED
    BY <1>1, <1>2, <1>3, SeqEqual

\* Every step keeps the exchange in one of its shapes.
LEMMA NextExchange == GameInv /\ GameInv' /\ Exchange /\ [Next]_vars => Exchange'
<1> SUFFICES ASSUME GameInv, GameInv', Exchange, [Next]_vars PROVE Exchange'
    OBVIOUS
<1>0. TypeOK /\ over = (outcome # "none")
    BY DEF GameInv
<1>1. CASE UNCHANGED vars
    BY <1>1 DEF vars, Exchange
<1>2. CASE GmStart
    BY <1>2 DEF GmStart, GameInv, Exchange
<1>3. CASE GmAsk
  <2>1. /\ prompt' = "read" /\ shown' = "none" /\ toGm' = <<>> /\ gm' = "wait"
        /\ toPlayer = <<>> \/ toPlayer = <<"GAME_START">>
    BY <1>3 DEF GmAsk, Exchange
  <2>2. toPlayer' \in {<<"GAME_START", "YOU_CAN_PLAY">>, <<"YOU_CAN_PLAY">>}
    <3>1. toPlayer' = Append(toPlayer, "YOU_CAN_PLAY")
        BY <1>3 DEF GmAsk
    <3>2. CASE toPlayer = <<>>
        BY <3>1, <3>2
    <3>3. CASE toPlayer = <<"GAME_START">>
        BY <3>1, <3>3, SecondCommand
    <3>4. QED
        BY <2>1, <3>2, <3>3
  <2>3. QED
    BY <2>1, <2>2 DEF Exchange
<1>4. CASE GmGetMove
  <2>1. /\ prompt = "read" /\ shown = "none" /\ toPlayer = <<>> /\ Len(toGm) = 1
    BY <1>4 DEF GmGetMove, Exchange
  <2>2. toGm' = <<>> /\ prompt' = "read" /\ shown' = "none"
    BY <1>0, <1>4, <2>1 DEF GmGetMove, TypeOK
  <2>3. CASE GmRejects(Head(toGm))
    <3>1. toPlayer' = <<"MOVE_REJECTED">> /\ gm' = "wait"
        BY <1>4, <2>1, <2>3 DEF GmGetMove
    <3>2. QED
        BY <2>2, <3>1 DEF Exchange
  <2>4. CASE ~GmRejects(Head(toGm))
    <3>1. /\ gm' = "turn" /\ over' = (outcome' # "none")
          /\ toPlayer' = IF outcome' = "none" THEN <<>> ELSE <<outcome'>>
        BY <1>4, <2>1, <2>4 DEF GmGetMove, check_game_state
    <3>2. QED
        BY <2>2, <3>1 DEF Exchange
  <2>5. QED
    BY <2>3, <2>4
<1>5. CASE GmComputer
  <2>1. /\ prompt = "read" /\ shown = "none" /\ toGm = <<>> /\ toPlayer = <<>>
    BY <1>5 DEF GmComputer, Exchange, PLAYER_ID, AI_ID
  <2>2. /\ gm' = "turn" /\ prompt' = "read" /\ shown' = "none" /\ toGm' = <<>>
        /\ over' = (outcome' # "none")
        /\ toPlayer' = IF outcome' = "none" THEN <<>> ELSE <<outcome'>>
    BY <1>5, <2>1 DEF GmComputer, check_game_state
  <2>3. QED
    BY <2>2 DEF Exchange
<1>6. CASE GmEnd
  <2>1. /\ toGm' = <<>> /\ gm' = "waitpid" /\ outcome' = outcome /\ shown' = shown
        /\ prompt' = prompt
    BY <1>6 DEF GmEnd, Exchange
  <2>2. CASE prompt = "read" /\ shown = "none" /\ toPlayer = <<outcome>>
    <3>1. toPlayer' = <<outcome, "GAME_END">>
        BY <1>6, <2>2, SecondCommand DEF GmEnd
    <3>2. QED
        BY <2>1, <2>2, <3>1 DEF Exchange
  <2>3. CASE prompt = "exited" /\ shown = outcome /\ toPlayer = <<>>
    <3>1. toPlayer' = <<"GAME_END">>
        BY <1>6, <2>3 DEF GmEnd
    <3>2. QED
        BY <2>1, <2>3, <3>1 DEF Exchange
  <2>4. QED
    BY <1>6, <2>2, <2>3 DEF GmEnd, Exchange
<1>7. CASE GmWaitpid
    BY <1>7 DEF GmWaitpid, Exchange
<1>8. CASE GmAgain
    BY <1>8 DEF GmAgain, Exchange
<1>9. CASE PlayerGet
  <2> USE <1>9 DEF PlayerGet
  <2>1. /\ prompt = "read" /\ toPlayer # <<>> /\ toPlayer' = Tail(toPlayer)
        /\ UNCHANGED <<over, player, outcome, gm, toGm>>
    OBVIOUS
  <2>2. CASE gm = "turn" /\ ~over
    <3>1. toPlayer = <<"GAME_START">>
        BY <2>1, <2>2 DEF Exchange
    <3>2. toPlayer' = <<>> /\ UNCHANGED <<prompt, shown>>
        BY <3>1
    <3>3. QED
        BY <2>1, <2>2, <3>2 DEF Exchange
  <2>3. CASE gm = "wait"
    <3>1. CASE toPlayer = <<"GAME_START", "YOU_CAN_PLAY">>
      <4>1. toPlayer' = <<"YOU_CAN_PLAY">> /\ UNCHANGED <<prompt, shown>>
        BY <3>1
      <4>2. QED
        BY <2>1, <2>3, <4>1 DEF Exchange
    <3>2. CASE toPlayer \in {<<"YOU_CAN_PLAY">>, <<"MOVE_REJECTED">>}
      <4>1. Head(toPlayer) \in {"YOU_CAN_PLAY", "MOVE_REJECTED"} /\ toPlayer' = <<>>
        BY <3>2
      <4>2. prompt' = "input" /\ UNCHANGED shown
        BY <4>1
      <4>3. QED
        BY <2>1, <2>3, <3>2, <4>1, <4>2 DEF Exchange
    <3>3. QED
        BY <2>1, <2>3, <3>1, <3>2 DEF Exchange
  <2>4. ASSUME over, toPlayer # <<>>, Head(toPlayer) = outcome
        PROVE  prompt' = "exited" /\ shown' = outcome
    <3>1. outcome \in {"NO_WINNER", "YOU_WIN", "YOU_LOSE"}
        BY <1>0, <2>4, VerdictCommand DEF TypeOK
    <3>2. QED
        BY <2>4, <3>1
  <2>5. CASE gm = "turn" /\ over
    <3>1. toPlayer = <<outcome>>
        BY <2>1, <2>5 DEF Exchange
    <3>2. toPlayer' = <<>> /\ Head(toPlayer) = outcome
        BY <3>1
    <3>3. QED
        BY <2>1, <2>4, <2>5, <3>2 DEF Exchange
  <2>6. CASE gm = "waitpid"
    <3>1. toPlayer = <<outcome, "GAME_END">>
        BY <2>1, <2>6 DEF Exchange
    <3>2. toPlayer' = <<"GAME_END">> /\ Head(toPlayer) = outcome
        BY <3>1
    <3>3. over
        BY <2>6 DEF GameInv
    <3>4. QED
        BY <2>1, <2>4, <2>6, <3>2, <3>3 DEF Exchange
  <2>7. QED
    BY <1>0, <2>1, <2>2, <2>3, <2>5, <2>6 DEF Exchange, TypeOK
<1>10. CASE \E move \in Cell : PlayerInput(move)
  <2>1. PICK move \in Cell : PlayerInput(move)
    BY <1>10
  <2>2. gm = "wait" /\ toPlayer = <<>> /\ toGm = <<>> /\ shown = "none"
    BY <1>0, <2>1 DEF PlayerInput, Exchange, TypeOK
  <2>3. Len(toGm') = 1
    BY <2>1, <2>2 DEF PlayerInput
  <2>4. QED
    BY <2>1, <2>2, <2>3 DEF PlayerInput, Exchange
<1>11. QED
    BY <1>1, <1>2, <1>3, <1>4, <1>5, <1>6, <1>7, <1>8, <1>9, <1>10 DEF Next, GmNext

\* The invariant of the game with the exchange holds in every state.
LEMMA ExchangeHolds == Spec => [](GameInv /\ Exchange)
<1>1. Init => Exchange
    BY DEF Init, Exchange
<1>2. QED
    BY InitGameInv, NextGameInv, NextExchange, <1>1, PTL DEF Spec

\* In each shape of the exchange there is one question, or none.
LEMMA ExchangeQuestion == ASSUME GameInv, Exchange PROVE OneQuestion
<1> DEFINE Q == {"YOU_CAN_PLAY", "MOVE_REJECTED"}
<1>0. gm \in {"begin", "turn", "wait", "waitpid", "again"} /\ toGm \in Seq(Cell)
    BY DEF GameInv, TypeOK
<1>1. ASSUME \A i \in 1 .. Len(toPlayer) : toPlayer[i] \notin Q
      PROVE  Cardinality(Questions) = 0
  <2>1. Questions = {}
    BY <1>1 DEF Questions
  <2>2. QED
    BY <2>1, FS_EmptySet
<1>2. ASSUME NEW k, Questions = {k}
      PROVE  Cardinality(Questions) = 1
    BY <1>2, FS_Singleton
<1>3. ASSUME gm # "wait", toPlayer # <<>>
      PROVE  Len(toPlayer) <= 2 /\ \A i \in 1 .. Len(toPlayer) : toPlayer[i] \notin Q
  <2>1. \/ toPlayer = <<"GAME_START">> \/ toPlayer = <<"GAME_END">>
        \/ over /\ toPlayer = <<outcome>>
        \/ over /\ toPlayer = <<outcome, "GAME_END">>
    <3>1. CASE gm \in {"begin", "turn"}
      <4>1. CASE over
        BY <1>3, <3>1, <4>1 DEF Exchange
      <4>2. CASE ~over
        BY <1>3, <3>1, <4>2 DEF Exchange
      <4>3. QED
        BY <4>1, <4>2
    <3>2. CASE gm \in {"waitpid", "again"}
        BY <1>3, <3>2 DEF Exchange, GameInv
    <3>3. QED
        BY <1>0, <1>3, <3>1, <3>2
  <2>2. over => outcome \in {"NO_WINNER", "YOU_WIN", "YOU_LOSE"}
    BY VerdictCommand DEF GameInv, TypeOK
  <2>3. CASE toPlayer = <<"GAME_START">> \/ toPlayer = <<"GAME_END">>
    <3>1. Len(toPlayer) = 1 /\ toPlayer[1] \in {"GAME_START", "GAME_END"}
        BY <2>3
    <3>2. QED
        BY <3>1
  <2>4. CASE over /\ toPlayer = <<outcome>>
    BY <2>2, <2>4
  <2>5. CASE over /\ toPlayer = <<outcome, "GAME_END">>
    <3>1. Len(toPlayer) = 2 /\ toPlayer[1] = outcome /\ toPlayer[2] = "GAME_END"
        BY <2>5
    <3>2. QED
        BY <2>2, <2>5, <3>1
  <2>6. QED
    BY <2>1, <2>3, <2>4, <2>5
<1>4. CASE toPlayer = <<>>
  <2>1. Cardinality(Questions) = 0 /\ Len(toPlayer) <= 2
    BY <1>1, <1>4
  <2>2. CASE gm = "wait"
    <3>1. (IF prompt = "input" THEN 1 ELSE 0) + Len(toGm) = 1
        BY <1>4, <2>2 DEF Exchange
    <3>2. QED
        BY <1>0, <2>1, <2>2, <3>1 DEF OneQuestion
  <2>3. CASE gm # "wait"
    <3>1. prompt # "input" /\ toGm = <<>>
        BY <1>0, <2>3 DEF Exchange, GameInv
    <3>2. QED
        BY <2>1, <2>3, <3>1 DEF OneQuestion
  <2>4. QED
    BY <2>2, <2>3
<1>5. CASE toPlayer \in {<<"YOU_CAN_PLAY">>, <<"MOVE_REJECTED">>}
  <2>0. Len(toPlayer) = 1
    BY <1>5
  <2>1. Questions = {1}
    BY <1>5 DEF Questions
  <2>2. toPlayer # <<>> /\ toPlayer[1] \in Q
    BY <1>5
  <2>3. gm = "wait"
    BY <2>0, <2>2, <1>3
  <2>4. prompt # "input" /\ toGm = <<>>
    BY <2>2, <2>3 DEF Exchange
  <2>5. Cardinality(Questions) = 1
    BY <1>2, <2>1
  <2>6. QED
    BY <2>0, <2>3, <2>4, <2>5 DEF OneQuestion
<1>6. CASE toPlayer = <<"GAME_START", "YOU_CAN_PLAY">>
  <2>0. Len(toPlayer) = 2
    BY <1>6
  <2>1. Questions = {2}
    BY <1>6 DEF Questions
  <2>2. toPlayer # <<>> /\ toPlayer[2] \in Q
    BY <1>6
  <2>3. gm = "wait"
    BY <2>0, <2>2, <1>3
  <2>4. prompt # "input" /\ toGm = <<>>
    BY <2>2, <2>3 DEF Exchange
  <2>5. Cardinality(Questions) = 1
    BY <1>2, <2>1
  <2>6. QED
    BY <2>0, <2>3, <2>4, <2>5 DEF OneQuestion
<1>7. CASE gm # "wait" /\ toPlayer # <<>>
  <2>1. \A i \in 1 .. Len(toPlayer) : toPlayer[i] \notin Q
    BY <1>7, <1>3
  <2>2. Cardinality(Questions) = 0
    BY <1>1, <2>1
  <2>3. Len(toPlayer) <= 2
    BY <1>7, <1>3
  <2>4. toGm = <<>> /\ prompt # "input"
    BY <1>0, <1>7 DEF Exchange, GameInv
  <2>5. QED
    BY <1>7, <2>2, <2>3, <2>4 DEF OneQuestion
<1>8. QED
    BY <1>0, <1>4, <1>5, <1>6, <1>7 DEF Exchange

\* Whatever the user enters, the game manager waits for a move exactly when one
\* question or one answer is under way, and the pipes hold two commands at most.
THEOREM QuestionsAnswered == Spec => []OneQuestion
BY ExchangeHolds, ExchangeQuestion, PTL

\* The player has shown the verdict of the game when the game manager is done
\* with it, and never "ended unexpectedly": GAME_END cannot overtake it.
THEOREM VerdictReachesUser == Spec => []VerdictShown
<1>1. GameInv /\ Exchange => VerdictShown
  <2> SUFFICES ASSUME GameInv, Exchange PROVE VerdictShown
    OBVIOUS
  <2>1. gm \in {"begin", "turn", "wait", "waitpid", "again"}
    BY DEF GameInv, TypeOK
  <2>2. shown # "none" => shown = outcome
    BY <2>1 DEF Exchange
  <2>3. gm = "again" => shown # "none"
    BY DEF Exchange, GameInv
  <2>4. QED
    BY <2>2, <2>3 DEF VerdictShown
<1>2. QED
    BY ExchangeHolds, <1>1, PTL

-----------------------------------------------------------------------------
\* What FairGame says of a board, a turn and a verdict.
Fair(g, turn, said) ==
    /\ Cardinality(Taken(g, PLAYER_ID))
           = Cardinality(Taken(g, AI_ID)) + (IF turn = AI_ID THEN 1 ELSE 0)
    /\ said = "YOU_WIN" <=> Filled(g, PLAYER_ID)
    /\ said = "YOU_LOSE" <=> Filled(g, AI_ID)
    /\ said = "NO_WINNER" <=>
           EmptyCells(g) = {} /\ ~Filled(g, PLAYER_ID) /\ ~Filled(g, AI_ID)

\* The lines that win() tests lie on the board.
LEMMA LinesOnBoard ==
    ASSUME NEW id, NEW l \in WinLines(id)
    PROVE  l \subseteq Cell /\ l # {}
<1>1. \A x, y, z \in 0 .. 8 : {x, y, z} \subseteq Cell /\ {x, y, z} # {}
    BY DEF Cell, GRID_SIZE
<1>2. l \in Rows \/ l \in Columns
      \/ l = {0, 4, 5} \/ l = {2, 4, 6} \/ l = {2, 5, 6}
    BY DEF WinLines
<1>3. \E x, y, z \in 0 .. 8 : l = {x, y, z}
  <2>1. CASE l \in Rows
    BY <2>1 DEF Rows
  <2>2. CASE l \in Columns
    BY <2>2 DEF Columns
  <2>3. CASE l = {0, 4, 5} \/ l = {2, 4, 6} \/ l = {2, 5, 6}
    BY <2>3
  <2>4. QED
    BY <1>2, <2>1, <2>2, <2>3
<1>4. QED
    BY <1>1, <1>3

\* win() looks for a line of either side, and does not say of which.
LEMMA WinMeans ==
    ASSUME NEW g
    PROVE  G!win(g) = IF Filled(g, PLAYER_ID) \/ Filled(g, AI_ID) THEN "WIN"
                      ELSE IF EmptyCells(g) = {} THEN "DRAW" ELSE "PROGRESS"
<1>1. \A id : G!WinLines(id) = WinLines(id)
    BY DEF G!WinLines, WinLines, G!Rows, Rows, G!Columns, Columns, G!PLAYER_ID, PLAYER_ID
<1>2. \A id, l : G!Holds(g, l, id) <=> Holds(g, l, id)
    BY DEF G!Holds, Holds
<1>3. G!EmptyCells(g) = EmptyCells(g)
    BY DEF G!EmptyCells, EmptyCells, G!Cell, Cell, G!GRID_SIZE, GRID_SIZE,
           G!EMPTY_ID, EMPTY_ID
<1>4. G!PLAYER_ID = PLAYER_ID /\ G!AI_ID = AI_ID
    BY DEF G!PLAYER_ID, PLAYER_ID, G!AI_ID, AI_ID
<1>5. (\E id \in {G!PLAYER_ID, G!AI_ID} : \E l \in G!WinLines(id) : G!Holds(g, l, id))
      <=> Filled(g, PLAYER_ID) \/ Filled(g, AI_ID)
    BY <1>1, <1>2, <1>4 DEF Filled
<1>6. QED
    BY <1>3, <1>5 DEF G!win

\* The board a game starts with is fair.
LEMMA FairStart == Fair([i \in Cell |-> EMPTY_ID], PLAYER_ID, "none")
<1> DEFINE g == [i \in Cell |-> EMPTY_ID]
<1>1. \A id \in {PLAYER_ID, AI_ID} : id # EMPTY_ID
    BY DEF PLAYER_ID, AI_ID, EMPTY_ID
<1>2. \A id \in {PLAYER_ID, AI_ID} : Taken(g, id) = {}
    BY <1>1 DEF Taken
<1>3. \A id \in {PLAYER_ID, AI_ID} : ~Filled(g, id)
    BY <1>1, LinesOnBoard DEF Filled, Holds
<1>4. EmptyCells(g) # {}
    BY EmptyGrid
<1>5. PLAYER_ID # AI_ID /\ Cardinality({}) = 0
    BY FS_EmptySet DEF PLAYER_ID, AI_ID
<1> HIDE DEF g
<1>6. Fair(g, PLAYER_ID, "none")
    BY <1>2, <1>3, <1>4, <1>5 DEF Fair
<1>7. QED
    BY <1>6 DEF g

\* A symbol on a free cell adds to the cells of its side and of no other, and
\* completes no line of the other side.
LEMMA SymbolAdded ==
    ASSUME NEW g \in Grid, NEW id \in {PLAYER_ID, AI_ID}, NEW i \in Cell, g[i] = EMPTY_ID
    PROVE  LET h == [g EXCEPT ![i] = id]
               other == Opponent(id)
           IN  /\ Cardinality(Taken(h, id)) = Cardinality(Taken(g, id)) + 1
               /\ Taken(h, other) = Taken(g, other)
               /\ Filled(h, other) => Filled(g, other)
               /\ IsFiniteSet(Taken(g, other))
<1> DEFINE h == [g EXCEPT ![i] = id]
           other == Opponent(id)
<1>1. /\ other \in {PLAYER_ID, AI_ID} /\ other # id
      /\ id # EMPTY_ID /\ other # EMPTY_ID
    BY DEF Opponent, PLAYER_ID, AI_ID, EMPTY_ID
<1>2. \A k \in Cell : h[k] = IF k = i THEN id ELSE g[k]
    BY DEF Grid
<1>3. \A x : IsFiniteSet(Taken(g, x))
  <2>1. IsFiniteSet(0 .. 8)
    <3>1. 0 \in Int /\ 8 \in Int
        OBVIOUS
    <3>2. QED
        BY ONLY <3>1, FS_Interval
  <2>2. \A x : Taken(g, x) \in SUBSET (0 .. 8)
    BY DEF Taken, Cell, GRID_SIZE
  <2>3. QED
    BY <2>1, <2>2, FS_Subset
<1>4. Cardinality(Taken(h, id)) = Cardinality(Taken(g, id)) + 1
  <2>1. Taken(h, id) = Taken(g, id) \cup {i} /\ i \notin Taken(g, id)
    BY <1>1, <1>2 DEF Taken
  <2>2. QED
    BY <1>3, <2>1, FS_AddElement
<1>5. Taken(h, other) = Taken(g, other)
    BY <1>1, <1>2 DEF Taken
<1>6. Filled(h, other) => Filled(g, other)
  <2>1. ASSUME NEW l \in WinLines(other), Holds(h, l, other) PROVE Holds(g, l, other)
    <3>1. l \subseteq Cell
        BY LinesOnBoard
    <3>2. \A k \in l : h[k] = other
        BY <2>1 DEF Holds
    <3>3. \A k \in l : g[k] = other
        BY <1>1, <1>2, <3>1, <3>2
    <3>4. QED
        BY <3>3 DEF Holds
  <2>2. QED
    BY <2>1 DEF Filled
<1>7. QED
    BY <1>3, <1>4, <1>5, <1>6

\* A move keeps the game fair.
LEMMA FairMove ==
    ASSUME NEW g \in Grid, NEW id \in {PLAYER_ID, AI_ID}, Fair(g, id, "none"),
           NEW i \in Cell, g[i] = EMPTY_ID
    PROVE  LET h == [g EXCEPT ![i] = id]
           IN  Fair(h, Opponent(id), G!VerdictOf(h, id))
<1> DEFINE h == [g EXCEPT ![i] = id]
           other == Opponent(id)
           v == G!VerdictOf(h, id)
<1>1. ~Filled(g, PLAYER_ID) /\ ~Filled(g, AI_ID)
    BY DEF Fair
<1>2. /\ Cardinality(Taken(h, id)) = Cardinality(Taken(g, id)) + 1
      /\ Taken(h, other) = Taken(g, other)
      /\ Filled(h, other) => Filled(g, other)
    BY SymbolAdded
<1>3. \A x : Cardinality(Taken(g, x)) \in Nat
  <2>1. IsFiniteSet(0 .. 8)
    <3>1. 0 \in Int /\ 8 \in Int
        OBVIOUS
    <3>2. QED
        BY ONLY <3>1, FS_Interval
  <2>2. \A x : Taken(g, x) \in SUBSET (0 .. 8)
    BY DEF Taken, Cell, GRID_SIZE
  <2>3. QED
    BY <2>1, <2>2, FS_Subset, FS_CardinalityType
<1>4. /\ (id = PLAYER_ID /\ other = AI_ID) \/ (id = AI_ID /\ other = PLAYER_ID)
      /\ PLAYER_ID # AI_ID
  <2>1. PLAYER_ID # AI_ID
    BY DEF PLAYER_ID, AI_ID
  <2>2. Opponent(PLAYER_ID) = AI_ID /\ Opponent(AI_ID) = PLAYER_ID
    BY <2>1 DEF Opponent
  <2>3. QED
    BY <2>1, <2>2
<1>5. v = IF Filled(h, id) THEN (IF id = PLAYER_ID THEN "YOU_WIN" ELSE "YOU_LOSE")
          ELSE IF EmptyCells(h) = {} THEN "NO_WINNER" ELSE "none"
  <2>1. ~Filled(h, other)
    BY <1>1, <1>2, <1>4
  <2>2. G!win(h) = IF Filled(h, id) THEN "WIN"
                   ELSE IF EmptyCells(h) = {} THEN "DRAW" ELSE "PROGRESS"
    BY <1>4, <2>1, WinMeans
  <2>3. QED
    BY <2>2 DEF G!VerdictOf, G!PLAYER_ID, PLAYER_ID
<1>6. ~Filled(h, other)
    BY <1>1, <1>2, <1>4
<1>7. Cardinality(Taken(g, PLAYER_ID))
          = Cardinality(Taken(g, AI_ID)) + (IF id = AI_ID THEN 1 ELSE 0)
    BY DEF Fair
<1> HIDE DEF h, v, other
<1>8. Cardinality(Taken(h, PLAYER_ID))
          = Cardinality(Taken(h, AI_ID)) + (IF other = AI_ID THEN 1 ELSE 0)
  <2>1. CASE id = PLAYER_ID /\ other = AI_ID
    BY <1>2, <1>3, <1>4, <1>7, <2>1
  <2>2. CASE id = AI_ID /\ other = PLAYER_ID
    BY <1>2, <1>3, <1>4, <1>7, <2>2
  <2>3. QED
    BY <1>4, <2>1, <2>2
<1>9. /\ v = "YOU_WIN" <=> Filled(h, PLAYER_ID)
      /\ v = "YOU_LOSE" <=> Filled(h, AI_ID)
      /\ v = "NO_WINNER" <=>
             EmptyCells(h) = {} /\ ~Filled(h, PLAYER_ID) /\ ~Filled(h, AI_ID)
    BY <1>4, <1>5, <1>6
<1>10. Fair(h, other, v)
    BY <1>8, <1>9 DEF Fair
<1>11. QED
    BY <1>10 DEF h, v, other

\* The two sides have had as many moves as is their due and the verdict goes to
\* the side that filled a line, for every choice of the computer and whatever
\* the player sends (tictactoe_gm.c:153-198, 272-336).
THEOREM GameIsFair == Spec => []FairGame
<1>1. FairGame <=> Fair(grid, player, outcome)
    BY DEF FairGame, Fair
<1>2. Init => FairGame
    BY <1>1, FairStart DEF Init
<1>3. FairGame' <=> Fair(grid', player', outcome')
    BY DEF FairGame, Fair
<1>4. GameInv /\ FairGame /\ [G!GameNext]_(G!gameVars) => FairGame'
  <2> SUFFICES ASSUME GameInv, FairGame, [G!GameNext]_(G!gameVars) PROVE FairGame'
    OBVIOUS
  <2>1. CASE UNCHANGED G!gameVars
    BY <1>1, <1>3, <2>1 DEF G!gameVars
  <2>2. CASE G!NewGame
    <3>1. grid' = [i \in Cell |-> EMPTY_ID] /\ player' = PLAYER_ID /\ outcome' = "none"
        BY <2>2 DEF G!NewGame, G!Cell, Cell, G!GRID_SIZE, GRID_SIZE, G!EMPTY_ID, EMPTY_ID,
                    G!PLAYER_ID, PLAYER_ID
    <3>2. QED
        BY <1>3, <3>1, FairStart
  <2>3. CASE G!Move
    <3>1. PICK i \in Cell : grid[i] = EMPTY_ID /\ grid' = [grid EXCEPT ![i] = player]
        BY <2>3 DEF G!Move, G!EmptyCells, G!Cell, Cell, G!GRID_SIZE, GRID_SIZE,
                    G!EMPTY_ID, EMPTY_ID
    <3>2. /\ outcome = "none" /\ outcome' = G!VerdictOf(grid', player)
          /\ player' = Opponent(player)
        BY <2>3 DEF G!Move, G!Opponent, Opponent, G!PLAYER_ID, PLAYER_ID, G!AI_ID, AI_ID
    <3>3. grid \in Grid /\ player \in {PLAYER_ID, AI_ID}
        BY DEF GameInv, TypeOK
    <3>4. Fair(grid, player, "none")
        BY <1>1, <3>2
    <3>5. Fair(grid', player', outcome')
        BY <3>1, <3>2, <3>3, <3>4, FairMove
    <3>6. QED
        BY <1>3, <3>5
  <2>4. QED
    BY <2>1, <2>2, <2>3 DEF G!GameNext
<1>5. QED
    BY InitGameInv, NextGameInv, Refinement, <1>2, <1>4, PTL DEF Spec, PlaysTheGame, G!GameSpec
=============================================================================
