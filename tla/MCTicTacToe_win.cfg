\* A diagonal does not end the game, three other cells do.
SPECIFICATION Spec
CONSTANTS
    MAX_DEPTH = 3
    computers_turn <- ChooseMove
INVARIANT AlignedWins
