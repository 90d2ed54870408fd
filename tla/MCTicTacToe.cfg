\* Every game the user can play against the computer. MAX_DEPTH is in a header
\* that is not in the repository; it does not change the moves. Fairness of the
\* scheduler, and of the user who wants to finish the game.
SPECIFICATION FairSpec
CONSTANTS
    MAX_DEPTH = 2
    computers_turn <- ChooseMove
INVARIANTS FairGame OneQuestion VerdictShown
PROPERTIES PlaysTheGame GameEnds
