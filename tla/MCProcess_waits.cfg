\* Three processes of one page each, some of them traced: enough for one with a
\* parent and a child of its own. No symmetry, for the liveness property.
SPECIFICATION FairSpec
CONSTANTS
    MaxPid = 3
    Frame = {f1, f2, f3}
    RootImage = {}
    StackPages = 1
    ImagePages = 0
    FD_MAX = 1
    StdFds = {0}
    Discipline = "once"
    Tracing = TRUE
INVARIANTS ExitReleases WaitIsSafe NotAllBlocked
PROPERTIES ReapOnlyZombies WaitReturns
CHECK_DEADLOCK FALSE
