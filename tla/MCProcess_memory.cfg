\* Three processes that wait for any pid, or for -1. The root process maps two
\* pages at first, of which it owns one, and every process owns two after exec;
\* the frames run out one short of two for each.
SPECIFICATION Spec
CONSTANTS
    MaxPid = 3
    Frame = {f1, f2, f3, f4, f5}
    RootImage = {r1}
    StackPages = 1
    ImagePages = 1
    FD_MAX = 2
    StdFds = {0}
    Discipline = "any"
    Tracing = FALSE
SYMMETRY FrameSymmetry
INVARIANTS TypeOK NoOrphan FramesAccounted Isolation
CHECK_DEADLOCK FALSE
