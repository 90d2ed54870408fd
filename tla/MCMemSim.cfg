SPECIFICATION SimSpec
CONSTANTS
    Builds = {2, 3}
    Value = {0, 1, 2}
    Addr <- SampleAddr
INVARIANTS
    ReadsBack
    Protected
