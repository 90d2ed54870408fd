SPECIFICATION SimSpec
CONSTANTS
    Builds = {4}
    Value = {0, 1}
    Addr <- SampleAddr
INVARIANT InverseOfPhysical
