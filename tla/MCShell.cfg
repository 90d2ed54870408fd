SPECIFICATION Spec
CONSTANTS
    Lines <- SampleLines
    TOKEN_NR = 6
    ARGS_MAX = 8
    MaxPid = 4
    PipeSize = 1
    MaxWrites = 2
INVARIANTS ArgsAsTyped ForegroundCollected PipelinesGoOn
PROPERTIES CommandsEnd
CHECK_DEADLOCK FALSE
