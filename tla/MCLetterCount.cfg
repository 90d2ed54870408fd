SPECIFICATION Spec
CONSTANTS
    Files <- SomeFiles
    Nums <- SomeNums
    MAX_THREAD_NUM = 4
    Letters = {"a", "b"}
    tolower <- Lower
INVARIANTS TypeOK BuffersLive CountsRight
PROPERTIES Ends
CHECK_DEADLOCK FALSE
