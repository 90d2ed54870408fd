\* Two clients, of which one waits in the queue while the other is served.
SPECIFICATION Spec
CONSTANTS
    Client = {c1, c2}
    MAX_CONNECTIONS = 5
    MaxCounting = 2
INVARIANTS AnswerOfRequest CountedOnce NobodyForgotten
PROPERTIES Answered QuitHeard
CHECK_DEADLOCK FALSE
