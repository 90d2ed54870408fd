SPECIFICATION Spec
CONSTANTS
    p1 = p1
    p2 = p2
    sh = sh
    ls = ls
    NULL = NULL
    Proc = {p1, p2}
    Root = p1
    Program = {sh, ls}
    ENOSYS = 1
    ENOENT = 1
    ECHILD = 1
    ENOMEM = 1
    Errno = {1}
    IntMax = 7
    HEAP_SIZE = 3
    heap_base_of <- Bases
INVARIANTS BreakInHeap ErrnoOfCall
