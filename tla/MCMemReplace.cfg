\* Five pages: one more than the program starts with. The counters wrap around
\* after WORD accesses, more than there are pages in RAM; DELTA is small enough
\* for pages to get old before that.
SPECIFICATION Spec
CONSTANTS
    NB_PAGES = 5
    WORD = 4
    DELTA = 1
INVARIANTS ThreeInRam RefsInRam
PROPERTIES NothingLost LeastRecentGoes JustUsedStays
