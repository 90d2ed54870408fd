---------------------------- MODULE MemReplace ----------------------------
(***************************************************************************)
(* The simulator of page replacement, usr/src/memreplace.c: three pages    *)
(* are in RAM, the user accesses one page after the other, and an access   *)
(* to a page that is not in RAM replaces one that is, chosen by LRU or by  *)
(* WSC.  The two byte counters wrap around; WORD stands for the 256 values *)
(* of a byte.                                                              *)
(***************************************************************************)
EXTENDS Integers, FiniteSets

CONSTANTS
    NB_PAGES,
    WORD,      \* the number of values of tvc and of an entry of tdu
    DELTA      \* the age beyond which WSC replaces a page

ASSUME ReplaceAssumption ==
    /\ NB_PAGES \in Nat /\ NB_PAGES >= 4
    /\ WORD \in Nat \ {0}
    /\ DELTA \in Nat

Page == 0 .. NB_PAGES - 1
Byte == 0 .. WORD - 1

VARIABLES
    LRU_run,   \* is the policy LRU, from the arguments of the program?
    valid,     \* the pages with VALID_BIT: those in RAM
    swap,      \* the pages with SWAP_BIT
    ref,       \* the pages with REF_BIT
    tdu,       \* the time of the last use of each page, as the program knows it
    tvc,       \* the virtual time: the number of accesses, modulo WORD
    newer,     \* history: the pages accessed since the last access to a page
    last,      \* history: the page accessed last, -1 at first
    wrapped    \* history: has tvc wrapped around?

vars == <<LRU_run, valid, swap, ref, tdu, tvc, newer, last, wrapped>>

TypeOK ==
    /\ LRU_run \in BOOLEAN
    /\ valid \in SUBSET Page
    /\ swap \in SUBSET Page
    /\ ref \in SUBSET Page
    /\ tdu \in [Page -> Byte]
    /\ tvc \in Byte
    /\ newer \in [Page -> SUBSET Page]
    /\ last \in Page \cup {-1}
    /\ wrapped \in BOOLEAN

\* init_page_table
Init ==
    /\ LRU_run \in BOOLEAN
    /\ valid = {0, 1, 2}
    /\ swap = {3}
    /\ ref = {}
    /\ tdu = [i \in Page |-> 0]
    /\ tvc = 0
    /\ newer = [i \in Page |-> {}]
    /\ last = -1
    /\ wrapped = FALSE

-----------------------------------------------------------------------------
First(S) == {v \in S : \A i \in S : v <= i}

\* Mutant: a search that finds no tdu below tvc replaces nothing.
replaceLRU_NoDefault ==
    LET below == {i \in valid : tdu[i] < tvc}
    IN  First({v \in below : \A i \in below : tdu[v] <= tdu[i]})

\* Mutant: the comparison of the times is the wrong way round.
replaceLRU_Newest ==
    LET below == {i \in valid : tdu[i] < tvc}
    IN  IF below = {} THEN First(valid)
        ELSE First({v \in below : \A i \in below : tdu[v] >= tdu[i]})

\* The page replaceLRU takes out of RAM, as a set: the first one with the
\* smallest tdu; but the search starts from tvc, and when no tdu is below that
\* it ends with the first page.
replaceLRU ==
    LET below == {i \in valid : tdu[i] < tvc}
    IN  IF below = {} THEN First(valid)
        ELSE First({v \in below : \A i \in below : tdu[v] <= tdu[i]})

\* The pages that are old when their turn comes in replaceWSC.  The subtraction
\* is one of ints: it may be negative.
Stale == {i \in valid \ ref : tvc - tdu[i] > DELTA}

\* Mutant: the reference bit does not save a page.
replaceWSC_IgnoresRef ==
    LET stale == {i \in valid : tvc - tdu[i] > DELTA}
    IN  IF stale = {} THEN First(valid) ELSE First(stale)

\* The page replaceWSC takes out of RAM: the first old one, or else the first.
replaceWSC == IF Stale = {} THEN First(valid) ELSE First(Stale)

\* Mutant: the page saved as the one to replace keeps its reference bit.
SweptRefs_SkipsFirst ==
    {i \in ref : i \notin valid \/ i \in First(valid) \/ \E s \in Stale : s <= i}

\* The reference bits that replaceWSC leaves: it clears those of the pages in
\* RAM up to the one where it stops.
SweptRefs == {i \in ref : i \notin valid \/ \E s \in First(Stale) : s <= i}

\* Mutant: the page that is replaced does not go to the swap.
Load_NoSwap(page, gone) ==
    /\ valid' = (valid \ gone) \cup {page}
    /\ swap' = swap \ {page}

\* UNLOAD_PAGE of what is replaced, then the page accessed is in RAM.
Load(page, gone) ==
    /\ valid' = (valid \ gone) \cup {page}
    /\ swap' = (swap \cup gone) \ {page}

\* tvc++ on a byte.
Tick ==
    /\ tvc' = (tvc + 1) % WORD
    /\ wrapped' = (wrapped \/ tvc + 1 = WORD)

Remember(page) ==
    /\ newer' = [i \in Page |-> IF i = page THEN {} ELSE newer[i] \cup {page}]
    /\ last' = page
    /\ UNCHANGED LRU_run

\* An access under LRU; inc_compteur records its time.
AccessLRU(page) ==
    /\ LRU_run
    /\ Load(page, IF page \in valid THEN {} ELSE replaceLRU)
    /\ tdu' = [tdu EXCEPT ![page] = tvc]
    /\ ref' = ref \cup {page}
    /\ Tick
    /\ Remember(page)

\* The times once every page referenced has the present one.
updateTDU(refs) == [i \in Page |-> IF i \in refs THEN tvc ELSE tdu[i]]

\* An access under WSC; updateTDU comes before the bit of this page is set.
AccessWSC(page) ==
    /\ ~LRU_run
    /\ Load(page, IF page \in valid THEN {} ELSE replaceWSC)
    /\ LET left == IF page \in valid THEN ref ELSE SweptRefs
       IN  /\ tdu' = updateTDU(left)
           /\ ref' = left \cup {page}
    /\ Tick
    /\ Remember(page)

\* A number that is not that of a page changes nothing.
Next == \E page \in Page : AccessLRU(page) \/ AccessWSC(page)

Spec == Init /\ [][Next]_vars

-----------------------------------------------------------------------------
\* The pages a step replaces.
Evicted == valid \ valid'

\* However long the program runs, a fault finds a page to replace and RAM holds
\* three pages, none of them also marked as swapped out: UNLOAD_PAGE and the
\* bits set after an access, in two places of the code, always balance.
ThreeInRam ==
    /\ \E a, b, c \in Page : a # b /\ a # c /\ b # c /\ valid = {a, b, c}
    /\ valid \cap swap = {}

\* A page that was in RAM or in the swap is in one of them ever after.
NothingLost == [][valid \cup swap \subseteq valid' \cup swap']_vars

\* UNLOAD_PAGE leaves the reference bit alone, and updateTDU would go on taking
\* a page out of RAM for a used one: under WSC no such page has the bit, since
\* the search clears the bit of the page it takes for want of an old one.
RefsInRam == ~LRU_run => ref \subseteq valid

\* Until the counter wraps around, LRU replaces a page that was not accessed
\* since the last access to any other page in RAM.  The exception is the page
\* of the very first access, which has the time 0 of the pages never accessed.
LeastRecentGoes ==
    [][LRU_run /\ ~wrapped =>
        \A v \in Evicted : \A w \in valid : v \in newer[w] => tdu[v] = 0]_vars

\* WSC replaces the page used by the access before only if it is the first one
\* in RAM, wrapped around or not.
JustUsedStays ==
    [][~LRU_run => (last \in Evicted => \A i \in valid : last <= i)]_vars

\* The inductive invariant behind LeastRecentGoes: until the counter wraps
\* around, the times follow the order of the accesses and are in the past.
TimesInOrder ==
    LRU_run /\ ~wrapped =>
        /\ \A i \in Page : tdu[i] < tvc \/ (tdu[i] = 0 /\ tvc = 0)
        /\ \A w \in Page : \A v \in newer[w] : tdu[w] < tdu[v] \/ tdu[v] = 0
=============================================================================
