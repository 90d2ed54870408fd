-------------------------- MODULE SimulatorProofs --------------------------
(***************************************************************************)
(* Proofs about the two simulators: that of page replacement, for every    *)
(* number of pages, every width of the counters and every DELTA; and that  *)
(* of address translation as compiled for the steps 2 and 3, for all sets  *)
(* of addresses and of values.                                             *)
(***************************************************************************)
EXTENDS MemReplace, MemSim, TLAPS

\* The counter stays a byte; until it wraps around it counts.
LEMMA TickType ==
    ASSUME tvc \in Byte, Tick
    PROVE  /\ tvc' \in Byte
           /\ tvc + 1 # WORD => tvc' = tvc + 1
<1>1. tvc \in Nat /\ tvc + 1 <= WORD /\ WORD \in Nat \ {0}
    BY ReplaceAssumption DEF Byte
<1>2. CASE tvc + 1 = WORD
  <2>1. tvc' = WORD % WORD
    BY <1>2 DEF Tick
  <2>2. WORD % WORD = 0
    BY <1>1
  <2>3. QED
    BY <1>1, <1>2, <2>1, <2>2 DEF Byte
<1>3. CASE tvc + 1 < WORD
  <2>1. (tvc + 1) % WORD = tvc + 1
    BY <1>1, <1>3
  <2>2. QED
    BY <1>1, <1>3, <2>1 DEF Tick, Byte
<1>4. QED
    BY <1>1, <1>2, <1>3

\* What a fault replaces is in RAM, and it is one page at most.
LEMMA VictimInRam ==
    ASSUME valid \in SUBSET Page
    PROVE  /\ replaceLRU \subseteq valid /\ replaceWSC \subseteq valid
           /\ \A u, v \in replaceLRU : u = v
           /\ \A u, v \in replaceWSC : u = v
<1>1. \A S \in SUBSET Page : First(S) \subseteq S /\ \A u, v \in First(S) : u = v
    BY ReplaceAssumption DEF First, Page
<1>2. Stale \in SUBSET Page /\ Stale \subseteq valid
    BY DEF Stale
<1>3. replaceWSC \subseteq valid /\ \A u, v \in replaceWSC : u = v
    BY <1>1, <1>2 DEF replaceWSC
<1>4. replaceLRU \subseteq valid /\ \A u, v \in replaceLRU : u = v
  <2> DEFINE below == {i \in valid : tdu[i] < tvc}
             oldest == {v \in below : \A i \in below : tdu[v] <= tdu[i]}
  <2>1. oldest \in SUBSET Page /\ oldest \subseteq valid
    OBVIOUS
  <2>2. replaceLRU = First(valid) \/ replaceLRU = First(oldest)
    BY DEF replaceLRU
  <2>3. QED
    BY <1>1, <2>1, <2>2
<1>5. QED
    BY <1>3, <1>4

\* Types are kept.
LEMMA TypeStep == TypeOK /\ [Next]_vars => TypeOK'
<1> SUFFICES ASSUME TypeOK, [Next]_vars PROVE TypeOK'
    OBVIOUS
<1>1. CASE UNCHANGED vars
    BY <1>1 DEF vars, TypeOK
<1>2. ASSUME NEW page \in Page, AccessLRU(page) PROVE TypeOK'
  <2>1. valid' \in SUBSET Page /\ swap' \in SUBSET Page
    BY <1>2, VictimInRam DEF AccessLRU, Load, TypeOK
  <2>2. tvc' \in Byte /\ wrapped' \in BOOLEAN
    BY <1>2, TickType DEF AccessLRU, Tick, TypeOK
  <2>3. newer' \in [Page -> SUBSET Page] /\ last' \in Page /\ LRU_run' \in BOOLEAN
    BY <1>2 DEF AccessLRU, Remember, TypeOK
  <2>4. QED
    BY <1>2, <2>1, <2>2, <2>3 DEF AccessLRU, TypeOK
<1>3. ASSUME NEW page \in Page, AccessWSC(page) PROVE TypeOK'
  <2>1. valid' \in SUBSET Page /\ swap' \in SUBSET Page
    BY <1>3, VictimInRam DEF AccessWSC, Load, TypeOK
  <2>2. tvc' \in Byte /\ wrapped' \in BOOLEAN
    BY <1>3, TickType DEF AccessWSC, Tick, TypeOK
  <2>3. newer' \in [Page -> SUBSET Page] /\ last' \in Page /\ LRU_run' \in BOOLEAN
    BY <1>3 DEF AccessWSC, Remember, TypeOK
  <2>4. tdu' \in [Page -> Byte] /\ ref' \in SUBSET Page
    BY <1>3 DEF AccessWSC, updateTDU, SweptRefs, TypeOK
  <2>5. QED
    BY <2>1, <2>2, <2>3, <2>4 DEF TypeOK
<1>4. QED
    BY <1>1, <1>2, <1>3 DEF Next

LEMMA TypeInit == Init => TypeOK
<1> SUFFICES ASSUME Init PROVE TypeOK
    OBVIOUS
<1>1. {0, 1, 2} \subseteq Page /\ 3 \in Page /\ 0 \in Byte
    BY ReplaceAssumption DEF Page, Byte
<1>2. QED
    BY <1>1 DEF Init, TypeOK

\* The bits of a page table entry and the two counters keep their types: no
\* page number and no time leaves its range.
THEOREM ReplaceTypeCorrect == Spec => []TypeOK
    BY TypeInit, TypeStep, PTL DEF Spec

-----------------------------------------------------------------------------
\* A set of at most three pages that is not empty has a first page, and a page
\* whose time is least.
LEMMA HasFirst ==
    ASSUME NEW a \in Page, NEW b \in Page, NEW c \in Page,
           NEW S \in SUBSET {a, b, c}, S # {}
    PROVE  First(S) # {}
<1>1. a \in Int /\ b \in Int /\ c \in Int
    BY ReplaceAssumption DEF Page
<1>2. \E v \in S : \A i \in S : v <= i
  <2> SUFFICES ASSUME \A v \in S : \E i \in S : i < v PROVE FALSE
    BY <1>1
  <2>1. PICK i \in S : TRUE
    OBVIOUS
  <2>2. PICK j \in S : j < i
    OBVIOUS
  <2>3. PICK k \in S : k < j
    OBVIOUS
  <2>4. PICK l \in S : l < k
    OBVIOUS
  <2>5. QED
    BY <1>1, <2>2, <2>3, <2>4
<1>3. QED
    BY <1>2 DEF First

LEMMA HasOldest ==
    ASSUME NEW a \in Page, NEW b \in Page, NEW c \in Page, tdu \in [Page -> Byte],
           NEW S \in SUBSET {a, b, c}, S # {}
    PROVE  \E v \in S : \A i \in S : tdu[v] <= tdu[i]
<1>1. tdu[a] \in Int /\ tdu[b] \in Int /\ tdu[c] \in Int
    BY ReplaceAssumption DEF Byte
<1>2. QED
    BY <1>1

\* With three pages in RAM a fault replaces one of them.
LEMMA VictimExists ==
    ASSUME TypeOK, ThreeInRam
    PROVE  (\E v \in valid : replaceLRU = {v}) /\ (\E v \in valid : replaceWSC = {v})
<1>1. PICK a, b, c \in Page : valid = {a, b, c}
    BY DEF ThreeInRam
<1>2. \A S \in SUBSET {a, b, c} : S # {} => First(S) # {}
    BY HasFirst
<1>3. replaceWSC # {}
    BY <1>1, <1>2 DEF replaceWSC, Stale
<1>4. replaceLRU # {}
  <2> DEFINE below == {i \in valid : tdu[i] < tvc}
             oldest == {v \in below : \A i \in below : tdu[v] <= tdu[i]}
  <2>1. below # {} => oldest # {}
    <3>1. below \in SUBSET {a, b, c}
        BY <1>1
    <3>2. tdu \in [Page -> Byte]
        BY DEF TypeOK
    <3>3. below # {} => \E v \in below : \A i \in below : tdu[v] <= tdu[i]
      <4> HIDE DEF below
      <4>1. QED
        BY <3>1, <3>2, HasOldest
    <3>4. QED
        BY <3>3
  <2>2. CASE below = {}
    BY <1>1, <1>2, <2>2 DEF replaceLRU
  <2>3. CASE below # {}
    <3>1. oldest \in SUBSET {a, b, c}
        BY <1>1
    <3>2. First(oldest) # {}
        BY <1>2, <2>1, <2>3, <3>1
    <3>3. QED
        BY <2>3, <3>2 DEF replaceLRU
  <2>4. QED
    BY <2>2, <2>3
<1>5. QED
    BY <1>3, <1>4, VictimInRam DEF TypeOK

\* Taking one page out of RAM for another leaves three.
LEMMA LoadKeepsThree ==
    ASSUME TypeOK, ThreeInRam, NEW page \in Page, NEW gone \in SUBSET valid,
           Load(page, gone),
           IF page \in valid THEN gone = {} ELSE \E v \in valid : gone = {v}
    PROVE  ThreeInRam'
<1>1. PICK a, b, c \in Page : a # b /\ a # c /\ b # c /\ valid = {a, b, c}
    BY DEF ThreeInRam
<1>2. (valid \cap swap)' = {}
    BY DEF Load, ThreeInRam
<1>3. CASE page \in valid
    BY <1>1, <1>2, <1>3 DEF Load, ThreeInRam
<1>4. CASE page \notin valid
  <2>1. PICK v \in valid : gone = {v}
    BY <1>4
  <2>2. CASE v = a
    <3>1. valid' = {page, b, c}
        BY <1>1, <2>1, <2>2 DEF Load
    <3>2. QED
        BY <1>1, <1>2, <1>4, <3>1 DEF ThreeInRam
  <2>3. CASE v = b
    <3>1. valid' = {a, page, c}
        BY <1>1, <2>1, <2>3 DEF Load
    <3>2. QED
        BY <1>1, <1>2, <1>4, <3>1 DEF ThreeInRam
  <2>4. CASE v = c
    <3>1. valid' = {a, b, page}
        BY <1>1, <2>1, <2>4 DEF Load
    <3>2. QED
        BY <1>1, <1>2, <1>4, <3>1 DEF ThreeInRam
  <2>5. QED
    BY <1>1, <2>2, <2>3, <2>4
<1>5. QED
    BY <1>3, <1>4

\* RAM holds three pages, none of them marked as swapped out, whatever pages
\* are accessed and however often the counters wrap around.
THEOREM RamCorrect == Spec => []ThreeInRam
<1>1. Init => ThreeInRam
  <2>1. 0 \in Page /\ 1 \in Page /\ 2 \in Page
    BY ReplaceAssumption DEF Page
  <2>2. QED
    BY <2>1 DEF Init, ThreeInRam
<1>2. TypeOK /\ ThreeInRam /\ [Next]_vars => ThreeInRam'
  <2> SUFFICES ASSUME TypeOK, ThreeInRam, [Next]_vars PROVE ThreeInRam'
    OBVIOUS
  <2>1. CASE UNCHANGED vars
    BY <2>1 DEF vars, ThreeInRam
  <2>2. ASSUME NEW page \in Page, AccessLRU(page) PROVE ThreeInRam'
    BY <2>2, VictimExists, LoadKeepsThree DEF AccessLRU
  <2>3. ASSUME NEW page \in Page, AccessWSC(page) PROVE ThreeInRam'
    BY <2>3, VictimExists, LoadKeepsThree DEF AccessWSC
  <2>4. QED
    BY <2>1, <2>2, <2>3 DEF Next
<1>3. QED
    BY <1>1, <1>2, TypeInit, TypeStep, PTL DEF Spec

-----------------------------------------------------------------------------
\* The times follow the order of the accesses until the counter wraps around.
LEMMA TimesStep == TypeOK /\ TimesInOrder /\ [Next]_vars => TimesInOrder'
<1> SUFFICES ASSUME TypeOK, TimesInOrder, [Next]_vars, LRU_run', ~wrapped'
             PROVE  TimesInOrder'
    BY DEF TimesInOrder
<1>1. CASE UNCHANGED vars
    BY <1>1 DEF vars, TimesInOrder
<1>2. ASSUME NEW page \in Page, AccessLRU(page) PROVE TimesInOrder'
  <2>1. LRU_run /\ ~wrapped /\ tvc' = tvc + 1
    BY <1>2, TickType DEF AccessLRU, Tick, TypeOK
  <2>2. tvc \in Nat /\ tdu \in [Page -> Nat]
    BY ReplaceAssumption DEF TypeOK, Byte
  <2>3. tdu' = [tdu EXCEPT ![page] = tvc]
        /\ newer' = [i \in Page |-> IF i = page THEN {} ELSE newer[i] \cup {page}]
    BY <1>2 DEF AccessLRU, Remember
  <2>4. \A i \in Page : tdu[i] < tvc \/ (tdu[i] = 0 /\ tvc = 0)
    BY <2>1 DEF TimesInOrder
  <2>5. \A w \in Page : \A v \in newer[w] : tdu[w] < tdu[v] \/ tdu[v] = 0
    BY <2>1 DEF TimesInOrder
  <2>6. \A i \in Page : tdu'[i] < tvc'
    BY <2>1, <2>2, <2>3, <2>4
  <2>7. ASSUME NEW w \in Page, NEW v \in newer'[w]
        PROVE  tdu'[w] < tdu'[v] \/ tdu'[v] = 0
    <3>1. w # page /\ tdu'[w] = tdu[w]
        BY <2>3, <2>7
    <3>2. CASE v = page
        BY <2>2, <2>3, <2>4, <3>1, <3>2
    <3>3. CASE v # page
      <4>1. v \in newer[w] /\ v \in Page
        BY <2>3, <2>7, <3>1, <3>3 DEF TypeOK
      <4>2. QED
        BY <2>3, <2>5, <3>1, <3>3, <4>1
    <3>4. QED
        BY <3>2, <3>3
  <2>8. QED
    BY <2>6, <2>7 DEF TimesInOrder
<1>3. QED
    BY <1>1, <1>2 DEF Next, AccessWSC, Remember

\* LRU replaces, until the counter wraps around, a page that was not accessed
\* since the last access to any other page in RAM, but for the page of the very
\* first access.
THEOREM LruCorrect == Spec => LeastRecentGoes
<1>1. Init => TimesInOrder
    BY DEF Init, TimesInOrder
<1>2. TypeOK /\ TimesInOrder /\ [Next]_vars =>
        [LRU_run /\ ~wrapped =>
            \A v \in Evicted : \A w \in valid : v \in newer[w] => tdu[v] = 0]_vars
  <2> SUFFICES ASSUME TypeOK, TimesInOrder, Next, LRU_run, ~wrapped,
                      NEW v \in Evicted, NEW w \in valid, v \in newer[w], tdu[v] # 0
               PROVE  FALSE
    OBVIOUS
  <2>1. PICK page \in Page : AccessLRU(page)
    BY DEF Next, AccessWSC
  <2>2. v \in replaceLRU
    BY <2>1 DEF AccessLRU, Load, Evicted
  <2>3. v \in Page /\ w \in Page /\ tvc \in Nat /\ tdu \in [Page -> Nat]
    BY ReplaceAssumption DEF TypeOK, Byte, Evicted
  <2>4. tdu[w] < tdu[v] /\ tdu[v] < tvc
    BY <2>3 DEF TimesInOrder
  <2>5. tdu[w] < tvc
    BY <2>3, <2>4
  <2>6. tdu[v] <= tdu[w]
    BY <2>2, <2>5 DEF replaceLRU, First
  <2>7. QED
    BY <2>3, <2>4, <2>6
<1>3. QED
    BY <1>1, <1>2, TypeInit, TypeStep, TimesStep, PTL DEF Spec, LeastRecentGoes

-----------------------------------------------------------------------------
\* UNLOAD_PAGE and the bits set after an access never lose a page: one that was
\* in RAM or in the swap is in one of them after every access, under both
\* policies (memreplace.c:24-29).
THEOREM NoPageLost == Spec => NothingLost
<1>1. [Next]_vars => [valid \cup swap \subseteq valid' \cup swap']_vars
  <2>1. ASSUME NEW page \in Page, NEW gone, Load(page, gone)
        PROVE  valid \cup swap \subseteq valid' \cup swap'
    BY <2>1 DEF Load
  <2>2. QED
    BY <2>1 DEF Next, AccessLRU, AccessWSC
<1>2. QED
    BY <1>1, PTL DEF Spec, NothingLost

\* A page that WSC takes out of RAM has no reference bit left.
LEMMA VictimUnreferenced ==
    ASSUME valid \in SUBSET Page, ref \subseteq valid
    PROVE  SweptRefs \cap replaceWSC = {}
<1>1. First(Stale) \subseteq Stale /\ Stale \cap ref = {}
    BY DEF First, Stale
<1>2. CASE Stale = {}
  <2>1. SweptRefs = {}
    BY <1>1, <1>2 DEF SweptRefs
  <2>2. QED
    BY <2>1
<1>3. CASE Stale # {}
    BY <1>1, <1>3 DEF SweptRefs, replaceWSC
<1>4. QED
    BY <1>2, <1>3

\* Under WSC every reference bit is that of a page in RAM, although UNLOAD_PAGE
\* clears none: the search for a victim has cleared it (memreplace.c:25, 76-89).
THEOREM RefsCorrect == Spec => []RefsInRam
<1>1. Init => RefsInRam
    BY DEF Init, RefsInRam
<1>2. TypeOK /\ RefsInRam /\ [Next]_vars => RefsInRam'
  <2> SUFFICES ASSUME TypeOK, RefsInRam, [Next]_vars, ~LRU_run'
               PROVE  ref' \subseteq valid'
    BY DEF RefsInRam
  <2>1. CASE UNCHANGED vars
    BY <2>1 DEF vars, RefsInRam
  <2>2. CASE Next
    <3>1. PICK page \in Page : AccessWSC(page)
        BY <2>2 DEF Next, AccessLRU, Remember
    <3>2. ref \subseteq valid /\ valid \in SUBSET Page
        BY <3>1 DEF AccessWSC, RefsInRam, TypeOK
    <3>3. CASE page \in valid
        BY <3>1, <3>2, <3>3 DEF AccessWSC, Load
    <3>4. CASE page \notin valid
      <4>1. valid' = (valid \ replaceWSC) \cup {page} /\ ref' = SweptRefs \cup {page}
        BY <3>1, <3>4 DEF AccessWSC, Load
      <4>2. SweptRefs \subseteq valid
        BY <3>2 DEF SweptRefs
      <4>3. QED
        BY <3>2, <4>1, <4>2, VictimUnreferenced
    <3>5. QED
        BY <3>3, <3>4
  <2>3. QED
    BY <2>1, <2>2
<1>3. QED
    BY <1>1, <1>2, TypeInit, TypeStep, PTL DEF Spec

\* The page accessed last has its reference bit under WSC, which is why the
\* search passes it by: what JustUsedStays needs to be inductive.
LastReferenced == ~LRU_run => last \in ref \cup {-1}

\* WSC takes the page of the access before only when it is the first one in RAM
\* and nothing is old, whatever the counters show after they wrapped around
\* (memreplace.c:76-97).
THEOREM WscCorrect == Spec => JustUsedStays
<1>1. Init => LastReferenced
    BY DEF Init, LastReferenced
<1>2. LastReferenced /\ [Next]_vars => LastReferenced'
    BY DEF LastReferenced, Next, AccessLRU, AccessWSC, Remember, vars
<1>3. TypeOK /\ LastReferenced /\ [Next]_vars =>
        [~LRU_run => (last \in Evicted => \A i \in valid : last <= i)]_vars
  <2> SUFFICES ASSUME TypeOK, LastReferenced, Next, ~LRU_run, last \in Evicted
               PROVE  \A i \in valid : last <= i
    OBVIOUS
  <2>1. PICK page \in Page : AccessWSC(page)
    BY DEF Next, AccessLRU
  <2>2. last \in replaceWSC /\ last \in valid
    BY <2>1 DEF AccessWSC, Load, Evicted
  <2>3. last \in ref
    <3>1. -1 \notin Page
        BY ReplaceAssumption DEF Page
    <3>2. QED
        BY <2>2, <3>1 DEF LastReferenced, TypeOK
  <2>4. last \notin First(Stale)
    BY <2>3 DEF First, Stale
  <2>5. last \in First(valid)
    BY <2>2, <2>4 DEF replaceWSC
  <2>6. QED
    BY <2>5 DEF First
<1>4. QED
    BY <1>1, <1>2, <1>3, TypeInit, TypeStep, PTL DEF Spec, JustUsedStays

-----------------------------------------------------------------------------
\* The simulator of address translation: what its entries hold.  The entries
\* 5 to 8 of step 3 are out of the pattern, the frame numbers of all the others
\* run backwards, and in step 3 they carry the valid bit and a permission.
EntryFits(b, i) ==
    /\ HIGH8(pte_init(b, i)) \in 0 .. 255
    /\ b = 2 \/ i \notin 5 .. 8 => HIGH8(pte_init(b, i)) = 255 - i
    /\ b = 3 /\ i \in 5 .. 8 => Rwx(pte_init(b, i)) = 3
    /\ b = 3 /\ i \notin 5 .. 8 =>
         /\ pte_init(b, i) % 2 = 1
         /\ Rwx(pte_init(b, i)) = IF i \in 10 .. 12 THEN 1 ELSE 0

\* init_page_table writes such entries.
LEMMA Entries ==
    ASSUME NEW b \in {2, 3}, NEW i \in 0 .. 255
    PROVE  EntryFits(b, i)
<1> USE DEF EntryFits
<1>1. CASE b = 3 /\ i \in 5 .. 8
  <2>1. pte_init(b, i) = 65535
    BY <1>1 DEF pte_init
  <2>2. QED
    BY <1>1, <2>1 DEF HIGH8, Rwx
<1>2. CASE b = 3 /\ i \notin 5 .. 8
  <2>1. ((255 - i) * 256) % 65536 = (255 - i) * 256
    OBVIOUS
  <2>2. pte_init(b, i) = (255 - i) * 256 + IF i \in 10 .. 12 THEN 3 ELSE 1
    BY <1>2, <2>1 DEF pte_init, PAGE_NUM, PAGE_SIZE
  <2>3. CASE i \in 10 .. 12
    BY <1>2, <2>2, <2>3 DEF HIGH8, Rwx
  <2>4. CASE i \notin 10 .. 12
    BY <1>2, <2>2, <2>4, SMTT(20) DEF HIGH8, Rwx
  <2>5. QED
    BY <2>3, <2>4
<1>3. CASE b = 2
  <2>1. ((255 - i) * 256) % 65536 = (255 - i) * 256
    OBVIOUS
  <2>2. pte_init(b, i) = (255 - i) * 256
    BY <1>3, <2>1 DEF pte_init, PAGE_NUM, PAGE_SIZE
  <2>3. QED
    BY <1>3, <2>2 DEF HIGH8
<1>4. QED
    BY <1>1, <1>2, <1>3

\* The page table as init_page_table leaves it, which no operation changes.
TableAsBuilt ==
    /\ build \in {2, 3}
    /\ page_table = [i \in 0 .. 255 |-> pte_init(build, i)]

\* The page an address is in, and whether the table maps that page to a frame
\* of its own.
Mapped(a) == build = 2 \/ HIGH8(a) \notin 5 .. 8

\* What a value of the type uint16_t is.
LEMMA Unsigned ==
    ASSUME NEW a \in uint16_t
    PROVE  a \in Int /\ 0 <= a /\ a <= 65535
<1>1. UINT16_MAX = 65535 /\ UINT16_MAX \in Int
    BY DEF UINT16_MAX
<1>2. a \in 0 .. UINT16_MAX
    BY DEF uint16_t
<1>3. UINT16_MAX \in Int
    BY <1>1
<1>4. a \in Int /\ 0 <= a /\ a <= UINT16_MAX
    BY ONLY <1>2, <1>3
<1>5. QED
    BY ONLY <1>1, <1>4

\* The two bytes of an address.
LEMMA TwoBytes ==
    ASSUME NEW a \in uint16_t
    PROVE  /\ HIGH8(a) \in 0 .. 255 /\ LOW8(a) \in 0 .. 255
           /\ a = 256 * HIGH8(a) + LOW8(a)
<1>1. a \in Int /\ 0 <= a /\ a <= 65535
    BY Unsigned
<1>2. QED
    BY ONLY <1>1 DEF HIGH8, LOW8

\* Where the translation of an address leads, and who may go there.
LEMMA Translation ==
    ASSUME TableAsBuilt, NEW a \in uint16_t
    PROVE  /\ CellOf(a) \in (0 .. 255) \X (0 .. 255)
           /\ Mapped(a) => CellOf(a) = <<255 - HIGH8(a), LOW8(a)>>
           /\ Readable(a) <=> Mapped(a)
           /\ Writable(a) <=> Mapped(a) /\ (build = 3 => HIGH8(a) \notin 10 .. 12)
<1> DEFINE i == HIGH8(a)
<1> DEFINE pte == pte_init(build, i)
<1>1. i \in 0 .. 255 /\ LOW8(a) \in 0 .. 255
    BY TwoBytes
<1>2. build \in {2, 3} /\ virt_to_pte(a) = pte
    BY <1>1 DEF TableAsBuilt, virt_to_pte
<1>3. CellOf(a) = <<HIGH8(pte), LOW8(a)>>
    BY <1>2 DEF CellOf, Cell
<1>4. /\ HIGH8(pte) \in 0 .. 255
      /\ Mapped(a) => HIGH8(pte) = 255 - i
      /\ build = 3 /\ i \in 5 .. 8 => Rwx(pte) = 3
      /\ build = 3 /\ i \notin 5 .. 8 =>
            /\ pte % 2 = 1
            /\ Rwx(pte) = IF i \in 10 .. 12 THEN 1 ELSE 0
  <2>1. EntryFits(build, i)
    BY <1>1, <1>2, Entries
  <2>2. QED
    BY <2>1 DEF EntryFits, Mapped
<1> HIDE DEF pte
<1>5. /\ Readable(a) <=> Mapped(a)
      /\ Writable(a) <=> Mapped(a) /\ (build = 3 => i \notin 10 .. 12)
    BY <1>1, <1>2, <1>4 DEF Readable, Writable, Mapped
<1>6. QED
    BY <1>1, <1>3, <1>4, <1>5

\* No two addresses in mapped pages lead to the same byte.
LEMMA OneAddressPerByte ==
    ASSUME TableAsBuilt, NEW a \in uint16_t, NEW c \in uint16_t,
           Mapped(a), Mapped(c), CellOf(a) = CellOf(c)
    PROVE  a = c
<1>1. /\ CellOf(a) = <<255 - HIGH8(a), LOW8(a)>>
      /\ CellOf(c) = <<255 - HIGH8(c), LOW8(c)>>
    BY Translation
<1>2. /\ HIGH8(a) \in 0 .. 255 /\ LOW8(a) \in 0 .. 255
      /\ HIGH8(c) \in 0 .. 255 /\ LOW8(c) \in 0 .. 255
    BY TwoBytes
<1>3. <<255 - HIGH8(a), LOW8(a)>> = <<255 - HIGH8(c), LOW8(c)>>
    BY <1>1
<1>4. QED
  <2>1. 255 - HIGH8(a) = 255 - HIGH8(c) /\ LOW8(a) = LOW8(c)
    BY <1>3
  <2>2. \A x, y \in 0 .. 255 : 255 - x = 255 - y => x = y
    OBVIOUS
  <2>3. HIGH8(a) = HIGH8(c)
    BY <1>2, <2>1, <2>2
  <2>4. /\ a = 256 * HIGH8(a) + LOW8(a)
        /\ c = 256 * HIGH8(c) + LOW8(c)
    BY TwoBytes
  <2>5. QED
    BY <2>1, <2>3, <2>4

\* A store changes one byte and nothing of the translation.
LEMMA StoreOneByte ==
    ASSUME NEW b \in Addr, NEW x \in Value, store_byte(b, x)
    PROVE  \A a \in Addr :
             /\ CellOf(a)' = CellOf(a)
             /\ Readable(a)' = Readable(a)
             /\ Content(CellOf(a))' =
                    IF CellOf(a) = CellOf(b) THEN x ELSE Content(CellOf(a))
<1>1. build' = build /\ page_table' = page_table
    BY DEF store_byte
<1> TAKE a \in Addr
<1>2. CellOf(a)' = CellOf(a) /\ Readable(a)' = Readable(a)
    BY <1>1 DEF CellOf, Cell, Readable, virt_to_pte
<1>3. QED
    BY <1>2 DEF store_byte, Content

\* The inductive invariant: the table is as it was built, a readable byte holds
\* what was stored last, and the bytes of the pages that are read-only hold 0.
SimInv ==
    /\ TableAsBuilt
    /\ stored \in [Addr -> Value]
    /\ \A a \in Addr : Readable(a) => Content(CellOf(a)) = stored[a]
    /\ \A a \in Addr : build = 3 /\ HIGH8(a) \in 10 .. 12 => Content(CellOf(a)) = 0

\* The simulator starts so.
LEMMA SimInvInit == 4 \notin Builds /\ SimInit => SimInv
<1> SUFFICES ASSUME 4 \notin Builds, SimInit PROVE SimInv
    OBVIOUS
<1>1. build \in {2, 3}
    BY MemSimAssumption DEF SimInit
<1>2. TableAsBuilt
  <2>1. PAGE_NUM(build) - 1 = 255
    BY <1>1 DEF PAGE_NUM
  <2>2. page_table = [i \in 0 .. PAGE_NUM(build) - 1 |-> pte_init(build, i)]
    BY DEF SimInit
  <2>3. QED
    BY <1>1, <2>1, <2>2 DEF TableAsBuilt
<1>3. stored = [a \in Addr |-> 0] /\ 0 \in Value
    BY MemSimAssumption DEF SimInit
<1>4. \A c : Content(c) = 0
    BY DEF SimInit, Content
<1>5. QED
    BY <1>2, <1>3, <1>4 DEF SimInv

\* It stays so: a store goes through a mapped page to a byte of its own.
LEMMA SimInvStep == SimInv /\ [SimNext]_simVars => SimInv'
<1> SUFFICES ASSUME SimInv, [SimNext]_simVars PROVE SimInv'
    OBVIOUS
<1> USE DEF SimInv
<1>1. CASE UNCHANGED simVars
  <2>1. /\ build' = build /\ page_table' = page_table
        /\ main_mem' = main_mem /\ stored' = stored
    BY ONLY <1>1 DEF simVars
  <2>2. TableAsBuilt'
    BY ONLY SimInv, <2>1 DEF SimInv, TableAsBuilt
  <2>3. \A a \in Addr : CellOf(a)' = CellOf(a) /\ (Readable(a)' <=> Readable(a))
    BY ONLY <2>1 DEF CellOf, Cell, Readable, virt_to_pte
  <2>4. \A a \in Addr : Content(CellOf(a))' = Content(CellOf(a))
    BY ONLY <2>1, <2>3 DEF Content
  <2>5. QED
    BY ONLY SimInv, <2>1, <2>2, <2>3, <2>4 DEF SimInv
<1>2. ASSUME NEW b \in Addr, NEW x \in Value, store_byte(b, x) PROVE SimInv'
  <2>1. TableAsBuilt'
    BY <1>2 DEF store_byte, TableAsBuilt
  <2>2. stored' = [stored EXCEPT ![b] = x] /\ Writable(b) /\ build' = build
    BY <1>2 DEF store_byte
  <2>3. Addr \subseteq uint16_t
    BY MemSimAssumption
  <2>4. Mapped(b) /\ (build = 3 => HIGH8(b) \notin 10 .. 12)
    BY <2>2, <2>3, Translation
  <2>5. \A a \in Addr : Mapped(a) /\ a # b => CellOf(a) # CellOf(b)
    BY <2>3, <2>4, OneAddressPerByte
  <2>6. \A a \in Addr : Readable(a)' => Content(CellOf(a))' = stored'[a]
    <3> SUFFICES ASSUME NEW a \in Addr, Readable(a)'
                 PROVE  Content(CellOf(a))' = stored'[a]
        OBVIOUS
    <3>1. Readable(a) /\ Mapped(a)
        BY <1>2, <2>3, StoreOneByte, Translation
    <3>2. Content(CellOf(a)) = stored[a]
        BY <3>1
    <3>3. CASE a = b
        BY <1>2, <2>2, <3>3, StoreOneByte
    <3>4. CASE a # b
        BY <1>2, <2>2, <2>5, <3>1, <3>2, <3>4, StoreOneByte
    <3>5. QED
        BY <3>3, <3>4
  <2>7. \A a \in Addr :
            build' = 3 /\ HIGH8(a) \in 10 .. 12 => Content(CellOf(a))' = 0
    <3> SUFFICES ASSUME NEW a \in Addr, build = 3, HIGH8(a) \in 10 .. 12
                 PROVE  Content(CellOf(a))' = 0
        BY <2>2
    <3>1. a # b /\ Mapped(a) /\ Content(CellOf(a)) = 0
        BY <2>4 DEF Mapped
    <3>2. QED
        BY <1>2, <2>5, <3>1, StoreOneByte
  <2>8. QED
    BY <2>1, <2>2, <2>6, <2>7, <1>2
<1>3. QED
    BY <1>1, <1>2 DEF SimNext

\* In the steps 2 and 3, whatever is stored where and in whatever order,
\* get_byte returns what store_byte last put at the same virtual address
\* (memsim.c:100-109, 142-183); step 4 is left out because its masks do not
\* fit its page sizes.
THEOREM ReadBackCorrect ==
    ASSUME 4 \notin Builds
    PROVE  SimSpec => []ReadsBack
<1>1. SimInit => SimInv
    BY SimInvInit
<1>2. SimInv /\ [SimNext]_simVars => SimInv'
    BY SimInvStep
<1>3. SimInv => ReadsBack
  <2> SUFFICES ASSUME SimInv, NEW a \in Addr
               PROVE  /\ CellOf(a) \in (0 .. PAGE_NUM(build) - 1)
                                          \X (0 .. PAGE_SIZE(build) - 1)
                      /\ Readable(a) => Content(CellOf(a)) = stored[a]
    BY DEF ReadsBack
  <2>1. PAGE_NUM(build) - 1 = 255 /\ PAGE_SIZE(build) - 1 = 255
    BY DEF SimInv, TableAsBuilt, PAGE_NUM, PAGE_SIZE
  <2>2. CellOf(a) \in (0 .. 255) \X (0 .. 255)
    BY MemSimAssumption, Translation DEF SimInv
  <2>3. QED
    BY <2>1, <2>2 DEF SimInv
<1>4. QED
    BY <1>1, <1>2, <1>3, PTL DEF SimSpec

\* In step 3 the pages 10 to 12 and 5 to 8 behave as test_mem_2 expects, and no
\* store through any address changes a page that is read-only, although
\* store_byte never looks at the valid bit (memsim.c:85-98, 122-183).
THEOREM ProtectionCorrect ==
    ASSUME 4 \notin Builds
    PROVE  SimSpec => []Protected
<1>1. SimInit => SimInv
    BY SimInvInit
<1>2. SimInv /\ [SimNext]_simVars => SimInv'
    BY SimInvStep
<1>3. SimInv => Protected
  <2> SUFFICES ASSUME SimInv, build = 3, NEW a \in Addr
               PROVE  /\ Readable(a) <=> HIGH8(a) \notin 5 .. 8
                      /\ Writable(a) <=> HIGH8(a) \notin 5 .. 8 \cup 10 .. 12
                      /\ HIGH8(a) \in 10 .. 12 => Content(CellOf(a)) = 0
    BY DEF Protected
  <2>1. /\ Readable(a) <=> Mapped(a)
        /\ Writable(a) <=> Mapped(a) /\ (build = 3 => HIGH8(a) \notin 10 .. 12)
    BY MemSimAssumption, Translation DEF SimInv
  <2>2. QED
    BY <2>1 DEF SimInv, Mapped
<1>4. QED
    BY <1>1, <1>2, <1>3, PTL DEF SimSpec

\* The finding of step 4 for every address: an entry of that build has its
\* frame number where HIGH6 does not look.
LEMMA EntriesOfStep4 ==
    ASSUME NEW i \in 0 .. 63
    PROVE  HIGH6(pte_init(4, i)) = 0
<1>1. pte_init(4, i) = (63 - i) * 1024
  <2>1. ((63 - i) * 1024) % 65536 = (63 - i) * 1024
    OBVIOUS
  <2>2. QED
    BY <2>1 DEF pte_init, PAGE_NUM, PAGE_SIZE
<1>2. ((63 - i) * 1024) \div 8 = (63 - i) * 128
    OBVIOUS
<1>3. ((63 - i) * 128) % 8 = 0
    OBVIOUS
<1>4. QED
    BY <1>1, <1>2, <1>3 DEF HIGH6

\* As the file is committed, two virtual addresses reach the same byte exactly
\* when their offsets agree: 64 pages share the first one of the main memory
\* (memsim.c:68, 100-109).
THEOREM StepFourSharesOnePage ==
    ASSUME Builds = {4}
    PROVE  SimSpec => [](\A a, c \in Addr :
                            CellOf(a) = CellOf(c) <=> LOW10(a) = LOW10(c))
<1> DEFINE Built == build = 4 /\ page_table = [i \in 0 .. 63 |-> pte_init(4, i)]
           Shared == \A a, c \in Addr : CellOf(a) = CellOf(c) <=> LOW10(a) = LOW10(c)
<1>1. SimInit => Built
    BY DEF SimInit, PAGE_NUM
<1>2. Built /\ [SimNext]_simVars => Built'
    BY DEF SimNext, store_byte, simVars
<1>3. Built => Shared
  <2> SUFFICES ASSUME Built PROVE Shared
    OBVIOUS
  <2>1. ASSUME NEW a \in Addr PROVE CellOf(a) = <<0, LOW10(a)>>
    <3>1. a \in Int /\ 0 <= a
        BY MemSimAssumption, Unsigned
    <3>2. HIGH6(a) \in 0 .. 63
        BY <3>1 DEF HIGH6
    <3>3. HIGH6(page_table[HIGH6(a)]) = 0
        BY <3>2, EntriesOfStep4
    <3>4. QED
        BY <3>3 DEF CellOf, Cell, virt_to_pte
  <2>2. QED
    BY <2>1
<1> HIDE DEF Built
<1>4. SimSpec => []Built
    BY <1>1, <1>2, PTL DEF SimSpec
<1>5. QED
    BY <1>3, <1>4, PTL
=============================================================================
