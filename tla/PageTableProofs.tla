-------------------------- MODULE PageTableProofs --------------------------
(***************************************************************************)
(* Proofs about the page tables of SO3, for tables of any size and any     *)
(* number of processes, frames and pages: no L2 table leaks or dangles, no *)
(* translation is stale, the user half has small pages only, and every     *)
(* process has a memory of its own, which fork copies.                     *)
(***************************************************************************)
EXTENDS PageTable, TLAPS

Page == UserPage \cup {Fixmap}

-----------------------------------------------------------------------------
(* Addresses *)

\* Sections are ordered as their first pages are.
LEMMA MulLess ==
    ASSUME NEW a \in Int, NEW b \in Int, a * L2Entries < b * L2Entries
    PROVE  a < b
<1>1. L2Entries \in Nat \ {0}
    BY PagingAssumption
<1>2. CASE b <= a
  <2>1. b * L2Entries <= a * L2Entries
    BY <1>1, <1>2
  <2>2. QED
    BY <1>1, <2>1
<1>3. QED
    BY <1>2

\* A page is at one place of one section.
LEMMA DivMod ==
    ASSUME NEW v \in Nat
    PROVE  /\ v \div L2Entries \in Nat /\ v % L2Entries \in L2Idx
           /\ v = (v \div L2Entries) * L2Entries + (v % L2Entries)
<1>1. L2Entries \in Nat \ {0}
    BY PagingAssumption
<1>2. QED
    BY <1>1 DEF L2Idx

\* The sections are next to each other.
LEMMA NextSection ==
    ASSUME NEW i \in Int
    PROVE  (i + 1) * L2Entries = i * L2Entries + L2Entries /\ i * L2Entries \in Int
<1>1. L2Entries \in Nat
    BY PagingAssumption
<1>2. QED
    BY <1>1

\* The indexes of the pages the model translates.
LEMMA PageIndex ==
    /\ \A v \in Page : v \in Nat /\ v \div L2Entries \in L1Idx /\ v % L2Entries \in L2Idx
    /\ \A v \in UserPage : v \div L2Entries < KernelIdx
    /\ FixIdx \in L1Idx /\ KernelIdx <= FixIdx /\ KernelIdx \in L1Idx
<1>1. /\ L1Entries \in Nat /\ L2Entries \in Nat /\ KernelIdx \in Nat /\ KernelSects \in Nat
      /\ UserBase \in Nat /\ Fixmap \in Nat /\ KernelIdx < L1Entries
      /\ FixIdx \in KernelIdx + KernelSects .. L1Entries - 1
    BY PagingAssumption
<1>2. ASSUME NEW v \in UserPage
      PROVE  /\ v \in Nat /\ v \div L2Entries \in L1Idx /\ v % L2Entries \in L2Idx
             /\ v \div L2Entries < KernelIdx
  <2>1. v \in Nat /\ v < KernelIdx * L2Entries
    <3>1. KernelIdx * L2Entries \in Nat
        BY <1>1
    <3>2. QED
        BY <1>1, <3>1 DEF UserPage
  <2>2. PICK i \in Nat, j \in L2Idx :
            i = v \div L2Entries /\ j = v % L2Entries /\ v = i * L2Entries + j
    BY <2>1, DivMod
  <2>3. i * L2Entries \in Int /\ i * L2Entries < KernelIdx * L2Entries
    BY <1>1, <2>1, <2>2 DEF L2Idx
  <2>4. i < KernelIdx
    BY <1>1, <2>3, MulLess
  <2>5. QED
    BY <1>1, <2>1, <2>2, <2>4 DEF L1Idx
<1>3. Fixmap % L2Entries \in L2Idx /\ Fixmap \div L2Entries \in L1Idx
    BY <1>1, DivMod DEF FixIdx, L1Idx
<1>4. QED
    BY <1>1, <1>2, <1>3 DEF Page, L1Idx

\* A page of a range lies under an L1 entry the range touches.
LEMMA PageTouched ==
    ASSUME NEW v \in Nat, NEW n \in Nat, NEW w \in Page, w \in v .. v + n - 1
    PROVE  w \div L2Entries \in Touched(v, n)
<1>1. PICK i \in L1Idx, j \in L2Idx :
          i = w \div L2Entries /\ j = w % L2Entries /\ w = i * L2Entries + j
    BY PageIndex, DivMod
<1>2. i \in Int /\ L2Entries \in Nat
    BY PagingAssumption DEF L1Idx
<1>3. i * L2Entries <= w /\ w < (i + 1) * L2Entries /\ w \in Nat /\ (i + 1) * L2Entries \in Int
    BY <1>1, <1>2, NextSection, PageIndex DEF L2Idx
<1>4. Lo(i, v) <= w /\ w < Hi(i, v, n)
    BY <1>2, <1>3, NextSection DEF Lo, Hi
<1>5. Lo(i, v) < Hi(i, v, n)
    BY <1>2, <1>3, <1>4, NextSection DEF Lo, Hi
<1>6. QED
    BY <1>1, <1>5 DEF Touched

\* The sections a range touches are those its first and its last page are in,
\* and those between.
LEMMA TouchedBounds ==
    ASSUME NEW v \in Nat, NEW n \in Nat, NEW i \in Touched(v, n)
    PROVE  /\ i \in L1Idx /\ i \in Nat /\ 0 < n
           /\ i * L2Entries < v + n /\ v < (i + 1) * L2Entries
<1>1. i \in L1Idx /\ i \in Nat /\ Lo(i, v) < Hi(i, v, n)
    BY PagingAssumption DEF Touched, L1Idx
<1>2. /\ i * L2Entries \in Int /\ (i + 1) * L2Entries = i * L2Entries + L2Entries
      /\ L2Entries \in Nat
    BY <1>1, NextSection, PagingAssumption
<1>3. QED
    BY <1>1, <1>2 DEF Lo, Hi

\* A single page touches one entry and is never mapped as a section.
LEMMA OnePage ==
    ASSUME NEW v \in Page
    PROVE  /\ Touched(v, 1) = {v \div L2Entries}
           /\ \A i \in L1Idx : \A f : ~AsSection(i, v, f, 1)
<1> DEFINE q == v \div L2Entries
<1>1. v \in Nat /\ q \in L1Idx /\ q \in Nat /\ L2Entries \in Nat \ {0, 1}
    BY PageIndex, PagingAssumption DEF L1Idx
<1>2. v = q * L2Entries + (v % L2Entries) /\ v % L2Entries \in L2Idx
    BY <1>1, DivMod
<1>3. q \in Touched(v, 1)
    BY <1>1, PageTouched
<1>4. ASSUME NEW i \in Touched(v, 1) PROVE i = q
  <2>1. i \in Nat /\ i * L2Entries < v + 1 /\ v < (i + 1) * L2Entries
    BY <1>1, <1>4, TouchedBounds
  <2>2. i * L2Entries < (q + 1) * L2Entries /\ q * L2Entries < (i + 1) * L2Entries
    BY <1>1, <1>2, <2>1, NextSection DEF L2Idx
  <2>3. i < q + 1 /\ q < i + 1
    BY <1>1, <2>1, <2>2, MulLess
  <2>4. QED
    BY <1>1, <2>1, <2>3
<1>5. ASSUME NEW i \in L1Idx, NEW f PROVE ~AsSection(i, v, f, 1)
  <2>1. i \in Nat
    BY PagingAssumption DEF L1Idx
  <2>2. (i + 1) * L2Entries = i * L2Entries + L2Entries /\ i * L2Entries \in Int
    BY <2>1, NextSection
  <2>3. ~WholeSection(i, v, 1)
    BY <1>1, <2>2 DEF WholeSection
  <2>4. QED
    BY <2>3 DEF AsSection
<1>6. QED
    BY <1>3, <1>4, <1>5

-----------------------------------------------------------------------------
(* Tables *)

\* The shape of an entry.
LEMMA EntryShape ==
    ASSUME NEW e \in L1Entry
    PROVE  /\ e.type \in {"none", "sect", "table"}
           /\ e.type = "none" => e = None
           /\ e.type = "sect" => e.at \in Nat
           /\ e.type = "table" => e.at \in L2Id /\ e = Table(e.at)
           /\ e = None => e.type = "none"
BY DEF L1Entry, None, Table

\* What Table, Sect and None are.
LEMMA EntryTypes ==
    /\ None \in L1Entry /\ None.type = "none"
    /\ \A id \in L2Id : Table(id) \in L1Entry /\ Table(id).type = "table" /\ Table(id).at = id
    /\ \A n \in Nat : Sect(n) \in L1Entry /\ Sect(n).type = "sect"
    /\ \A a, b : Table(a) = Table(b) => a = b
BY DEF L1Entry, None, Table, Sect

\* The process 0 is none, and the system table is a root table.
LEMMA Roots ==
    /\ Sys \notin Proc /\ 1 \in Proc /\ Proc \subseteq Root /\ Sys \in Root
    /\ Used \subseteq Root /\ InUse \subseteq Proc /\ Sys \in Used
    /\ \A t \in Used : t # Sys => t \in InUse
BY PagingAssumption DEF Sys, Root, Used, InUse

\* An entry of a table is an L1 entry.
LEMMA L1Type ==
    ASSUME TypeOK, NEW t \in Root, NEW i \in L1Idx
    PROVE  l1[t][i] \in L1Entry
BY DEF TypeOK

\* A walk yields a frame or 0.
LEMMA WalkType ==
    ASSUME TypeOK, NEW t \in Root, NEW v \in Page
    PROVE  Walk(t, v) \in Nat
<1> DEFINE e == l1[t][v \div L2Entries]
<1>1. v \div L2Entries \in L1Idx /\ v % L2Entries \in L2Idx
    BY PageIndex
<1>2. e \in L1Entry
    BY <1>1, L1Type
<1>3. CASE e.type = "none"
    BY <1>3 DEF Walk
<1>4. CASE e.type = "sect"
  <2>1. /\ e.at \in Nat /\ L2Entries \in Nat /\ v % L2Entries \in Nat
    BY <1>1, <1>2, <1>4, EntryShape, PagingAssumption DEF L2Idx
  <2>2. e.at * L2Entries + (v % L2Entries) \in Nat
    BY <2>1
  <2>3. QED
    BY <1>4, <2>2 DEF Walk
<1>5. CASE e.type = "table"
  <2>1. e.at \in L2Id
    BY <1>2, <1>5, EntryShape
  <2>2. l2[e.at][v % L2Entries] \in Nat
    BY <1>1, <2>1 DEF TypeOK
  <2>3. QED
    BY <1>5, <2>2 DEF Walk
<1>6. QED
    BY <1>2, <1>3, <1>4, <1>5, EntryShape

\* The three outcomes of a walk.
LEMMA WalkValue ==
    ASSUME NEW t, NEW v
    PROVE  LET e == l1[t][v \div L2Entries]
           IN  /\ e.type = "none" => Walk(t, v) = 0
               /\ e.type = "table" => Walk(t, v) = l2[e.at][v % L2Entries]
BY DEF Walk

\* A walk depends on one L1 entry and, if that is a table, on one L2 entry.
LEMMA WalkFrame ==
    ASSUME NEW t, NEW v, l1'[t][v \div L2Entries] = l1[t][v \div L2Entries],
           l1[t][v \div L2Entries].type = "table" =>
               LET id == l1[t][v \div L2Entries].at
               IN  l2'[id][v % L2Entries] = l2[id][v % L2Entries]
    PROVE  Walk(t, v)' = Walk(t, v)
<1>1. CASE l1[t][v \div L2Entries].type = "table"
    BY <1>1 DEF Walk
<1>2. CASE l1[t][v \div L2Entries].type # "table"
    BY <1>2 DEF Walk
<1>3. QED
    BY <1>1, <1>2

\* An L2 table that a table in use leads to is in the heap.
LEMMA TableInHeap ==
    ASSUME TypeOK, Layout, Owners, NEW t \in Used, NEW i \in L1Idx, l1[t][i].type = "table"
    PROVE  l1[t][i].at \in heap /\ l1[t][i].at \in L2Id /\ l1[t][i] = Table(l1[t][i].at)
<1>1. l1[t][i].at \in L2Id /\ l1[t][i] = Table(l1[t][i].at)
    BY L1Type, EntryShape, Roots
<1>2. CASE i \in Own(t)
    BY <1>1, <1>2 DEF Owners
<1>3. CASE i \notin Own(t)
  <2>1. t \in InUse /\ i >= KernelIdx /\ i # FixIdx
    BY <1>3, Roots, PagingAssumption DEF Own, L1Idx
  <2>2. l1[Sys][i] = l1[t][i]
    BY <2>1 DEF Layout
  <2>3. i \in Own(Sys) /\ Sys \in Used
    BY Roots DEF Own
  <2>4. QED
    BY <1>1, <2>2, <2>3 DEF Owners
<1>4. QED
    BY <1>2, <1>3

\* An entry that leads to the table of an owner is the owner's, or its copy.
LEMMA SharedTable ==
    ASSUME TypeOK, Layout, Owners, NEW s \in Used, NEW t \in Used, NEW i \in L1Idx,
           NEW k \in Own(t), l1[s][i].type = "table", l1[t][k].type = "table",
           l1[s][i].at = l1[t][k].at
    PROVE  i = k /\ (s = t \/ (t = Sys /\ i >= KernelIdx /\ i # FixIdx))
<1>0. k \in L1Idx
    BY DEF Own
<1>1. PICK id \in L2Id : l1[s][i] = Table(id) /\ l1[t][k] = Table(id)
    BY <1>0, TableInHeap
<1>2. CASE i \in Own(s)
    BY <1>1, <1>2 DEF Owners
<1>3. CASE i \notin Own(s)
  <2>1. s \in InUse /\ i >= KernelIdx /\ i # FixIdx
    BY <1>3, Roots, PagingAssumption DEF Own, L1Idx
  <2>2. l1[Sys][i] = Table(id)
    BY <1>1, <2>1 DEF Layout
  <2>3. i \in Own(Sys) /\ Sys \in Used
    BY Roots DEF Own
  <2>4. Sys = t /\ i = k
    BY <1>1, <2>2, <2>3 DEF Owners
  <2>5. QED
    BY <2>1, <2>4
<1>4. QED
    BY <1>2, <1>3

-----------------------------------------------------------------------------
(* create_mapping *)

\* What alloc_init_section and alloc_init_pte expect of the entries they find.
Mappable(t, v, f, n) ==
    \A i \in Touched(v, n) :
        /\ i \in Own(t)
        /\ AsSection(i, v, f, n) => l1[t][i] = None
        /\ l1[t][i] # None => l1[t][i].type = "table" /\ (i < KernelIdx \/ i = FixIdx)

\* The entries create_mapping fills page by page, and their L2 tables.
Paged(v, f, n) == {i \in Touched(v, n) : ~AsSection(i, v, f, n)}
TableOf(t, i, new) == IF i \in DOMAIN new THEN new[i] ELSE l1[t][i].at

\* create_mapping is applied to such entries, with new tables where it needs them.
Mapping(t, v, f, n, new) ==
    /\ TypeOK /\ Layout /\ Owners
    /\ t \in Used /\ v \in Nat /\ f \in Nat /\ n \in Nat
    /\ Mappable(t, v, f, n)
    /\ new \in Placements(NeedTable(l1[t], v, f, n))
    /\ create_mapping(t, l1[t], v, f, n, new)

\* The L2 tables of the entries are different; the new ones were not in use.
TablesApart(t, v, f, n, new) ==
    /\ DOMAIN new = {i \in Paged(v, f, n) : l1[t][i] = None}
    /\ \A i \in DOMAIN new : new[i] \in L2Id \ heap
    /\ \A i \in Paged(v, f, n) \ DOMAIN new :
           l1[t][i].type = "table" /\ l1[t][i].at \in heap /\ l1[t][i].at \in L2Id
    /\ \A i \in Paged(v, f, n) : TableOf(t, i, new) \in L2Id
    /\ \A i, k \in Paged(v, f, n) : TableOf(t, i, new) = TableOf(t, k, new) => i = k

\* What create_mapping does, entry by entry ...
EntriesMapped(t, v, f, n, new) ==
    /\ \A s \in Root \ {t} : l1'[s] = l1[s]
    /\ \A i \in L1Idx \ Touched(v, n) : l1'[t][i] = l1[t][i]
    /\ \A i \in Touched(v, n) : AsSection(i, v, f, n) =>
           l1'[t][i] = Sect((f + i * L2Entries - v) \div L2Entries)
    /\ \A i \in Paged(v, f, n) : l1'[t][i] = Table(TableOf(t, i, new))
    /\ DOMAIN l1' = Root /\ DOMAIN l1'[t] = L1Idx
    /\ heap' = heap \cup {new[i] : i \in DOMAIN new} /\ tlb' = NoTlb

\* ... and in the L2 tables.
TablesFilled(t, v, f, n, new) ==
    /\ \A i \in Paged(v, f, n) : \A j \in L2Idx :
           l2'[TableOf(t, i, new)][j] =
               IF i * L2Entries + j \in v .. v + n - 1 THEN f + (i * L2Entries + j) - v
               ELSE IF i \in DOMAIN new THEN 0 ELSE l2[TableOf(t, i, new)][j]
    /\ \A id \in L2Id :
           (\A i \in Paged(v, f, n) : TableOf(t, i, new) # id) => l2'[id] = l2[id]
    /\ l2' \in [L2Id -> [L2Idx -> Nat]]

\* What create_mapping finds in the tables.
LEMMA MapTables ==
    ASSUME NEW t, NEW v, NEW f, NEW n, NEW new, Mapping(t, v, f, n, new)
    PROVE  TablesApart(t, v, f, n, new)
<1> USE DEF Mapping
<1>1. DOMAIN new = {i \in Paged(v, f, n) : l1[t][i] = None}
    BY DEF Placements, NeedTable, Paged
<1>2. /\ \A i \in DOMAIN new : new[i] \in L2Id \ heap
      /\ \A i, k \in DOMAIN new : new[i] = new[k] => i = k
    BY DEF Placements, IsInjective
<1>3. ASSUME NEW i \in Paged(v, f, n) \ DOMAIN new
      PROVE  /\ l1[t][i].type = "table" /\ l1[t][i].at \in heap /\ l1[t][i].at \in L2Id
             /\ i \in Own(t) /\ i \in L1Idx
  <2>1. i \in Touched(v, n) /\ l1[t][i] # None
    BY <1>1 DEF Paged
  <2>2. l1[t][i].type = "table" /\ i \in Own(t)
    BY <2>1 DEF Mappable
  <2>3. i \in L1Idx
    BY <2>2 DEF Own
  <2>4. QED
    BY <2>2, <2>3, TableInHeap
<1>4. ASSUME NEW i \in Paged(v, f, n) PROVE TableOf(t, i, new) \in L2Id
    BY <1>2, <1>3 DEF TableOf
<1>5. ASSUME NEW i \in Paged(v, f, n), NEW k \in Paged(v, f, n),
             TableOf(t, i, new) = TableOf(t, k, new)
      PROVE  i = k
  <2>1. CASE i \in DOMAIN new /\ k \in DOMAIN new
    BY <1>2, <1>5, <2>1 DEF TableOf
  <2>2. CASE i \notin DOMAIN new /\ k \notin DOMAIN new
    BY <1>3, <1>5, <2>2, SharedTable DEF TableOf
  <2>3. CASE i \in DOMAIN new /\ k \notin DOMAIN new
    BY <1>2, <1>3, <1>5, <2>3 DEF TableOf
  <2>4. CASE i \notin DOMAIN new /\ k \in DOMAIN new
    BY <1>2, <1>3, <1>5, <2>4 DEF TableOf
  <2>5. QED
    BY <2>1, <2>2, <2>3, <2>4
<1>6. QED
    BY <1>1, <1>2, <1>3, <1>4, <1>5 DEF TablesApart

\* What create_mapping does to the entries.
LEMMA MapEffect ==
    ASSUME NEW t, NEW v, NEW f, NEW n, NEW new, Mapping(t, v, f, n, new)
    PROVE  EntriesMapped(t, v, f, n, new)
<1> USE DEF Mapping
<1>0. \A i \in Paged(v, f, n) \ DOMAIN new :
          l1[t][i].type = "table" /\ l1[t][i].at \in heap /\ l1[t][i].at \in L2Id
    BY MapTables DEF TablesApart
<1>1. l1' = [l1 EXCEPT ![t] =
                    [i \in L1Idx |->
                       IF i \notin Touched(v, n) THEN l1[t][i]
                       ELSE IF AsSection(i, v, f, n)
                            THEN Sect((f + i * L2Entries - v) \div L2Entries)
                            ELSE IF i \in DOMAIN new THEN Table(new[i]) ELSE l1[t][i]]]
    BY DEF create_mapping
<1>2. t \in Root /\ DOMAIN l1 = Root /\ Touched(v, n) \subseteq L1Idx
    BY Roots DEF TypeOK, Touched
<1>3. /\ \A s \in Root \ {t} : l1'[s] = l1[s]
      /\ l1'[t] = [i \in L1Idx |->
                       IF i \notin Touched(v, n) THEN l1[t][i]
                       ELSE IF AsSection(i, v, f, n)
                            THEN Sect((f + i * L2Entries - v) \div L2Entries)
                            ELSE IF i \in DOMAIN new THEN Table(new[i]) ELSE l1[t][i]]
      /\ DOMAIN l1' = Root
    BY <1>1, <1>2
<1>4. ASSUME NEW i \in Paged(v, f, n) PROVE l1'[t][i] = Table(TableOf(t, i, new))
  <2>1. i \in Touched(v, n) /\ i \in L1Idx /\ ~AsSection(i, v, f, n)
    BY <1>2 DEF Paged
  <2>2. CASE i \in DOMAIN new
    BY <1>3, <2>1, <2>2 DEF TableOf
  <2>3. CASE i \notin DOMAIN new
    <3>1. l1[t][i].type = "table"
        BY <1>0, <2>3
    <3>2. l1[t][i] = Table(l1[t][i].at)
        BY <2>1, <3>1, TableInHeap
    <3>3. QED
        BY <1>3, <2>1, <2>3, <3>2 DEF TableOf
  <2>4. QED
    BY <2>2, <2>3
<1>5. heap' = heap \cup {new[i] : i \in DOMAIN new} /\ tlb' = NoTlb
    BY DEF create_mapping, Range, v7_inval_tlb
<1>6. QED
    BY <1>2, <1>3, <1>4, <1>5 DEF EntriesMapped

\* What create_mapping writes in the L2 tables.
LEMMA MapFill ==
    ASSUME NEW t, NEW v, NEW f, NEW n, NEW new, Mapping(t, v, f, n, new)
    PROVE  TablesFilled(t, v, f, n, new)
<1> USE DEF Mapping
<1> DEFINE Blank == [j \in L2Idx |-> 0]
           Fill(i, old) ==
             [j \in L2Idx |-> LET w == i * L2Entries + j
                              IN  IF w \in v .. v + n - 1 THEN f + w - v ELSE old[j]]
           Row(i, id) == Fill(i, IF i \in DOMAIN new THEN Blank ELSE l2[id])
           P == Paged(v, f, n)
           At(i) == TableOf(t, i, new)
<1>1. /\ \A i \in P : At(i) \in L2Id
      /\ \A i, k \in P : At(i) = At(k) => i = k
    BY MapTables DEF TablesApart
<1>2. l2' = [id \in L2Id |-> IF \E i \in P : At(i) = id
                             THEN LET i == CHOOSE i \in P : At(i) = id IN Row(i, id)
                             ELSE l2[id]]
    BY DEF create_mapping, TableOf, Paged
<1>3. ASSUME NEW i \in P PROVE l2'[At(i)] = Row(i, At(i))
  <2>1. At(i) \in L2Id
    BY <1>1
  <2>2. (CHOOSE k \in P : At(k) = At(i)) = i
    BY <1>1
  <2>3. QED
    BY <1>2, <2>1, <2>2
<1>4. ASSUME NEW id \in L2Id, \A i \in P : At(i) # id PROVE l2'[id] = l2[id]
    BY <1>2, <1>4
<1>5. ASSUME NEW i \in P, NEW j \in L2Idx
      PROVE  l2'[At(i)][j] =
                      IF i * L2Entries + j \in v .. v + n - 1 THEN f + (i * L2Entries + j) - v
                      ELSE IF i \in DOMAIN new THEN 0 ELSE l2[At(i)][j]
    BY <1>3
<1>6. ASSUME NEW id \in L2Id PROVE l2'[id] \in [L2Idx -> Nat]
  <2>1. CASE \E i \in P : At(i) = id
    <3>1. PICK i \in P : At(i) = id
        BY <2>1
    <3>2. i \in Nat /\ L2Entries \in Nat
        BY PagingAssumption DEF Paged, Touched, L1Idx
    <3>3. ASSUME NEW j \in L2Idx, i * L2Entries + j \in v .. v + n - 1
          PROVE  f + (i * L2Entries + j) - v \in Nat
      <4>1. i * L2Entries \in Nat /\ j \in Nat
        BY <3>2 DEF L2Idx
      <4>2. PICK w \in Nat : w = i * L2Entries + j
        BY <4>1
      <4>3. w >= v
        BY <3>3, <4>2
      <4>4. f + w - v \in Nat
        BY <4>3
      <4>5. QED
        BY <4>2, <4>4
    <3>4. l2[id] \in [L2Idx -> Nat]
        BY DEF TypeOK
    <3>5. ASSUME NEW j \in L2Idx PROVE l2'[id][j] \in Nat
        BY <1>5, <3>1, <3>3, <3>4
    <3>6. l2'[id] = Row(i, id)
        BY <1>3, <3>1
    <3>7. DOMAIN l2'[id] = L2Idx /\ l2'[id] = [j \in L2Idx |-> l2'[id][j]]
        BY <3>6
    <3>8. QED
        BY <3>5, <3>7
  <2>2. CASE ~\E i \in P : At(i) = id
    BY <1>4, <2>2 DEF TypeOK
  <2>3. QED
    BY <2>1, <2>2
<1>7. l2' \in [L2Id -> [L2Idx -> Nat]]
  <2>1. DOMAIN l2' = L2Id /\ l2' = [id \in L2Id |-> l2'[id]]
    BY <1>2
  <2>2. QED
    BY <1>6, <2>1
<1>8. QED
    BY <1>4, <1>5, <1>7 DEF TablesFilled

\* What the processor finds after create_mapping.
LEMMA MapWalk ==
    ASSUME NEW t, NEW v, NEW f, NEW n, NEW new, Mapping(t, v, f, n, new)
    PROVE  /\ \A w \in Page :
                  w \in v .. v + n - 1 /\ ~AsSection(w \div L2Entries, v, f, n) =>
                      Walk(t, w)' = f + w - v
           /\ \A s \in Used, w \in Page :
                  s # t \/ (w \notin v .. v + n - 1 /\ ~AsSection(w \div L2Entries, v, f, n)) =>
                      Walk(s, w)' = Walk(s, w)
<1> DEFINE P == Paged(v, f, n)
           At(i) == TableOf(t, i, new)
<1>0. /\ TypeOK /\ Layout /\ Owners /\ t \in Used /\ v \in Nat /\ f \in Nat /\ n \in Nat
      /\ Mappable(t, v, f, n)
    BY DEF Mapping
<1>a. TablesApart(t, v, f, n, new) /\ EntriesMapped(t, v, f, n, new)
    BY MapTables, MapEffect
<1>b. TablesFilled(t, v, f, n, new)
    BY MapFill
<1> USE <1>0
<1>1. /\ \A s \in Root \ {t} : l1'[s] = l1[s]
      /\ \A i \in L1Idx \ Touched(v, n) : l1'[t][i] = l1[t][i]
      /\ \A i \in P : l1'[t][i] = Table(At(i))
    BY <1>a DEF EntriesMapped
<1>2. /\ \A i \in P : \A j \in L2Idx :
             l2'[At(i)][j] = IF i * L2Entries + j \in v .. v + n - 1 THEN f + (i * L2Entries + j) - v
                             ELSE IF i \in DOMAIN new THEN 0 ELSE l2[At(i)][j]
      /\ \A id \in L2Id : (\A i \in P : At(i) # id) => l2'[id] = l2[id]
    BY <1>b DEF TablesFilled
<1>3. /\ DOMAIN new = {i \in P : l1[t][i] = None}
      /\ \A i \in DOMAIN new : new[i] \in L2Id \ heap
      /\ \A i \in P \ DOMAIN new :
             l1[t][i].type = "table" /\ l1[t][i].at \in heap /\ l1[t][i].at \in L2Id
    BY <1>a DEF TablesApart
<1>4. ASSUME NEW w \in Page, w \div L2Entries \in P
      PROVE  Walk(t, w)' = IF w \in v .. v + n - 1 THEN f + w - v ELSE Walk(t, w)
  <2>1. PICK i \in L1Idx, j \in L2Idx :
            i = w \div L2Entries /\ j = w % L2Entries /\ w = i * L2Entries + j
    BY PageIndex, DivMod
  <2>2. l1'[t][i].type = "table" /\ l1'[t][i].at = At(i)
    <3>1. l1'[t][i] = Table(At(i))
        BY <1>1, <1>4, <2>1
    <3>2. QED
        BY <3>1 DEF Table
  <2>3. Walk(t, w)' = l2'[At(i)][j]
    BY <2>1, <2>2 DEF Walk
  <2>4. CASE w \in v .. v + n - 1
    BY <1>2, <1>4, <2>1, <2>3, <2>4
  <2>5. CASE w \notin v .. v + n - 1 /\ i \in DOMAIN new
    <3>1. l1[t][i].type = "none"
        BY <1>3, <2>5, EntryTypes
    <3>2. Walk(t, w) = 0
        BY <2>1, <3>1, WalkValue
    <3>3. QED
        BY <1>2, <1>4, <2>1, <2>3, <2>5, <3>2
  <2>6. CASE w \notin v .. v + n - 1 /\ i \notin DOMAIN new
    <3>1. l1[t][i].type = "table" /\ At(i) = l1[t][i].at
        BY <1>3, <1>4, <2>1, <2>6 DEF TableOf
    <3>2. Walk(t, w) = l2[At(i)][j]
        BY <2>1, <3>1, WalkValue
    <3>3. QED
        BY <1>2, <1>4, <2>1, <2>3, <2>6, <3>2
  <2>7. QED
    BY <2>4, <2>5, <2>6
<1>5. ASSUME NEW w \in Page, w \in v .. v + n - 1, ~AsSection(w \div L2Entries, v, f, n)
      PROVE  Walk(t, w)' = f + w - v
  <2>1. w \div L2Entries \in P
    BY <1>5, PageTouched DEF Paged
  <2>2. QED
    BY <1>4, <1>5, <2>1
<1>6. ASSUME NEW s \in Used, NEW w \in Page,
             s # t \/ (w \notin v .. v + n - 1 /\ ~AsSection(w \div L2Entries, v, f, n))
      PROVE  Walk(s, w)' = Walk(s, w)
  <2>1. CASE s = t /\ w \div L2Entries \in P
    BY <1>4, <1>6, <2>1
  <2>2. CASE s # t \/ w \div L2Entries \notin P
    <3> DEFINE i == w \div L2Entries
    <3>1. i \in L1Idx /\ w % L2Entries \in L2Idx /\ s \in Root
        BY PageIndex, Roots
    <3>2. l1'[s][i] = l1[s][i]
        BY <1>1, <1>6, <2>2, <3>1 DEF Paged
    <3>3. ASSUME l1[s][i].type = "table", NEW k \in P, At(k) = l1[s][i].at PROVE FALSE
      <4>1. l1[s][i].at \in heap
        BY <3>1, <3>3, TableInHeap
      <4>2. k \notin DOMAIN new
        BY <1>3, <3>3, <4>1 DEF TableOf
      <4>3. l1[t][k].type = "table" /\ l1[t][k].at = l1[s][i].at
        BY <1>3, <3>3, <4>2 DEF TableOf
      <4>4. k \in Touched(v, n) /\ l1[t][k] # None
        BY <4>3, EntryTypes DEF Paged
      <4>5. k \in Own(t) /\ (k < KernelIdx \/ k = FixIdx)
        BY <4>4 DEF Mappable
      <4>6. i = k /\ (s = t \/ (t = Sys /\ i >= KernelIdx /\ i # FixIdx))
        BY <3>1, <3>3, <4>3, <4>5, SharedTable
      <4>7. i \in Int /\ KernelIdx \in Int
        BY <3>1, PagingAssumption DEF L1Idx
      <4>8. QED
        BY <2>2, <4>5, <4>6, <4>7
    <3>4. l1[s][i].type = "table" => l2'[l1[s][i].at] = l2[l1[s][i].at]
      <4>1. l1[s][i].type = "table" => l1[s][i].at \in L2Id
        BY <3>1, TableInHeap
      <4>2. QED
        BY <1>2, <3>3, <4>1
    <3>5. QED
        BY <3>2, <3>4, WalkFrame
  <2>3. QED
    BY <2>1, <2>2
<1>7. QED
    BY <1>5, <1>6

\* The new L2 tables have one owner each.
LEMMA MapOwners ==
    ASSUME NEW t, NEW v, NEW f, NEW n, NEW new, Mapping(t, v, f, n, new), UNCHANGED root
    PROVE  Owners'
<1> DEFINE P == Paged(v, f, n)
           At(i) == TableOf(t, i, new)
<1>0. /\ TypeOK /\ Layout /\ Owners /\ t \in Used /\ v \in Nat /\ f \in Nat /\ n \in Nat
      /\ Mappable(t, v, f, n)
    BY DEF Mapping
<1>a. TablesApart(t, v, f, n, new) /\ EntriesMapped(t, v, f, n, new)
    BY MapTables, MapEffect
<1>b. TablesFilled(t, v, f, n, new)
    BY MapFill
<1> USE <1>0
<1>1. /\ \A s \in Root \ {t} : l1'[s] = l1[s]
      /\ \A i \in L1Idx \ Touched(v, n) : l1'[t][i] = l1[t][i]
      /\ \A i \in Touched(v, n) : AsSection(i, v, f, n) =>
             l1'[t][i] = Sect((f + i * L2Entries - v) \div L2Entries)
      /\ \A i \in P : l1'[t][i] = Table(At(i))
      /\ heap' = heap \cup {new[i] : i \in DOMAIN new}
    BY <1>a DEF EntriesMapped
<1>2. /\ DOMAIN new = {i \in P : l1[t][i] = None}
      /\ \A i \in DOMAIN new : new[i] \in L2Id \ heap
      /\ \A i \in P \ DOMAIN new :
             l1[t][i].type = "table" /\ l1[t][i].at \in heap /\ l1[t][i].at \in L2Id
    BY <1>a DEF TablesApart
<1>3. \A i, k \in P : At(i) = At(k) => i = k
    BY <1>a DEF TablesApart
<1>4. Used' = Used /\ \A s : Own(s)' = Own(s)
    BY DEF Used, InUse, Own
<1>5. Used \subseteq Root /\ Touched(v, n) \subseteq Own(t)
    BY Roots DEF Mappable
<1>6. ASSUME NEW s \in Used, NEW i \in Own(s), NEW id \in L2Id, l1'[s][i] = Table(id)
      PROVE  \/ l1[s][i] = Table(id) /\ id \in heap
             \/ s = t /\ i \in DOMAIN new /\ id = new[i] /\ id \notin heap
  <2>1. l1[s][i] = Table(id) => id \in heap
    BY DEF Owners
  <2>2. CASE s # t \/ i \notin Touched(v, n)
    BY <1>1, <1>5, <1>6, <2>1, <2>2 DEF Own
  <2>3. CASE s = t /\ i \in P
    <3>1. At(i) = id
        BY <1>1, <1>6, <2>3, EntryTypes
    <3>2. CASE i \in DOMAIN new
        BY <1>2, <2>3, <3>1, <3>2 DEF TableOf
    <3>3. CASE i \notin DOMAIN new
      <4>1. l1[t][i] = Table(l1[t][i].at)
        BY <1>2, <2>3, <3>3, TableInHeap DEF Own
      <4>2. QED
        BY <2>1, <2>3, <3>1, <3>3, <4>1 DEF TableOf
    <3>4. QED
        BY <3>2, <3>3
  <2>4. CASE s = t /\ i \in Touched(v, n) /\ AsSection(i, v, f, n)
    <3>1. \A x : Sect(x) # Table(id)
        BY DEF Sect, Table
    <3>2. l1'[s][i] = Sect((f + i * L2Entries - v) \div L2Entries)
        BY <1>1, <2>4
    <3>3. QED
        BY <1>6, <3>1, <3>2
  <2>5. QED
    BY <2>2, <2>3, <2>4 DEF Paged
<1>7. ASSUME NEW s \in Used, NEW i \in Own(s), NEW id \in L2Id, l1[s][i] = Table(id)
      PROVE  l1'[s][i] = Table(id)
  <2>1. CASE s # t \/ i \notin Touched(v, n)
    BY <1>1, <1>5, <1>7, <2>1 DEF Own
  <2>2. CASE s = t /\ i \in Touched(v, n)
    <3>1. l1[t][i] # None /\ l1[t][i].at = id
        BY <1>7, <2>2, EntryTypes DEF None, Table
    <3>2. i \in P /\ i \notin DOMAIN new
        BY <1>2, <2>2, <3>1 DEF Mappable, Paged
    <3>3. QED
        BY <1>1, <2>2, <3>1, <3>2 DEF TableOf
  <2>3. QED
    BY <2>1, <2>2
<1>8. heap' = {id \in L2Id : \E s \in Used : \E i \in Own(s) : l1'[s][i] = Table(id)}
  <2>1. ASSUME NEW id \in heap
        PROVE  id \in L2Id /\ \E s \in Used : \E i \in Own(s) : l1'[s][i] = Table(id)
    <3>1. PICK s \in Used : \E i \in Own(s) : id \in L2Id /\ l1[s][i] = Table(id)
        BY DEF Owners
    <3>2. QED
        BY <1>7, <3>1
  <2>2. ASSUME NEW i \in DOMAIN new
        PROVE  new[i] \in L2Id /\ l1'[t][i] = Table(new[i]) /\ i \in Own(t)
    BY <1>1, <1>2, <1>5 DEF TableOf, Paged
  <2>3. ASSUME NEW id \in L2Id, NEW s \in Used, NEW i \in Own(s), l1'[s][i] = Table(id)
        PROVE  id \in heap'
    BY <1>1, <1>6, <2>3
  <2>4. QED
    BY <1>1, <2>1, <2>2, <2>3
<1>9. ASSUME NEW r \in Used, NEW s \in Used, NEW i \in Own(r), NEW k \in Own(s), NEW id \in L2Id,
             l1'[r][i] = Table(id), l1'[s][k] = Table(id)
      PROVE  r = s /\ i = k
  <2>1. CASE l1[r][i] = Table(id) /\ l1[s][k] = Table(id)
    BY <2>1 DEF Owners
  <2>2. CASE id \notin heap
    <3>1. r = t /\ s = t /\ i \in DOMAIN new /\ k \in DOMAIN new /\ new[i] = new[k]
        BY <1>6, <1>9, <2>2
    <3>2. QED
        BY <1>2, <1>3, <3>1 DEF TableOf
  <2>3. QED
    BY <1>6, <1>9, <2>1, <2>2
<1>10. QED
    BY <1>4, <1>8, <1>9 DEF Owners

\* The tables create_mapping leaves behind are tables.
LEMMA MapType ==
    ASSUME NEW t, NEW v, NEW f, NEW n, NEW new, Mapping(t, v, f, n, new)
    PROVE  /\ l1' \in [Root -> [L1Idx -> L1Entry]] /\ l2' \in [L2Id -> [L2Idx -> Nat]]
           /\ heap' \in SUBSET L2Id /\ tlb' = NoTlb
<1>0. /\ TypeOK /\ t \in Root /\ v \in Nat /\ f \in Nat /\ n \in Nat
      /\ l1' = [l1 EXCEPT ![t] = l1'[t]]
      /\ DOMAIN l1'[t] = L1Idx /\ l1'[t] = [i \in L1Idx |-> l1'[t][i]]
    BY Roots DEF Mapping, create_mapping, TypeOK
<1>1. TablesApart(t, v, f, n, new) /\ EntriesMapped(t, v, f, n, new)
    BY MapTables, MapEffect
<1>2. TablesFilled(t, v, f, n, new)
    BY MapFill
<1>3. ASSUME NEW i \in L1Idx PROVE l1'[t][i] \in L1Entry
  <2>1. CASE i \notin Touched(v, n)
    BY <1>0, <1>1, <2>1, L1Type DEF EntriesMapped
  <2>2. CASE i \in Paged(v, f, n)
    BY <1>1, <2>2, EntryTypes DEF EntriesMapped, TablesApart
  <2>3. CASE i \in Touched(v, n) /\ AsSection(i, v, f, n)
    <3>1. L2Entries \in Nat \ {0} /\ i \in Nat
        BY PagingAssumption DEF L1Idx
    <3>2. i * L2Entries \in Nat /\ v <= i * L2Entries
        BY <2>3, <3>1 DEF AsSection, WholeSection
    <3>3. PICK m \in Nat : m = f + i * L2Entries - v
        BY <1>0, <3>2
    <3>4. m \div L2Entries \in Nat
        BY <3>1, <3>3
    <3>5. QED
        BY <1>1, <2>3, <3>3, <3>4, EntryTypes DEF EntriesMapped
  <2>4. QED
    BY <2>1, <2>2, <2>3 DEF Paged
<1>4. l1'[t] \in [L1Idx -> L1Entry]
    BY <1>0, <1>3
<1>5. l1' \in [Root -> [L1Idx -> L1Entry]]
    BY <1>0, <1>4 DEF TypeOK
<1>6. heap' \in SUBSET L2Id
    BY <1>0, <1>1 DEF EntriesMapped, TablesApart, TypeOK
<1>7. QED
    BY <1>1, <1>2, <1>5, <1>6 DEF TablesFilled, EntriesMapped

\* While no fork is under way nothing is mapped at Fixmap.
LEMMA NoFixmap ==
    ASSUME Layout, dup.to = Sys, NEW t \in Used
    PROVE  l1[t][FixIdx] = None
BY PageIndex, Roots DEF Layout

\* create_mapping of small pages in the user half of a process.
LEMMA MapUser ==
    ASSUME NEW t, NEW v, NEW f, NEW n, NEW new, Mapping(t, v, f, n, new),
           t \in InUse, dup.to = Sys, UNCHANGED <<root, current, dup>>,
           \A i \in Touched(v, n) : i < KernelIdx /\ ~AsSection(i, v, f, n)
    PROVE  Layout'
<1>0. TypeOK /\ Layout /\ t \in Root /\ Sys \in Root \ {t} /\ InUse \subseteq Root
    BY Roots DEF Mapping
<1>1. EntriesMapped(t, v, f, n, new)
    BY MapEffect
<1>2. /\ \A s \in Root \ {t} : l1'[s] = l1[s]
      /\ \A i \in L1Idx \ Touched(v, n) : l1'[t][i] = l1[t][i]
      /\ \A i \in Touched(v, n) : l1'[t][i].type = "table"
  <2>1. \A x : Table(x).type = "table"
    BY DEF Table
  <2>2. \A i \in Touched(v, n) : i \in Paged(v, f, n)
    BY DEF Paged
  <2>3. QED
    BY <1>1, <2>1, <2>2 DEF EntriesMapped
<1>3. InUse' = InUse /\ Used' = Used
    BY DEF InUse, Used
<1>4. ASSUME NEW s \in InUse, NEW i \in L1Idx
      PROVE  /\ i < KernelIdx => l1'[s][i].type # "sect"
             /\ i >= KernelIdx /\ i # FixIdx => l1'[s][i] = l1'[Sys][i]
             /\ i = FixIdx => l1'[s][i] = None
  <2>1. /\ i < KernelIdx => l1[s][i].type # "sect"
        /\ i >= KernelIdx /\ i # FixIdx => l1[s][i] = l1[Sys][i]
        /\ i = FixIdx => l1[s][i] = None
    BY <1>0, NoFixmap DEF Layout, Used
  <2>2. CASE s # t \/ i \notin Touched(v, n)
    BY <1>0, <1>2, <2>1, <2>2
  <2>3. CASE s = t /\ i \in Touched(v, n)
    <3>1. i < KernelIdx /\ ~(i >= KernelIdx) /\ i # FixIdx
        BY <2>3, PageIndex, PagingAssumption DEF L1Idx
    <3>2. QED
        BY <1>2, <2>3, <3>1
  <2>4. QED
    BY <2>2, <2>3
<1>5. l1'[Sys] = l1[Sys]
    BY <1>0, <1>2
<1>6. QED
    BY <1>0, <1>3, <1>4, <1>5 DEF Layout

-----------------------------------------------------------------------------
(* The other changes of a table *)

\* A table for a new process: the kernel half of the system table.
NewTable(c) ==
    /\ TypeOK /\ Layout /\ Owners
    /\ c \in Proc /\ root[c] = "none"
    /\ root' = [root EXCEPT ![c] = "live"]
    /\ l1' = [l1 EXCEPT ![c] = KernelArea]
    /\ UNCHANGED <<l2, heap>>

\* Its user half is empty and the tables of the others are what they were.
Fresh(c) ==
    /\ l1' \in [Root -> [L1Idx -> L1Entry]]
    /\ root' \in [Proc -> {"none", "live", "exited"}]
    /\ InUse' = InUse \cup {c} /\ Used' = Used \cup {c} /\ c \notin Used
    /\ \A s \in Root \ {c} : l1'[s] = l1[s]
    /\ \A i \in L1Idx : i < KernelIdx => l1'[c][i] = None
    /\ \A i \in L1Idx : i >= KernelIdx => l1'[c][i] = l1[Sys][i]

LEMMA NewTableFresh ==
    ASSUME NEW c, NewTable(c)
    PROVE  Fresh(c)
<1> USE DEF NewTable
<1>1. c # Sys /\ c \in Root /\ Sys \in Root /\ DOMAIN l1 = Root /\ DOMAIN root = Proc
    BY Roots DEF TypeOK
<1>2. /\ \A s \in Root \ {c} : l1'[s] = l1[s]
      /\ l1'[c] = KernelArea
    BY <1>1
<1>3. \A i \in L1Idx : i \in Int /\ KernelIdx \in Int
    BY PagingAssumption DEF L1Idx
<1>4. /\ \A i \in L1Idx : i < KernelIdx => l1'[c][i] = None
      /\ \A i \in L1Idx : i >= KernelIdx => l1'[c][i] = l1[Sys][i]
    BY <1>2, <1>3 DEF KernelArea
<1>5. KernelArea \in [L1Idx -> L1Entry]
    BY <1>1, L1Type, EntryTypes DEF KernelArea
<1>6. l1' \in [Root -> [L1Idx -> L1Entry]]
    BY <1>1, <1>5 DEF TypeOK
<1>7. root' \in [Proc -> {"none", "live", "exited"}]
    BY DEF TypeOK
<1>8. InUse' = InUse \cup {c} /\ c \notin InUse
    BY <1>1 DEF InUse
<1>9. Used' = Used \cup {c} /\ c \notin Used
    BY <1>1, <1>8 DEF Used
<1>10. QED
    BY <1>2, <1>4, <1>6, <1>7, <1>8, <1>9 DEF Fresh

\* The new table owns no L2 table.
LEMMA NewTableOwners ==
    ASSUME NEW c, NewTable(c)
    PROVE  Owners'
<1>1. TypeOK /\ Layout /\ Owners /\ Fresh(c) /\ c \in Proc /\ heap' = heap
    BY NewTableFresh DEF NewTable
<1>2. \A s : Own(s)' = Own(s)
    BY DEF Own
<1>3. ASSUME NEW s \in Used', NEW i \in Own(s), NEW id \in L2Id, l1'[s][i] = Table(id)
      PROVE  s \in Used /\ l1[s][i] = Table(id)
  <2>1. None # Table(id)
    BY DEF None, Table
  <2>2. CASE s = c
    <3>1. c # Sys /\ i \in L1Idx /\ (i < KernelIdx \/ i = FixIdx)
        BY <1>1, <2>2, Roots DEF Own
    <3>2. l1'[c][i] = None
        BY <1>1, <3>1, PageIndex DEF Fresh, Layout
    <3>3. QED
        BY <1>3, <2>1, <2>2, <3>2
  <2>3. CASE s # c
    BY <1>1, <1>3, <2>3, Roots DEF Fresh
  <2>4. QED
    BY <2>2, <2>3
<1>4. \A s \in Used : s \in Used' /\ l1'[s] = l1[s]
    BY <1>1, Roots DEF Fresh
<1>5. heap' = {id \in L2Id : \E s \in Used' : \E i \in Own(s) : l1'[s][i] = Table(id)}
    BY <1>1, <1>3, <1>4 DEF Owners
<1>6. \A r, s \in Used' : \A i \in Own(r), k \in Own(s) : \A id \in L2Id :
          l1'[r][i] = Table(id) /\ l1'[s][k] = Table(id) => r = s /\ i = k
    BY <1>1, <1>3 DEF Owners
<1>7. QED
    BY <1>2, <1>5, <1>6 DEF Owners

\* The new process has no page, and nobody else's changed.
LEMMA NewTableWalk ==
    ASSUME NEW c, NewTable(c)
    PROVE  /\ \A v \in UserPage : Walk(c, v)' = 0
           /\ \A s \in Used, v \in Page : Walk(s, v)' = Walk(s, v)
<1>1. Fresh(c) /\ l2' = l2
    BY NewTableFresh DEF NewTable
<1>2. ASSUME NEW v \in UserPage PROVE Walk(c, v)' = 0
  <2>1. v \div L2Entries \in L1Idx /\ v \div L2Entries < KernelIdx
    BY PageIndex DEF Page
  <2>2. l1'[c][v \div L2Entries].type = "none"
    BY <1>1, <2>1, EntryTypes DEF Fresh
  <2>3. QED
    BY <2>2 DEF Walk
<1>3. ASSUME NEW s \in Used, NEW v \in Page PROVE Walk(s, v)' = Walk(s, v)
  <2>1. l1'[s] = l1[s]
    BY <1>1, Roots DEF Fresh
  <2>2. QED
    BY <1>1, <2>1, WalkFrame
<1>4. QED
    BY <1>2, <1>3

\* reset_root_pgtable of a process that stays or is over, Fixmap being free.
Reset(t) ==
    /\ TypeOK /\ Layout /\ Owners
    /\ t \in InUse /\ dup.to = Sys
    /\ reset_root_pgtable(t)
    /\ \A s \in Proc : s # t => root'[s] = root[s]

\* The user half is empty, the rest is what it was.
Emptied(t) ==
    /\ l1' \in [Root -> [L1Idx -> L1Entry]] /\ l2' = l2 /\ heap' \in SUBSET heap
    /\ tlb' = NoTlb
    /\ Used \ {t} \subseteq Used' /\ Used' \subseteq Used
    /\ \A s \in Root \ {t} : l1'[s] = l1[s]
    /\ \A i \in L1Idx : i < KernelIdx => l1'[t][i] = None
    /\ \A i \in L1Idx : i >= KernelIdx => l1'[t][i] = l1[t][i]

LEMMA ResetEmpties ==
    ASSUME NEW t, Reset(t)
    PROVE  Emptied(t)
<1> USE DEF Reset
<1>1. t \in Root /\ t # Sys /\ DOMAIN l1 = Root /\ t \in Proc
    BY Roots DEF TypeOK
<1>2. l1' = [l1 EXCEPT ![t] = [i \in L1Idx |-> IF i < KernelIdx THEN None ELSE l1[t][i]]]
    BY <1>1 DEF reset_root_pgtable
<1>3. \A i \in L1Idx : i \in Int /\ KernelIdx \in Int
    BY PagingAssumption DEF L1Idx
<1>4. /\ \A s \in Root \ {t} : l1'[s] = l1[s]
      /\ \A i \in L1Idx : i < KernelIdx => l1'[t][i] = None
      /\ \A i \in L1Idx : i >= KernelIdx => l1'[t][i] = l1[t][i]
    BY <1>1, <1>2, <1>3
<1>5. [i \in L1Idx |-> IF i < KernelIdx THEN None ELSE l1[t][i]] \in [L1Idx -> L1Entry]
    BY <1>1, L1Type, EntryTypes
<1>6. l1' \in [Root -> [L1Idx -> L1Entry]]
    BY <1>1, <1>2, <1>5 DEF TypeOK
<1>7. Used \ {t} \subseteq Used' /\ Used' \subseteq Used
    BY <1>1 DEF Used, InUse
<1>8. l2' = l2 /\ heap' \in SUBSET heap /\ tlb' = NoTlb
    BY DEF reset_root_pgtable, v7_inval_tlb
<1>9. QED
    BY <1>4, <1>6, <1>7, <1>8 DEF Emptied

\* The L2 tables that were freed had no other owner.
LEMMA ResetOwners ==
    ASSUME NEW t, Reset(t)
    PROVE  Owners'
<1>1. TypeOK /\ Layout /\ Owners /\ Emptied(t) /\ t \in InUse /\ t \in Used /\ t # Sys /\ dup.to = Sys
    BY ResetEmpties, Roots DEF Reset, Used
<1>2. \A s : Own(s)' = Own(s)
    BY DEF Own
<1>3. heap' = heap \ UserTables(t)
    BY DEF Reset, reset_root_pgtable
<1>4. ASSUME NEW i \in Own(t) PROVE l1'[t][i] = None /\ i \in L1Idx
  <2>1. i \in L1Idx /\ (i < KernelIdx \/ i = FixIdx)
    BY <1>1 DEF Own
  <2>2. QED
    BY <1>1, <2>1, NoFixmap, PageIndex DEF Emptied
<1>5. ASSUME NEW s \in Used', NEW i \in Own(s), NEW id \in L2Id, l1'[s][i] = Table(id)
      PROVE  s \in Used /\ s # t /\ l1[s][i] = Table(id) /\ i \in Own(s)
  <2>1. None # Table(id)
    BY DEF None, Table
  <2>2. s # t
    BY <1>4, <1>5, <2>1
  <2>3. s \in Used /\ s \in Root \ {t}
    BY <1>1, <2>2, Roots DEF Emptied
  <2>4. QED
    BY <1>1, <1>5, <2>2, <2>3 DEF Emptied
<1>6. ASSUME NEW id \in UserTables(t)
      PROVE  \E k \in Own(t) : l1[t][k] = Table(id) /\ id \in L2Id
  <2>1. PICK k \in L1Idx : k < KernelIdx /\ l1[t][k].type = "table" /\ id = l1[t][k].at
    BY DEF UserTables
  <2>2. QED
    BY <1>1, <2>1, TableInHeap DEF Own
<1>7. ASSUME NEW id \in L2Id, NEW k \in Own(t), l1[t][k] = Table(id) PROVE id \in UserTables(t)
  <2>1. k \in L1Idx /\ (k < KernelIdx \/ k = FixIdx)
    BY <1>1 DEF Own
  <2>2. l1[t][k] # None
    BY <1>7 DEF None, Table
  <2>3. k < KernelIdx
    BY <1>1, <2>1, <2>2, NoFixmap
  <2>4. l1[t][k].type = "table" /\ l1[t][k].at = id
    BY <1>7, EntryTypes
  <2>5. QED
    BY <2>1, <2>3, <2>4 DEF UserTables
<1>8. ASSUME NEW id \in heap'
      PROVE  id \in L2Id /\ \E s \in Used' : \E i \in Own(s) : l1'[s][i] = Table(id)
  <2>0. PICK s \in Used : \E i \in Own(s) : id \in L2Id /\ l1[s][i] = Table(id)
    BY <1>1, <1>3 DEF Owners
  <2>1. PICK i \in Own(s) : id \in L2Id /\ l1[s][i] = Table(id)
    BY <2>0
  <2>2. s # t
    BY <1>3, <1>7, <2>1
  <2>3. s \in Used' /\ s \in Root \ {t}
    BY <1>1, <2>1, <2>2, Roots DEF Emptied
  <2>4. QED
    BY <1>1, <2>1, <2>3 DEF Emptied
<1>9. ASSUME NEW id \in L2Id, NEW s \in Used', NEW i \in Own(s), l1'[s][i] = Table(id)
      PROVE  id \in heap'
  <2>1. s \in Used /\ s # t /\ l1[s][i] = Table(id)
    BY <1>5, <1>9
  <2>2. id \in heap
    BY <1>1, <2>1 DEF Owners
  <2>3. id \notin UserTables(t)
    BY <1>1, <1>6, <2>1 DEF Owners
  <2>4. QED
    BY <1>3, <2>2, <2>3
<1>10. heap' = {id \in L2Id : \E s \in Used' : \E i \in Own(s) : l1'[s][i] = Table(id)}
    BY <1>8, <1>9
<1>11. \A r, s \in Used' : \A i \in Own(r), k \in Own(s) : \A id \in L2Id :
          l1'[r][i] = Table(id) /\ l1'[s][k] = Table(id) => r = s /\ i = k
    BY <1>1, <1>5 DEF Owners
<1>12. QED
    BY <1>2, <1>10, <1>11 DEF Owners

\* The process has no page left, and nobody else's changed.
LEMMA ResetWalk ==
    ASSUME NEW t, Reset(t)
    PROVE  /\ \A v \in UserPage : Walk(t, v)' = 0
           /\ \A s \in Used \ {t}, v \in Page : Walk(s, v)' = Walk(s, v)
<1>1. Emptied(t)
    BY ResetEmpties
<1>2. ASSUME NEW v \in UserPage PROVE Walk(t, v)' = 0
  <2>1. v \div L2Entries \in L1Idx /\ v \div L2Entries < KernelIdx
    BY PageIndex DEF Page
  <2>2. l1'[t][v \div L2Entries].type = "none"
    BY <1>1, <2>1, EntryTypes DEF Emptied
  <2>3. QED
    BY <2>2 DEF Walk
<1>3. ASSUME NEW s \in Used \ {t}, NEW v \in Page PROVE Walk(s, v)' = Walk(s, v)
  <2>1. l1'[s] = l1[s] /\ l2' = l2
    BY <1>1, Roots DEF Emptied
  <2>2. QED
    BY <2>1, WalkFrame
<1>4. QED
    BY <1>2, <1>3

\* The layout after a reset, Fixmap being free.
LEMMA ResetLayout ==
    ASSUME NEW t, Reset(t), UNCHANGED <<current, dup>>, current \in Used', current # Sys
    PROVE  Layout'
<1>1. TypeOK /\ Layout /\ Emptied(t) /\ t \in InUse /\ t # Sys /\ dup.to = Sys
    BY ResetEmpties, Roots DEF Reset
<1>2. l1'[Sys] = l1[Sys]
    BY <1>1, Roots DEF Emptied
<1>3. InUse' \subseteq InUse
    BY <1>1, Roots DEF Emptied, Used, InUse
<1>4. ASSUME NEW s \in InUse, NEW i \in L1Idx
      PROVE  /\ i < KernelIdx => l1'[s][i].type # "sect"
             /\ i >= KernelIdx /\ i # FixIdx => l1'[s][i] = l1'[Sys][i]
             /\ i = FixIdx => l1'[s][i] = None
  <2>1. /\ i < KernelIdx => l1[s][i].type # "sect"
        /\ i >= KernelIdx /\ i # FixIdx => l1[s][i] = l1[Sys][i]
        /\ i = FixIdx => l1[s][i] = None
    BY <1>1, NoFixmap DEF Layout, Used
  <2>2. CASE s # t
    BY <1>1, <1>2, <2>1, <2>2, Roots DEF Emptied
  <2>3. CASE s = t
    <3>1. i < KernelIdx \/ i >= KernelIdx
        BY PagingAssumption DEF L1Idx
    <3>2. i = FixIdx => i >= KernelIdx
        BY PageIndex, SMTT(20)
    <3>3. QED
        BY <1>1, <1>2, <2>1, <2>3, <3>1, <3>2, EntryTypes DEF Emptied
  <2>4. QED
    BY <2>2, <2>3
<1>5. QED
    BY <1>1, <1>2, <1>3, <1>4 DEF Layout

\* An entry of an L2 table of the user half is written, as DupCopy does.
EntrySet(t, v, x) ==
    /\ TypeOK /\ Layout /\ Owners
    /\ t \in InUse /\ v \in UserPage /\ x \in Nat
    /\ l1[t][v \div L2Entries].type = "table"
    /\ l2' = [l2 EXCEPT ![l1[t][v \div L2Entries].at][v % L2Entries] = x]
    /\ UNCHANGED l1

\* One page of one process changes, and no L2 table of the kernel half.
LEMMA EntrySetWalk ==
    ASSUME NEW t, NEW v, NEW x, EntrySet(t, v, x)
    PROVE  /\ l2' \in [L2Id -> [L2Idx -> Nat]]
           /\ Walk(t, v)' = x
           /\ \A s \in Used, w \in Page : s # t \/ w # v => Walk(s, w)' = Walk(s, w)
           /\ \A s \in Used, i \in L1Idx : l1[s][i].type = "table" /\ i >= KernelIdx =>
                  l2'[l1[s][i].at] = l2[l1[s][i].at]
<1> USE DEF EntrySet
<1> DEFINE q == v \div L2Entries
           r == v % L2Entries
           id == l1[t][q].at
<1>1. /\ q \in L1Idx /\ q < KernelIdx /\ r \in L2Idx /\ q \in Own(t) /\ t \in Used
      /\ v \in Page /\ v \in Nat
    BY PageIndex DEF Page, Own, Used
<1>2. id \in L2Id
    BY <1>1, TableInHeap
<1>3. /\ l2'[id] = [l2[id] EXCEPT ![r] = x]
      /\ \A k \in L2Id : k # id => l2'[k] = l2[k]
    BY <1>2, SMTT(20) DEF TypeOK
<1>4. l2'[id][r] = x /\ \A j \in L2Idx : j # r => l2'[id][j] = l2[id][j]
    BY <1>1, <1>2, <1>3 DEF TypeOK
<1>5. l2' \in [L2Id -> [L2Idx -> Nat]]
    BY <1>1, <1>2 DEF TypeOK
<1>6. Walk(t, v)' = x
    BY <1>4 DEF Walk
<1>7. ASSUME NEW s \in Used, NEW i \in L1Idx, l1[s][i].type = "table", l1[s][i].at = id
      PROVE  s = t /\ i = q
  <2>1. i = q /\ (s = t \/ (t = Sys /\ i >= KernelIdx /\ i # FixIdx))
    BY <1>1, <1>7, SharedTable
  <2>2. t # Sys
    BY Roots, SMTT(20)
  <2>3. QED
    BY <2>1, <2>2
<1>8. ASSUME NEW s \in Used, NEW w \in Page, s # t \/ w # v
      PROVE  Walk(s, w)' = Walk(s, w)
  <2>1. w \div L2Entries \in L1Idx /\ w % L2Entries \in L2Idx /\ w \in Nat
    BY PageIndex
  <2>2. ASSUME l1[s][w \div L2Entries].type = "table"
        PROVE  l2'[l1[s][w \div L2Entries].at][w % L2Entries] =
               l2[l1[s][w \div L2Entries].at][w % L2Entries]
    <3>1. CASE l1[s][w \div L2Entries].at # id
        BY <1>3, <2>1, <2>2, <3>1, TableInHeap, SMTT(20)
    <3>2. CASE l1[s][w \div L2Entries].at = id
      <4>1. s = t /\ w \div L2Entries = q
        BY <1>7, <2>1, <2>2, <3>2
      <4>2. v = q * L2Entries + r /\ w = (w \div L2Entries) * L2Entries + (w % L2Entries)
        BY <1>1, <2>1, DivMod
      <4>3. w % L2Entries # r
        BY <1>8, <4>1, <4>2
      <4>4. QED
        BY <1>4, <2>1, <3>2, <4>3
    <3>3. QED
        BY <3>1, <3>2
  <2>3. QED
    BY <2>2, WalkFrame
<1>9. ASSUME NEW s \in Used, NEW i \in L1Idx, l1[s][i].type = "table", i >= KernelIdx
      PROVE  l2'[l1[s][i].at] = l2[l1[s][i].at]
  <2>1. i # q
    BY <1>1, <1>9, PagingAssumption DEF L1Idx
  <2>2. l1[s][i].at # id /\ l1[s][i].at \in L2Id
    BY <1>7, <1>9, <2>1, TableInHeap
  <2>3. QED
    BY <1>3, <2>2
<1>10. QED
    BY <1>5, <1>6, <1>8, <1>9

\* An empty L2 table is put in the user half of a process, as DupTable does.
TableAdded(t, k, id) ==
    /\ TypeOK /\ Layout /\ Owners
    /\ t \in InUse /\ k \in L1Idx /\ k < KernelIdx /\ l1[t][k] = None /\ id \in L2Id \ heap
    /\ heap' = heap \cup {id}
    /\ l1' = [l1 EXCEPT ![t][k] = Table(id)]
    /\ l2' = [l2 EXCEPT ![id] = [j \in L2Idx |-> 0]]
    /\ UNCHANGED root

\* One entry of one table changes, and one L2 table nobody used.
LEMMA AddedEntries ==
    ASSUME NEW t, NEW k, NEW id, TableAdded(t, k, id)
    PROVE  /\ l1' \in [Root -> [L1Idx -> L1Entry]] /\ l2' \in [L2Id -> [L2Idx -> Nat]]
           /\ \A s \in Root, i \in L1Idx : s # t \/ i # k => l1'[s][i] = l1[s][i]
           /\ l1'[t][k] = Table(id)
           /\ \A a \in L2Id : a # id => l2'[a] = l2[a]
           /\ \A j \in L2Idx : l2'[id][j] = 0
<1> USE DEF TableAdded
<1>1. t \in Root /\ id \in L2Id /\ DOMAIN l1 = Root
    BY Roots DEF TypeOK
<1>2. l1' = [l1 EXCEPT ![t] = [l1[t] EXCEPT ![k] = Table(id)]]
    BY <1>1
<1>3. [l1[t] EXCEPT ![k] = Table(id)] \in [L1Idx -> L1Entry]
    BY <1>1, EntryTypes DEF TypeOK
<1>4. l1' \in [Root -> [L1Idx -> L1Entry]]
    BY <1>1, <1>2, <1>3 DEF TypeOK
<1>5. l1'[t] = [l1[t] EXCEPT ![k] = Table(id)] /\ \A s \in Root \ {t} : l1'[s] = l1[s]
    BY <1>1, <1>2
<1>6. /\ \A s \in Root, i \in L1Idx : s # t \/ i # k => l1'[s][i] = l1[s][i]
      /\ l1'[t][k] = Table(id)
    BY <1>1, <1>5 DEF TypeOK
<1>7. l2' \in [L2Id -> [L2Idx -> Nat]]
    BY <1>1 DEF TypeOK
<1>8. /\ \A a \in L2Id : a # id => l2'[a] = l2[a]
      /\ \A j \in L2Idx : l2'[id][j] = 0
    BY <1>1 DEF TypeOK
<1>9. QED
    BY <1>4, <1>6, <1>7, <1>8

\* The new table has one owner, and no page comes or goes.
LEMMA AddedOwners ==
    ASSUME NEW t, NEW k, NEW id, TableAdded(t, k, id)
    PROVE  Owners'
<1>1. /\ TypeOK /\ Layout /\ Owners /\ t \in InUse /\ t \in Used /\ k \in Own(t) /\ k \in L1Idx
      /\ l1[t][k] = None /\ id \in L2Id \ heap /\ heap' = heap \cup {id}
    BY DEF TableAdded, Own, Used
<1>2. /\ \A s \in Root, i \in L1Idx : s # t \/ i # k => l1'[s][i] = l1[s][i]
      /\ l1'[t][k] = Table(id)
    BY AddedEntries
<1>3. Used' = Used /\ \A s : Own(s)' = Own(s)
    BY DEF TableAdded, Used, InUse, Own
<1>4. \A s \in Used : s \in Root /\ \A i \in Own(s) : i \in L1Idx
    BY Roots DEF Own
<1>5. ASSUME NEW s \in Used, NEW i \in Own(s), NEW a \in L2Id
      PROVE  l1'[s][i] = Table(a) <=> l1[s][i] = Table(a) \/ (s = t /\ i = k /\ a = id)
  <2>1. CASE s # t \/ i # k
    BY <1>2, <1>4, <2>1
  <2>2. CASE s = t /\ i = k
    <3>1. None # Table(a)
        BY DEF None, Table
    <3>2. QED
        BY <1>1, <1>2, <2>2, <3>1, EntryTypes
  <2>3. QED
    BY <2>1, <2>2
<1>6. ASSUME NEW s \in Used, NEW i \in Own(s), l1[s][i] = Table(id) PROVE FALSE
    BY <1>1, <1>6 DEF Owners
<1>7. heap' = {a \in L2Id : \E s \in Used : \E i \in Own(s) : l1'[s][i] = Table(a)}
  <2>1. heap = {a \in L2Id : \E s \in Used : \E i \in Own(s) : l1[s][i] = Table(a)}
    BY <1>1 DEF Owners
  <2>2. QED
    BY <1>1, <1>5, <2>1
<1>8. \A r, s \in Used : \A i \in Own(r), m \in Own(s) : \A a \in L2Id :
          l1'[r][i] = Table(a) /\ l1'[s][m] = Table(a) => r = s /\ i = m
    BY <1>1, <1>5, <1>6 DEF Owners
<1>9. QED
    BY <1>3, <1>7, <1>8 DEF Owners

LEMMA AddedWalk ==
    ASSUME NEW t, NEW k, NEW id, TableAdded(t, k, id)
    PROVE  /\ \A s \in Used, w \in Page : Walk(s, w)' = Walk(s, w)
           /\ \A a \in heap : l2'[a] = l2[a]
<1>1. /\ TypeOK /\ Layout /\ Owners /\ l1[t][k] = None /\ id \in L2Id \ heap
    BY DEF TableAdded
<1>2. /\ \A s \in Root, i \in L1Idx : s # t \/ i # k => l1'[s][i] = l1[s][i]
      /\ l1'[t][k] = Table(id)
      /\ \A a \in L2Id : a # id => l2'[a] = l2[a]
      /\ \A j \in L2Idx : l2'[id][j] = 0
    BY AddedEntries
<1>3. \A a \in heap : l2'[a] = l2[a]
    BY <1>1, <1>2 DEF TypeOK
<1>4. ASSUME NEW s \in Used, NEW w \in Page PROVE Walk(s, w)' = Walk(s, w)
  <2>1. w \div L2Entries \in L1Idx /\ w % L2Entries \in L2Idx /\ s \in Root
    BY PageIndex, Roots
  <2>2. CASE s = t /\ w \div L2Entries = k
    <3>1. Walk(s, w) = 0
        BY <1>1, <2>2, EntryTypes, WalkValue
    <3>2. l1'[s][w \div L2Entries].type = "table" /\ l1'[s][w \div L2Entries].at = id
        BY <1>1, <1>2, <2>2, EntryTypes
    <3>3. Walk(s, w)' = l2'[id][w % L2Entries]
        BY <3>2 DEF Walk
    <3>4. QED
        BY <1>2, <2>1, <3>1, <3>3
  <2>3. CASE s # t \/ w \div L2Entries # k
    <3>1. l1'[s][w \div L2Entries] = l1[s][w \div L2Entries]
        BY <1>2, <2>1, <2>3
    <3>2. l1[s][w \div L2Entries].type = "table" => l1[s][w \div L2Entries].at \in heap
        BY <1>1, <2>1, TableInHeap
    <3>3. QED
        BY <1>3, <3>1, <3>2, WalkFrame
  <2>4. QED
    BY <2>2, <2>3
<1>5. QED
    BY <1>3, <1>4

\* release_mapping of Fixmap, where duplicate_user_space mapped a frame.
Released(t) ==
    /\ TypeOK /\ Layout /\ Owners
    /\ t \in InUse
    /\ release_mapping(t, Fixmap)
    /\ UNCHANGED root

\* Fixmap is the last entry of its L2 table, which is freed.
Freed(t) ==
    /\ l1' \in [Root -> [L1Idx -> L1Entry]] /\ l2' \in [L2Id -> [L2Idx -> Nat]]
    /\ l1[t][FixIdx].type = "table" /\ l1[t][FixIdx].at \in heap
    /\ heap' = heap \ {l1[t][FixIdx].at} /\ tlb' = NoTlb
    /\ l1'[t][FixIdx] = None
    /\ \A s \in Root, i \in L1Idx : s # t \/ i # FixIdx => l1'[s][i] = l1[s][i]
    /\ \A a \in L2Id : a # l1[t][FixIdx].at => l2'[a] = l2[a]

LEMMA ReleaseFrees ==
    ASSUME NEW t, Released(t)
    PROVE  Freed(t)
<1> DEFINE id == l1[t][FixIdx].at
           left == [l2[id] EXCEPT ![Fixmap % L2Entries] = 0]
<1>1. /\ TypeOK /\ Layout /\ Owners /\ t \in InUse /\ t \in Used /\ t \in Root /\ FixIdx \in L1Idx
      /\ Fixmap % L2Entries \in L2Idx
    BY Roots, PageIndex DEF Released, Used, Page
<1>2. /\ l1[t][FixIdx].type = "table"
      /\ l2' = [l2 EXCEPT ![id] = left]
      /\ heap' = IF \A j \in L2Idx : left[j] = 0 THEN heap \ {id} ELSE heap
      /\ l1' = IF \A j \in L2Idx : left[j] = 0 THEN [l1 EXCEPT ![t][FixIdx] = None] ELSE l1
      /\ tlb' = NoTlb
    BY DEF Released, release_mapping, v7_inval_tlb, FixIdx
<1>3. id \in heap /\ id \in L2Id
    BY <1>1, <1>2, TableInHeap
<1>4. FixmapOnly(l1[t][FixIdx])
    BY <1>1, <1>2, EntryTypes DEF Layout
<1>5. l2[id] \in [L2Idx -> Nat]
    BY <1>1, <1>3 DEF TypeOK
<1>6. \A j \in L2Idx : left[j] = 0
    BY <1>1, <1>4, <1>5 DEF FixmapOnly
<1>7. left \in [L2Idx -> Nat]
    BY <1>1, <1>5
<1>8. heap' = heap \ {id} /\ l1' = [l1 EXCEPT ![t] = [l1[t] EXCEPT ![FixIdx] = None]]
    BY <1>2, <1>6
<1>9. [l1[t] EXCEPT ![FixIdx] = None] \in [L1Idx -> L1Entry]
    BY <1>1, EntryTypes DEF TypeOK
<1>10. l1' \in [Root -> [L1Idx -> L1Entry]]
    BY <1>1, <1>8, <1>9 DEF TypeOK
<1>11. l1'[t] = [l1[t] EXCEPT ![FixIdx] = None] /\ \A s \in Root \ {t} : l1'[s] = l1[s]
    BY <1>1, <1>8 DEF TypeOK
<1>12. /\ l1'[t][FixIdx] = None
       /\ \A s \in Root, i \in L1Idx : s # t \/ i # FixIdx => l1'[s][i] = l1[s][i]
    BY <1>1, <1>11 DEF TypeOK
<1>13. l2' \in [L2Id -> [L2Idx -> Nat]] /\ \A a \in L2Id : a # id => l2'[a] = l2[a]
    BY <1>1, <1>2, <1>3, <1>7 DEF TypeOK
<1>14. QED
    BY <1>2, <1>3, <1>8, <1>10, <1>12, <1>13 DEF Freed

\* Nobody else used the L2 table that was freed.
LEMMA ReleaseOwners ==
    ASSUME NEW t, Released(t)
    PROVE  Owners'
<1> DEFINE id == l1[t][FixIdx].at
<1>1. /\ TypeOK /\ Layout /\ Owners /\ t \in InUse /\ t \in Used /\ FixIdx \in Own(t)
      /\ FixIdx \in L1Idx
    BY PageIndex DEF Released, Used, Own
<1>2. /\ l1[t][FixIdx].type = "table" /\ heap' = heap \ {id} /\ l1'[t][FixIdx] = None
      /\ \A s \in Root, i \in L1Idx : s # t \/ i # FixIdx => l1'[s][i] = l1[s][i]
    BY ReleaseFrees DEF Freed
<1>3. Used' = Used /\ \A s : Own(s)' = Own(s)
    BY DEF Released, Used, InUse, Own
<1>4. \A s \in Used : s \in Root /\ \A i \in Own(s) : i \in L1Idx
    BY Roots DEF Own
<1>5. id \in L2Id /\ l1[t][FixIdx] = Table(id)
    BY <1>1, <1>2, TableInHeap
<1>6. ASSUME NEW s \in Used, NEW i \in Own(s), NEW a \in L2Id
      PROVE  l1'[s][i] = Table(a) <=> l1[s][i] = Table(a) /\ (s # t \/ i # FixIdx)
  <2>1. None # Table(a)
    BY DEF None, Table
  <2>2. QED
    BY <1>2, <1>4, <2>1
<1>7. ASSUME NEW s \in Used, NEW i \in Own(s), l1[s][i] = Table(id) PROVE s = t /\ i = FixIdx
    BY <1>1, <1>5, <1>7 DEF Owners
<1>8. heap' = {a \in L2Id : \E s \in Used : \E i \in Own(s) : l1'[s][i] = Table(a)}
  <2>1. heap = {a \in L2Id : \E s \in Used : \E i \in Own(s) : l1[s][i] = Table(a)}
    BY <1>1 DEF Owners
  <2>2. ASSUME NEW a \in heap \ {id}
        PROVE  a \in L2Id /\ \E s \in Used : \E i \in Own(s) : l1'[s][i] = Table(a)
    <3>1. PICK s \in Used : \E i \in Own(s) : a \in L2Id /\ l1[s][i] = Table(a)
        BY <2>1
    <3>2. PICK i \in Own(s) : a \in L2Id /\ l1[s][i] = Table(a)
        BY <3>1
    <3>3. s # t \/ i # FixIdx
        BY <1>5, <3>2, EntryTypes
    <3>4. QED
        BY <1>6, <3>2, <3>3
  <2>3. ASSUME NEW a \in L2Id, NEW s \in Used, NEW i \in Own(s), l1'[s][i] = Table(a)
        PROVE  a \in heap \ {id}
    <3>1. l1[s][i] = Table(a) /\ (s # t \/ i # FixIdx)
        BY <1>6, <2>3
    <3>2. QED
        BY <1>7, <2>1, <3>1
  <2>4. QED
    BY <1>2, <2>2, <2>3
<1>9. \A r, s \in Used : \A i \in Own(r), k \in Own(s) : \A a \in L2Id :
          l1'[r][i] = Table(a) /\ l1'[s][k] = Table(a) => r = s /\ i = k
    BY <1>1, <1>6 DEF Owners
<1>10. QED
    BY <1>3, <1>8, <1>9 DEF Owners

\* No page of the user space changes.
LEMMA ReleaseWalk ==
    ASSUME NEW t, Released(t)
    PROVE  \A s \in Used, v \in UserPage : Walk(s, v)' = Walk(s, v)
<1>1. TypeOK /\ Layout /\ Owners /\ t \in InUse /\ t \in Used /\ t # Sys /\ FixIdx \in Own(t)
    BY PageIndex, Roots DEF Released, Used, Own
<1>2. /\ l1[t][FixIdx].type = "table"
      /\ \A s \in Root, i \in L1Idx : s # t \/ i # FixIdx => l1'[s][i] = l1[s][i]
      /\ \A a \in L2Id : a # l1[t][FixIdx].at => l2'[a] = l2[a]
    BY ReleaseFrees DEF Freed
<1>3. ASSUME NEW s \in Used, NEW v \in UserPage PROVE Walk(s, v)' = Walk(s, v)
  <2>1. v \div L2Entries \in L1Idx /\ v \div L2Entries < KernelIdx /\ s \in Root
    BY PageIndex, Roots DEF Page
  <2>2. v \div L2Entries # FixIdx
    BY <2>1, PageIndex, PagingAssumption DEF L1Idx
  <2>3. l1'[s][v \div L2Entries] = l1[s][v \div L2Entries]
    BY <1>2, <2>1, <2>2
  <2>4. ASSUME l1[s][v \div L2Entries].type = "table"
        PROVE  l1[s][v \div L2Entries].at \in L2Id /\ l1[s][v \div L2Entries].at # l1[t][FixIdx].at
    BY <1>1, <1>2, <2>1, <2>2, <2>4, TableInHeap, SharedTable
  <2>5. QED
    BY <1>2, <2>3, <2>4, WalkFrame
<1>4. QED
    BY <1>3

-----------------------------------------------------------------------------
(* The invariant holds initially ... *)

LEMMA InitPaging ==
    ASSUME Init
    PROVE  PagingInv
<1> USE DEF Init
<1>1. /\ L1Entries \in Nat /\ KernelIdx \in Nat /\ KernelSects \in Nat /\ RamSect \in Nat
      /\ Sys \notin Proc /\ Sys = 0
    BY PagingAssumption DEF Sys
<1>2. ASSUME NEW t \in Root, NEW i \in L1Idx
      PROVE  l1[t][i] \in L1Entry /\ l1[t][i].type # "table"
  <2>1. i \in Nat
    BY <1>1 DEF L1Idx
  <2>2. \/ l1[t][i] = None
        \/ l1[t][i] = Sect(i)
        \/ i >= KernelIdx /\ l1[t][i] = Sect(RamSect + i - KernelIdx)
    BY <1>1, <2>1
  <2>3. i >= KernelIdx => RamSect + i - KernelIdx \in Nat
    BY <1>1, <2>1
  <2>4. QED
    BY <2>1, <2>2, <2>3, EntryTypes
<1>3. l1 \in [Root -> [L1Idx -> L1Entry]]
  <2>1. l1 = [t \in Root |-> [i \in L1Idx |-> l1[t][i]]]
    OBVIOUS
  <2>2. QED
    BY <1>2, <2>1
<1>4. TypeOK
  <2>1. l2 \in [L2Id -> [L2Idx -> Nat]]
    OBVIOUS
  <2>2. current \in Root /\ dup \in [to : Root, frame : {0} \cup Frame]
    BY DEF Root, NoDup
  <2>3. tlb \in [UserPage \cup {Fixmap} -> Nat]
    BY DEF NoTlb
  <2>4. QED
    BY <1>3, <2>1, <2>2, <2>3 DEF TypeOK
<1>5. InUse = {} /\ Used = {Sys} /\ Live = {}
    BY DEF InUse, Used, Live
<1>6. Owners
  <2>1. ASSUME NEW i \in L1Idx, NEW id \in L2Id PROVE l1[Sys][i] # Table(id)
    BY <1>2, EntryTypes, Roots
  <2>2. QED
    BY <1>5, <2>1 DEF Owners, Own
<1>7. l1[Sys][FixIdx] = None
  <2>1. /\ FixIdx \in L1Idx /\ FixIdx \in Int /\ FixIdx >= KernelIdx + KernelSects
        /\ Identity \in SUBSET (0 .. KernelIdx - 1)
    BY <1>1, PageIndex, PagingAssumption DEF L1Idx
  <2>2. FixIdx \notin Identity /\ FixIdx \notin KernelIdx .. KernelIdx + KernelSects - 1
    BY <1>1, <2>1
  <2>3. QED
    BY <2>1, <2>2, Roots
<1>8. Layout
    BY <1>2, <1>5, <1>7, Roots DEF Layout
<1>9. Frames
    BY <1>5 DEF Frames
<1>10. Boot /\ Copying
    BY <1>5 DEF Boot, Copying, NoDup
<1>11. TlbCoherent
    BY DEF TlbCoherent, NoTlb
<1>12. QED
    BY <1>4, <1>6, <1>8, <1>9, <1>10, <1>11 DEF PagingInv

-----------------------------------------------------------------------------
(* ... and every step keeps it *)

\* The processes that are live are in use.
LEMMA LiveUsed ==
    Live \subseteq Proc /\ Live \subseteq InUse /\ InUse \subseteq Used /\ Live \subseteq Root
BY Roots DEF Live, InUse, Used

\* No translation is stale once the processor has forgotten them all.
LEMMA FlushedTlb ==
    ASSUME tlb' = NoTlb
    PROVE  TlbCoherent' /\ tlb' \in [UserPage \cup {Fixmap} -> Nat]
BY DEF TlbCoherent, NoTlb

\* The translations stay right where the tables say the same.
LEMMA TlbKept ==
    ASSUME TypeOK, Layout, TlbCoherent, UNCHANGED <<tlb, current>>,
           \A s \in Used, v \in Page : Walk(s, v)' = Walk(s, v)
    PROVE  TlbCoherent'
<1>1. PICK c \in Used : c = current /\ c = current'
    BY DEF Layout
<1>2. DOMAIN tlb = Page
    BY DEF TypeOK, Page
<1>3. ASSUME NEW v \in DOMAIN tlb, tlb[v] # 0 PROVE tlb[v] = Walk(c, v)'
    BY <1>1, <1>2, <1>3 DEF TlbCoherent
<1>4. \A v : Walk(current, v)' = Walk(c, v)'
    BY <1>1 DEF Walk
<1>5. QED
    BY <1>3, <1>4 DEF TlbCoherent

\* The frames keep their owners where no page changes.
LEMMA FramesKept ==
    ASSUME Frames, UNCHANGED <<root, pages, free>>,
           \A s \in Live, v \in UserPage : Walk(s, v)' = Walk(s, v)
    PROVE  Frames'
<1>1. Live' = Live
    BY DEF Live
<1>2. QED
    BY <1>1 DEF Frames

\* The ram device is mapped before there is a process.
LEMMA RamdevPaging ==
    ASSUME PagingInv, ramdev_create_mapping
    PROVE  PagingInv'
<1> DEFINE T == Touched(RamdevPage, RamdevPages)
<1>1. /\ TypeOK /\ Layout /\ Owners /\ Frames /\ current = Sys /\ root[1] = "none" /\ dup = NoDup
      /\ UNCHANGED <<root, current, pages, free, mem, dup, halted>>
      /\ \A i \in T : l1[Sys][i] = None
    BY DEF PagingInv, ramdev_create_mapping, Running
<1>2. PICK new \in Placements(NeedTable(l1[Sys], RamdevPage, RamdevFrame, RamdevPages)) :
          create_mapping(Sys, l1[Sys], RamdevPage, RamdevFrame, RamdevPages, new)
    BY DEF ramdev_create_mapping
<1>3. InUse = {} /\ Live = {} /\ Used = {Sys}
    BY <1>1 DEF InUse, Live, Used, Layout
<1>4. ASSUME NEW i \in T PROVE i \in L1Idx /\ i >= KernelIdx /\ i < FixIdx
  <2>1. /\ RamdevPage \in Nat /\ RamdevPages \in Nat /\ KernelIdx \in Nat /\ KernelSects \in Nat
        /\ L2Entries \in Nat
        /\ (KernelIdx + KernelSects) * L2Entries <= RamdevPage
        /\ RamdevPage + RamdevPages <= FixIdx * L2Entries
    BY PagingAssumption
  <2>2. /\ i \in L1Idx /\ i \in Nat
        /\ i * L2Entries < RamdevPage + RamdevPages /\ RamdevPage < (i + 1) * L2Entries
    BY <2>1, TouchedBounds
  <2>3. FixIdx \in Nat
    BY PageIndex, PagingAssumption DEF L1Idx
  <2>4. i * L2Entries < FixIdx * L2Entries
    <3>1. i * L2Entries \in Int /\ FixIdx * L2Entries \in Int
        BY <2>1, <2>2, <2>3
    <3>2. QED
        BY <2>1, <2>2, <3>1
  <2>5. (KernelIdx + KernelSects) * L2Entries < (i + 1) * L2Entries
    <3>1. (KernelIdx + KernelSects) * L2Entries \in Int /\ (i + 1) * L2Entries \in Int
        BY <2>1, <2>2
    <3>2. QED
        BY <2>1, <2>2, <3>1
  <2>6. i < FixIdx
    BY <2>2, <2>3, <2>4, MulLess
  <2>7. KernelIdx + KernelSects < i + 1
    BY <2>1, <2>2, <2>5, MulLess
  <2>8. QED
    BY <2>1, <2>2, <2>6, <2>7
<1>5. Mappable(Sys, RamdevPage, RamdevFrame, RamdevPages)
    BY <1>1, <1>4 DEF Mappable, Own
<1>6. Mapping(Sys, RamdevPage, RamdevFrame, RamdevPages, new)
    BY <1>1, <1>2, <1>3, <1>5, PagingAssumption DEF Mapping
<1>7. /\ l1' \in [Root -> [L1Idx -> L1Entry]] /\ l2' \in [L2Id -> [L2Idx -> Nat]]
      /\ heap' \in SUBSET L2Id /\ tlb' = NoTlb
    BY <1>6, MapType
<1>8. Owners'
    BY <1>1, <1>6, MapOwners
<1>9. TypeOK'
    BY <1>1, <1>7, FlushedTlb DEF TypeOK
<1>10. Layout'
  <2>1. EntriesMapped(Sys, RamdevPage, RamdevFrame, RamdevPages, new)
    BY <1>6, MapEffect
  <2>2. \A i \in L1Idx \ T : l1'[Sys][i] = l1[Sys][i]
    BY <2>1 DEF EntriesMapped
  <2>3. \A i \in L1Idx : i < KernelIdx \/ i = FixIdx => i \notin T
    BY <1>4, PageIndex, PagingAssumption DEF L1Idx
  <2>4. InUse' = {} /\ Used' = {Sys}
    BY <1>1, <1>3 DEF InUse, Used
  <2>5. QED
    BY <1>1, <2>2, <2>3, <2>4, PageIndex DEF Layout
<1>11. Live' = {}
    BY <1>1, <1>3 DEF Live
<1>12. Frames' /\ Boot' /\ Copying'
  <2>1. Frames'
    BY <1>1, <1>3, FramesKept
  <2>2. Boot'
    BY <1>11 DEF Boot
  <2>3. Copying'
    BY <1>1 DEF Copying, NoDup
  <2>4. QED
    BY <2>1, <2>2, <2>3
<1>13. QED
    BY <1>7, <1>8, <1>9, <1>10, <1>12, FlushedTlb DEF PagingInv

\* What a new process finds and what the others keep.
LEMMA NewProcess ==
    ASSUME PagingInv, NEW c, NewTable(c), dup.to = Sys, current = Sys => c = 1,
           UNCHANGED <<current, pages, free, mem, tlb, halted>>
    PROVE  Layout' /\ Owners' /\ Frames' /\ TlbCoherent' /\ Live' = Live \cup {c}
<1>1. TypeOK /\ Layout /\ Owners /\ Frames /\ TlbCoherent /\ c \in Proc /\ root[c] = "none"
    BY DEF PagingInv, NewTable
<1>2. Fresh(c) /\ Owners'
    BY NewTableFresh, NewTableOwners
<1>3. /\ \A v \in UserPage : Walk(c, v)' = 0
      /\ \A s \in Used, v \in Page : Walk(s, v)' = Walk(s, v)
    BY NewTableWalk
<1>4. Live' = Live \cup {c} /\ c \notin Live
    BY <1>1 DEF NewTable, Live, TypeOK
<1>5. Layout'
  <2>1. l1'[Sys] = l1[Sys] /\ current \in Used' /\ InUse' = InUse \cup {c}
    BY <1>1, <1>2, Roots DEF Fresh, Layout
  <2>2. current' = Sys => InUse' \subseteq {1}
    BY <1>1, <2>1 DEF Layout
  <2>3. ASSUME NEW s \in InUse', NEW i \in L1Idx
        PROVE  /\ i < KernelIdx => l1'[s][i].type # "sect"
               /\ i >= KernelIdx /\ i # FixIdx => l1'[s][i] = l1'[Sys][i]
               /\ i = FixIdx => l1'[s][i] = None
    <3>1. CASE s = c
        BY <1>1, <1>2, <2>1, <3>1, EntryTypes, PageIndex DEF Fresh, Layout
    <3>2. CASE s # c
      <4>1. s \in InUse /\ s \in Used /\ l1'[s] = l1[s]
        BY <1>2, <2>1, <3>2, Roots, LiveUsed DEF Fresh
      <4>2. l1[s][FixIdx] = None
        BY <1>1, <4>1, NoFixmap
      <4>3. QED
        BY <1>1, <2>1, <4>1, <4>2 DEF Layout
    <3>3. QED
        BY <3>1, <3>2
  <2>4. QED
    BY <1>1, <2>1, <2>2, <2>3 DEF Layout
<1>6. TlbCoherent'
    BY <1>1, <1>3, TlbKept
<1>7. Frames'
  <2>1. \A s \in Live, v \in UserPage : Walk(s, v)' = Walk(s, v)
    BY <1>3, LiveUsed DEF Page
  <2>2. \A t \in Proc \ Live' : pages'[t] = {}
    BY <1>1, <1>4 DEF Frames
  <2>3. ASSUME NEW t \in Live', NEW v \in UserPage, Walk(t, v)' # 0
        PROVE  t \in Live /\ Walk(t, v)' = Walk(t, v)
    BY <1>3, <1>4, <2>1, <2>3
  <2>4. \A t \in Live' : \A v \in UserPage : Walk(t, v)' # 0 =>
             Walk(t, v)' \in pages'[t] \/ (t = 1 /\ Walk(t, v)' \in Image)
    BY <1>1, <2>3 DEF Frames
  <2>5. \A t \in Live' : \A v, w \in UserPage :
             Walk(t, v)' # 0 /\ Walk(t, v)' = Walk(t, w)' => v = w
    BY <1>1, <2>3 DEF Frames
  <2>6. QED
    BY <1>1, <2>2, <2>4, <2>5 DEF Frames
<1>8. QED
    BY <1>2, <1>4, <1>5, <1>6, <1>7

\* The boot creates the first process, without a page.
LEMMA CreatePaging ==
    ASSUME PagingInv, create_root_process
    PROVE  PagingInv'
<1>1. /\ TypeOK /\ Layout /\ Owners /\ dup = NoDup /\ dup.to = Sys
      /\ UNCHANGED <<l2, heap, current, pages, free, mem, tlb, dup, halted>>
    BY DEF PagingInv, create_root_process, Running, NoDup
<1>2. NewTable(1)
    BY <1>1, Roots DEF create_root_process, NewTable
<1>3. Fresh(1)
    BY <1>2, NewTableFresh
<1>4. Layout' /\ Owners' /\ Frames' /\ TlbCoherent' /\ Live' = Live \cup {1}
    BY <1>1, <1>2, NewProcess
<1>5. TypeOK'
    BY <1>1, <1>3 DEF TypeOK, Fresh
<1>6. Boot'
  <2>1. \A v \in UserPage : Walk(1, v)' = 0
    BY <1>2, NewTableWalk
  <2>2. QED
    BY <2>1 DEF Boot
<1>7. Copying'
    BY <1>1 DEF Copying, NoDup
<1>8. QED
    BY <1>4, <1>5, <1>6, <1>7 DEF PagingInv

\* do_fork: the child has no page yet.
LEMMA ForkPaging ==
    ASSUME PagingInv, NEW c \in Proc, do_fork(c)
    PROVE  PagingInv'
<1>1. /\ TypeOK /\ Layout /\ Owners /\ dup = NoDup /\ dup.to = Sys /\ current # Sys
      /\ root[current] = "live" /\ root[c] = "none"
      /\ UNCHANGED <<l2, heap, current, pages, free, mem, tlb, halted>>
      /\ dup' = [to |-> c, frame |-> 0]
    BY DEF PagingInv, do_fork, Running, NoDup
<1>2. NewTable(c)
    BY <1>1, Roots DEF do_fork, NewTable
<1>3. Fresh(c)
    BY <1>2, NewTableFresh
<1>4. Layout' /\ Owners' /\ Frames' /\ TlbCoherent' /\ Live' = Live \cup {c}
    BY <1>1, <1>2, NewProcess
<1>5. TypeOK'
    BY <1>1, <1>3, Roots DEF TypeOK, Fresh
<1>6. Boot'
    BY <1>1 DEF Boot
<1>7. Copying'
  <2>1. \A v \in UserPage : Walk(c, v)' = 0
    BY <1>2, NewTableWalk
  <2>2. \A v \in UserPage : Walk(dup.to, v)' = 0
    BY <1>1, <2>1 DEF Walk
  <2>3. current \in Live /\ current # c
    BY <1>1, Roots DEF Live, Layout, Used
  <2>4. QED
    BY <1>1, <1>4, <2>2, <2>3 DEF Copying
<1>8. QED
    BY <1>4, <1>5, <1>6, <1>7 DEF PagingInv

\* A small page in the user half of a process: the entry is fit for it.
LEMMA PageMappable ==
    ASSUME TypeOK, Layout, NEW t \in InUse, NEW v \in UserPage, NEW f
    PROVE  /\ Mappable(t, v, f, 1)
           /\ \A i \in Touched(v, 1) : i < KernelIdx /\ ~AsSection(i, v, f, 1)
           /\ v .. v + 1 - 1 = {v}
<1>1. v \in Page /\ v \in Nat /\ v \div L2Entries \in L1Idx /\ v \div L2Entries < KernelIdx
    BY PageIndex DEF Page
<1>2. Touched(v, 1) = {v \div L2Entries} /\ ~AsSection(v \div L2Entries, v, f, 1)
    BY <1>1, OnePage
<1>3. t \in Root
    BY Roots
<1>4. l1[t][v \div L2Entries] # None => l1[t][v \div L2Entries].type = "table"
    BY <1>1, <1>3, L1Type, EntryShape DEF Layout
<1>5. Mappable(t, v, f, 1)
    BY <1>1, <1>2, <1>4 DEF Mappable, Own
<1>6. v .. v + 1 - 1 = {v}
    BY <1>1
<1>7. QED
    BY <1>1, <1>2, <1>5, <1>6

\* The user space starts with a page: there is at least the stack.
LEMMA BasePage == UserBase \in UserPage
<1>1. UserBase \in Nat /\ KernelIdx * L2Entries \in Int /\ UserPage # {}
  <2>1. UserBase \in Nat /\ KernelIdx \in Nat /\ L2Entries \in Nat
    BY PagingAssumption
  <2>2. UserPage # {}
    BY PagingAssumption
  <2>3. QED
    BY <2>1, <2>2
<1>2. QED
    BY <1>1 DEF UserPage

\* allocate_page: a free frame at a page where there was none.
LEMMA AllocatePaging ==
    ASSUME PagingInv, NEW t \in Proc, NEW v \in UserPage, NEW f \in free,
           Running, SetUp(t), NextPage(t, v),
           NEW new \in Placements(NeedTable(l1[t], v, f, 1)),
           create_mapping(t, l1[t], v, f, 1, new),
           pages' = [pages EXCEPT ![t] = @ \cup {f}],
           free' = free \ {f},
           UNCHANGED <<root, current, mem, dup, halted>>
    PROVE  /\ PagingInv' /\ t \in Live /\ Walk(t, v)' = f
           /\ \A s \in Used, w \in UserPage : s # t \/ w # v => Walk(s, w)' = Walk(s, w)
<1>1. /\ TypeOK /\ Layout /\ Owners /\ Frames /\ Boot /\ dup = NoDup /\ dup.to = Sys
      /\ f \in Frame /\ f \in Nat /\ f # 0 /\ f \notin Image
    BY PagingAssumption DEF PagingInv, Running, NoDup, TypeOK
<1>2. t \in Live /\ t \in InUse /\ t \in Used /\ v \in Nat /\ v \in Page /\ 1 \in Nat
    BY LiveUsed, PageIndex DEF SetUp, Live, Page
<1>3. /\ Mappable(t, v, f, 1) /\ v .. v + 1 - 1 = {v}
      /\ \A i \in Touched(v, 1) : i < KernelIdx /\ ~AsSection(i, v, f, 1)
    BY <1>1, <1>2, PageMappable
<1>4. Mapping(t, v, f, 1, new)
    BY <1>1, <1>2, <1>3 DEF Mapping
<1>5. /\ l1' \in [Root -> [L1Idx -> L1Entry]] /\ l2' \in [L2Id -> [L2Idx -> Nat]]
      /\ heap' \in SUBSET L2Id /\ tlb' = NoTlb
    BY <1>4, MapType
<1>6. Owners' /\ Layout'
    BY <1>1, <1>2, <1>3, <1>4, MapOwners, MapUser
<1>7. /\ Walk(t, v)' = f
      /\ \A s \in Used, w \in Page : s # t \/ w # v => Walk(s, w)' = Walk(s, w)
  <2>1. \A w \in Page : ~AsSection(w \div L2Entries, v, f, 1)
    BY <1>2, PageIndex, OnePage
  <2>2. f + v - v = f
    BY <1>1, <1>2
  <2>3. Walk(t, v)' = f + v - v
    BY <1>2, <1>3, <1>4, <2>1, MapWalk
  <2>4. \A s \in Used, w \in Page : s # t \/ w \notin v .. v + 1 - 1 => Walk(s, w)' = Walk(s, w)
    BY <1>4, <2>1, MapWalk
  <2>5. QED
    BY <1>3, <2>2, <2>3, <2>4
<1>8. TypeOK'
  <2>1. pages' \in [Proc -> SUBSET Frame] /\ free' \in SUBSET Frame
    BY <1>1 DEF TypeOK
  <2>2. QED
    BY <1>1, <1>5, <2>1, FlushedTlb DEF TypeOK
<1>9. /\ Live' = Live /\ pages'[t] = pages[t] \cup {f}
      /\ \A s \in Proc \ {t} : pages'[s] = pages[s]
      /\ \A s \in Proc : f \notin pages[s]
    BY <1>1 DEF Live, TypeOK, Frames
<1>10. ASSUME NEW s \in Live, NEW w \in UserPage, s # t \/ w # v
       PROVE  Walk(s, w)' = Walk(s, w) /\ Walk(s, w) # f
  <2>1. Walk(s, w)' = Walk(s, w)
    BY <1>7, <1>10, LiveUsed DEF Page
  <2>2. Walk(s, w) = 0 \/ Walk(s, w) \in pages[s] \/ Walk(s, w) \in Image
    BY <1>1 DEF Frames
  <2>3. Walk(s, w) # f
    BY <1>1, <1>9, <2>2, LiveUsed
  <2>4. QED
    BY <2>1, <2>3
<1>11. Frames'
  <2>1. \A s \in Proc \ Live' : pages'[s] = {}
    BY <1>1, <1>2, <1>9 DEF Frames
  <2>2. \A s \in Proc : pages'[s] \cap free' = {}
    BY <1>1, <1>9 DEF Frames
  <2>3. \A r, s \in Proc : r # s => pages'[r] \cap pages'[s] = {}
    BY <1>1, <1>9 DEF Frames
  <2>4. ASSUME NEW s \in Live, NEW w \in UserPage, Walk(s, w)' # 0
        PROVE  Walk(s, w)' \in pages'[s] \/ (s = 1 /\ Walk(s, w)' \in Image)
    <3>1. CASE s = t /\ w = v
        BY <1>7, <1>9, <3>1
    <3>2. CASE s # t \/ w # v
      <4>1. Walk(s, w)' = Walk(s, w) /\ s \in Proc
        BY <1>10, <3>2, LiveUsed
      <4>2. QED
        BY <1>1, <1>9, <2>4, <4>1 DEF Frames
    <3>3. QED
        BY <3>1, <3>2
  <2>5. ASSUME NEW s \in Live, NEW u \in UserPage, NEW w \in UserPage,
               Walk(s, u)' # 0, Walk(s, u)' = Walk(s, w)'
        PROVE  u = w
    <3>1. CASE s = t /\ (u = v \/ w = v)
        BY <1>7, <1>10, <2>5, <3>1
    <3>2. CASE s # t \/ (u # v /\ w # v)
      <4>1. Walk(s, u)' = Walk(s, u) /\ Walk(s, w)' = Walk(s, w)
        BY <1>10, <3>2
      <4>2. QED
        BY <1>1, <2>5, <4>1 DEF Frames
    <3>3. QED
        BY <3>1, <3>2
  <2>6. QED
    BY <1>9, <2>1, <2>2, <2>3, <2>4, <2>5 DEF Frames
<1>12. Boot'
  <2>1. SUFFICES ASSUME current = Sys, 1 \in Live, Walk(1, UserBase)' = 0
                 PROVE  \A w \in UserPage : Walk(1, w)' # 0 => w \in Stack /\ Walk(1, w)' \in pages'[1]
    BY <1>9 DEF Boot
  <2>2. t = 1 /\ v \in Stack
    BY <2>1, Roots DEF SetUp, NextPage
  <2>3. Walk(1, UserBase) = 0
    <3>1. CASE UserBase = v
        BY <1>1, <1>7, <2>1, <2>2, <3>1
    <3>2. CASE UserBase # v
        BY <1>10, <2>1, <2>2, <3>2, BasePage
    <3>3. QED
        BY <3>1, <3>2
  <2>4. QED
    BY <1>1, <1>7, <1>9, <1>10, <2>1, <2>2, <2>3 DEF Boot
<1>13. Copying'
    BY <1>1 DEF Copying, NoDup
<1>14. QED
    BY <1>2, <1>5, <1>6, <1>7, <1>8, <1>11, <1>12, <1>13, FlushedTlb DEF PagingInv, Page

\* The pages of the code of the first process.
ImageRange == UserBase .. UserBase + ImagePages - 1

\* MapImage: the code of the first process, from the image of the kernel.
LEMMA ImagePaging ==
    ASSUME PagingInv, MapImage
    PROVE  /\ PagingInv' /\ 1 \in Live /\ ImageRange \subseteq UserPage
           /\ \A w \in ImageRange : Walk(1, w)' \in Image /\ Walk(1, w) = 0
           /\ \A s \in Used, w \in UserPage :
                  s # 1 \/ w \notin ImageRange => Walk(s, w)' = Walk(s, w)
<1>1. /\ TypeOK /\ Layout /\ Owners /\ Frames /\ Boot /\ dup = NoDup /\ dup.to = Sys
      /\ current = Sys /\ root[1] = "live" /\ Walk(1, UserBase) = 0
      /\ UNCHANGED <<root, current, pages, free, mem, dup, halted>>
    BY DEF PagingInv, MapImage, Running, NoDup
<1>2. PICK new \in Placements(NeedTable(l1[1], UserBase, ImageFrame, ImagePages)) :
          create_mapping(1, l1[1], UserBase, ImageFrame, ImagePages, new)
    BY DEF MapImage
<1>3. 1 \in Live /\ 1 \in InUse /\ 1 \in Used /\ 1 \in Root
    BY <1>1, LiveUsed, Roots DEF Live
<1>4. /\ UserBase \in Nat /\ ImageFrame \in Nat /\ ImagePages \in Nat /\ KernelIdx \in Nat
      /\ L2Entries \in Nat /\ ImageRange \in SUBSET (UserPage \ Stack)
      /\ Image \in SUBSET (Nat \ {0}) /\ Frame \cap Image = {}
    BY PagingAssumption DEF ImageRange
<1>5. ASSUME NEW i \in Touched(UserBase, ImagePages)
      PROVE  i \in L1Idx /\ i < KernelIdx /\ ~AsSection(i, UserBase, ImageFrame, ImagePages)
  <2>1. i \in L1Idx /\ i \in Nat /\ 0 < ImagePages /\ i * L2Entries < UserBase + ImagePages
    BY <1>4, TouchedBounds
  <2>2. KernelIdx * L2Entries \in Int /\ i * L2Entries \in Int
    BY <1>4, <2>1
  <2>3. UserBase + ImagePages - 1 \in ImageRange
    BY <1>4, <2>1 DEF ImageRange
  <2>4. UserBase + ImagePages - 1 < KernelIdx * L2Entries
    BY <1>4, <2>2, <2>3 DEF UserPage
  <2>5. i * L2Entries < KernelIdx * L2Entries
    BY <1>4, <2>1, <2>2, <2>4
  <2>6. i < KernelIdx
    BY <1>4, <2>1, <2>5, MulLess
  <2>7. ~WholeSection(i, UserBase, ImagePages)
    BY <2>1, ImageAssumption DEF WholeSection
  <2>8. QED
    BY <2>1, <2>6, <2>7 DEF AsSection
<1>6. Mappable(1, UserBase, ImageFrame, ImagePages)
  <2>1. ASSUME NEW i \in Touched(UserBase, ImagePages), l1[1][i] # None
        PROVE  l1[1][i].type = "table"
    BY <1>1, <1>3, <1>5, <2>1, L1Type, EntryShape DEF Layout
  <2>2. QED
    BY <1>5, <2>1 DEF Mappable, Own
<1>7. Mapping(1, UserBase, ImageFrame, ImagePages, new)
    BY <1>1, <1>2, <1>3, <1>4, <1>6 DEF Mapping
<1>8. /\ l1' \in [Root -> [L1Idx -> L1Entry]] /\ l2' \in [L2Id -> [L2Idx -> Nat]]
      /\ heap' \in SUBSET L2Id /\ tlb' = NoTlb
    BY <1>7, MapType
<1>9. Owners' /\ Layout'
    BY <1>1, <1>3, <1>5, <1>7, MapOwners, MapUser
<1>10. TypeOK'
    BY <1>1, <1>8, FlushedTlb DEF TypeOK
<1>11. ASSUME NEW w \in UserPage
       PROVE  /\ w \in ImageRange => Walk(1, w)' = ImageFrame + w - UserBase
              /\ \A s \in Used : s # 1 \/ w \notin ImageRange => Walk(s, w)' = Walk(s, w)
  <2>1. w \in Page /\ w \div L2Entries \in L1Idx /\ w \div L2Entries \in Int
    BY PageIndex, PagingAssumption DEF Page, L1Idx
  <2>2. ~AsSection(w \div L2Entries, UserBase, ImageFrame, ImagePages)
    BY <2>1, ImageAssumption DEF AsSection, WholeSection
  <2>3. QED
    BY <1>7, <2>1, <2>2, MapWalk DEF ImageRange
<1>12. Live' = Live
    BY <1>1 DEF Live
<1>13. ASSUME NEW w \in ImageRange
       PROVE  /\ Walk(1, w)' \in Image /\ Walk(1, w)' = ImageFrame + w - UserBase
              /\ Walk(1, w) = 0 /\ w \in UserPage /\ w \in Int
  <2>1. w \in UserPage \ Stack
    BY <1>4
  <2>2. Walk(1, w)' = ImageFrame + w - UserBase
    BY <1>11, <2>1
  <2>3. w \in Int /\ ImageFrame + w - UserBase \in Image
    BY <1>4 DEF ImageRange, Image
  <2>4. Walk(1, w) = 0
    BY <1>1, <1>3, <2>1 DEF Boot
  <2>5. QED
    BY <2>1, <2>2, <2>3, <2>4
<1>14. Frames'
  <2>1. ASSUME NEW s \in Live, NEW w \in UserPage, Walk(s, w)' # 0
        PROVE  Walk(s, w)' \in pages[s] \/ (s = 1 /\ Walk(s, w)' \in Image)
    <3>1. CASE s = 1 /\ w \in ImageRange
        BY <1>13, <3>1
    <3>2. CASE s # 1 \/ w \notin ImageRange
      <4>1. Walk(s, w)' = Walk(s, w)
        BY <1>11, <3>2, LiveUsed
      <4>2. QED
        BY <1>1, <2>1, <4>1 DEF Frames
    <3>3. QED
        BY <3>1, <3>2
  <2>2. ASSUME NEW w \in UserPage \ ImageRange, Walk(1, w)' # 0
        PROVE  Walk(1, w)' \notin Image /\ Walk(1, w)' = Walk(1, w)
    <3>1. Walk(1, w)' = Walk(1, w)
        BY <1>3, <1>11
    <3>2. Walk(1, w) \in pages[1]
        BY <1>1, <1>3, <2>2, <3>1 DEF Boot
    <3>3. pages[1] \subseteq Frame
        BY <1>1, Roots DEF TypeOK
    <3>4. QED
        BY <1>4, <3>1, <3>2, <3>3
  <2>3. ASSUME NEW s \in Live, NEW u \in UserPage, NEW w \in UserPage,
               Walk(s, u)' # 0, Walk(s, u)' = Walk(s, w)'
        PROVE  u = w
    <3>1. CASE s # 1
      <4>1. Walk(s, u)' = Walk(s, u) /\ Walk(s, w)' = Walk(s, w)
        BY <1>11, <3>1, LiveUsed
      <4>2. QED
        BY <1>1, <2>3, <4>1 DEF Frames
    <3>2. CASE s = 1 /\ u \in ImageRange /\ w \in ImageRange
      <4>1. ImageFrame + u - UserBase = ImageFrame + w - UserBase /\ u \in Int /\ w \in Int
        BY <1>13, <2>3, <3>2
      <4>2. QED
        BY <1>4, <4>1
    <3>3. CASE s = 1 /\ u \notin ImageRange /\ w \notin ImageRange
      <4>1. Walk(s, u)' = Walk(s, u) /\ Walk(s, w)' = Walk(s, w)
        BY <2>2, <2>3, <3>3
      <4>2. QED
        BY <1>1, <2>3, <4>1 DEF Frames
    <3>4. CASE s = 1 /\ (u \in ImageRange <=> w \notin ImageRange)
        BY <1>13, <2>2, <2>3, <3>4
    <3>5. QED
        BY <3>1, <3>2, <3>3, <3>4
  <2>4. QED
    BY <1>1, <1>12, <2>1, <2>3 DEF Frames
<1>15. Boot'
  <2>1. CASE UserBase \in ImageRange
    <3>1. Walk(1, UserBase)' # 0
        BY <1>4, <1>13, <2>1
    <3>2. QED
        BY <3>1 DEF Boot
  <2>2. CASE UserBase \notin ImageRange
    <3>1. ImageRange = {}
        BY <1>4, <2>2 DEF ImageRange
    <3>2. \A w \in UserPage : Walk(1, w)' = Walk(1, w)
        BY <1>3, <1>11, <3>1
    <3>3. QED
        BY <1>1, <1>12, <3>2, BasePage DEF Boot
  <2>3. QED
    BY <2>1, <2>2
<1>16. Copying'
    BY <1>1 DEF Copying, NoDup
<1>17. QED
    BY <1>3, <1>4, <1>8, <1>9, <1>10, <1>11, <1>13, <1>14, <1>15, <1>16, FlushedTlb DEF PagingInv

\* The copy under way is kept where no page changes.
LEMMA CopyingKept ==
    ASSUME Layout, Copying, UNCHANGED <<current, dup, root, pages, mem>>,
           \A s \in Used, v \in Page : Walk(s, v)' = Walk(s, v)
    PROVE  Copying'
<1>1. PICK c \in Used : c = current /\ c = current'
    BY DEF Layout
<1>2. PICK d : d = dup.to /\ d = dup'.to
    OBVIOUS
<1>3. \A v : Walk(current, v)' = Walk(c, v)' /\ Walk(dup.to, v)' = Walk(d, v)'
    BY <1>1, <1>2 DEF Walk
<1>4. Live' = Live
    BY DEF Live
<1>5. CASE d = Sys
    BY <1>2, <1>5 DEF Copying
<1>6. CASE d # Sys
  <2>1. d \in Used
    BY <1>2, <1>6, LiveUsed DEF Copying
  <2>2. \A v \in Page : Walk(current, v)' = Walk(c, v) /\ Walk(dup.to, v)' = Walk(d, v)
    BY <1>3, <2>1
  <2>3. UserPage \subseteq Page /\ Fixmap \in Page
    BY DEF Page
  <2>4. \A v \in UserPage : Walk(d, v) # 0 =>
            Walk(c, v) # 0 /\ mem[Walk(d, v)] = mem[Walk(c, v)]
    BY <1>1, <1>2, <1>6 DEF Copying
  <2>5. dup.frame # 0 =>
            /\ dup.frame \in pages[d] /\ Walk(c, Fixmap) = dup.frame
            /\ \A v \in UserPage : Walk(d, v) # dup.frame
    BY <1>1, <1>2 DEF Copying
  <2>6. current \in Live /\ d \in Live \ {current}
    BY <1>2, <1>6 DEF Copying
  <2>7. QED
    BY <1>1, <1>2, <1>4, <1>6, <2>2, <2>3, <2>4, <2>5, <2>6 DEF Copying
<1>7. QED
    BY <1>5, <1>6

\* The two processes of a copy under way.
LEMMA CopyParties ==
    ASSUME PagingInv, dup.to # Sys
    PROVE  /\ current \in Live /\ current \in InUse /\ current \in Used /\ current # Sys
           /\ dup.to \in Live /\ dup.to \in InUse /\ dup.to \in Used /\ dup.to # current
BY LiveUsed, Roots DEF PagingInv, Copying

\* DupTable: the child has a new L2 table, without a page.
LEMMA DupTablePaging ==
    ASSUME PagingInv, NEW i \in L1Idx, ~halted, dup.to # Sys, FirstTable(i), NEW id \in L2Id \ heap,
           l1[current][i].type = "table", heap' = heap \cup {id},
           l1' = [l1 EXCEPT ![dup.to][i] = Table(id)],
           l2' = [l2 EXCEPT ![id] = [j \in L2Idx |-> 0]],
           UNCHANGED <<root, current, pages, free, mem, tlb, dup, halted>>
    PROVE  PagingInv' /\ \A s \in Used, w \in Page : Walk(s, w)' = Walk(s, w)
<1>1. TypeOK /\ Layout /\ Owners /\ Frames /\ Boot /\ Copying /\ TlbCoherent
    BY DEF PagingInv
<1>2. PICK d \in InUse : d = dup.to /\ d \in Used /\ d # Sys
    BY CopyParties
<1>3. i < KernelIdx /\ l1[d][i] = None
    BY <1>2 DEF FirstTable, TablesLeft
<1>4. TableAdded(d, i, id)
    BY <1>1, <1>2, <1>3 DEF TableAdded
<1>5. /\ \A s \in Used, w \in Page : Walk(s, w)' = Walk(s, w)
      /\ \A a \in heap : l2'[a] = l2[a]
    BY <1>4, AddedWalk
<1>6. /\ l1' \in [Root -> [L1Idx -> L1Entry]] /\ l2' \in [L2Id -> [L2Idx -> Nat]]
      /\ \A s \in Root, k \in L1Idx : s # d \/ k # i => l1'[s][k] = l1[s][k]
      /\ l1'[d][i] = Table(id)
    BY <1>4, AddedEntries
<1>7. Owners'
    BY <1>4, AddedOwners
<1>8. TypeOK'
    BY <1>1, <1>6 DEF TypeOK
<1>9. Layout'
  <2>1. InUse' = InUse /\ Used' = Used /\ Sys \in Root /\ InUse \subseteq Root
    BY Roots DEF InUse, Used
  <2>2. \A k \in L1Idx : l1'[Sys][k] = l1[Sys][k]
    BY <1>2, <1>6, <2>1
  <2>3. ASSUME NEW s \in InUse, NEW k \in L1Idx
        PROVE  /\ k < KernelIdx => l1'[s][k].type # "sect"
               /\ k >= KernelIdx => l1'[s][k] = l1[s][k]
    <3>1. CASE s = d /\ k = i
        BY <1>3, <1>6, <3>1, EntryTypes, PagingAssumption DEF L1Idx
    <3>2. CASE s # d \/ k # i
        BY <1>1, <1>6, <2>1, <3>2 DEF Layout
    <3>3. QED
        BY <3>1, <3>2
  <2>4. ASSUME NEW s \in InUse, l1'[s][FixIdx] # None
        PROVE  s = current /\ FixmapOnly(l1[s][FixIdx])' /\ l1'[s][FixIdx] = l1[s][FixIdx]
    <3>1. l1'[s][FixIdx] = l1[s][FixIdx]
        BY <2>3, PageIndex
    <3>2. s = current /\ FixmapOnly(l1[s][FixIdx])
        BY <1>1, <2>4, <3>1, PageIndex DEF Layout
    <3>3. l1[s][FixIdx].at \in heap
        BY <1>1, <3>2, PageIndex, TableInHeap, Roots DEF FixmapOnly, Used
    <3>4. QED
        BY <1>5, <3>1, <3>2, <3>3 DEF FixmapOnly
  <2>5. ASSUME NEW s \in InUse', NEW k \in L1Idx
        PROVE  /\ k < KernelIdx => l1'[s][k].type # "sect"
               /\ k >= KernelIdx /\ k # FixIdx => l1'[s][k] = l1'[Sys][k]
               /\ k = FixIdx /\ l1'[s][k] # None =>
                      s = current' /\ dup'.to # Sys /\ FixmapOnly(l1[s][k])'
    BY <1>1, <2>1, <2>2, <2>3, <2>4 DEF Layout
  <2>6. QED
    BY <1>1, <2>1, <2>2, <2>5, PageIndex DEF Layout
<1>10. \A s \in Live, v \in UserPage : Walk(s, v)' = Walk(s, v)
    BY <1>5, LiveUsed DEF Page
<1>11. Frames' /\ TlbCoherent' /\ Copying'
    BY <1>1, <1>5, <1>10, FramesKept, TlbKept, CopyingKept
<1>12. Boot'
  <2>1. current' # Sys
    BY CopyParties
  <2>2. QED
    BY <2>1 DEF Boot
<1>13. QED
    BY <1>5, <1>7, <1>8, <1>9, <1>11, <1>12 DEF PagingInv

\* Fixmap is no page of the user space.
LEMMA FixmapApart ==
    /\ Fixmap \in Page /\ Fixmap \notin UserPage /\ UserPage \subseteq Page
    /\ Fixmap \in Nat /\ Fixmap \div L2Entries = FixIdx
<1>1. ASSUME Fixmap \in UserPage PROVE FALSE
  <2>1. FixIdx < KernelIdx /\ KernelIdx <= FixIdx /\ FixIdx \in Int /\ KernelIdx \in Int
    BY <1>1, PageIndex, PagingAssumption DEF FixIdx, L1Idx
  <2>2. QED
    BY <2>1
<1>2. QED
    BY <1>1, PagingAssumption DEF Page, FixIdx

\* A frame in use has one owner.
LEMMA WalkOwned ==
    ASSUME PagingInv, NEW t \in Live, NEW v \in UserPage, Walk(t, v) # 0
    PROVE  /\ Walk(t, v) \in Phys /\ Walk(t, v) \notin free
           /\ \A s \in Proc \ {t} : Walk(t, v) \notin pages[s]
<1>1. TypeOK /\ Frames /\ t \in Proc
    BY LiveUsed DEF PagingInv
<1>2. Walk(t, v) \in pages[t] \/ Walk(t, v) \in Image
    BY <1>1 DEF Frames
<1>3. \A s \in Proc : pages[s] \in SUBSET Frame /\ free \in SUBSET Frame
    BY <1>1 DEF TypeOK
<1>4. CASE Walk(t, v) \in Image
    BY <1>1, <1>3, <1>4, PagingAssumption DEF Phys
<1>5. CASE Walk(t, v) \in pages[t]
    BY <1>1, <1>3, <1>5 DEF Phys, Frames
<1>6. QED
    BY <1>2, <1>4, <1>5

\* DupFrame: a frame for the child, in sight at Fixmap; no page changes.
LEMMA DupFramePaging ==
    ASSUME PagingInv, ~halted, dup.to # Sys, dup.frame = 0, NEW f \in free,
           NEW new \in Placements(NeedTable(l1[current], Fixmap, f, 1)),
           create_mapping(current, l1[current], Fixmap, f, 1, new),
           pages' = [pages EXCEPT ![dup.to] = @ \cup {f}],
           free' = free \ {f},
           dup' = [dup EXCEPT !.frame = f],
           UNCHANGED <<root, current, mem, halted>>
    PROVE  PagingInv' /\ \A s \in Used, w \in UserPage : Walk(s, w)' = Walk(s, w)
<1>1. /\ TypeOK /\ Layout /\ Owners /\ Frames /\ Boot /\ Copying
      /\ f \in Frame /\ f \in Nat /\ f # 0 /\ 1 \in Nat
    BY PagingAssumption DEF PagingInv, TypeOK
<1>2. PICK c \in InUse : c = current /\ c = current' /\ c \in Live /\ c \in Used /\ c # Sys
    BY CopyParties
<1>3. PICK d \in InUse :
          d = dup.to /\ d = dup'.to /\ d \in Live /\ d \in Used /\ d # Sys /\ d # c /\ d \in Proc
  <2>1. dup'.to = dup.to
    BY <1>1 DEF TypeOK
  <2>2. QED
    BY <1>2, <2>1, CopyParties, LiveUsed
<1>4. /\ Touched(Fixmap, 1) = {FixIdx}
      /\ \A i \in L1Idx : ~AsSection(i, Fixmap, f, 1)
      /\ Fixmap .. Fixmap + 1 - 1 = {Fixmap} /\ FixIdx \in L1Idx
    BY OnePage, FixmapApart, PageIndex
<1>5. l1[c][FixIdx] # None => FixmapOnly(l1[c][FixIdx])
    BY <1>1, <1>4 DEF Layout
<1>6. Mappable(c, Fixmap, f, 1)
    BY <1>4, <1>5 DEF Mappable, Own, FixmapOnly
<1>7. Mapping(c, Fixmap, f, 1, new)
    BY <1>1, <1>2, <1>6, FixmapApart DEF Mapping
<1>8. /\ l1' \in [Root -> [L1Idx -> L1Entry]] /\ l2' \in [L2Id -> [L2Idx -> Nat]]
      /\ heap' \in SUBSET L2Id /\ tlb' = NoTlb
    BY <1>7, MapType
<1>9. Owners'
    BY <1>7, MapOwners
<1>10. /\ Walk(c, Fixmap)' = f
       /\ \A s \in Used, w \in UserPage : Walk(s, w)' = Walk(s, w)
  <2>1. f + Fixmap - Fixmap = f
    BY <1>1, FixmapApart
  <2>2. Walk(c, Fixmap)' = f + Fixmap - Fixmap
    BY <1>4, <1>7, FixmapApart, PageIndex, MapWalk
  <2>3. \A w \in UserPage : w \in Page /\ w \notin Fixmap .. Fixmap + 1 - 1
    BY <1>4, FixmapApart
  <2>4. \A w \in UserPage : ~AsSection(w \div L2Entries, Fixmap, f, 1)
    BY <1>4, FixmapApart, PageIndex
  <2>5. QED
    BY <1>7, <2>1, <2>2, <2>3, <2>4, MapWalk
<1>11. TypeOK'
  <2>1. pages' \in [Proc -> SUBSET Frame] /\ free' \in SUBSET Frame
    BY <1>1 DEF TypeOK
  <2>2. dup' \in [to : Root, frame : {0} \cup Frame]
    BY <1>1 DEF TypeOK
  <2>3. QED
    BY <1>1, <1>8, <2>1, <2>2, FlushedTlb DEF TypeOK
<1>12. Layout'
  <2>1. EntriesMapped(c, Fixmap, f, 1, new) /\ TablesFilled(c, Fixmap, f, 1, new)
    BY <1>7, MapEffect, MapFill
  <2>2. TablesApart(c, Fixmap, f, 1, new) /\ Paged(Fixmap, f, 1) = {FixIdx}
    BY <1>4, <1>7, MapTables DEF Paged
  <2>3. /\ \A s \in Root \ {c} : l1'[s] = l1[s]
        /\ \A i \in L1Idx \ {FixIdx} : l1'[c][i] = l1[c][i]
        /\ l1'[c][FixIdx] = Table(TableOf(c, FixIdx, new))
    BY <1>4, <2>1, <2>2 DEF EntriesMapped
  <2>4. ASSUME NEW j \in L2Idx, j # Fixmap % L2Entries
        PROVE  l2'[TableOf(c, FixIdx, new)][j] = 0
    <3>1. FixIdx * L2Entries + j # Fixmap
      <4>1. Fixmap = FixIdx * L2Entries + (Fixmap % L2Entries) /\ Fixmap % L2Entries \in L2Idx
        BY FixmapApart, DivMod
      <4>2. PICK m \in Int, r \in Int : m = FixIdx * L2Entries /\ r = Fixmap % L2Entries
        BY <1>4, <4>1, PagingAssumption DEF L1Idx, L2Idx
      <4>3. j \in Int
        BY DEF L2Idx
      <4>4. m + j # m + r
        BY <2>4, <4>2, <4>3
      <4>5. QED
        BY <4>1, <4>2, <4>4
    <3>2. l2'[TableOf(c, FixIdx, new)][j] =
              IF FixIdx \in DOMAIN new THEN 0 ELSE l2[TableOf(c, FixIdx, new)][j]
        BY <1>4, <2>1, <2>2, <3>1 DEF TablesFilled
    <3>3. CASE FixIdx \notin DOMAIN new
      <4>1. l1[c][FixIdx].type = "table" /\ TableOf(c, FixIdx, new) = l1[c][FixIdx].at
        BY <2>2, <3>3 DEF TablesApart, TableOf
      <4>2. l2[l1[c][FixIdx].at][j] = 0
        BY <1>5, <2>4, <4>1, EntryTypes DEF FixmapOnly
      <4>3. QED
        BY <3>2, <3>3, <4>1, <4>2
    <3>4. QED
        BY <3>2, <3>3
  <2>5. FixmapOnly(l1[c][FixIdx])'
    BY <2>3, <2>4 DEF FixmapOnly, Table
  <2>6. InUse' = InUse /\ Used' = Used /\ Sys \in Root /\ InUse \subseteq Root
    BY Roots DEF InUse, Used
  <2>7. l1'[Sys] = l1[Sys]
    BY <1>2, <2>3, <2>6
  <2>8. ASSUME NEW s \in InUse, NEW i \in L1Idx
        PROVE  /\ i < KernelIdx => l1'[s][i].type # "sect"
               /\ i >= KernelIdx /\ i # FixIdx => l1'[s][i] = l1'[Sys][i]
               /\ i = FixIdx /\ l1'[s][i] # None => s = c /\ FixmapOnly(l1[s][i])'
    <3>1. CASE s = c /\ i = FixIdx
        BY <2>3, <2>5, <3>1, PageIndex, PagingAssumption, EntryTypes DEF L1Idx
    <3>2. CASE s = c /\ i # FixIdx
        BY <1>1, <2>3, <2>7, <3>2 DEF Layout
    <3>3. CASE s # c
        BY <1>1, <1>2, <2>3, <2>6, <2>7, <3>3 DEF Layout
    <3>4. QED
        BY <3>1, <3>2, <3>3
  <2>9. QED
    BY <1>1, <1>2, <1>3, <2>6, <2>7, <2>8 DEF Layout
<1>13. Live' = Live
    BY DEF Live
<1>14. /\ pages'[d] = pages[d] \cup {f} /\ \A s \in Proc \ {d} : pages'[s] = pages[s]
       /\ \A s \in Proc : f \notin pages[s]
    BY <1>1, <1>3 DEF TypeOK, Frames
<1>15. Frames'
  <2>1. /\ \A s \in Proc \ Live' : pages'[s] = {}
        /\ \A s \in Proc : pages'[s] \cap free' = {}
    BY <1>1, <1>3, <1>13, <1>14 DEF Frames
  <2>2. \A r, s \in Proc : r # s => pages'[r] \cap pages'[s] = {}
    BY <1>1, <1>14 DEF Frames
  <2>3. \A s \in Live, v \in UserPage : Walk(s, v)' = Walk(s, v)
    BY <1>10, LiveUsed
  <2>4. \A s \in Proc : pages[s] \subseteq pages'[s]
    BY <1>14
  <2>5. \A s \in Live : \A v \in UserPage : Walk(s, v)' # 0 =>
             Walk(s, v)' \in pages'[s] \/ (s = 1 /\ Walk(s, v)' \in Image)
    BY <1>1, <2>3, <2>4, LiveUsed DEF Frames
  <2>6. \A s \in Live : \A v, w \in UserPage :
             Walk(s, v)' # 0 /\ Walk(s, v)' = Walk(s, w)' => v = w
    BY <1>1, <2>3 DEF Frames
  <2>7. QED
    BY <1>13, <2>1, <2>2, <2>5, <2>6 DEF Frames
<1>16. Copying'
  <2>1. \A v : Walk(current, v)' = Walk(c, v)' /\ Walk(dup.to, v)' = Walk(d, v)'
    BY <1>2, <1>3 DEF Walk
  <2>2. \A v \in UserPage : Walk(current, v)' = Walk(c, v) /\ Walk(dup.to, v)' = Walk(d, v)
    BY <1>2, <1>3, <1>10, <2>1
  <2>3. \A v \in UserPage : Walk(d, v) # 0 =>
            Walk(c, v) # 0 /\ mem[Walk(d, v)] = mem[Walk(c, v)]
    BY <1>1, <1>2, <1>3 DEF Copying
  <2>4. \A v \in UserPage : Walk(d, v) # f
    BY <1>1, <1>3, WalkOwned
  <2>5. dup'.frame = f
    BY <1>1 DEF TypeOK
  <2>6. QED
    BY <1>1, <1>2, <1>3, <1>10, <1>13, <1>14, <2>1, <2>2, <2>3, <2>4, <2>5 DEF Copying
<1>17. Boot'
    BY <1>2 DEF Boot
<1>18. QED
    BY <1>8, <1>9, <1>10, <1>11, <1>12, <1>15, <1>16, <1>17, FlushedTlb DEF PagingInv

\* An access reaches the frame the table of the current process has.
LEMMA AccessWalk ==
    ASSUME TypeOK, TlbCoherent, NEW v \in Page
    PROVE  Access(v) = Walk(current, v)
BY DEF TypeOK, TlbCoherent, Access, Page

\* A store through the processor, which keeps the translation it used.
LEMMA TlbFilled ==
    ASSUME TypeOK, Layout, TlbCoherent, UNCHANGED current,
           DOMAIN tlb' = Page,
           \A w \in Page : tlb'[w] = tlb[w] \/ tlb'[w] = Walk(current, w),
           \A w \in Page, s \in Used : s = current => Walk(s, w)' = Walk(s, w)
    PROVE  TlbCoherent'
<1>1. PICK c \in Used : c = current /\ c = current'
    BY DEF Layout
<1>2. \A w : Walk(current, w)' = Walk(c, w)'
    BY <1>1 DEF Walk
<1>3. ASSUME NEW w \in Page, tlb'[w] # 0 PROVE tlb'[w] = Walk(c, w)
    BY <1>1, <1>3 DEF TlbCoherent, TypeOK, Page
<1>4. QED
    BY <1>1, <1>2, <1>3 DEF TlbCoherent

\* DupCopy: the frame in hand is filled and the child has it at page v.
LEMMA DupCopyPaging ==
    ASSUME PagingInv, NEW v \in UserPage, DupCopy(v)
    PROVE  /\ PagingInv' /\ dup.to # Sys /\ mem' \in [Phys -> Val]
           /\ \A s \in Used \ {dup.to}, w \in UserPage : Walk(s, w)' = Walk(s, w)
           /\ \A s \in Live \ {dup.to}, w \in UserPage :
                  Walk(s, w) # 0 => mem'[Walk(s, w)] = mem[Walk(s, w)]
<1>1. /\ TypeOK /\ Layout /\ Owners /\ Frames /\ Boot /\ Copying /\ TlbCoherent
      /\ dup.frame # 0 /\ FirstPage(v)
      /\ UNCHANGED <<l1, heap, root, current, pages, free, halted>>
    BY DEF PagingInv, DupCopy
<1>2. dup.to # Sys
    BY <1>1 DEF Copying
<1>3. PICK c \in InUse : c = current /\ c = current' /\ c \in Live /\ c \in Used /\ c # Sys
    BY <1>1, <1>2, CopyParties
<1>4. PICK d \in InUse : d = dup.to /\ d \in Live /\ d \in Used /\ d # Sys /\ d # c /\ d \in Proc
    BY <1>2, <1>3, CopyParties, LiveUsed
<1>5. PICK fr \in Frame : fr = dup.frame /\ fr \in Nat /\ fr # 0 /\ fr \in Phys /\ fr \in pages[d]
    BY <1>1, <1>4, PagingAssumption DEF TypeOK, Copying, Phys
<1>6. v \in Page /\ v # Fixmap /\ Fixmap \in Page /\ v \div L2Entries \in L1Idx /\ v \div L2Entries < KernelIdx
    BY FixmapApart, PageIndex
<1>7. Access(Fixmap) = fr /\ Access(v) = Walk(c, v)
    BY <1>1, <1>3, <1>5, <1>6, AccessWalk DEF Copying
<1>8. Walk(c, v) # 0 /\ Walk(d, v) = 0 /\ v \div L2Entries \notin TablesLeft
    BY <1>1, <1>3, <1>4 DEF FirstPage, PagesLeft
<1>9. l1[d][v \div L2Entries].type = "table"
  <2>1. l1[c][v \div L2Entries] # None
    BY <1>8, WalkValue, EntryTypes
  <2>2. l1[d][v \div L2Entries] # None
    BY <1>3, <1>4, <1>6, <1>8, <2>1 DEF TablesLeft
  <2>3. l1[d][v \div L2Entries].type # "sect" /\ d \in Root
    BY <1>1, <1>6, Roots DEF Layout
  <2>4. QED
    BY <1>1, <1>6, <2>2, <2>3, L1Type, EntryShape
<1>10. /\ l2' = [l2 EXCEPT ![l1[d][v \div L2Entries].at][v % L2Entries] = fr]
       /\ mem' = [mem EXCEPT ![fr] = mem[Walk(c, v)]]
       /\ tlb' = [tlb EXCEPT ![Fixmap] = fr, ![v] = Walk(c, v)]
       /\ dup' = [dup EXCEPT !.frame = 0]
    BY <1>4, <1>5, <1>7 DEF DupCopy
<1>11. EntrySet(d, v, fr)
    BY <1>1, <1>5, <1>9, <1>10 DEF EntrySet
<1>12. /\ l2' \in [L2Id -> [L2Idx -> Nat]]
       /\ Walk(d, v)' = fr
       /\ \A s \in Used, w \in Page : s # d \/ w # v => Walk(s, w)' = Walk(s, w)
       /\ \A s \in Used, i \in L1Idx : l1[s][i].type = "table" /\ i >= KernelIdx =>
              l2'[l1[s][i].at] = l2[l1[s][i].at]
    BY <1>11, EntrySetWalk
<1>13. /\ Walk(c, v) \in Phys /\ Walk(c, v) \in Nat
  <2>1. c \in Root
    BY <1>3, LiveUsed
  <2>2. QED
    BY <1>1, <1>3, <1>6, <1>8, <2>1, WalkOwned, WalkType
<1>14. mem' \in [Phys -> Val] /\ mem'[fr] = mem[Walk(c, v)]
       /\ \A p \in Phys : p # fr => mem'[p] = mem[p]
    BY <1>1, <1>5, <1>10, <1>13 DEF TypeOK
<1>15. /\ tlb' \in [UserPage \cup {Fixmap} -> Nat] /\ DOMAIN tlb' = Page
       /\ tlb'[Fixmap] = fr /\ tlb'[v] = Walk(c, v)
       /\ \A w \in Page : w # Fixmap /\ w # v => tlb'[w] = tlb[w]
    BY <1>1, <1>5, <1>6, <1>10, <1>13 DEF TypeOK, Page
<1>16. dup' \in [to : Root, frame : {0} \cup Frame] /\ dup'.to = d /\ dup'.frame = 0
    BY <1>1, <1>4, <1>10 DEF TypeOK
<1>17. TypeOK'
    BY <1>1, <1>12, <1>14, <1>15, <1>16 DEF TypeOK
<1>18. InUse' = InUse /\ Used' = Used /\ Live' = Live /\ \A s : Own(s)' = Own(s)
    BY <1>1 DEF InUse, Used, Live, Own
<1>19. Owners'
    BY <1>1, <1>18 DEF Owners
<1>20. Layout'
  <2>1. ASSUME NEW s \in InUse, l1[s][FixIdx] # None PROVE s = c /\ FixmapOnly(l1[s][FixIdx])'
    <3>1. s = c /\ FixmapOnly(l1[s][FixIdx])
        BY <1>1, <1>3, <2>1, PageIndex DEF Layout
    <3>2. QED
        BY <1>1, <1>3, <1>12, <3>1, PageIndex DEF FixmapOnly
  <2>2. QED
    BY <1>1, <1>3, <1>4, <1>16, <1>18, <2>1 DEF Layout
<1>21. TlbCoherent'
  <2>1. Walk(current, Fixmap) = fr /\ Walk(current, v) = Walk(c, v)
    BY <1>1, <1>3, <1>5 DEF Copying
  <2>2. \A w \in Page : tlb'[w] = tlb[w] \/ tlb'[w] = Walk(current, w)
    BY <1>15, <2>1
  <2>3. \A w \in Page, s \in Used : s = current => Walk(s, w)' = Walk(s, w)
    BY <1>3, <1>4, <1>12
  <2>4. QED
    BY <1>1, <1>15, <2>2, <2>3, TlbFilled
<1>22. ASSUME NEW s \in Live, NEW w \in UserPage, s # d \/ w # v
       PROVE  Walk(s, w)' = Walk(s, w) /\ Walk(s, w) # fr
  <2>1. Walk(s, w)' = Walk(s, w)
    BY <1>12, <1>22, LiveUsed, FixmapApart
  <2>2. CASE s = d
    BY <1>1, <1>4, <1>5, <2>1, <2>2 DEF Copying
  <2>3. CASE s # d
    <3>1. Walk(s, w) # 0 => \A r \in Proc \ {s} : Walk(s, w) \notin pages[r]
        BY WalkOwned
    <3>2. d \in Proc \ {s}
        BY <1>4, <2>3
    <3>3. QED
        BY <1>5, <2>1, <3>1, <3>2
  <2>4. QED
    BY <2>1, <2>2, <2>3
<1>23. Frames'
  <2>1. ASSUME NEW s \in Live, NEW w \in UserPage, Walk(s, w)' # 0
        PROVE  Walk(s, w)' \in pages[s] \/ (s = 1 /\ Walk(s, w)' \in Image)
    <3>1. CASE s = d /\ w = v
        BY <1>5, <1>12, <3>1
    <3>2. CASE s # d \/ w # v
        BY <1>1, <1>22, <2>1, <3>2 DEF Frames
    <3>3. QED
        BY <3>1, <3>2
  <2>2. ASSUME NEW s \in Live, NEW u \in UserPage, NEW w \in UserPage,
               Walk(s, u)' # 0, Walk(s, u)' = Walk(s, w)'
        PROVE  u = w
    <3>1. CASE s = d /\ (u = v \/ w = v)
        BY <1>12, <1>22, <2>2, <3>1
    <3>2. CASE s # d \/ (u # v /\ w # v)
      <4>1. Walk(s, u)' = Walk(s, u) /\ Walk(s, w)' = Walk(s, w)
        BY <1>22, <3>2
      <4>2. QED
        BY <1>1, <2>2, <4>1 DEF Frames
    <3>3. QED
        BY <3>1, <3>2
  <2>3. QED
    BY <1>1, <1>18, <2>1, <2>2 DEF Frames
<1>24. Copying'
  <2>1. \A w : Walk(current, w)' = Walk(c, w)' /\ Walk(dup.to, w)' = Walk(d, w)'
    BY <1>3, <1>16 DEF Walk
  <2>2. ASSUME NEW w \in UserPage, Walk(d, w)' # 0
        PROVE  Walk(c, w)' # 0 /\ mem'[Walk(d, w)'] = mem'[Walk(c, w)']
    <3>1. Walk(c, w)' = Walk(c, w) /\ Walk(c, w) # fr
        BY <1>3, <1>4, <1>22
    <3>2. CASE w = v
        BY <1>8, <1>12, <1>13, <1>14, <3>1, <3>2
    <3>3. CASE w # v
      <4>1. Walk(d, w)' = Walk(d, w) /\ Walk(d, w) # fr
        BY <1>4, <1>22, <3>3
      <4>2. Walk(c, w) # 0 /\ mem[Walk(d, w)] = mem[Walk(c, w)]
        BY <1>1, <1>3, <1>4, <2>2, <4>1 DEF Copying
      <4>3. Walk(c, w) \in Phys /\ Walk(d, w) \in Phys
        BY <1>3, <1>4, <2>2, <4>1, <4>2, WalkOwned
      <4>4. QED
        BY <1>14, <3>1, <4>1, <4>2, <4>3
    <3>4. QED
        BY <3>2, <3>3
  <2>3. QED
    BY <1>3, <1>4, <1>16, <1>18, <2>1, <2>2 DEF Copying
<1>25. Boot'
    BY <1>3 DEF Boot
<1>26. ASSUME NEW s \in Live \ {d}, NEW w \in UserPage, Walk(s, w) # 0
       PROVE  mem'[Walk(s, w)] = mem[Walk(s, w)]
    BY <1>14, <1>22, <1>26, WalkOwned
<1>27. PagingInv'
    BY <1>17, <1>19, <1>20, <1>21, <1>23, <1>24, <1>25 DEF PagingInv
<1>28. \A s \in Used \ {dup.to}, w \in UserPage : Walk(s, w)' = Walk(s, w)
    BY <1>4, <1>12, FixmapApart
<1>29. QED
    BY <1>2, <1>4, <1>14, <1>26, <1>27, <1>28

\* DupEnd: Fixmap is free again, and no page changes.
LEMMA DupEndPaging ==
    ASSUME PagingInv, DupEnd
    PROVE  PagingInv' /\ \A s \in Used, w \in UserPage : Walk(s, w)' = Walk(s, w)
<1>1. /\ TypeOK /\ Layout /\ Owners /\ Frames /\ dup.to # Sys /\ dup' = NoDup
      /\ release_mapping(current, Fixmap)
      /\ UNCHANGED <<root, current, pages, free, mem, halted>>
    BY DEF PagingInv, DupEnd
<1>2. PICK c \in InUse : c = current /\ c = current' /\ c # Sys
    BY <1>1, CopyParties
<1>3. Released(c)
    BY <1>1, <1>2 DEF Released
<1>4. Freed(c) /\ Owners'
    BY <1>3, ReleaseFrees, ReleaseOwners
<1>5. \A s \in Used, w \in UserPage : Walk(s, w)' = Walk(s, w)
    BY <1>3, ReleaseWalk
<1>6. TypeOK'
  <2>1. dup' \in [to : Root, frame : {0} \cup Frame]
    BY <1>1, Roots DEF NoDup
  <2>2. QED
    BY <1>1, <1>4, <2>1, FlushedTlb DEF TypeOK, Freed
<1>7. Layout'
  <2>1. InUse' = InUse /\ Used' = Used /\ Sys \in Root /\ InUse \subseteq Root
    BY <1>1, Roots DEF InUse, Used
  <2>2. \A i \in L1Idx : l1'[Sys][i] = l1[Sys][i]
    BY <1>2, <1>4, <2>1 DEF Freed
  <2>3. ASSUME NEW s \in InUse, NEW i \in L1Idx
        PROVE  /\ i < KernelIdx => l1'[s][i].type # "sect"
               /\ i >= KernelIdx /\ i # FixIdx => l1'[s][i] = l1'[Sys][i]
               /\ i = FixIdx => l1'[s][i] = None
    <3>1. CASE i # FixIdx
        BY <1>1, <1>4, <2>1, <2>2, <3>1 DEF Freed, Layout
    <3>2. CASE i = FixIdx /\ s = c
        BY <1>4, <3>2, EntryTypes DEF Freed
    <3>3. CASE i = FixIdx /\ s # c
      <4>1. l1[s][i] = None /\ l1'[s][i] = l1[s][i]
        BY <1>1, <1>2, <1>4, <2>1, <3>3 DEF Freed, Layout
      <4>2. QED
        BY <3>3, <4>1, EntryTypes
    <3>4. QED
        BY <3>1, <3>2, <3>3
  <2>4. QED
    BY <1>1, <1>2, <2>1, <2>2, <2>3, PageIndex DEF Layout
<1>8. Frames'
    BY <1>1, <1>5, LiveUsed, FramesKept
<1>9. Boot' /\ Copying'
    BY <1>1, <1>2 DEF Boot, Copying, NoDup
<1>10. TlbCoherent'
    BY <1>4, FlushedTlb DEF Freed
<1>11. QED
    BY <1>4, <1>5, <1>6, <1>7, <1>8, <1>9, <1>10 DEF PagingInv

\* DropImage: exec gives up the memory of the current process.
LEMMA DropPaging ==
    ASSUME PagingInv, DropImage
    PROVE  /\ PagingInv' /\ current \in Live
           /\ \A w \in UserPage, s \in Used :
                  Walk(s, w)' = IF s = current THEN 0 ELSE Walk(s, w)
<1>1. /\ TypeOK /\ Layout /\ Owners /\ Frames /\ dup = NoDup /\ dup.to = Sys /\ current # Sys
      /\ root[current] = "live"
      /\ reset_root_pgtable(current) /\ release_proc_pages(current)
      /\ UNCHANGED <<root, current, mem, dup, halted>>
    BY DEF PagingInv, DropImage, Running, NoDup
<1>2. PICK c \in Live : c = current /\ c = current' /\ c \in InUse /\ c \in Used /\ c \in Proc
    BY <1>1, LiveUsed, Roots DEF Layout, Live
<1>3. Reset(c)
    BY <1>1, <1>2 DEF Reset
<1>4. Emptied(c) /\ Owners'
    BY <1>3, ResetEmpties, ResetOwners
<1>5. /\ \A v \in UserPage : Walk(c, v)' = 0
      /\ \A s \in Used \ {c}, v \in UserPage : Walk(s, v)' = Walk(s, v)
    BY <1>3, ResetWalk, FixmapApart
<1>6. /\ pages'[c] = {} /\ \A s \in Proc \ {c} : pages'[s] = pages[s]
      /\ free' = free \cup pages[c] /\ pages' \in [Proc -> SUBSET Frame] /\ free' \in SUBSET Frame
    BY <1>1, <1>2 DEF TypeOK, release_proc_pages
<1>7. TypeOK'
    BY <1>1, <1>4, <1>6, FlushedTlb DEF TypeOK, Emptied
<1>8. Used' = Used /\ Live' = Live
    BY <1>1 DEF Used, InUse, Live
<1>9. Layout'
    BY <1>1, <1>2, <1>3, <1>8, ResetLayout
<1>10. Frames'
  <2>1. ASSUME NEW s \in Live, NEW v \in UserPage, Walk(s, v)' # 0
        PROVE  s # c /\ s \in Proc /\ Walk(s, v)' = Walk(s, v)
    BY <1>5, <2>1, LiveUsed
  <2>2. \A s \in Live : \A v \in UserPage : Walk(s, v)' # 0 =>
             Walk(s, v)' \in pages'[s] \/ (s = 1 /\ Walk(s, v)' \in Image)
    BY <1>1, <1>6, <2>1 DEF Frames
  <2>3. \A s \in Live : \A v, w \in UserPage :
             Walk(s, v)' # 0 /\ Walk(s, v)' = Walk(s, w)' => v = w
    BY <1>1, <2>1 DEF Frames
  <2>4. /\ \A s \in Proc \ Live : pages'[s] = {}
        /\ \A s \in Proc : pages'[s] \cap free' = {}
        /\ \A r, s \in Proc : r # s => pages'[r] \cap pages'[s] = {}
    BY <1>1, <1>2, <1>6 DEF Frames
  <2>5. QED
    BY <1>8, <2>2, <2>3, <2>4 DEF Frames
<1>11. Boot' /\ Copying'
    BY <1>1 DEF Boot, Copying, NoDup
<1>12. TlbCoherent'
    BY <1>4, FlushedTlb DEF Emptied
<1>13. QED
    BY <1>2, <1>4, <1>5, <1>7, <1>9, <1>10, <1>11, <1>12 DEF PagingInv

\* do_waitpid: the table of a child that exited is given back.
LEMMA WaitPaging ==
    ASSUME PagingInv, NEW d \in Proc, do_waitpid(d)
    PROVE  PagingInv' /\ Live' = Live /\ \A s \in Live, w \in UserPage : Walk(s, w)' = Walk(s, w)
<1>1. /\ TypeOK /\ Layout /\ Owners /\ Frames /\ dup = NoDup /\ dup.to = Sys
      /\ current # Sys /\ current # d /\ root[current] = "live" /\ root[d] = "exited"
      /\ root' = [root EXCEPT ![d] = "none"]
      /\ reset_root_pgtable(d)
      /\ UNCHANGED <<current, pages, free, mem, dup, halted>>
    BY DEF PagingInv, do_waitpid, Running, NoDup
<1>2. d \in InUse /\ d \notin Live
    BY <1>1 DEF InUse, Live
<1>3. Reset(d)
    BY <1>1, <1>2, Roots DEF Reset, TypeOK
<1>4. Emptied(d) /\ Owners'
    BY <1>3, ResetEmpties, ResetOwners
<1>5. Live' = Live
    BY <1>1 DEF Live, TypeOK
<1>6. \A s \in Live, v \in UserPage : Walk(s, v)' = Walk(s, v)
    BY <1>2, <1>3, ResetWalk, FixmapApart, LiveUsed
<1>7. TypeOK'
    BY <1>1, <1>4, FlushedTlb DEF TypeOK, Emptied
<1>8. current \in Used'
    BY <1>1, <1>4 DEF Layout, Emptied
<1>9. Layout'
    BY <1>1, <1>3, <1>8, ResetLayout
<1>10. Frames'
    BY <1>1, <1>5, <1>6 DEF Frames
<1>11. Boot' /\ Copying'
    BY <1>1 DEF Boot, Copying, NoDup
<1>12. TlbCoherent'
    BY <1>4, FlushedTlb DEF Emptied
<1>13. QED
    BY <1>4, <1>5, <1>6, <1>7, <1>9, <1>10, <1>11, <1>12 DEF PagingInv

\* Where the tables stay, so do the walks.
LEMMA SameTables ==
    ASSUME UNCHANGED <<l1, l2>>
    PROVE  \A s, v : Walk(s, v)' = Walk(s, v)
BY DEF Walk

\* do_exit: the frames are free again; the table of the process is not used any more.
LEMMA ExitPaging ==
    ASSUME PagingInv, do_exit
    PROVE  PagingInv' /\ current \in Live /\ Live' = Live \ {current}
<1>1. /\ TypeOK /\ Layout /\ Owners /\ Frames /\ TlbCoherent /\ dup = NoDup /\ current # Sys
      /\ root[current] = "live"
      /\ root' = [root EXCEPT ![current] = "exited"]
      /\ release_proc_pages(current)
      /\ UNCHANGED <<l1, l2, heap, current, mem, tlb, dup, halted>>
    BY DEF PagingInv, do_exit, Running
<1>2. PICK c \in Live : c = current /\ c = current' /\ c \in InUse /\ c \in Proc
    BY <1>1, LiveUsed, Roots DEF Layout, Live
<1>3. /\ pages'[c] = {} /\ \A s \in Proc \ {c} : pages'[s] = pages[s]
      /\ free' = free \cup pages[c] /\ pages' \in [Proc -> SUBSET Frame] /\ free' \in SUBSET Frame
    BY <1>1, <1>2 DEF TypeOK, release_proc_pages
<1>4. \A s, v : Walk(s, v)' = Walk(s, v)
    BY <1>1, SameTables
<1>5. /\ InUse' = InUse /\ Used' = Used /\ Live' = Live \ {c} /\ \A s : Own(s)' = Own(s)
      /\ root' \in [Proc -> {"none", "live", "exited"}]
    BY <1>1, <1>2 DEF TypeOK, InUse, Used, Live, Own
<1>6. TypeOK'
    BY <1>1, <1>3, <1>5 DEF TypeOK
<1>8. Layout' /\ Owners'
  <2>1. Owners'
    BY <1>1, <1>5 DEF Owners
  <2>2. Layout'
    BY <1>1, <1>5 DEF Layout, FixmapOnly
  <2>3. QED
    BY <2>1, <2>2
<1>9. TlbCoherent'
    BY <1>1, <1>4, TlbKept
<1>10. Frames'
  <2>1. \A s \in Live' : s \in Live /\ s # c /\ s \in Proc /\ pages'[s] = pages[s]
    BY <1>3, <1>5, LiveUsed
  <2>2. \A s \in Live' : \A v \in UserPage : Walk(s, v)' # 0 =>
             Walk(s, v)' \in pages'[s] \/ (s = 1 /\ Walk(s, v)' \in Image)
    BY <1>1, <1>4, <2>1 DEF Frames
  <2>3. \A s \in Live' : \A v, w \in UserPage :
             Walk(s, v)' # 0 /\ Walk(s, v)' = Walk(s, w)' => v = w
    BY <1>1, <1>4, <2>1 DEF Frames
  <2>4. /\ \A s \in Proc \ Live' : pages'[s] = {}
        /\ \A s \in Proc : pages'[s] \cap free' = {}
        /\ \A r, s \in Proc : r # s => pages'[r] \cap pages'[s] = {}
    BY <1>1, <1>2, <1>3, <1>5 DEF Frames
  <2>5. QED
    BY <2>2, <2>3, <2>4 DEF Frames
<1>11. Boot' /\ Copying'
    BY <1>1 DEF Boot, Copying, NoDup
<1>12. QED
    BY <1>2, <1>5, <1>6, <1>8, <1>9, <1>10, <1>11 DEF PagingInv

\* mmu_switch: another table, and no translation of the old one.
LEMMA SwitchPaging ==
    ASSUME PagingInv, NEW t \in Proc, mmu_switch(t)
    PROVE  PagingInv' /\ t \in Live
<1>1. /\ TypeOK /\ Layout /\ Owners /\ Frames /\ Boot /\ dup = NoDup /\ root[t] = "live"
      /\ current' = t /\ tlb' = NoTlb
      /\ UNCHANGED <<l1, l2, heap, root, pages, free, mem, dup, halted>>
    BY DEF PagingInv, mmu_switch, Running, v7_inval_tlb
<1>2. t \in Live /\ t \in Used /\ t \in Root /\ t # Sys /\ dup.to = Sys
    BY <1>1, LiveUsed, Roots DEF Live, NoDup
<1>3. InUse' = InUse /\ Used' = Used /\ Live' = Live /\ \A s : Own(s)' = Own(s)
    BY <1>1 DEF InUse, Used, Live, Own
<1>4. TypeOK'
    BY <1>1, <1>2, FlushedTlb DEF TypeOK
<1>5. Owners'
    BY <1>1, <1>3 DEF Owners
<1>6. Layout'
  <2>1. \A s \in InUse : l1[s][FixIdx] = None
    BY <1>1, <1>2, NoFixmap DEF Used
  <2>2. QED
    BY <1>1, <1>2, <1>3, <2>1 DEF Layout
<1>7. Frames'
    BY <1>1, SameTables, FramesKept
<1>8. Boot' /\ Copying'
    BY <1>1, <1>2 DEF Boot, Copying, NoDup
<1>9. QED
    BY <1>1, <1>2, <1>4, <1>5, <1>6, <1>7, <1>8, FlushedTlb DEF PagingInv

\* UserStore: the frame of the page is written.
LEMMA StorePaging ==
    ASSUME PagingInv, NEW v \in UserPage, NEW x \in Val, UserStore(v, x)
    PROVE  /\ PagingInv' /\ current \in Live /\ Walk(current, v) \in Phys /\ Walk(current, v) # 0
           /\ mem' = [mem EXCEPT ![Walk(current, v)] = x]
<1>1. /\ TypeOK /\ Layout /\ Owners /\ Frames /\ Boot /\ TlbCoherent /\ dup = NoDup
      /\ current # Sys /\ root[current] = "live"
      /\ UNCHANGED <<l1, l2, heap, root, current, pages, free, dup, halted>>
    BY DEF PagingInv, UserStore, Running
<1>2. current \in Live /\ current \in Root
    BY <1>1, LiveUsed, Roots DEF Layout, Live
<1>3. v \in Page /\ Access(v) = Walk(current, v) /\ Walk(current, v) # 0
    BY <1>1, FixmapApart, AccessWalk DEF UserStore
<1>4. Walk(current, v) \in Phys /\ Walk(current, v) \in Nat
    BY <1>1, <1>2, <1>3, WalkOwned, WalkType
<1>5. /\ mem' = [mem EXCEPT ![Walk(current, v)] = x] /\ mem' \in [Phys -> Val]
      /\ tlb' = [tlb EXCEPT ![v] = Walk(current, v)]
    BY <1>1, <1>3, <1>4 DEF UserStore, TypeOK
<1>6. /\ tlb' \in [UserPage \cup {Fixmap} -> Nat] /\ DOMAIN tlb' = Page
      /\ \A w \in Page : tlb'[w] = tlb[w] \/ tlb'[w] = Walk(current, w)
    BY <1>1, <1>3, <1>4, <1>5 DEF TypeOK, Page
<1>7. TypeOK'
    BY <1>1, <1>5, <1>6 DEF TypeOK
<1>8. InUse' = InUse /\ Used' = Used /\ Live' = Live /\ \A s : Own(s)' = Own(s)
    BY <1>1 DEF InUse, Used, Live, Own
<1>9. \A s, w : Walk(s, w)' = Walk(s, w)
    BY <1>1, SameTables
<1>10. TlbCoherent'
    BY <1>1, <1>6, <1>9, TlbFilled
<1>11. Owners' /\ Layout'
  <2>1. Owners'
    BY <1>1, <1>8 DEF Owners
  <2>2. Layout'
    BY <1>1, <1>8 DEF Layout, FixmapOnly
  <2>3. QED
    BY <2>1, <2>2
<1>12. Frames'
    BY <1>1, <1>9, FramesKept
<1>13. Boot' /\ Copying'
    BY <1>1 DEF Boot, Copying, NoDup
<1>14. QED
    BY <1>2, <1>3, <1>4, <1>5, <1>7, <1>10, <1>11, <1>12, <1>13 DEF PagingInv

\* The system stops, or nothing happens: all is as it was.
LEMMA StopPaging ==
    ASSUME PagingInv, halted' \in BOOLEAN,
           UNCHANGED <<l1, l2, heap, root, current, pages, free, mem, tlb, dup>>
    PROVE  PagingInv'
<1>1. InUse' = InUse /\ Used' = Used /\ Live' = Live /\ \A s : Own(s)' = Own(s)
    BY DEF InUse, Used, Live, Own
<1>2. TypeOK'
    BY DEF PagingInv, TypeOK
<1>3. Owners'
    BY <1>1 DEF PagingInv, Owners
<1>4. Layout'
    BY <1>1 DEF PagingInv, Layout, FixmapOnly
<1>5. Frames'
    BY SameTables, FramesKept, SMTT(20) DEF PagingInv
<1>6. Boot'
    BY <1>1 DEF PagingInv, Boot, Walk
<1>7. Copying'
    BY SameTables, CopyingKept DEF PagingInv
<1>8. TlbCoherent'
    BY SameTables, TlbKept DEF PagingInv
<1>9. QED
    BY <1>2, <1>3, <1>4, <1>5, <1>6, <1>7, <1>8 DEF PagingInv

LEMMA NextPaging ==
    ASSUME PagingInv, [Next]_vars
    PROVE  PagingInv'
<1>1. CASE ramdev_create_mapping
    BY <1>1, RamdevPaging
<1>2. CASE create_root_process
    BY <1>2, CreatePaging
<1>3. CASE MapImage
    BY <1>3, ImagePaging
<1>4. ASSUME NEW t \in Proc, NEW v \in UserPage, allocate_page(t, v) PROVE PagingInv'
  <2>1. CASE Stop
    BY <2>1, StopPaging DEF Stop
  <2>2. CASE ~Stop
    <3>1. PICK f \in free : \E new \in Placements(NeedTable(l1[t], v, f, 1)) :
             /\ create_mapping(t, l1[t], v, f, 1, new)
             /\ pages' = [pages EXCEPT ![t] = @ \cup {f}]
             /\ free' = free \ {f}
             /\ UNCHANGED <<root, current, mem, dup, halted>>
        BY <1>4, <2>2 DEF allocate_page
    <3>2. Running /\ SetUp(t) /\ NextPage(t, v)
        BY <1>4 DEF allocate_page
    <3>3. QED
        BY <3>1, <3>2, AllocatePaging
  <2>3. QED
    BY <2>1, <2>2
<1>5. ASSUME NEW c \in Proc, do_fork(c) PROVE PagingInv'
    BY <1>5, ForkPaging
<1>6. ASSUME NEW i \in L1Idx, DupTable(i) PROVE PagingInv'
  <2>1. CASE Stop
    BY <2>1, StopPaging DEF Stop
  <2>2. CASE ~Stop
    BY <1>6, <2>2, DupTablePaging DEF DupTable
  <2>3. QED
    BY <2>1, <2>2
<1>7. ASSUME NEW v \in UserPage, DupFrame(v) PROVE PagingInv'
  <2>1. CASE Stop
    BY <2>1, StopPaging DEF Stop
  <2>2. CASE ~Stop
    BY <1>7, <2>2, DupFramePaging DEF DupFrame
  <2>3. QED
    BY <2>1, <2>2
<1>8. ASSUME NEW v \in UserPage, DupCopy(v) PROVE PagingInv'
    BY <1>8, DupCopyPaging
<1>9. CASE DupEnd
    BY <1>9, DupEndPaging
<1>10. CASE DropImage
    BY <1>10, DropPaging
<1>11. CASE do_exit
    BY <1>11, ExitPaging
<1>12. ASSUME NEW c \in Proc, do_waitpid(c) PROVE PagingInv'
    BY <1>12, WaitPaging
<1>13. ASSUME NEW c \in Proc, mmu_switch(c) PROVE PagingInv'
    BY <1>13, SwitchPaging
<1>14. ASSUME NEW v \in UserPage, NEW x \in Val, UserStore(v, x) PROVE PagingInv'
    BY <1>14, StorePaging
<1>15. CASE Halted \/ UNCHANGED vars
  <2>1. UNCHANGED vars /\ halted \in BOOLEAN
    BY <1>15 DEF Halted, PagingInv, TypeOK
  <2>2. QED
    BY <2>1, StopPaging DEF vars
<1>16. QED
    BY <1>1, <1>2, <1>3, <1>4, <1>5, <1>6, <1>7, <1>8, <1>9, <1>10, <1>11, <1>12, <1>13, <1>14,
       <1>15 DEF Next

\* The page tables, the heap of L2 tables, the frames, the copy of a fork and
\* the processor's translations stay in the relation PagingInv describes, through
\* every step of create_mapping, release_mapping, duplicate_user_space,
\* reset_root_pgtable and mmu_switch.
THEOREM PagingInvariant == Spec => []PagingInv
<1>1. Init => PagingInv
    BY InitPaging
<1>2. PagingInv /\ [Next]_vars => PagingInv'
    BY NextPaging
<1>3. QED
    BY <1>1, <1>2, PTL DEF Spec

-----------------------------------------------------------------------------
(* What follows from it *)

\* Every step leaves root tables, L2 tables, frame lists and translations in
\* their types; in particular mem is only written at frames that exist.
THEOREM PageTableTypeCorrect == Spec => []TypeOK
<1>1. PagingInv => TypeOK
    BY DEF PagingInv
<1>2. QED
    BY <1>1, PagingInvariant, PTL

\* No change of a mapping, no fork and no switch leaves a translation in the
\* processor that the table of the current process no longer has.
THEOREM TranslationsFresh == Spec => []TlbCoherent
<1>1. PagingInv => TlbCoherent
    BY DEF PagingInv
<1>2. QED
    BY <1>1, PagingInvariant, PTL

LEMMA InvAccounted ==
    ASSUME PagingInv
    PROVE  TablesAccounted
<1>1. TypeOK /\ Layout /\ Owners /\ Used = {Sys} \cup InUse
    BY DEF PagingInv, Used
<1>2. ASSUME NEW id \in heap
      PROVE  \E t \in Used, i \in L1Idx : l1[t][i].type = "table" /\ l1[t][i].at = id
  <2>1. PICK t \in Used : \E i \in Own(t) : id \in L2Id /\ l1[t][i] = Table(id)
    BY <1>1 DEF Owners
  <2>2. PICK i \in Own(t) : id \in L2Id /\ l1[t][i] = Table(id)
    BY <2>1
  <2>3. i \in L1Idx
    BY DEF Own
  <2>4. QED
    BY <2>2, <2>3, EntryTypes
<1>3. ASSUME NEW t \in Used, NEW i \in L1Idx, l1[t][i].type = "table"
      PROVE  l1[t][i].at \in heap
    BY <1>1, <1>3, TableInHeap
<1>4. heap = {l1[x[1]][x[2]].at : x \in {y \in Used \X L1Idx : l1[y[1]][y[2]].type = "table"}}
  <2>1. ASSUME NEW id \in heap
        PROVE  \E x \in {y \in Used \X L1Idx : l1[y[1]][y[2]].type = "table"} : id = l1[x[1]][x[2]].at
    <3>1. PICK t \in Used, i \in L1Idx : l1[t][i].type = "table" /\ l1[t][i].at = id
        BY <1>2
    <3>2. <<t, i>> \in {y \in Used \X L1Idx : l1[y[1]][y[2]].type = "table"}
        BY <3>1
    <3>3. QED
        BY <3>1, <3>2
  <2>2. ASSUME NEW x \in {y \in Used \X L1Idx : l1[y[1]][y[2]].type = "table"}
        PROVE  l1[x[1]][x[2]].at \in heap
    BY <1>3
  <2>3. QED
    BY <2>1, <2>2
<1>5. ASSUME NEW s \in Used, NEW t \in Used, NEW i \in L1Idx, NEW k \in L1Idx,
             l1[s][i].type = "table", l1[t][k].type = "table", l1[s][i].at = l1[t][k].at
      PROVE  i = k /\ (s = t \/ (i >= KernelIdx /\ i # FixIdx))
  <2>1. CASE k \in Own(t)
    BY <1>1, <1>5, <2>1, SharedTable
  <2>2. CASE k \notin Own(t)
    <3>1. t \in InUse /\ k >= KernelIdx /\ k # FixIdx
        BY <2>2, Roots, PagingAssumption DEF Own, L1Idx
    <3>2. l1[Sys][k] = l1[t][k] /\ k \in Own(Sys) /\ Sys \in Used
        BY <1>1, <3>1, Roots DEF Layout, Own
    <3>3. i = k
        BY <1>1, <1>5, <3>2, SharedTable
    <3>4. QED
        BY <3>1, <3>3
  <2>3. QED
    BY <2>1, <2>2
<1>6. QED
    BY <1>1, <1>4, <1>5 DEF TablesAccounted

\* No L2 table leaks when a mapping or a process is given up, none is freed while
\* a table in use leads to it, and none is shared but through the kernel half.
THEOREM TablesOwned == Spec => []TablesAccounted
<1>1. PagingInv => TablesAccounted
    BY InvAccounted
<1>2. QED
    BY <1>1, PagingInvariant, PTL

LEMMA InvSmallPages ==
    ASSUME PagingInv
    PROVE  SmallPagesOnly
<1>1. TypeOK /\ Layout
    BY DEF PagingInv
<1>2. \A t \in InUse : \A i \in L1Idx : i < KernelIdx => l1[t][i].type # "sect"
    BY <1>1 DEF Layout
<1>3. ASSUME NEW v \in 0 .. KernelIdx * L2Entries - 1, current # Sys
      PROVE  virt_to_phys_pt(v) = Walk(current, v)
  <2>1. /\ v \in Nat /\ KernelIdx \in Nat /\ L2Entries \in Nat /\ KernelIdx < L1Entries
        /\ L1Entries \in Nat /\ v < KernelIdx * L2Entries
    <3>1. KernelIdx \in Nat /\ L2Entries \in Nat /\ KernelIdx < L1Entries /\ L1Entries \in Nat
        BY PagingAssumption
    <3>2. KernelIdx * L2Entries \in Nat
        BY <3>1
    <3>3. QED
        BY <3>1, <3>2
  <2>2. PICK i \in Nat, j \in L2Idx : i = v \div L2Entries /\ v = i * L2Entries + j
    BY <2>1, DivMod
  <2>3. i * L2Entries < KernelIdx * L2Entries
    <3>1. i * L2Entries \in Int /\ KernelIdx * L2Entries \in Int /\ j \in Nat
        BY <2>1 DEF L2Idx
    <3>2. QED
        BY <2>1, <2>2, <3>1
  <2>4. i < KernelIdx
    BY <2>1, <2>3, MulLess
  <2>5. v \div L2Entries \in L1Idx /\ v \div L2Entries < KernelIdx
    BY <2>1, <2>2, <2>4 DEF L1Idx
  <2>6. current \in InUse
    BY <1>1, <1>3, Roots DEF Layout
  <2>7. l1[current][v \div L2Entries].type # "sect"
    BY <1>2, <2>5, <2>6
  <2>8. QED
    BY <2>7 DEF virt_to_phys_pt
<1>4. QED
    BY <1>2, <1>3 DEF SmallPagesOnly

\* The user half of a process never has a section: the BUG_ON of
\* duplicate_user_space is not reached, and virt_to_phys_pt is right for every
\* page of the user space although it ignores the place within a section.
THEOREM UserPagesSmall == Spec => []SmallPagesOnly
<1>1. PagingInv => SmallPagesOnly
    BY InvSmallPages
<1>2. QED
    BY <1>1, PagingInvariant, PTL

-----------------------------------------------------------------------------
(* The page tables implement PrivateMemory *)

\* The processes that have a memory, and what they find in it: the refinement
\* mapping of the instance Memory.
Alive == {t \in Proc : root[t] = "live" /\ t # dup.to}
Contents(t, v) ==
    IF root[t] = "live" /\ t # dup.to /\ Walk(t, v) # 0 THEN mem[Walk(t, v)] ELSE 0
Space == [t \in Proc |-> [v \in UserPage |-> Contents(t, v)]]

LEMMA AliveLive ==
    /\ Alive = Live \ {dup.to} /\ Alive \subseteq Live /\ Alive \subseteq Proc /\ Alive \subseteq Used
    /\ \A t \in Proc, v \in UserPage :
           /\ Space[t][v] = Contents(t, v)
           /\ t \notin Alive \/ Walk(t, v) = 0 => Contents(t, v) = 0
           /\ t \in Alive /\ Walk(t, v) # 0 => Contents(t, v) = mem[Walk(t, v)]
BY LiveUsed DEF Alive, Live, Space, Contents

\* A step that leaves every process its pages and what is in them.
LEMMA SameSpace ==
    ASSUME \A t \in Proc, v \in UserPage : Contents(t, v)' = Contents(t, v)
    PROVE  Space' = Space
BY DEF Space

\* A step that changes the memory of one process.
LEMMA OneSpace ==
    ASSUME NEW p \in Proc, NEW m, m = [v \in UserPage |-> m[v]],
           \A v \in UserPage : Contents(p, v)' = m[v],
           \A t \in Proc \ {p}, v \in UserPage : Contents(t, v)' = Contents(t, v)
    PROVE  Space' = [Space EXCEPT ![p] = m]
<1> DEFINE new == [Space EXCEPT ![p] = m]
<1>1. Space' = [t \in Proc |-> [v \in UserPage |-> Contents(t, v)']]
    BY DEF Space
<1>2. new = [t \in Proc |-> IF t = p THEN m ELSE Space[t]]
    BY DEF Space
<1>3. ASSUME NEW t \in Proc PROVE [v \in UserPage |-> Contents(t, v)'] = new[t]
  <2>1. CASE t = p
    BY <1>2, <2>1
  <2>2. CASE t # p
    <3>1. new[t] = [v \in UserPage |-> Contents(t, v)]
        BY <1>2, <2>2 DEF Space
    <3>2. QED
        BY <2>2, <3>1
  <2>3. QED
    BY <2>1, <2>2
<1>4. QED
    BY <1>1, <1>2, <1>3

\* Nothing that a process can see changes.
LEMMA Unseen ==
    ASSUME UNCHANGED current, Alive' = Alive,
           \A t \in Alive, v \in UserPage :
               Walk(t, v)' = Walk(t, v) /\ (Walk(t, v) # 0 => mem'[Walk(t, v)] = mem[Walk(t, v)])
    PROVE  UNCHANGED Memory!pvars
<1>1. ASSUME NEW t \in Proc, NEW v \in UserPage PROVE Contents(t, v)' = Contents(t, v)
  <2>1. t \in Alive <=> root[t] = "live" /\ t # dup.to
    BY DEF Alive
  <2>2. t \in Alive' <=> root'[t] = "live" /\ t # dup'.to
    BY DEF Alive
  <2>3. CASE t \in Alive
    BY <2>1, <2>2, <2>3 DEF Contents
  <2>4. CASE t \notin Alive
    BY <2>1, <2>2, <2>4 DEF Contents
  <2>5. QED
    BY <2>3, <2>4
<1>2. Space' = Space
    BY <1>1, SameSpace
<1>3. QED
    BY <1>2 DEF Memory!pvars, Alive, Space, Contents

\* What a step on the side of PrivateMemory looks like through the mapping.
LEMMA AbstractSteps ==
    ASSUME NEW p \in Proc
    PROVE  /\ /\ current = Sys /\ p \notin Alive /\ Alive' = Alive \cup {p}
              /\ UNCHANGED current /\ Space' = Space
              => Memory!Next
           /\ p \in Alive /\ current' = p /\ Alive' = Alive /\ Space' = Space
              => Memory!Next
           /\ /\ p \in Alive /\ p = current /\ UNCHANGED current /\ Alive' = Alive
              /\ Space' = [Space EXCEPT ![p] = [v \in UserPage |-> 0]]
              => Memory!Next
           /\ /\ p \in Alive /\ p = current /\ UNCHANGED current /\ Alive' = Alive \ {p}
              /\ Space' = [Space EXCEPT ![p] = [v \in UserPage |-> 0]]
              => Memory!Next
<1>1. /\ current = Sys /\ p \notin Alive /\ Alive' = Alive \cup {p}
      /\ UNCHANGED current /\ Space' = Space
      => Memory!Create(p)
    BY DEF Memory!Create, Alive, Space, Contents, Sys
<1>2. p \in Alive /\ current' = p /\ Alive' = Alive /\ Space' = Space => Memory!Run(p)
    BY DEF Memory!Run, Alive, Space, Contents
<1>3. /\ p \in Alive /\ p = current /\ UNCHANGED current /\ Alive' = Alive
      /\ Space' = [Space EXCEPT ![p] = [v \in UserPage |-> 0]]
      => Memory!Clear(p)
    BY DEF Memory!Clear, Memory!NoPages, Alive, Space, Contents
<1>4. /\ p \in Alive /\ p = current /\ UNCHANGED current /\ Alive' = Alive \ {p}
      /\ Space' = [Space EXCEPT ![p] = [v \in UserPage |-> 0]]
      => Memory!Exit(p)
    BY DEF Memory!Exit, Memory!NoPages, Alive, Space, Contents
<1>5. QED
    BY <1>1, <1>2, <1>3, <1>4 DEF Memory!Next

\* New pages with any contents.
LEMMA AbstractGive ==
    ASSUME NEW p \in Alive, current \in {Sys, p}, UNCHANGED current, Alive' = Alive,
           NEW S \in SUBSET UserPage, \A v \in S : Contents(p, v) = 0,
           NEW new \in [S -> Val],
           \A v \in UserPage : Contents(p, v)' = IF v \in S THEN new[v] ELSE Contents(p, v),
           \A t \in Proc \ {p}, v \in UserPage : Contents(t, v)' = Contents(t, v)
    PROVE  Memory!Next
<1> DEFINE m == [v \in UserPage |-> IF v \in S THEN new[v] ELSE Space[p][v]]
<1>1. p \in Proc /\ \A v \in UserPage : Space[p][v] = Contents(p, v)
    BY AliveLive
<1>2. m = [v \in UserPage |-> m[v]] /\ \A v \in UserPage : Contents(p, v)' = m[v]
    BY <1>1
<1>3. Space' = [Space EXCEPT ![p] = m]
    BY <1>1, <1>2, OneSpace
<1>4. \A v \in S : Space[p][v] = 0
    BY <1>1
<1>5. Memory!Give(p, S)
    BY <1>3, <1>4 DEF Memory!Give, Alive, Space, Contents, Sys
<1>6. QED
    BY <1>1, <1>5 DEF Memory!Next

\* fork: the child has what its parent has.
LEMMA AbstractFork ==
    ASSUME NEW p \in Alive, NEW c \in Proc, p = current, UNCHANGED current, c \notin Alive,
           Alive' = Alive \cup {c},
           \A v \in UserPage : Contents(c, v)' = Contents(p, v),
           \A t \in Proc \ {c}, v \in UserPage : Contents(t, v)' = Contents(t, v)
    PROVE  Memory!Next
<1>1. p \in Proc
    BY AliveLive
<1>2. Space[p] = [v \in UserPage |-> Contents(p, v)]
    BY <1>1 DEF Space
<1>3. Space[p] = [v \in UserPage |-> Space[p][v]] /\ \A v \in UserPage : Contents(c, v)' = Space[p][v]
    BY <1>2
<1>4. Space' = [Space EXCEPT ![c] = Space[p]]
    BY <1>3, OneSpace
<1>5. Memory!Fork(p, c)
    BY <1>4 DEF Memory!Fork, Alive, Space, Contents
<1>6. QED
    BY <1>1, <1>5 DEF Memory!Next

\* A store in the memory of the process that runs.
LEMMA AbstractStore ==
    ASSUME NEW p \in Alive, p = current, UNCHANGED current, Alive' = Alive,
           NEW w \in UserPage, NEW x \in Val, Contents(p, w) # 0,
           \A v \in UserPage : Contents(p, v)' = IF v = w THEN x ELSE Contents(p, v),
           \A t \in Proc \ {p}, v \in UserPage : Contents(t, v)' = Contents(t, v)
    PROVE  Memory!Next
<1>1. p \in Proc /\ \A v \in UserPage : Space[p][v] = Contents(p, v)
    BY AliveLive
<1>2. Space[p] = [v \in UserPage |-> Contents(p, v)]
    BY <1>1 DEF Space
<1> DEFINE m == [Space[p] EXCEPT ![w] = x]
<1>3. m = [v \in UserPage |-> m[v]] /\ \A v \in UserPage : Contents(p, v)' = m[v]
    BY <1>2
<1>4. Space' = [Space EXCEPT ![p] = m]
    BY <1>1, <1>3, OneSpace
<1>5. Space' = [Space EXCEPT ![p][w] = x] /\ Space[p][w] # 0
    BY <1>1, <1>4
<1>6. Memory!Store(p, w, x)
    BY <1>5 DEF Memory!Store, Alive, Space, Contents
<1>7. QED
    BY <1>1, <1>6 DEF Memory!Next

\* create_root_process is Create.
LEMMA CreateRefines ==
    ASSUME PagingInv, create_root_process
    PROVE  Memory!Next
<1>1. /\ TypeOK /\ Layout /\ Owners /\ dup = NoDup /\ dup.to = Sys /\ current = Sys /\ root[1] = "none"
      /\ UNCHANGED <<l2, heap, current, pages, free, mem, tlb, dup, halted>>
      /\ root' = [root EXCEPT ![1] = "live"]
    BY DEF PagingInv, create_root_process, Running, NoDup
<1>2. NewTable(1) /\ 1 \in Proc /\ Sys \notin Proc
    BY <1>1, Roots DEF create_root_process, NewTable
<1>3. /\ \A v \in UserPage : Walk(1, v)' = 0
      /\ \A s \in Used, v \in UserPage : Walk(s, v)' = Walk(s, v)
    BY <1>2, NewTableWalk, FixmapApart
<1>4. 1 \notin Alive /\ Alive' = Alive \cup {1}
    BY <1>1, <1>2 DEF Alive, TypeOK
<1>5. ASSUME NEW t \in Proc, NEW v \in UserPage PROVE Contents(t, v)' = Contents(t, v)
  <2>1. CASE t = 1
    BY <1>1, <1>3, <2>1 DEF Contents
  <2>2. CASE t # 1
    <3>1. root'[t] = root[t]
        BY <1>1, <2>2 DEF TypeOK
    <3>2. root[t] = "live" => t \in Used
        BY LiveUsed DEF Live
    <3>3. QED
        BY <1>1, <1>3, <3>1, <3>2 DEF Contents
  <2>3. QED
    BY <2>1, <2>2
<1>6. Space' = Space
    BY <1>5, SameSpace
<1>7. QED
    BY <1>1, <1>2, <1>4, <1>6, AbstractSteps

\* MapImage is Give: the pages of the code, with what is in the image.
LEMMA ImageRefines ==
    ASSUME PagingInv, MapImage
    PROVE  Memory!Next
<1>1. /\ TypeOK /\ dup.to = Sys /\ current = Sys
      /\ UNCHANGED <<root, current, pages, free, mem, dup, halted>>
    BY DEF PagingInv, MapImage, Running, NoDup
<1>2. /\ 1 \in Live /\ ImageRange \subseteq UserPage
      /\ \A w \in ImageRange : Walk(1, w)' \in Image /\ Walk(1, w) = 0
      /\ \A s \in Used, w \in UserPage :
             s # 1 \/ w \notin ImageRange => Walk(s, w)' = Walk(s, w)
    BY ImagePaging
<1>3. 1 \in Alive /\ Alive' = Alive /\ 1 \in Used /\ 1 \in Proc
    BY <1>1, <1>2, LiveUsed, Roots DEF Alive, Live
<1> DEFINE new == [w \in ImageRange |-> mem[Walk(1, w)']]
<1>4. \A w \in ImageRange : Walk(1, w)' \in Phys /\ Walk(1, w)' # 0
    BY <1>2, PagingAssumption DEF Phys
<1>5. new \in [ImageRange -> Val]
    BY <1>1, <1>4 DEF TypeOK
<1>6. \A v \in ImageRange : Contents(1, v) = 0
    BY <1>2 DEF Contents
<1>7. ASSUME NEW v \in UserPage
      PROVE  Contents(1, v)' = IF v \in ImageRange THEN new[v] ELSE Contents(1, v)
  <2>1. root'[1] = "live" /\ 1 # dup'.to
    BY <1>1, <1>3 DEF Alive
  <2>2. CASE v \in ImageRange
    BY <1>1, <1>4, <2>1, <2>2 DEF Contents
  <2>3. CASE v \notin ImageRange
    BY <1>1, <1>2, <1>3, <2>3 DEF Contents
  <2>4. QED
    BY <2>2, <2>3
<1>8. ASSUME NEW t \in Proc \ {1}, NEW v \in UserPage PROVE Contents(t, v)' = Contents(t, v)
  <2>1. root[t] = "live" => t \in Used
    BY LiveUsed DEF Live
  <2>2. QED
    BY <1>1, <1>2, <2>1 DEF Contents
<1>9. QED
    BY <1>1, <1>2, <1>3, <1>5, <1>6, <1>7, <1>8, AbstractGive

\* allocate_page is Give: one page, with what was in the frame.
LEMMA AllocateRefines ==
    ASSUME PagingInv, NEW t \in Proc, NEW v \in UserPage, NEW f \in free,
           Running, SetUp(t), NextPage(t, v),
           NEW new \in Placements(NeedTable(l1[t], v, f, 1)),
           create_mapping(t, l1[t], v, f, 1, new),
           pages' = [pages EXCEPT ![t] = @ \cup {f}],
           free' = free \ {f},
           UNCHANGED <<root, current, mem, dup, halted>>
    PROVE  Memory!Next
<1>1. /\ TypeOK /\ dup.to = Sys /\ f \in Phys /\ f # 0 /\ current \in {Sys, t} /\ Walk(t, v) = 0
    BY PagingAssumption DEF PagingInv, Running, NoDup, SetUp, NextPage, TypeOK, Phys
<1>2. /\ t \in Live /\ Walk(t, v)' = f
      /\ \A s \in Used, w \in UserPage : s # t \/ w # v => Walk(s, w)' = Walk(s, w)
    BY AllocatePaging
<1>3. t \in Alive /\ Alive' = Alive /\ t \in Used
    BY <1>1, <1>2, LiveUsed, Roots DEF Alive, Live
<1> DEFINE m == [w \in {v} |-> mem[f]]
<1>4. m \in [{v} -> Val] /\ {v} \in SUBSET UserPage
    BY <1>1 DEF TypeOK
<1>5. \A w \in {v} : Contents(t, w) = 0
    BY <1>1 DEF Contents
<1>6. ASSUME NEW w \in UserPage
      PROVE  Contents(t, w)' = IF w \in {v} THEN m[w] ELSE Contents(t, w)
  <2>1. root'[t] = "live" /\ t # dup'.to
    BY <1>1, <1>3 DEF Alive
  <2>2. CASE w = v
    BY <1>1, <1>2, <2>1, <2>2 DEF Contents
  <2>3. CASE w # v
    BY <1>2, <1>3, <2>3 DEF Contents
  <2>4. QED
    BY <2>2, <2>3
<1>7. ASSUME NEW s \in Proc \ {t}, NEW w \in UserPage PROVE Contents(s, w)' = Contents(s, w)
  <2>1. root[s] = "live" => s \in Used
    BY LiveUsed DEF Live
  <2>2. QED
    BY <1>2, <2>1 DEF Contents
<1>8. QED
    BY <1>1, <1>3, <1>4, <1>5, <1>6, <1>7, AbstractGive

\* DupEnd is Fork: until then nobody sees the child.
LEMMA DupEndRefines ==
    ASSUME PagingInv, DupEnd
    PROVE  Memory!Next
<1>1. /\ TypeOK /\ Copying /\ dup.to # Sys /\ dup' = NoDup /\ PagesLeft = {}
      /\ UNCHANGED <<root, current, pages, free, mem, halted>>
    BY DEF PagingInv, DupEnd
<1>2. PICK c \in Live : c = current /\ c = current' /\ c \in Used /\ c \in Proc
    BY <1>1, CopyParties, LiveUsed
<1>3. PICK d \in Live : d = dup.to /\ d # c /\ d # Sys /\ d \in Used /\ d \in Proc
    BY <1>1, <1>2, CopyParties, LiveUsed
<1>4. \A s \in Used, w \in UserPage : Walk(s, w)' = Walk(s, w)
    BY DupEndPaging
<1>5. dup'.to = Sys /\ Sys \notin Proc
    BY <1>1, Roots DEF NoDup
<1>6. c \in Alive /\ d \notin Alive /\ Alive' = Alive \cup {d}
    BY <1>1, <1>2, <1>3, <1>5 DEF Alive, Live
<1>7. ASSUME NEW v \in UserPage PROVE Contents(d, v)' = Contents(c, v)
  <2>1. v \in 0 .. KernelIdx * L2Entries - 1
    <3>1. UserBase \in Nat /\ KernelIdx \in Nat /\ L2Entries \in Nat
        BY PagingAssumption
    <3>2. KernelIdx * L2Entries \in Nat
        BY <3>1
    <3>3. QED
        BY <3>1, <3>2 DEF UserPage
  <2>2. Walk(c, v) # 0 => Walk(d, v) # 0
    BY <1>1, <1>2, <1>3, <2>1 DEF PagesLeft
  <2>3. Walk(d, v) # 0 => Walk(c, v) # 0 /\ mem[Walk(d, v)] = mem[Walk(c, v)]
    BY <1>1, <1>2, <1>3 DEF Copying
  <2>4. Walk(d, v)' = Walk(d, v)
    BY <1>3, <1>4
  <2>5. root[c] = "live" /\ c # dup.to /\ root'[d] = "live" /\ d # dup'.to
    BY <1>1, <1>2, <1>3, <1>5 DEF Live
  <2>6. QED
    BY <1>1, <2>2, <2>3, <2>4, <2>5 DEF Contents
<1>8. ASSUME NEW t \in Proc \ {d}, NEW v \in UserPage PROVE Contents(t, v)' = Contents(t, v)
  <2>1. root[t] = "live" => t \in Used
    BY LiveUsed DEF Live
  <2>2. t # dup.to /\ t # dup'.to
    BY <1>3, <1>5
  <2>3. QED
    BY <1>1, <1>4, <2>1, <2>2 DEF Contents
<1>9. QED
    BY <1>2, <1>3, <1>6, <1>7, <1>8, AbstractFork

\* DropImage is Clear.
LEMMA DropRefines ==
    ASSUME PagingInv, DropImage
    PROVE  Memory!Next
<1>1. /\ TypeOK /\ dup.to = Sys /\ UNCHANGED <<root, current, mem, dup, halted>>
    BY DEF PagingInv, DropImage, Running, NoDup
<1>2. PICK c \in Live : c = current /\ c \in Proc /\ c \in Used
    BY DropPaging, LiveUsed
<1>3. \A w \in UserPage, s \in Used : Walk(s, w)' = IF s = c THEN 0 ELSE Walk(s, w)
    BY <1>2, DropPaging
<1>4. c \in Alive /\ Alive' = Alive
    BY <1>1, <1>2, Roots DEF Alive, Live
<1>5. \A v \in UserPage : Contents(c, v)' = 0
    BY <1>2, <1>3 DEF Contents
<1>6. ASSUME NEW t \in Proc \ {c}, NEW v \in UserPage PROVE Contents(t, v)' = Contents(t, v)
  <2>1. root[t] = "live" => t \in Used
    BY LiveUsed DEF Live
  <2>2. QED
    BY <1>1, <1>3, <2>1 DEF Contents
<1> DEFINE m == [v \in UserPage |-> 0]
<1>7. m = [v \in UserPage |-> m[v]] /\ \A v \in UserPage : Contents(c, v)' = m[v]
    BY <1>5
<1>8. Space' = [Space EXCEPT ![c] = m]
    BY <1>2, <1>6, <1>7, OneSpace
<1>9. QED
    BY <1>1, <1>2, <1>4, <1>8, AbstractSteps

\* do_exit is Exit.
LEMMA ExitRefines ==
    ASSUME PagingInv, do_exit
    PROVE  Memory!Next
<1>1. /\ TypeOK /\ dup.to = Sys /\ UNCHANGED <<l1, l2, heap, current, mem, tlb, dup, halted>>
      /\ root' = [root EXCEPT ![current] = "exited"]
    BY DEF PagingInv, do_exit, Running, NoDup
<1>2. PICK c \in Live : c = current /\ c \in Proc /\ Live' = Live \ {c}
    BY ExitPaging, LiveUsed
<1>3. \A s, v : Walk(s, v)' = Walk(s, v)
    BY <1>1, SameTables
<1>4. c \in Alive /\ Alive' = Alive \ {c}
    BY <1>1, <1>2, Roots DEF Alive, Live, TypeOK
<1>5. /\ root'[c] # "live" /\ \A t \in Proc \ {c} : root'[t] = root[t]
    BY <1>1, <1>2 DEF TypeOK
<1>6. \A t \in Proc \ {c}, v \in UserPage : Contents(t, v)' = Contents(t, v)
    BY <1>1, <1>3, <1>5 DEF Contents
<1> DEFINE m == [v \in UserPage |-> 0]
<1>7. m = [v \in UserPage |-> m[v]] /\ \A v \in UserPage : Contents(c, v)' = m[v]
    BY <1>5 DEF Contents
<1>8. Space' = [Space EXCEPT ![c] = m]
    BY <1>2, <1>6, <1>7, OneSpace
<1>9. QED
    BY <1>1, <1>2, <1>4, <1>8, AbstractSteps

\* mmu_switch is Run.
LEMMA SwitchRefines ==
    ASSUME PagingInv, NEW t \in Proc, mmu_switch(t)
    PROVE  Memory!Next
<1>1. /\ dup.to = Sys /\ current' = t /\ UNCHANGED <<l1, l2, root, mem, dup>>
    BY DEF mmu_switch, Running, NoDup
<1>2. t \in Alive /\ Alive' = Alive
    BY <1>1, SwitchPaging, Roots DEF Alive, Live
<1>3. \A s \in Proc, v \in UserPage : Contents(s, v)' = Contents(s, v)
    BY <1>1, SameTables DEF Contents
<1>4. Space' = Space
    BY <1>3, SameSpace
<1>5. QED
    BY <1>1, <1>2, <1>4, AbstractSteps

\* UserStore is Store: no other page of any process is at the frame.
LEMMA StoreRefines ==
    ASSUME PagingInv, NEW v \in UserPage, NEW x \in Val, UserStore(v, x)
    PROVE  Memory!Next
<1>1. /\ TypeOK /\ Frames /\ dup.to = Sys /\ UNCHANGED <<l1, l2, root, current, dup>>
    BY DEF PagingInv, UserStore, Running, NoDup
<1>2. PICK c \in Live : c = current /\ c \in Proc
    BY StorePaging, LiveUsed
<1>3. Walk(c, v) \in Phys /\ Walk(c, v) # 0 /\ mem' = [mem EXCEPT ![Walk(c, v)] = x]
    BY <1>2, StorePaging
<1>4. c \in Alive /\ Alive' = Alive
    BY <1>1, <1>2, Roots DEF Alive, Live
<1>5. mem'[Walk(c, v)] = x /\ \A p \in Phys : p # Walk(c, v) => mem'[p] = mem[p]
    BY <1>1, <1>3 DEF TypeOK
<1>6. \A s, w : Walk(s, w)' = Walk(s, w)
    BY <1>1, SameTables
<1>7. ASSUME NEW s \in Live, NEW w \in UserPage, Walk(s, w) = Walk(c, v) PROVE s = c /\ w = v
  <2>1. CASE s = c
    BY <1>1, <1>3, <1>7, <2>1 DEF Frames
  <2>2. CASE s # c
    <3>1. s \in Proc /\ s \in Proc \ {c} /\ c \in Proc \ {s}
        BY <1>2, <2>2, LiveUsed
    <3>2. Walk(c, v) \notin pages[s] /\ Walk(s, w) \notin pages[c]
        BY <1>2, <1>3, <1>7, <3>1, WalkOwned
    <3>3. c = 1 /\ s = 1
        BY <1>1, <1>2, <1>3, <1>7, <3>2 DEF Frames
    <3>4. QED
        BY <2>2, <3>3
  <2>3. QED
    BY <2>1, <2>2
<1>8. ASSUME NEW s \in Proc, NEW w \in UserPage
      PROVE  Contents(s, w)' = IF s = c /\ w = v THEN x ELSE Contents(s, w)
  <2>1. CASE s \in Live /\ Walk(s, w) # 0
    <3>1. Walk(s, w) \in Phys
        BY <2>1, WalkOwned
    <3>2. s # dup.to /\ root[s] = "live"
        BY <1>1, <2>1, Roots DEF Live
    <3>3. CASE s = c /\ w = v
        BY <1>1, <1>5, <1>6, <2>1, <3>2, <3>3 DEF Contents
    <3>4. CASE ~(s = c /\ w = v)
      <4>1. mem'[Walk(s, w)] = mem[Walk(s, w)]
        BY <1>5, <1>7, <2>1, <3>1, <3>4
      <4>2. QED
        BY <1>1, <1>6, <2>1, <3>2, <3>4, <4>1 DEF Contents
    <3>5. QED
        BY <3>3, <3>4
  <2>2. CASE ~(s \in Live /\ Walk(s, w) # 0)
    BY <1>1, <1>2, <1>3, <1>6, <2>2 DEF Contents, Live
  <2>3. QED
    BY <2>1, <2>2
<1>9. Contents(c, v) # 0
  <2>1. Contents(c, v) = mem[Walk(c, v)]
    BY <1>2, <1>3, <1>4, AliveLive
  <2>2. mem[Walk(c, v)] \in Val
    BY <1>1, <1>3 DEF TypeOK
  <2>3. QED
    BY <2>1, <2>2, PagingAssumption
<1>10. QED
    BY <1>1, <1>2, <1>4, <1>8, <1>9, AbstractStore

\* The boot, the steps of duplicate_user_space, do_waitpid and a stop change
\* nothing a process can see.
LEMMA UnseenSteps ==
    ASSUME PagingInv
    PROVE  /\ ramdev_create_mapping => UNCHANGED Memory!pvars
           /\ \A c \in Proc : do_fork(c) \/ do_waitpid(c) => UNCHANGED Memory!pvars
           /\ \A v \in UserPage : DupCopy(v) => UNCHANGED Memory!pvars
           /\ Stop \/ UNCHANGED vars => UNCHANGED Memory!pvars
<1>1. ASSUME ramdev_create_mapping PROVE UNCHANGED Memory!pvars
  <2>1. UNCHANGED <<root, current, mem, dup>> /\ InUse = {}
    BY <1>1 DEF PagingInv, Layout, ramdev_create_mapping, InUse
  <2>2. Alive = {} /\ Alive' = {}
    BY <2>1 DEF Alive, InUse
  <2>3. QED
    BY <2>1, <2>2, Unseen
<1>2. ASSUME NEW c \in Proc, do_fork(c) PROVE UNCHANGED Memory!pvars
  <2>1. /\ TypeOK /\ Layout /\ Owners /\ dup.to = Sys /\ dup'.to = c /\ root[c] = "none"
        /\ UNCHANGED <<l2, heap, current, mem>>
        /\ root' = [root EXCEPT ![c] = "live"]
    BY <1>2 DEF PagingInv, do_fork, Running, NoDup
  <2>2. NewTable(c)
    BY <1>2, <2>1 DEF do_fork, NewTable
  <2>3. \A s \in Used, v \in UserPage : Walk(s, v)' = Walk(s, v)
    BY <2>2, NewTableWalk, FixmapApart
  <2>4. Alive' = Alive
    BY <2>1, Roots DEF Alive, TypeOK
  <2>5. QED
    BY <2>1, <2>3, <2>4, AliveLive, Unseen
<1>3. ASSUME NEW c \in Proc, do_waitpid(c) PROVE UNCHANGED Memory!pvars
  <2>1. Live' = Live /\ \A s \in Live, w \in UserPage : Walk(s, w)' = Walk(s, w)
    BY <1>3, WaitPaging
  <2>2. UNCHANGED <<current, mem, dup>>
    BY <1>3 DEF do_waitpid
  <2>3. Alive' = Alive
    BY <2>1, <2>2 DEF Alive, Live
  <2>4. QED
    BY <2>1, <2>2, <2>3, AliveLive, Unseen
<1>4. ASSUME NEW v \in UserPage, DupCopy(v) PROVE UNCHANGED Memory!pvars
  <2>1. /\ \A s \in Used \ {dup.to}, w \in UserPage : Walk(s, w)' = Walk(s, w)
        /\ \A s \in Live \ {dup.to}, w \in UserPage :
               Walk(s, w) # 0 => mem'[Walk(s, w)] = mem[Walk(s, w)]
    BY <1>4, DupCopyPaging
  <2>2. UNCHANGED <<root, current>> /\ dup'.to = dup.to
    BY <1>4 DEF DupCopy, PagingInv, TypeOK
  <2>3. Alive' = Alive
    BY <2>2 DEF Alive
  <2>4. QED
    BY <2>1, <2>2, <2>3, AliveLive, Unseen
<1>5. ASSUME Stop \/ UNCHANGED vars PROVE UNCHANGED Memory!pvars
  <2>1. UNCHANGED <<l1, l2, root, current, mem, dup>>
    BY <1>5 DEF Stop, vars
  <2>2. Alive' = Alive
    BY <2>1 DEF Alive
  <2>3. QED
    BY <2>1, <2>2, SameTables, Unseen
<1>6. QED
    BY <1>1, <1>2, <1>3, <1>4, <1>5

\* Every step of the page tables is a step of PrivateMemory, or none.
LEMMA StepRefines ==
    ASSUME PagingInv, [Next]_vars
    PROVE  [Memory!Next]_(Memory!pvars)
<1>1. CASE ramdev_create_mapping
    BY <1>1, UnseenSteps
<1>2. CASE create_root_process
    BY <1>2, CreateRefines
<1>3. CASE MapImage
    BY <1>3, ImageRefines
<1>4. ASSUME NEW t \in Proc, NEW v \in UserPage, allocate_page(t, v)
      PROVE  [Memory!Next]_(Memory!pvars)
  <2>1. CASE Stop
    BY <2>1, UnseenSteps
  <2>2. CASE ~Stop
    <3>1. PICK f \in free : \E new \in Placements(NeedTable(l1[t], v, f, 1)) :
             /\ create_mapping(t, l1[t], v, f, 1, new)
             /\ pages' = [pages EXCEPT ![t] = @ \cup {f}]
             /\ free' = free \ {f}
             /\ UNCHANGED <<root, current, mem, dup, halted>>
        BY <1>4, <2>2 DEF allocate_page
    <3>2. Running /\ SetUp(t) /\ NextPage(t, v)
        BY <1>4 DEF allocate_page
    <3>3. Memory!Next
        BY <3>1, <3>2, AllocateRefines
    <3>4. QED
        BY <3>3
  <2>3. QED
    BY <2>1, <2>2
<1>5. ASSUME NEW c \in Proc, do_fork(c) PROVE [Memory!Next]_(Memory!pvars)
    BY <1>5, UnseenSteps
<1>6. ASSUME NEW i \in L1Idx, DupTable(i) PROVE [Memory!Next]_(Memory!pvars)
  <2>1. CASE Stop
    BY <2>1, UnseenSteps
  <2>2. CASE ~Stop
    <3>1. \A s \in Used, w \in Page : Walk(s, w)' = Walk(s, w)
        BY <1>6, <2>2, DupTablePaging DEF DupTable
    <3>2. UNCHANGED <<root, current, mem, dup>>
        BY <1>6, <2>2 DEF DupTable
    <3>3. Alive' = Alive
        BY <3>2 DEF Alive
    <3>4. UNCHANGED Memory!pvars
        BY <3>1, <3>2, <3>3, AliveLive, FixmapApart, Unseen
    <3>5. QED
        BY <3>4
  <2>3. QED
    BY <2>1, <2>2
<1>7. ASSUME NEW v \in UserPage, DupFrame(v) PROVE [Memory!Next]_(Memory!pvars)
  <2>1. CASE Stop
    BY <2>1, UnseenSteps
  <2>2. CASE ~Stop
    <3>1. \A s \in Used, w \in UserPage : Walk(s, w)' = Walk(s, w)
        BY <1>7, <2>2, DupFramePaging DEF DupFrame
    <3>2. UNCHANGED <<root, current, mem>> /\ dup'.to = dup.to
        BY <1>7, <2>2 DEF DupFrame, PagingInv, TypeOK
    <3>3. Alive' = Alive
        BY <3>2 DEF Alive
    <3>4. UNCHANGED Memory!pvars
        BY <3>1, <3>2, <3>3, AliveLive, Unseen
    <3>5. QED
        BY <3>4
  <2>3. QED
    BY <2>1, <2>2
<1>8. ASSUME NEW v \in UserPage, DupCopy(v) PROVE [Memory!Next]_(Memory!pvars)
    BY <1>8, UnseenSteps
<1>9. CASE DupEnd
    BY <1>9, DupEndRefines
<1>10. CASE DropImage
    BY <1>10, DropRefines
<1>11. CASE do_exit
    BY <1>11, ExitRefines
<1>12. ASSUME NEW c \in Proc, do_waitpid(c) PROVE [Memory!Next]_(Memory!pvars)
    BY <1>12, UnseenSteps
<1>13. ASSUME NEW c \in Proc, mmu_switch(c) PROVE [Memory!Next]_(Memory!pvars)
    BY <1>13, SwitchRefines
<1>14. ASSUME NEW v \in UserPage, NEW x \in Val, UserStore(v, x)
       PROVE  [Memory!Next]_(Memory!pvars)
    BY <1>14, StoreRefines
<1>15. CASE Halted \/ UNCHANGED vars
    BY <1>15, UnseenSteps DEF Halted
<1>16. QED
    BY <1>1, <1>2, <1>3, <1>4, <1>5, <1>6, <1>7, <1>8, <1>9, <1>10, <1>11, <1>12, <1>13, <1>14,
       <1>15 DEF Next

\* Two-level tables, shared kernel entries, frames, Fixmap and the processor's
\* translations give every process a memory that nobody else reads or writes,
\* and fork, page by page, a copy of its parent's: the specification of
\* arch/arm32/mmu.c and kernel/process.c implements PrivateMemory.
THEOREM MemoryIsPrivate == Spec => PrivateToEach
<1>1. Init => Memory!Init
  <2>1. SUFFICES ASSUME Init PROVE Memory!Init
    OBVIOUS
  <2>2. Alive = {} /\ current = 0
    BY <2>1 DEF Init, Alive, Sys
  <2>3. Space = [p \in Proc |-> [v \in UserPage |-> 0]]
    BY <2>1 DEF Init, Space, Contents
  <2>4. QED
    BY <2>2, <2>3 DEF Memory!Init, Memory!NoPages, Alive, Space, Contents
<1>2. PagingInv /\ [Next]_vars => [Memory!Next]_(Memory!pvars)
    BY StepRefines
<1>3. QED
    BY <1>1, <1>2, PagingInvariant, PTL DEF Spec, PrivateToEach, Memory!Spec
=============================================================================
