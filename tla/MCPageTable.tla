---------------------------- MODULE MCPageTable ----------------------------
EXTENDS PageTable

(***************************************************************************)
(* Places of the heap and frames are interchangeable: a state is           *)
(* characterised by what points to each of them.  Renamed states have the  *)
(* same view, so TLC explores one of them.                                 *)
(***************************************************************************)
PlaceView(id) ==
    <<id \in heap, {x \in Root \X L1Idx : l1[x[1]][x[2]].at = id}>>

FrameView(f, maps) ==
    <<mem[f], f \in free, {p \in Proc : f \in pages[p]},
      {m[1] : m \in {n \in maps : n[2] = f}},
      {v \in DOMAIN tlb : tlb[v] = f}, dup.frame = f>>

\* The values of a function, with how often it takes on each.
Counted(fn) == {<<fn[x], Cardinality({y \in DOMAIN fn : fn[y] = fn[x]})>> : x \in DOMAIN fn}

StateView ==
    LET maps == {<<x, Walk(x[1], x[2])>> : x \in Root \X (UserPage \cup {Fixmap})}
    IN  <<Counted([id \in L2Id |-> PlaceView(id)]),
          Counted([f \in Frame |-> FrameView(f, maps)]),
          [f \in Image |-> FrameView(f, maps)],
          {x \in Root \X L1Idx : l1[x[1]][x[2]].type = "sect"},
          root, current, dup.to, halted>>
=============================================================================
