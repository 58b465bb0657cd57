-------------------------- MODULE PageTableProofs --------------------------
(***************************************************************************)
(* Proofs about PageTable and FlatTable, for every depth and width of the  *)
(* tree and every set of pages that the indices can tell apart.            *)
(***************************************************************************)
EXTENDS FlatTable, PteProofs

-----------------------------------------------------------------------------
(* Paths                                                                   *)

\* A field above a field is one shift of the two.
LEMMA DivDiv ==
  ASSUME NEW a \in Nat, NEW w \in Nat \ {0}, NEW s \in Nat \ {0}
  PROVE  (a \div s) \div w = a \div (w * s)
<1> DEFINE q == a \div s
           r == a % s
           top == q \div w
           low == q % w
           ws == w * s
<1>1. q \in Nat /\ r \in 0 .. s - 1 /\ a = q * s + r
  BY DigitsOf
<1>2. top \in Nat /\ low \in 0 .. w - 1 /\ q = top * w + low
  BY <1>1, DigitsOf
<1>3. ws \in Nat \ {0}
  OBVIOUS
<1> HIDE DEF q, r, top, low
<1>4. low * s + r \in 0 .. ws - 1
  BY <1>1, <1>2, DigitsFit
<1>5. a = top * ws + (low * s + r)
  BY <1>1, <1>2
<1> HIDE DEF ws
<1>6. a \div ws = top
  BY <1>2, <1>3, <1>4, <1>5, DigitsMade
<1> QED  BY <1>6 DEF top, q, ws

\* The indices of a page number are a path.
LEMMA PathType ==
  ASSUME NEW g \in Nat
  PROVE  Path(g) \in Paths(LEVELS)
<1>1. \A l \in 1 .. LEVELS : (g \div SPAN[l]) % WIDTH \in Index
  <2> SUFFICES ASSUME NEW l \in 1 .. LEVELS  PROVE (g \div SPAN[l]) % WIDTH \in Index
    OBVIOUS
  <2>1. g \div SPAN[l] \in Nat
    BY LevelsAssumption, DigitsOf
  <2> QED  BY <2>1, LevelsAssumption, DigitsOf DEF Index
<1> QED  BY <1>1 DEF Path, Paths

\* No two pages have the same path: the indices keep every bit of the number.
LEMMA PathInjective ==
  ASSUME NEW g \in Page, NEW h \in Page, Path(g) = Path(h)
  PROVE  g = h
<1>1. /\ g \in Nat /\ h \in Nat
      /\ g < WIDTH * SPAN[1] /\ h < WIDTH * SPAN[1]
  <2>1. SPAN[1] \in Nat /\ WIDTH \in Nat
    BY LevelsAssumption
  <2>2. WIDTH * SPAN[1] \in Nat
    BY <2>1
  <2> QED  BY <2>2, PageAssumption
<1>2. \A l \in 1 .. LEVELS : /\ g \div SPAN[l] \in Nat /\ h \div SPAN[l] \in Nat
                             /\ (g \div SPAN[l]) % WIDTH = (h \div SPAN[l]) % WIDTH
  <2> SUFFICES ASSUME NEW l \in 1 .. LEVELS
               PROVE  /\ g \div SPAN[l] \in Nat /\ h \div SPAN[l] \in Nat
                      /\ (g \div SPAN[l]) % WIDTH = (h \div SPAN[l]) % WIDTH
    OBVIOUS
  <2>1. Path(g)[l] = Path(h)[l]
    OBVIOUS
  <2> QED  BY <1>1, <2>1, LevelsAssumption, DigitsOf DEF Path
<1> DEFINE Apart == {l \in 1 .. LEVELS : g \div SPAN[l] # h \div SPAN[l]}
<1>3. Apart = {}
  <2> SUFFICES ASSUME Apart # {}  PROVE FALSE
    OBVIOUS
  <2>1. Apart \in SUBSET Nat
    BY LevelsAssumption
  <2>2. PICK l \in Apart : \A k \in Apart : l <= k
    BY <2>1, NatMinimum
  <2>3. l \in 1 .. LEVELS /\ LEVELS \in Nat /\ SPAN[l] \in Nat \ {0} /\ WIDTH \in Nat \ {0}
    BY LevelsAssumption
  <2>4. (g \div SPAN[l]) \div WIDTH = (h \div SPAN[l]) \div WIDTH
    <3>1. CASE l = 1
      <4> DEFINE ws == WIDTH * SPAN[1]
      <4>1. ws \in Nat \ {0} /\ g < ws /\ h < ws
        BY <1>1, <2>3, <3>1
      <4>2. (g \div SPAN[l]) \div WIDTH = g \div ws /\ (h \div SPAN[l]) \div WIDTH = h \div ws
        BY <1>1, <2>3, <3>1, DivDiv
      <4> HIDE DEF ws
      <4>3. g \div ws = 0 /\ h \div ws = 0
        BY <1>1, <4>1
      <4> QED  BY <4>2, <4>3
    <3>2. CASE l # 1
      <4>1. l - 1 \in 1 .. LEVELS - 1 /\ l - 1 \in 1 .. LEVELS /\ (l - 1) + 1 = l
        BY <2>3, <3>2
      <4>2. l - 1 \notin Apart
        BY <2>2, <2>3
      <4>3. g \div SPAN[l - 1] = h \div SPAN[l - 1]
        BY <4>1, <4>2
      <4>4. SPAN[l - 1] = WIDTH * SPAN[l]
        BY <4>1, LevelsAssumption
      <4> QED  BY <1>1, <2>3, <4>3, <4>4, DivDiv
    <3> QED  BY <3>1, <3>2
  <2> DEFINE a == g \div SPAN[l]
             b == h \div SPAN[l]
  <2>5. a \in Nat /\ b \in Nat /\ a % WIDTH = b % WIDTH /\ a \div WIDTH = b \div WIDTH /\ a # b
    BY <1>2, <2>2, <2>4
  <2> HIDE DEF a, b
  <2>6. /\ a = (a \div WIDTH) * WIDTH + (a % WIDTH)
        /\ b = (b \div WIDTH) * WIDTH + (b % WIDTH)
    BY <2>3, <2>5, DigitsOf
  <2> QED  BY <2>5, <2>6
<1>4. g \div SPAN[LEVELS] = h \div SPAN[LEVELS] /\ SPAN[LEVELS] = 1
  <2>1. LEVELS \in 1 .. LEVELS /\ SPAN[LEVELS] = 1
    BY LevelsAssumption
  <2> QED  BY <1>3, <2>1
<1> QED  BY <1>1, <1>4

\* The tables on the way to an entry: the one of level n + 1 has a path of n
\* indices, the first n of the entry's.
LEMMA TableOnFacts ==
  ASSUME NEW k \in Nat, NEW x \in Paths(k), NEW n \in 1 .. k
  PROVE  /\ Len(x) = k
         /\ TableOn(x, n) \in Paths(n) /\ Len(TableOn(x, n)) = n
         /\ \A i \in 1 .. n : TableOn(x, n)[i] = x[i]
<1>1. x \in Seq(Index) /\ Len(x) = k
  BY DEF Paths
<1>2. TableOn(x, n) = [i \in 1 .. n |-> x[i]]
  BY <1>1 DEF TableOn
<1>3. TableOn(x, n) \in Paths(n)
  BY <1>2 DEF Paths
<1> QED  BY <1>1, <1>2, <1>3 DEF Paths

\* The beginning of a beginning.
LEMMA TableOnTwice ==
  ASSUME NEW k \in Nat, NEW x \in Paths(k), NEW n \in 1 .. k, NEW m \in 1 .. n
  PROVE  TableOn(TableOn(x, n), m) = TableOn(x, m)
<1>1. TableOn(x, n) \in Paths(n) /\ n \in Nat /\ m \in 1 .. k
  BY TableOnFacts
<1>2. /\ TableOn(TableOn(x, n), m) \in Paths(m) /\ TableOn(x, m) \in Paths(m)
      /\ \A i \in 1 .. m : TableOn(TableOn(x, n), m)[i] = TableOn(x, m)[i]
  <2>1. /\ TableOn(TableOn(x, n), m) \in Paths(m)
        /\ \A i \in 1 .. m : TableOn(TableOn(x, n), m)[i] = TableOn(x, n)[i]
    BY <1>1, TableOnFacts
  <2>2. /\ TableOn(x, m) \in Paths(m)
        /\ \A i \in 1 .. m : TableOn(x, m)[i] = x[i]
    BY <1>1, TableOnFacts
  <2>3. \A i \in 1 .. m : i \in 1 .. n /\ TableOn(x, n)[i] = x[i]
    BY TableOnFacts
  <2> QED  BY <2>1, <2>2, <2>3
<1> QED  BY <1>2 DEF Paths

-----------------------------------------------------------------------------
(* The tree                                                                *)

TreeInv == TypeOK /\ TreeClosed

\* Every operation finds a path for its page.
LEMMA PagePath ==
  ASSUME NEW g \in Page
  PROVE  Path(g) \in Paths(LEVELS)
<1>1. g \in Nat
  <2>1. SPAN[1] \in Nat /\ WIDTH \in Nat
    BY LevelsAssumption
  <2>2. WIDTH * SPAN[1] \in Nat
    BY <2>1
  <2> QED  BY <2>2, PageAssumption
<1> QED  BY <1>1, PathType

\* Nothing is kept below a missing table: neither a table ...
LEMMA NoneBelowMissing ==
  ASSUME TreeInv, NEW path \in Paths(LEVELS), NEW m \in TablesMade(path),
         NEW t \in tables
  PROVE  ~Below(m, t)
<1> SUFFICES ASSUME Below(m, t)  PROVE FALSE
  OBVIOUS
<1>1. PICK n \in 1 .. LEVELS - 1 : m = TableOn(path, n)
  BY DEF TablesMade, OnTheWay
<1>2. Len(m) = n /\ m \notin tables
  BY <1>1, LevelsAssumption, TableOnFacts DEF TablesMade
<1>3. PICK k \in 1 .. LEVELS - 1 : t \in Paths(k)
  BY DEF TreeInv, TypeOK
<1>4. Len(t) = k /\ k \in Nat
  BY <1>3, LevelsAssumption DEF Paths
<1>5. n <= k /\ SubSeq(t, 1, n) = m
  BY <1>2, <1>4 DEF Below
<1>6. CASE n = k
  <2>1. m = TableOn(t, k)
    BY <1>5, <1>6 DEF TableOn
  <2>2. m \in Paths(k) /\ \A i \in 1 .. k : m[i] = t[i]
    BY <1>3, <1>4, <2>1, TableOnFacts
  <2>3. m = t
    BY <1>3, <2>2 DEF Paths
  <2> QED  BY <1>2, <2>3
<1>7. CASE n < k
  <2>1. n \in 1 .. Len(t) - 1
    BY <1>4, <1>7
  <2> QED  BY <1>2, <1>5, <2>1 DEF TreeInv, TreeClosed
<1> QED  BY <1>4, <1>5, <1>6, <1>7

\* ... nor an entry, so that a table created later uncovers nothing.
LEMMA UncoveredIs ==
  ASSUME TreeInv, NEW pgn \in Page, NEW x \in Paths(LEVELS)
  PROVE  Uncovered(pgn, x) = entry[x]
<1>1. ASSUME NEW m \in TablesMade(Path(pgn)), Below(m, x)
      PROVE  entry[x] = NoPte
  <2>1. PICK n \in 1 .. LEVELS - 1 : m = TableOn(Path(pgn), n)
    BY DEF TablesMade, OnTheWay
  <2>2. Len(m) = n /\ m \notin tables
    BY <2>1, PagePath, LevelsAssumption, TableOnFacts DEF TablesMade
  <2>3. m = TableOn(x, n)
    BY <1>1, <2>2 DEF Below, TableOn
  <2>4. m \in OnTheWay(x)
    BY <2>3 DEF OnTheWay
  <2> QED  BY <2>2, <2>4 DEF TreeInv, TypeOK, TreeClosed
<1> QED  BY <1>1 DEF Uncovered

\* So an operation adds the tables of its page, and changes one entry.
LEMMA SetEntryIs ==
  ASSUME TreeInv, NEW pgn \in Page, NEW e, SetEntry(pgn, e)
  PROVE  /\ tables' = tables \cup OnTheWay(Path(pgn))
         /\ DOMAIN entry' = Paths(LEVELS)
         /\ \A x \in Paths(LEVELS) :
              entry'[x] = IF x = Path(pgn) THEN e ELSE entry[x]
<1>1. \A t \in tables : \A m \in TablesMade(Path(pgn)) : ~Below(m, t)
  BY PagePath, NoneBelowMissing
<1>2. DOMAIN entry = Paths(LEVELS)
  BY DEF TreeInv, TypeOK
<1>3. tables' = tables \cup OnTheWay(Path(pgn))
  BY <1>1 DEF SetEntry
<1>4. entry' = [x \in Paths(LEVELS) |->
                  IF x = Path(pgn) THEN e ELSE Uncovered(pgn, x)]
  BY <1>2 DEF SetEntry
<1>5. \A x \in Paths(LEVELS) : Uncovered(pgn, x) = entry[x]
  BY UncoveredIs
<1> QED  BY <1>3, <1>4, <1>5

\* It keeps the tree closed.
LEMMA SetEntryKeeps ==
  ASSUME TreeInv, NEW pgn \in Page, NEW e \in PTE, SetEntry(pgn, e)
  PROVE  TreeInv'
<1> DEFINE path == Path(pgn)
<1>1. path \in Paths(LEVELS)
  BY PagePath
<1>2. /\ tables' = tables \cup OnTheWay(path)
      /\ DOMAIN entry' = Paths(LEVELS)
      /\ \A x \in Paths(LEVELS) : entry'[x] = IF x = path THEN e ELSE entry[x]
  BY SetEntryIs
<1> HIDE DEF path
<1>3. ASSUME NEW n \in 1 .. LEVELS - 1
      PROVE  TableOn(path, n) \in Paths(n) /\ Len(TableOn(path, n)) = n
  BY <1>1, LevelsAssumption, TableOnFacts
<1>4. OnTheWay(path) \subseteq UNION {Paths(n) : n \in 1 .. LEVELS - 1}
  BY <1>3 DEF OnTheWay
<1>5. entry' \in [Paths(LEVELS) -> PTE]
  <2>1. entry' = [x \in Paths(LEVELS) |-> IF x = path THEN e ELSE entry[x]]
    <3>1. entry' = [x \in Paths(LEVELS) |-> entry'[x]]
      BY <1>2 DEF SetEntry
    <3> QED  BY <1>2, <3>1
  <2> QED  BY <2>1 DEF TreeInv, TypeOK
<1>6. TypeOK'
  BY <1>2, <1>4, <1>5 DEF TreeInv, TypeOK
<1>7. ASSUME NEW t \in tables', NEW n \in 1 .. Len(t) - 1
      PROVE  SubSeq(t, 1, n) \in tables'
  <2>1. CASE t \in tables
    BY <1>2, <2>1 DEF TreeInv, TreeClosed
  <2>2. CASE t \in OnTheWay(path)
    <3>1. PICK k \in 1 .. LEVELS - 1 : t = TableOn(path, k)
      BY <2>2 DEF OnTheWay
    <3>2. /\ Len(t) = k /\ k \in 1 .. LEVELS /\ n \in 1 .. LEVELS - 1 /\ n \in 1 .. k
          /\ LEVELS \in Nat
      BY <1>3, <3>1, LevelsAssumption
    <3>3. TableOn(t, n) = TableOn(path, n)
      BY <1>1, <3>1, <3>2, TableOnTwice
    <3>4. TableOn(path, n) \in OnTheWay(path)
      BY <3>2 DEF OnTheWay
    <3> QED  BY <1>2, <3>3, <3>4 DEF TableOn
  <2> QED  BY <1>2, <2>1, <2>2
<1>8. ASSUME NEW x \in DOMAIN entry'
      PROVE  OnTheWay(x) \subseteq tables' \/ entry'[x] = NoPte
  <2>1. CASE x = path
    BY <1>2, <2>1
  <2>2. CASE x # path
    BY <1>2, <2>2 DEF TreeInv, TypeOK, TreeClosed
  <2> QED  BY <2>1, <2>2
<1> QED  BY <1>6, <1>7, <1>8 DEF TreeInv, TreeClosed

\* What the three operations do to the page that they are called with.
LEMMA Operations ==
  ASSUME TreeInv, NEW pgn \in Page
  PROVE  /\ OldEntry(pgn) = entry[Path(pgn)] /\ OldEntry(pgn) \in PTE
         /\ GetEntry(pgn) = entry[Path(pgn)]
         /\ \A fpn \in Fpn : WithFpn(OldEntry(pgn), fpn) \in PTE
         /\ \A typ \in SwpTyp, off \in Swp : WithSwap(OldEntry(pgn), typ, off) \in PTE
         /\ Pattern \in PTE
<1>1. Path(pgn) \in Paths(LEVELS)
  BY PagePath
<1>2. OldEntry(pgn) = entry[Path(pgn)]
  BY <1>1, UncoveredIs DEF OldEntry
<1>3. OldEntry(pgn) \in PTE
  BY <1>1, <1>2 DEF TreeInv, TypeOK
<1>4. GetEntry(pgn) = entry[Path(pgn)]
  BY <1>1 DEF GetEntry, TreeInv, TypeOK, TreeClosed
<1>5. Pattern \in PTE
  BY FitAssumption DEF Pattern, PTE
<1>6. \A fpn \in Fpn : WithFpn(OldEntry(pgn), fpn) \in PTE
  BY <1>3, FieldAssumption, PteFpn
<1>7. \A typ \in SwpTyp, off \in Swp : WithSwap(OldEntry(pgn), typ, off) \in PTE
  BY FieldAssumption, PteSwap
<1> QED  BY <1>2, <1>3, <1>4, <1>5, <1>6, <1>7

\* init_mm leaves a closed tree.
LEMMA InitTree == Init => TreeInv
<1> SUFFICES ASSUME Init  PROVE TreeInv
  OBVIOUS
<1> DEFINE path == Path(0)
<1>1. path \in Paths(LEVELS)
  BY PathType
<1> HIDE DEF path
<1>2. tables = OnTheWay(path) /\ entry = [x \in Paths(LEVELS) |-> NoPte]
  BY DEF Init, path
<1>3. ASSUME NEW n \in 1 .. LEVELS - 1
      PROVE  TableOn(path, n) \in Paths(n) /\ Len(TableOn(path, n)) = n
  BY <1>1, LevelsAssumption, TableOnFacts
<1>4. OnTheWay(path) \subseteq UNION {Paths(n) : n \in 1 .. LEVELS - 1}
  BY <1>3 DEF OnTheWay
<1>5. NoPte \in PTE
  <2>1. 0 \in Low
    <3>1. SWPTYP_SPAN * SWPOFF_SPAN \in Nat /\ PATTERN_LOW \in 0 .. SWPTYP_SPAN * SWPOFF_SPAN - 1
      BY SpanFacts, FitAssumption DEF Low
    <3> QED  BY <3>1 DEF Low
  <2> QED  BY <2>1 DEF NoPte, PTE
<1>6. ASSUME NEW t \in tables, NEW n \in 1 .. Len(t) - 1
      PROVE  SubSeq(t, 1, n) \in tables
  <2>1. PICK k \in 1 .. LEVELS - 1 : t = TableOn(path, k)
    BY <1>2 DEF OnTheWay
  <2>2. /\ Len(t) = k /\ k \in 1 .. LEVELS /\ n \in 1 .. LEVELS - 1 /\ n \in 1 .. k
        /\ LEVELS \in Nat
    BY <1>3, <2>1, LevelsAssumption
  <2>3. TableOn(t, n) = TableOn(path, n)
    BY <1>1, <2>1, <2>2, TableOnTwice
  <2> QED  BY <1>2, <2>2, <2>3 DEF TableOn, OnTheWay
<1> QED  BY <1>2, <1>4, <1>5, <1>6 DEF TreeInv, TypeOK, TreeClosed

\* An operation keeps the tree closed.
LEMMA NextTree == TreeInv /\ [Next]_vars => TreeInv'
<1> SUFFICES ASSUME TreeInv, [Next]_vars  PROVE TreeInv'
  OBVIOUS
<1>1. ASSUME NEW pgn \in Page, NEW fpn \in Fpn, SetFpn(pgn, fpn)
      PROVE  TreeInv'
  BY <1>1, Operations, SetEntryKeeps DEF SetFpn
<1>2. ASSUME NEW pgn \in Page, NEW typ \in SwpTyp, NEW off \in Swp, SetSwap(pgn, typ, off)
      PROVE  TreeInv'
  BY <1>2, Operations, SetEntryKeeps DEF SetSwap
<1>3. ASSUME NEW pgn \in Page, SetPattern(pgn)
      PROVE  TreeInv'
  BY <1>3, Operations, SetEntryKeeps DEF SetPattern
<1>4. CASE UNCHANGED vars
  BY <1>4 DEF vars, TreeInv, TypeOK, TreeClosed
<1> QED  BY <1>1, <1>2, <1>3, <1>4 DEF Next

\* The tree of tables keeps its type, however the operations follow each other.
THEOREM TreeTypes == Spec => []TypeOK
<1>1. TreeInv => TypeOK
  BY DEF TreeInv
<1> QED  BY <1>1, InitTree, NextTree, PTL DEF Spec

\* It stays closed: get_next_level_table64 and get_next_level_table32 never
\* create a table above entries that were set before.
THEOREM TreeClosedAlways == Spec => []TreeClosed
<1>1. TreeInv => TreeClosed
  BY DEF TreeInv
<1> QED  BY <1>1, InitTree, NextTree, PTL DEF Spec

-----------------------------------------------------------------------------
(* The map that the tree is                                                *)

\* An operation changes what pte_get_entry returns for its page, and for no other.
LEMMA OneEntryMoves ==
  ASSUME TreeInv, NEW pgn \in Page, NEW e \in PTE, SetEntry(pgn, e)
  PROVE  \A g \in Page : GetEntry(g)' = IF g = pgn THEN e ELSE GetEntry(g)
<1> SUFFICES ASSUME NEW g \in Page
             PROVE  GetEntry(g)' = IF g = pgn THEN e ELSE GetEntry(g)
  OBVIOUS
<1>1. Path(g) \in Paths(LEVELS) /\ Path(pgn) \in Paths(LEVELS)
  BY PagePath
<1>2. GetEntry(g)' = entry'[Path(g)]
  <2>1. TreeInv'
    BY SetEntryKeeps
  <2> QED  BY <1>1, <2>1 DEF GetEntry, TreeInv, TypeOK, TreeClosed
<1>3. entry'[Path(g)] = IF Path(g) = Path(pgn) THEN e ELSE entry[Path(g)]
  BY <1>1, SetEntryIs
<1>4. GetEntry(g) = entry[Path(g)]
  BY Operations
<1>5. Path(g) = Path(pgn) <=> g = pgn
  BY PathInjective
<1> QED  BY <1>2, <1>3, <1>4, <1>5

\* No operation, no change.
LEMMA EntriesStay ==
  ASSUME UNCHANGED vars, NEW g \in Page
  PROVE  GetEntry(g)' = GetEntry(g)
BY DEF vars, GetEntry

\* The places of the pages, as the tree has them.
TreePlaces == [g \in Page |-> Place(GetEntry(g))]

\* Where a page is after the frame or the swap offset was stored in its entry.
LEMMA PlaceSet ==
  /\ Place(NoPte) = <<"nowhere", 0>>
  /\ Place(Pattern) = <<"swap", PAGING_SWP(Pattern)>>
  /\ \A e \in PTE, fpn \in Nat : Place(WithFpn(e, fpn)) = <<"ram", fpn % FPN_SPAN>>
  /\ \A typ \in Nat, off \in Nat :
       \A e : Place(WithSwap(e, typ, off)) = <<"swap", off % SWPOFF_SPAN>>
<1>1. Place(NoPte) = <<"nowhere", 0>>
  BY DEF Place, NoPte
<1>2. Place(Pattern) = <<"swap", PAGING_SWP(Pattern)>>
  <2>1. Pattern.swapped
    BY DEF Pattern
  <2> QED  BY <2>1 DEF Place
<1>3. ASSUME NEW e \in PTE, NEW fpn \in Nat
      PROVE  Place(WithFpn(e, fpn)) = <<"ram", fpn % FPN_SPAN>>
  BY PteFpn DEF Place
<1>4. ASSUME NEW typ \in Nat, NEW off \in Nat, NEW e
      PROVE  Place(WithSwap(e, typ, off)) = <<"swap", off % SWPOFF_SPAN>>
  BY PteSwap DEF Place
<1> QED  BY <1>1, <1>2, <1>3, <1>4

\* An operation moves one page in the map.
LEMMA TreeMoves ==
  ASSUME TreeInv, NEW pgn \in Page, NEW e \in PTE, SetEntry(pgn, e)
  PROVE  TreePlaces' = [TreePlaces EXCEPT ![pgn] = Place(e)]
<1>1. \A g \in Page : GetEntry(g)' = IF g = pgn THEN e ELSE GetEntry(g)
  BY OneEntryMoves
<1>2. \A g \in Page :
        Place(GetEntry(g))' = IF g = pgn THEN Place(e) ELSE Place(GetEntry(g))
  BY <1>1
<1> QED  BY <1>2 DEF TreePlaces

\* As long as the callers pass frame numbers and swap offsets that fit the fields,
\* the tree implements the map from pages to places: what was set for one page is
\* read back, and no other page moves.
THEOREM ImplementsMap ==
  ASSUME Fpn \subseteq 0 .. FPN_SPAN - 1, Swp \subseteq 0 .. SWPOFF_SPAN - 1
  PROVE  Spec => MapSpec
<1> DEFINE AllSwp == Swp \cup {PAGING_SWP(Pattern)}
<1>1. Init => Map!Init
  <2> SUFFICES ASSUME Init  PROVE Map!Init
    OBVIOUS
  <2>1. TreeInv
    BY InitTree
  <2>2. \A g \in Page : GetEntry(g) = NoPte
    <3> SUFFICES ASSUME NEW g \in Page  PROVE GetEntry(g) = NoPte
      OBVIOUS
    <3>1. Path(g) \in Paths(LEVELS) /\ GetEntry(g) = entry[Path(g)]
      BY <2>1, PagePath, Operations
    <3> QED  BY <3>1 DEF Init
  <2>3. \A g \in Page : Place(GetEntry(g)) = <<"nowhere", 0>>
    BY <2>2, PlaceSet
  <2> QED  BY <2>3 DEF Map!Init, Map!Nowhere
<1>2. ASSUME TreeInv, [Next]_vars
      PROVE  [Map!Next]_TreePlaces
  <2>1. ASSUME NEW pgn \in Page, NEW fpn \in Fpn, SetFpn(pgn, fpn)
        PROVE  Map!Next
    <3> DEFINE e == WithFpn(OldEntry(pgn), fpn)
    <3>1. fpn \in Nat /\ fpn % FPN_SPAN = fpn
      BY SpanFacts
    <3>2. e \in PTE /\ Place(e) = <<"ram", fpn>>
      BY <1>2, <3>1, Operations, PlaceSet
    <3>3. SetEntry(pgn, e)
      BY <2>1 DEF SetFpn
    <3> HIDE DEF e
    <3>4. TreePlaces' = [TreePlaces EXCEPT ![pgn] = Place(e)]
      BY <1>2, <3>2, <3>3, TreeMoves
    <3> QED  BY <3>2, <3>4 DEF Map!Next, Map!Move, Map!InRam, TreePlaces
  <2>2. ASSUME NEW pgn \in Page, NEW typ \in SwpTyp, NEW off \in Swp, SetSwap(pgn, typ, off)
        PROVE  Map!Next
    <3> DEFINE e == WithSwap(OldEntry(pgn), typ, off)
    <3>1. off \in Nat /\ typ \in Nat /\ off % SWPOFF_SPAN = off
      BY SpanFacts, FieldAssumption
    <3>2. e \in PTE /\ Place(e) = <<"swap", off>>
      BY <1>2, <3>1, Operations, PlaceSet
    <3>3. SetEntry(pgn, e)
      BY <2>2 DEF SetSwap
    <3> HIDE DEF e
    <3>4. TreePlaces' = [TreePlaces EXCEPT ![pgn] = Place(e)]
      BY <1>2, <3>2, <3>3, TreeMoves
    <3>5. off \in AllSwp
      OBVIOUS
    <3> QED  BY <3>2, <3>4, <3>5 DEF Map!Next, Map!Move, Map!InSwap, TreePlaces
  <2>3. ASSUME NEW pgn \in Page, SetPattern(pgn)
        PROVE  Map!Next
    <3>1. Pattern \in PTE /\ Place(Pattern) = <<"swap", PAGING_SWP(Pattern)>>
      BY <1>2, Operations, PlaceSet
    <3>2. SetEntry(pgn, Pattern)
      BY <2>3 DEF SetPattern
    <3>3. TreePlaces' = [TreePlaces EXCEPT ![pgn] = Place(Pattern)]
      BY <1>2, <3>1, <3>2, TreeMoves
    <3>4. PAGING_SWP(Pattern) \in AllSwp
      OBVIOUS
    <3> QED  BY <3>1, <3>3, <3>4 DEF Map!Next, Map!Move, Map!InSwap, TreePlaces
  <2>4. CASE UNCHANGED vars
    <3>1. \A g \in Page : Place(GetEntry(g))' = Place(GetEntry(g))
      BY <2>4, EntriesStay
    <3> QED  BY <3>1 DEF TreePlaces
  <2> QED  BY <1>2, <2>1, <2>2, <2>3, <2>4 DEF Next
<1>3. TreeInv /\ [Next]_vars => [Map!Next]_TreePlaces
  BY <1>2
<1> QED  BY <1>1, <1>3, InitTree, NextTree, PTL
         DEF Spec, MapSpec, Map!Spec, TreePlaces

-----------------------------------------------------------------------------
(* The tree of mm64.c and the array of mm.c                                *)

\* The array has an entry for every page, and where it says that a page is, the
\* tree says so too, unless it has the pattern there.
BothInv ==
    /\ TreeInv
    /\ pgd \in [Page -> PTE]
    /\ SamePlace

\* The array is made of entries as well, and a swapped page is found in its
\* entries as it is in those of the tree.
LEMMA FlatSwapIs ==
  ASSUME NEW typ \in Nat, NEW off \in Nat
  PROVE  FlatSwap(typ, off) \in PTE /\ Place(FlatSwap(typ, off)) = <<"swap", off % SWPOFF_SPAN>>
<1> DEFINE w == WithSwap(NoPte, typ, off)
<1>1. w \in PTE /\ w.swapped /\ PAGING_SWP(w) = off % SWPOFF_SPAN
  BY PteSwap
<1>2. FlatSwap(typ, off) = [w EXCEPT !.present = TRUE]
  BY DEF FlatSwap
<1> HIDE DEF w
<1>3. FlatSwap(typ, off) \in PTE
  BY <1>1, <1>2 DEF PTE
<1>4. FlatSwap(typ, off).swapped /\ FlatSwap(typ, off).low = w.low
  BY <1>1, <1>2 DEF PTE
<1> QED  BY <1>1, <1>3, <1>4 DEF Place, PAGING_SWP

\* If a call puts the page at one place in both, both agree as before.
LEMMA BothMove ==
  ASSUME BothInv, NEW pgn \in Page, NEW e \in PTE, NEW f \in PTE, Place(e) = Place(f),
         SetEntry(pgn, e), pgd' = [pgd EXCEPT ![pgn] = f]
  PROVE  BothInv'
<1>1. TreeInv'
  BY SetEntryKeeps DEF BothInv
<1>2. pgd' \in [Page -> PTE]
  BY DEF BothInv
<1>3. \A g \in Page : GetEntry(g)' = IF g = pgn THEN e ELSE GetEntry(g)
  BY OneEntryMoves DEF BothInv
<1>4. \A g \in Page : pgd'[g] = IF g = pgn THEN f ELSE pgd[g]
  BY DEF BothInv
<1>5. SamePlace'
  <2> SUFFICES ASSUME NEW g \in Page
               PROVE  GetEntry(g)' = Pattern \/ Place(FlatGetEntry(g))' = Place(GetEntry(g))'
    BY DEF SamePlace
  <2>1. GetEntry(g) = Pattern \/ Place(pgd[g]) = Place(GetEntry(g))
    BY DEF BothInv, SamePlace, FlatGetEntry
  <2>2. FlatGetEntry(g)' = pgd'[g]
    BY DEF FlatGetEntry
  <2> QED  BY <1>3, <1>4, <2>1, <2>2
<1> QED  BY <1>1, <1>2, <1>5 DEF BothInv

\* BothInv is inductive.
LEMMA BothStep == BothInv /\ [BothNext]_<<vars, pgd>> => BothInv'
<1> SUFFICES ASSUME BothInv, [BothNext]_<<vars, pgd>>  PROVE BothInv'
  OBVIOUS
<1>1. TreeInv
  BY DEF BothInv
<1>2. ASSUME NEW pgn \in Page, NEW fpn \in Fpn, SetFpn(pgn, fpn), FlatSetFpn(pgn, fpn)
      PROVE  BothInv'
  <2> DEFINE e == WithFpn(OldEntry(pgn), fpn)
             f == WithFpn(pgd[pgn], fpn)
  <2>1. fpn \in Nat /\ OldEntry(pgn) \in PTE /\ pgd[pgn] \in PTE
    BY <1>1, FieldAssumption, Operations DEF BothInv
  <2>2. e \in PTE /\ f \in PTE
    BY <2>1, PteFpn
  <2>3. Place(e) = Place(f)
    BY <2>1, PlaceSet
  <2>4. SetEntry(pgn, e) /\ pgd' = [pgd EXCEPT ![pgn] = f]
    BY <1>2 DEF SetFpn, FlatSetFpn
  <2> HIDE DEF e, f
  <2> QED  BY <2>2, <2>3, <2>4, BothMove
<1>3. ASSUME NEW pgn \in Page, NEW typ \in SwpTyp, NEW off \in Swp,
             SetSwap(pgn, typ, off), FlatSetSwap(pgn, typ, off)
      PROVE  BothInv'
  <2> DEFINE e == WithSwap(OldEntry(pgn), typ, off)
             f == FlatSwap(typ, off)
  <2>1. typ \in Nat /\ off \in Nat
    BY FieldAssumption
  <2>2. e \in PTE /\ f \in PTE
    BY <1>1, <2>1, Operations, FlatSwapIs
  <2>3. Place(e) = Place(f)
    BY <2>1, PlaceSet, FlatSwapIs
  <2>4. SetEntry(pgn, e) /\ pgd' = [pgd EXCEPT ![pgn] = f]
    BY <1>3 DEF SetSwap, FlatSetSwap
  <2> HIDE DEF e, f
  <2> QED  BY <2>2, <2>3, <2>4, BothMove
<1>4. ASSUME NEW pgn \in Page, SetPattern(pgn), FlatSetPattern
      PROVE  BothInv'
  <2>1. Pattern \in PTE /\ SetEntry(pgn, Pattern) /\ pgd' = pgd
    BY <1>1, <1>4, Operations DEF SetPattern, FlatSetPattern
  <2>2. TreeInv'
    BY <1>1, <2>1, SetEntryKeeps
  <2>3. \A g \in Page : GetEntry(g)' = IF g = pgn THEN Pattern ELSE GetEntry(g)
    BY <1>1, <2>1, OneEntryMoves
  <2>4. \A g \in Page : FlatGetEntry(g)' = FlatGetEntry(g)
    BY <2>1 DEF FlatGetEntry
  <2>5. SamePlace'
    <3> SUFFICES ASSUME NEW g \in Page
                 PROVE  GetEntry(g)' = Pattern \/ Place(FlatGetEntry(g))' = Place(GetEntry(g))'
      BY DEF SamePlace
    <3>1. GetEntry(g) = Pattern \/ Place(FlatGetEntry(g)) = Place(GetEntry(g))
      BY DEF BothInv, SamePlace
    <3> QED  BY <2>3, <2>4, <3>1
  <2> QED  BY <2>1, <2>2, <2>5 DEF BothInv
<1>5. CASE UNCHANGED <<vars, pgd>>
  <2>1. UNCHANGED vars /\ pgd' = pgd
    BY <1>5
  <2>2. TreeInv'
    BY <1>1, <2>1, NextTree
  <2>3. \A g \in Page : GetEntry(g)' = GetEntry(g) /\ FlatGetEntry(g)' = FlatGetEntry(g)
    BY <2>1, EntriesStay DEF FlatGetEntry
  <2> QED  BY <2>1, <2>2, <2>3 DEF BothInv, SamePlace
<1> QED  BY <1>2, <1>3, <1>4, <1>5 DEF BothNext

\* After init_mm no page is anywhere, in either build.
LEMMA BothStart == FlatInit => BothInv
<1> SUFFICES ASSUME FlatInit  PROVE BothInv
  OBVIOUS
<1>1. TreeInv /\ pgd = [g \in Page |-> NoPte]
  BY InitTree DEF FlatInit
<1>2. ASSUME NEW g \in Page
      PROVE  GetEntry(g) = NoPte /\ pgd[g] = NoPte /\ NoPte \in PTE
  <2>1. Path(g) \in Paths(LEVELS) /\ GetEntry(g) = entry[Path(g)]
    BY <1>1, PagePath, Operations
  <2>2. entry[Path(g)] = NoPte /\ entry[Path(g)] \in PTE
    BY <1>1, <2>1 DEF FlatInit, Init, TreeInv, TypeOK
  <2> QED  BY <1>1, <2>1, <2>2
<1>3. pgd \in [Page -> PTE]
  BY <1>1, <1>2
<1> QED  BY <1>1, <1>2, <1>3 DEF BothInv, SamePlace, FlatGetEntry

\* The two builds send pg_getpage to the same place for every page, whatever was
\* set before, in whatever order, and also when numbers do not fit their fields,
\* unless MAP_OP was the last call for the page.
THEOREM SamePlaceAlways == BothSpec => []SamePlace
<1>1. BothInv => SamePlace
  BY DEF BothInv
<1> QED  BY <1>1, BothStart, BothStep, PTL DEF BothSpec

\* What is proved of the tree alone holds of the tree beside the array.
THEOREM BothAreTrees == BothSpec => Spec
<1>1. FlatInit => Init
  BY DEF FlatInit
<1>2. [BothNext]_<<vars, pgd>> => [Next]_vars
  <2>1. BothNext => Next
    BY DEF BothNext, Next
  <2> QED  BY <2>1
<1> QED  BY <1>1, <1>2, PTL DEF BothSpec, Spec
=============================================================================
