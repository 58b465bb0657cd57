---------------------------- MODULE MemoryProofs ----------------------------
(***************************************************************************)
(* Proofs about Memory.                                                    *)
(***************************************************************************)
EXTENDS Memory, PteProofs

-----------------------------------------------------------------------------
(* Regions *)

Region == [rg_start : Nat, rg_end : Nat]

\* The regions that contain byte b.
Around(b) == {r \in Region : Holds(r, b)}

RegionTypeOK ==
    /\ symrgtbl \in [Proc -> [RgId -> Region]]
    /\ freerg \in [Proc -> Seq(Region)]
    /\ sbrk \in [Proc -> Nat] /\ grown \in [Proc -> Nat] /\ missed \in [Proc -> Nat]

\* 1 for TRUE
One(P) == IF P THEN 1 ELSE 0

\* What a region from a to c contains.
LEMMA RgFacts ==
  ASSUME NEW a \in Nat, NEW c \in Nat
  PROVE  /\ Rg(a, c) \in Region
         /\ \A b \in Nat :
              /\ Rg(a, c) \in Around(b) <=> a <= b /\ b < c
              /\ Holds(Rg(a, c), b) <=> a <= b /\ b < c
BY DEF Rg, Region, Around, Holds

\* The search of the free list finds a region with room.
LEMMA FirstFitFound ==
  ASSUME NEW list \in Seq(Region), NEW size \in Nat, FirstFit(list, size) # 0
  PROVE  /\ FirstFit(list, size) \in DOMAIN list
         /\ list[FirstFit(list, size)].rg_start + size <= list[FirstFit(list, size)].rg_end
<1> DEFINE Fit == {i \in 1 .. Len(list) : list[i].rg_start + size <= list[i].rg_end}
<1>1. Fit # {} /\ FirstFit(list, size) = Min(Fit)
  BY DEF FirstFit, SelectInSeq
<1>2. DOMAIN list = 1 .. Len(list) /\ Len(list) \in Nat /\ Fit \in SUBSET Nat
  BY LenProperties
<1>3. \E x \in Fit : \A y \in Fit : x <= y
  <2> HIDE DEF Fit
  <2> QED  BY <1>1, <1>2, NatMinimum
<1>4. Min(Fit) \in Fit
  <2> HIDE DEF Fit
  <2> QED  BY <1>3 DEF Min
<1> QED  BY <1>1, <1>2, <1>4

\* Cutting size bytes from the front of region i takes these bytes off the free
\* list, and no other byte, whether the region keeps a rest, is removed, or stays
\* empty at the end of the list.
LEMMA CarveTakes ==
  ASSUME NEW list \in Seq(Region), NEW i \in DOMAIN list, NEW size \in Nat \ {0},
         list[i].rg_start + size <= list[i].rg_end
  PROVE  /\ Carve(list, i, size) \in Seq(Region)
         /\ \A b \in Nat :
              Cardinality(Places(Carve(list, i, size), Around(b)))
                = Cardinality(Places(list, Around(b)))
                    - One(Holds(Rg(list[i].rg_start, list[i].rg_start + size), b))
<1> DEFINE s == list[i].rg_start
           e == list[i].rg_end
           cut == Rg(s, s + size)
<1>1. list[i] \in Region /\ i \in 1 .. Len(list)
      /\ DOMAIN list = 1 .. Len(list) /\ Len(list) \in Nat
  BY ElementOfSeq, LenProperties
<1>2. s \in Nat /\ e \in Nat /\ s + size <= e /\ list[i] = Rg(s, e)
  BY <1>1 DEF Region, Rg
<1>3. \A b \in Nat : Cardinality(Places(list, Around(b))) \in Nat
  BY PlacesFinite
<1>4. \A a, c, b \in Nat :
        /\ Rg(a, c) \in Region
        /\ Rg(a, c) \in Around(b) <=> a <= b /\ b < c
        /\ Holds(Rg(a, c), b) <=> a <= b /\ b < c
  BY RgFacts
<1> DEFINE new(a) == [list EXCEPT ![i].rg_start = a]
<1>5. ASSUME NEW a \in Nat
      PROVE  /\ new(a) \in Seq(Region) /\ DOMAIN new(a) = DOMAIN list /\ new(a)[i] = Rg(a, e)
             /\ \A j \in DOMAIN list : j # i => new(a)[j] = list[j]
  <2>1. [list[i] EXCEPT !.rg_start = a] = Rg(a, e)
    BY <1>2 DEF Rg
  <2>2. Rg(a, e) \in Region
    BY <1>2, <1>4
  <2>3. [list EXCEPT ![i] = Rg(a, e)] \in Seq(Region)
    BY <1>1, <2>2, ExceptSeq
  <2>4. new(a) = [list EXCEPT ![i] = Rg(a, e)]
    BY <2>1
  <2> QED  BY <1>1, <2>3, <2>4
<1>6. cut = Rg(s, s + size)
  OBVIOUS
<1>7. Carve(list, i, size) = IF s + size < e THEN new(s + size)
                             ELSE IF i < Len(list) THEN RemoveAt(list, i) ELSE new(e)
  BY DEF Carve
<1> HIDE DEF s, e, cut, new
<1> DEFINE Taken(q) ==
      /\ q \in Seq(Region)
      /\ \A b \in Nat : Cardinality(Places(q, Around(b)))
                           = Cardinality(Places(list, Around(b))) - One(Holds(cut, b))
<1>8. ASSUME NEW a \in Nat, a = s + size
      PROVE  Taken(new(a))
  <2> SUFFICES ASSUME NEW b \in Nat
               PROVE  Cardinality(Places(new(a), Around(b)))
                        = Cardinality(Places(list, Around(b))) - One(Holds(cut, b))
    BY <1>5
  <2>1. Cardinality(Places(new(a), Around(b)))
          = Cardinality(Places(list, Around(b)))
              - (IF list[i] \in Around(b) THEN 1 ELSE 0)
              + (IF new(a)[i] \in Around(b) THEN 1 ELSE 0)
    <3>1. /\ new(a) \in Seq(Region) /\ DOMAIN new(a) = DOMAIN list
          /\ \A j \in DOMAIN list : j # i => new(a)[j] = list[j]
      BY <1>5
    <3> QED  BY <3>1, PlacesReplace
  <2>2. /\ list[i] \in Around(b) <=> s <= b /\ b < e
        /\ new(a)[i] \in Around(b) <=> a <= b /\ b < e
        /\ Holds(cut, b) <=> s <= b /\ b < s + size
    BY <1>2, <1>4, <1>5, <1>6
  <2>3. Cardinality(Places(list, Around(b))) \in Nat /\ s <= a /\ a <= e
    BY <1>2, <1>3, <1>8
  <2>4. CASE Holds(cut, b)
    <3>1. list[i] \in Around(b) /\ new(a)[i] \notin Around(b)
      BY <1>2, <1>8, <2>2, <2>3, <2>4
    <3> QED  BY <2>1, <2>3, <2>4, <3>1 DEF One
  <2>5. CASE ~Holds(cut, b)
    <3>1. list[i] \in Around(b) <=> new(a)[i] \in Around(b)
      BY <1>2, <1>8, <2>2, <2>3, <2>5
    <3> QED  BY <2>1, <2>3, <2>5, <3>1 DEF One
  <2> QED  BY <2>4, <2>5
<1>9. s + size < e => Taken(Carve(list, i, size))
  BY <1>2, <1>7, <1>8
<1>10. ASSUME ~(s + size < e), i < Len(list)
       PROVE  Taken(Carve(list, i, size))
  <2>1. e = s + size /\ Carve(list, i, size) = RemoveAt(list, i)
    BY <1>2, <1>7, <1>10
  <2>2. RemoveAt(list, i) \in Seq(Region)
    BY RemoveAtEntries
  <2>3. ASSUME NEW b \in Nat
        PROVE  Cardinality(Places(RemoveAt(list, i), Around(b)))
                 = Cardinality(Places(list, Around(b))) - One(Holds(cut, b))
    <3>1. Cardinality(Places(RemoveAt(list, i), Around(b)))
            = Cardinality(Places(list, Around(b)))
                - (IF list[i] \in Around(b) THEN 1 ELSE 0)
      BY PlacesRemoveAt
    <3>2. list[i] = cut /\ (list[i] \in Around(b) <=> Holds(cut, b))
      BY <1>2, <1>4, <1>6, <2>1
    <3> QED  BY <3>1, <3>2 DEF One
  <2> QED  BY <2>1, <2>2, <2>3
<1>11. ASSUME ~(s + size < e), ~(i < Len(list))
       PROVE  Taken(Carve(list, i, size))
  <2>1. e = s + size /\ Carve(list, i, size) = new(e)
    BY <1>2, <1>7, <1>11
  <2> QED  BY <1>2, <1>8, <2>1
<1>12. Taken(Carve(list, i, size))
  BY <1>9, <1>10, <1>11
<1> QED  BY <1>12 DEF s, cut

\* Enlisting a region adds its bytes to the free list, each once.
LEMMA EnlistAdds ==
  ASSUME NEW list \in Seq(Region), NEW r \in Region
  PROVE  /\ Enlist(list, r) \in Seq(Region)
         /\ \A b \in Nat : Cardinality(Places(Enlist(list, r), Around(b)))
                             = Cardinality(Places(list, Around(b))) + One(Holds(r, b))
<1>1. \A b \in Nat : r \in Around(b) <=> Holds(r, b)
  BY DEF Around
<1>2. \A b \in Nat : Cardinality(Places(list, Around(b))) \in Nat
  BY PlacesFinite
<1>3. r.rg_start \in Nat /\ r.rg_end \in Nat
  BY DEF Region
<1>4. CASE r.rg_start >= r.rg_end
  <2>1. \A b \in Nat : ~Holds(r, b)
    BY <1>3, <1>4 DEF Holds
  <2> QED  BY <1>2, <1>4, <2>1 DEF Enlist, One
<1>5. CASE ~(r.rg_start >= r.rg_end)
  BY <1>1, <1>5, ConsEntries, PlacesCons DEF Enlist, One
<1> QED  BY <1>4, <1>5

\* The variables that contain byte b.
Owners(table, b) == {rg \in RgId : Holds(table[rg], b)}

\* Giving a variable a region counts the old one out and the new one in.
LEMMA OwnersExcept ==
  ASSUME NEW table \in [RgId -> Region], NEW rg \in RgId, NEW r \in Region, NEW b
  PROVE  /\ Cardinality(Owners(table, b)) \in Nat
         /\ Cardinality(Owners([table EXCEPT ![rg] = r], b))
              = Cardinality(Owners(table, b)) - One(Holds(table[rg], b)) + One(Holds(r, b))
<1> DEFINE rest == Owners(table, b) \ {rg}
           new == [table EXCEPT ![rg] = r]
<1>1. IsFiniteSet(Owners(table, b)) /\ Cardinality(Owners(table, b)) \in Nat
  <2>1. Owners(table, b) \in SUBSET RgId
    BY DEF Owners
  <2> QED  BY <2>1, RgIdAssumption, FS_Subset, FS_CardinalityType
<1>2. IsFiniteSet(rest) /\ Cardinality(rest) \in Nat /\ Cardinality(rest) =
        IF rg \in Owners(table, b) THEN Cardinality(Owners(table, b)) - 1
                                   ELSE Cardinality(Owners(table, b))
  BY <1>1, FS_RemoveElement, FS_CardinalityType
<1>3. rg \notin rest /\ (rg \in Owners(table, b) <=> Holds(table[rg], b))
  BY DEF Owners
<1>4. Owners(new, b) = IF Holds(r, b) THEN rest \cup {rg} ELSE rest
  BY DEF Owners
<1>5. Cardinality(rest \cup {rg}) = Cardinality(rest) + 1
  BY <1>2, <1>3, FS_AddElement
<1> HIDE DEF rest, new
<1>6. Cardinality(Owners(new, b)) = Cardinality(rest) + One(Holds(r, b))
  BY <1>2, <1>4, <1>5 DEF One
<1> QED  BY <1>1, <1>2, <1>3, <1>6 DEF new, One

\* Rounding up to whole pages loses nothing.
LEMMA WholePages ==
  ASSUME NEW size \in Nat, NEW unit \in Nat \ {0}
  PROVE  /\ (size + unit - 1) \div unit \in Nat
         /\ ((size + unit - 1) \div unit) * unit \in Nat
         /\ ((size + unit - 1) \div unit) * unit >= size
<1>1. \A x \in Nat : x \div unit \in Nat /\ x < (x \div unit) * unit + unit
  OBVIOUS
<1>2. size + unit - 1 \in Nat
  OBVIOUS
<1> DEFINE k == (size + unit - 1) \div unit
<1>3. k \in Nat /\ size + unit - 1 < k * unit + unit
  BY <1>1, <1>2
<1> HIDE DEF k
<1>4. k * unit \in Nat
  BY <1>3
<1>5. k * unit >= size
  BY <1>3, <1>4
<1> QED  BY <1>3, <1>4, <1>5 DEF k

\* What Cover adds up.
LEMMA CoverParts ==
  ASSUME NEW table \in [RgId -> Region], NEW list \in Seq(Region), NEW b \in Nat
  PROVE  /\ Cardinality(Owners(table, b)) \in Nat
         /\ Cardinality(Places(list, Around(b))) \in Nat
         /\ {i \in DOMAIN list : Holds(list[i], b)} = Places(list, Around(b))
<1>1. \A i \in DOMAIN list : list[i] \in Region
  BY ElementOfSeq, LenProperties
<1>2. {i \in DOMAIN list : Holds(list[i], b)} = Places(list, Around(b))
  BY <1>1 DEF Places, Around
<1>3. IsFiniteSet(Owners(table, b))
  <2>1. Owners(table, b) \in SUBSET RgId
    BY DEF Owners
  <2> QED  BY <2>1, RgIdAssumption, FS_Subset
<1> QED  BY <1>2, <1>3, FS_CardinalityType, PlacesFinite

\* Cover before and after a step.
LEMMA CoverTwice ==
  ASSUME RegionTypeOK, RegionTypeOK', NEW p \in Proc, NEW b \in Nat
  PROVE  /\ Cardinality(Owners(symrgtbl[p], b)) \in Nat
         /\ Cardinality(Places(freerg[p], Around(b))) \in Nat
         /\ Cover(p, b) = Cardinality(Owners(symrgtbl[p], b))
                             + Cardinality(Places(freerg[p], Around(b)))
         /\ Cover(p, b)' = Cardinality(Owners(symrgtbl'[p], b))
                              + Cardinality(Places(freerg'[p], Around(b)))
<1>1. /\ symrgtbl[p] \in [RgId -> Region] /\ freerg[p] \in Seq(Region)
      /\ symrgtbl'[p] \in [RgId -> Region] /\ freerg'[p] \in Seq(Region)
  BY DEF RegionTypeOK
<1> QED  BY <1>1, CoverParts DEF Cover, Owners

\* A cover is a number.
LEMMA CoverNat ==
  ASSUME RegionTypeOK, RegionTypeOK', NEW p \in Proc, NEW b \in Nat
  PROVE  Cover(p, b) \in Nat /\ Cover(p, b)' \in Nat
<1>1. /\ symrgtbl[p] \in [RgId -> Region] /\ freerg[p] \in Seq(Region)
      /\ symrgtbl'[p] \in [RgId -> Region] /\ freerg'[p] \in Seq(Region)
  BY DEF RegionTypeOK
<1>2. /\ Cardinality(Owners(symrgtbl[p], b)) \in Nat
      /\ Cardinality(Places(freerg[p], Around(b))) \in Nat
  BY <1>1, CoverParts
<1>3. /\ Cardinality(Owners(symrgtbl'[p], b)) \in Nat
      /\ Cardinality(Places(freerg'[p], Around(b))) \in Nat
  BY <1>1, CoverParts
<1>4. \A x, y \in Nat : x + y \in Nat
  OBVIOUS
<1> QED  BY <1>2, <1>3, <1>4, CoverTwice

\* The memory area of process q is as it was.
Same(q) == symrgtbl'[q] = symrgtbl[q] /\ freerg'[q] = freerg[q]

\* Cover of p changes by one variable and one list.
LEMMA CoverSame ==
  ASSUME NEW q \in Proc, Same(q), NEW b
  PROVE  Cover(q, b)' = Cover(q, b)
BY DEF Same, Cover

\* alloc from a free region takes from the free list what it gives to the
\* variable; the bytes of the variable's old region are lost.
LEMMA AllocFreeCover ==
  ASSUME RegionTypeOK, NEW p \in Proc, NEW rg \in RgId, NEW size \in Sizes,
         AllocFree(p, rg, size)
  PROVE  /\ RegionTypeOK'
         /\ \A q \in Proc : q # p => Same(q)
         /\ UNCHANGED <<sbrk, grown, missed>>
         /\ symrgtbl'[p][rg] # NoRg
         /\ \A b \in Nat : Cover(p, b)' = Cover(p, b) - One(Holds(symrgtbl[p][rg], b))
<1> DEFINE i == FirstFit(freerg[p], size)
           s == freerg[p][i].rg_start
           r == Rg(s, s + size)
<1>1. /\ freerg[p] \in Seq(Region) /\ symrgtbl[p] \in [RgId -> Region]
      /\ size \in Nat \ {0} /\ i # 0
  BY OperandAssumption DEF RegionTypeOK, AllocFree
<1>2. i \in DOMAIN freerg[p] /\ s + size <= freerg[p][i].rg_end
  BY <1>1, FirstFitFound
<1>3. freerg[p][i] \in Region
  BY <1>1, <1>2, ElementOfSeq, LenProperties
<1>4. s \in Nat /\ r \in Region /\ r # NoRg
  BY <1>1, <1>3 DEF Region, Rg, NoRg
<1>5. /\ symrgtbl' = [symrgtbl EXCEPT ![p][rg] = r]
      /\ freerg' = [freerg EXCEPT ![p] = Carve(@, i, size)]
      /\ UNCHANGED <<sbrk, grown, missed>>
  BY DEF AllocFree
<1>6. /\ Carve(freerg[p], i, size) \in Seq(Region)
      /\ \A b \in Nat : Cardinality(Places(Carve(freerg[p], i, size), Around(b)))
                           = Cardinality(Places(freerg[p], Around(b))) - One(Holds(r, b))
  BY <1>1, <1>2, CarveTakes
<1> HIDE DEF i, s, r
<1>7. /\ symrgtbl'[p] = [symrgtbl[p] EXCEPT ![rg] = r]
      /\ freerg'[p] = Carve(freerg[p], i, size)
      /\ \A q \in Proc : q # p => Same(q)
  BY <1>5 DEF RegionTypeOK, Same
<1>8. RegionTypeOK'
  BY <1>4, <1>5, <1>6 DEF RegionTypeOK
<1>9. ASSUME NEW b \in Nat
      PROVE  Cover(p, b)' = Cover(p, b) - One(Holds(symrgtbl[p][rg], b))
  <2>1. Cardinality(Owners(symrgtbl'[p], b))
          = Cardinality(Owners(symrgtbl[p], b)) - One(Holds(symrgtbl[p][rg], b))
              + One(Holds(r, b))
    BY <1>1, <1>4, <1>7, OwnersExcept
  <2>2. Cardinality(Places(freerg'[p], Around(b)))
          = Cardinality(Places(freerg[p], Around(b))) - One(Holds(r, b))
    BY <1>6, <1>7
  <2> DEFINE vars0 == Cardinality(Owners(symrgtbl[p], b))
             free0 == Cardinality(Places(freerg[p], Around(b)))
             old == One(Holds(symrgtbl[p][rg], b))
             new == One(Holds(r, b))
  <2>3. /\ vars0 \in Nat /\ free0 \in Nat /\ Cover(p, b) = vars0 + free0
        /\ Cover(p, b)' = (vars0 - old + new) + (free0 - new)
    BY <1>8, <2>1, <2>2, CoverTwice
  <2>4. old \in Nat /\ new \in Nat
    BY DEF One
  <2> HIDE DEF vars0, free0, old, new
  <2>5. (vars0 - old + new) + (free0 - new) = (vars0 + free0) - old
    BY <2>3, <2>4
  <2> QED  BY <2>3, <2>5 DEF old
<1>10. symrgtbl'[p][rg] # NoRg
  BY <1>1, <1>4, <1>7
<1> QED  BY <1>5, <1>7, <1>8, <1>9, <1>10

\* free moves a region from its variable to the free list.
LEMMA FreeCover ==
  ASSUME RegionTypeOK, NEW p \in Proc, NEW rg \in RgId, Free(p, rg)
  PROVE  /\ RegionTypeOK'
         /\ \A q \in Proc : q # p => Same(q)
         /\ UNCHANGED <<sbrk, grown, missed>>
         /\ \A b \in Nat : Cover(p, b)' = Cover(p, b)
<1> DEFINE r == symrgtbl[p][rg]
<1>1. /\ freerg[p] \in Seq(Region) /\ symrgtbl[p] \in [RgId -> Region] /\ r \in Region
  BY DEF RegionTypeOK
<1>2. NoRg \in Region /\ \A b \in Nat : ~Holds(NoRg, b)
  BY DEF NoRg, Rg, Region, Holds
<1>3. /\ symrgtbl' = [symrgtbl EXCEPT ![p][rg] = NoRg]
      /\ freerg' = [freerg EXCEPT ![p] = Enlist(@, r)]
      /\ UNCHANGED <<sbrk, grown, missed>>
  BY DEF Free
<1>4. /\ Enlist(freerg[p], r) \in Seq(Region)
      /\ \A b \in Nat : Cardinality(Places(Enlist(freerg[p], r), Around(b)))
                           = Cardinality(Places(freerg[p], Around(b))) + One(Holds(r, b))
  BY <1>1, EnlistAdds
<1> HIDE DEF r
<1>5. /\ symrgtbl'[p] = [symrgtbl[p] EXCEPT ![rg] = NoRg]
      /\ freerg'[p] = Enlist(freerg[p], r)
      /\ \A q \in Proc : q # p => Same(q)
  BY <1>3 DEF RegionTypeOK, Same
<1>6. RegionTypeOK'
  BY <1>2, <1>3, <1>4 DEF RegionTypeOK
<1>7. ASSUME NEW b \in Nat
      PROVE  Cover(p, b)' = Cover(p, b)
  <2>1. Cardinality(Owners(symrgtbl'[p], b))
          = Cardinality(Owners(symrgtbl[p], b)) - One(Holds(symrgtbl[p][rg], b))
              + One(Holds(NoRg, b))
    <3>1. symrgtbl[p] \in [RgId -> Region] /\ NoRg \in Region
      BY <1>1, <1>2
    <3> QED  BY <1>5, <3>1, OwnersExcept
  <2>2. Cardinality(Places(freerg'[p], Around(b)))
          = Cardinality(Places(freerg[p], Around(b))) + One(Holds(r, b))
    BY <1>4, <1>5
  <2>3. ~Holds(NoRg, b)
    BY <1>2
  <2> QED  BY <1>6, <2>1, <2>2, <2>3, CoverTwice DEF One, r
<1> QED  BY <1>3, <1>5, <1>6, <1>7

\* What raising the break does, and what it leaves.
LEMMA IncVmaLimitBreak ==
  ASSUME RegionTypeOK, NEW p, NEW inc_sz \in Nat, IncVmaLimit(p, inc_sz)
  PROVE  /\ sbrk' \in [Proc -> Nat]
         /\ \A q \in Proc : sbrk'[q] >= sbrk[q]
         /\ KRNL_MM \in Proc => sbrk'[KRNL_MM] >= sbrk[KRNL_MM] + inc_sz
<1> DEFINE n == ((inc_sz + PAGING_PAGESZ - 1) \div PAGING_PAGESZ) * PAGING_PAGESZ
<1>1. n \in Nat /\ n >= inc_sz
  BY PageSizeAssumption, WholePages
<1>2. sbrk' = [sbrk EXCEPT ![KRNL_MM] = @ + n]
  BY DEF IncVmaLimit
<1> HIDE DEF n
<1>3. sbrk \in [Proc -> Nat] /\ \A q \in Proc : sbrk[q] \in Nat
  BY DEF RegionTypeOK
<1>4. CASE KRNL_MM \in Proc
  <2>1. sbrk[KRNL_MM] + n \in Nat
    BY <1>1, <1>3, <1>4
  <2> QED  BY <1>1, <1>2, <1>3, <1>4, <2>1
<1>5. CASE KRNL_MM \notin Proc
  <2>1. sbrk' = sbrk
    BY <1>2, <1>3, <1>5
  <2> QED  BY <1>3, <1>5, <2>1
<1> QED  BY <1>4, <1>5

\* alloc at the break gives the variable and the free list new addresses, each byte
\* once: below the break p had, the cover only shrinks by the variable's old region.
LEMMA AllocGrowCover ==
  ASSUME RegionTypeOK, NEW p \in Proc, NEW rg \in RgId, NEW size \in Sizes,
         AllocGrow(p, rg, size)
  PROVE  /\ RegionTypeOK'
         /\ \A q \in Proc : q # p => Same(q)
         /\ grown' = [grown EXCEPT ![p] = @ + 1]
         /\ missed' = IF listed[p] /\ KRNL_MM = p THEN missed
                      ELSE [missed EXCEPT ![p] = @ + 1]
         /\ \A q \in Proc : sbrk'[q] >= sbrk[q]
         /\ symrgtbl'[p][rg] # NoRg
         /\ \A b \in Nat :
              \E new \in 0 .. 1 :
                /\ Cover(p, b)' = Cover(p, b) - One(Holds(symrgtbl[p][rg], b)) + new
                /\ b < sbrk[p] => new = 0
                /\ listed[p] /\ KRNL_MM = p /\ b >= sbrk'[p] => new = 0
<1> DEFINE brk == sbrk[p]
           grow == RoundUp(size)
           r == Rg(brk, brk + size)
           rest == Rg(brk + size, brk + grow)
<1>1. /\ freerg[p] \in Seq(Region) /\ symrgtbl[p] \in [RgId -> Region]
      /\ size \in Nat \ {0} /\ brk \in Nat
  BY OperandAssumption DEF RegionTypeOK
<1>2. grow \in Nat /\ grow >= size
  BY <1>1, PageSizeAssumption, WholePages DEF RoundUp
<1>3. /\ symrgtbl' = [symrgtbl EXCEPT ![p][rg] = r]
      /\ freerg' = [freerg EXCEPT ![p] = Enlist(@, rest)]
      /\ grown' = [grown EXCEPT ![p] = @ + 1]
      /\ missed' = IF listed[p] /\ KRNL_MM = p THEN missed
                   ELSE [missed EXCEPT ![p] = @ + 1]
  BY DEF AllocGrow
<1>5. /\ sbrk' \in [Proc -> Nat]
      /\ \A q \in Proc : sbrk'[q] >= sbrk[q]
      /\ listed[p] /\ KRNL_MM = p => sbrk'[p] >= brk + grow
  <2>1. CASE listed[p]
    <3>1. IncVmaLimit(p, grow)
      BY <2>1 DEF AllocGrow
    <3> HIDE DEF grow
    <3> QED  BY <1>2, <3>1, IncVmaLimitBreak
  <2>2. CASE ~listed[p]
    <3>1. sbrk' = sbrk /\ sbrk \in [Proc -> Nat]
      BY <2>2 DEF AllocGrow, RegionTypeOK
    <3>2. \A q \in Proc : sbrk[q] \in Nat
      BY <3>1
    <3> QED  BY <2>2, <3>1, <3>2
  <2> QED  BY <2>1, <2>2
<1> HIDE DEF brk, grow
<1>6. /\ r \in Region /\ rest \in Region /\ r # NoRg
      /\ \A b \in Nat :
           /\ Holds(r, b) <=> brk <= b /\ b < brk + size
           /\ Holds(rest, b) <=> brk + size <= b /\ b < brk + grow
  <2>1. brk + size \in Nat \ {0} /\ brk + grow \in Nat
    BY <1>1, <1>2
  <2>2. brk + size # 0 => r # NoRg
    BY DEF Rg, NoRg
  <2> QED  BY <1>1, <2>1, <2>2, RgFacts
<1> HIDE DEF r, rest
<1>7. /\ Enlist(freerg[p], rest) \in Seq(Region)
      /\ \A b \in Nat : Cardinality(Places(Enlist(freerg[p], rest), Around(b)))
                           = Cardinality(Places(freerg[p], Around(b))) + One(Holds(rest, b))
  BY <1>1, <1>6, EnlistAdds
<1>8. /\ symrgtbl'[p] = [symrgtbl[p] EXCEPT ![rg] = r]
      /\ freerg'[p] = Enlist(freerg[p], rest)
      /\ \A q \in Proc : q # p => Same(q)
  BY <1>3 DEF RegionTypeOK, Same
<1>9. RegionTypeOK'
  <2>1. symrgtbl' \in [Proc -> [RgId -> Region]]
    BY <1>3, <1>6 DEF RegionTypeOK
  <2>2. freerg' \in [Proc -> Seq(Region)]
    BY <1>3, <1>7 DEF RegionTypeOK
  <2>3. grown' \in [Proc -> Nat] /\ missed' \in [Proc -> Nat]
    BY <1>3 DEF RegionTypeOK
  <2> QED  BY <1>5, <2>1, <2>2, <2>3 DEF RegionTypeOK
<1>10. ASSUME NEW b \in Nat
       PROVE  \E new \in 0 .. 1 :
                /\ Cover(p, b)' = Cover(p, b) - One(Holds(symrgtbl[p][rg], b)) + new
                /\ b < sbrk[p] => new = 0
                /\ listed[p] /\ KRNL_MM = p /\ b >= sbrk'[p] => new = 0
  <2> DEFINE new == One(brk <= b /\ b < brk + grow)
  <2>1. Cardinality(Owners(symrgtbl'[p], b))
          = Cardinality(Owners(symrgtbl[p], b)) - One(Holds(symrgtbl[p][rg], b))
              + One(Holds(r, b))
    <3>1. r \in Region /\ symrgtbl[p] \in [RgId -> Region]
      BY <1>1, <1>6
    <3>2. symrgtbl'[p] = [symrgtbl[p] EXCEPT ![rg] = r]
      BY <1>8
    <3> QED  BY <3>1, <3>2, OwnersExcept
  <2>2. Cardinality(Places(freerg'[p], Around(b)))
          = Cardinality(Places(freerg[p], Around(b))) + One(Holds(rest, b))
    BY <1>7, <1>8
  <2>3. One(Holds(r, b)) + One(Holds(rest, b)) = new
    <3>1. /\ Holds(r, b) <=> brk <= b /\ b < brk + size
          /\ Holds(rest, b) <=> brk + size <= b /\ b < brk + grow
      BY <1>6
    <3>2. brk \in Nat /\ size \in Nat /\ grow \in Nat /\ size <= grow
      BY <1>1, <1>2
    <3>3. /\ (brk <= b /\ b < brk + grow) <=> (Holds(r, b) \/ Holds(rest, b))
          /\ ~(Holds(r, b) /\ Holds(rest, b))
      BY <3>1, <3>2
    <3> QED  BY <3>3 DEF One
  <2>4. new \in 0 .. 1 /\ (b < sbrk[p] => new = 0)
        /\ (listed[p] /\ KRNL_MM = p /\ b >= sbrk'[p] => new = 0)
    <3>1. b < sbrk[p] => ~(brk <= b)
      BY <1>1 DEF brk
    <3>2. listed[p] /\ KRNL_MM = p /\ b >= sbrk'[p] => ~(b < brk + grow)
      BY <1>1, <1>2, <1>5
    <3> QED  BY <3>1, <3>2 DEF One
  <2> HIDE DEF new
  <2>5. Cover(p, b)' = Cover(p, b) - One(Holds(symrgtbl[p][rg], b)) + new
    BY <1>9, <2>1, <2>2, <2>3, CoverTwice DEF One
  <2> QED  BY <2>4, <2>5
<1>11. symrgtbl'[p][rg] # NoRg
  BY <1>1, <1>6, <1>8
<1> QED  BY <1>3, <1>5, <1>8, <1>9, <1>10, <1>11

\* INC_OP of a program counts as a growth, and leaves regions alone.
LEMMA IncOpCover ==
  ASSUME RegionTypeOK, NEW p \in Proc, NEW size \in Sizes, IncOp(p, size)
  PROVE  /\ RegionTypeOK'
         /\ UNCHANGED <<symrgtbl, freerg, missed>>
         /\ grown' = [grown EXCEPT ![p] = @ + 1]
         /\ \A q \in Proc : sbrk'[q] >= sbrk[q]
<1>1. size \in Nat
  BY OperandAssumption
<1>2. sbrk' \in [Proc -> Nat] /\ \A q \in Proc : sbrk'[q] >= sbrk[q]
  BY <1>1, IncVmaLimitBreak DEF IncOp
<1>3. UNCHANGED <<symrgtbl, freerg, missed>> /\ grown' = [grown EXCEPT ![p] = @ + 1]
  BY DEF IncOp
<1>4. grown' \in [Proc -> Nat]
  BY <1>3 DEF RegionTypeOK
<1> QED  BY <1>2, <1>3, <1>4 DEF RegionTypeOK

\* Nothing else touches regions.
LEMMA RegionStep ==
  ASSUME [Next]_vars
  PROVE  \/ UNCHANGED regionVars
         \/ \E p \in Proc, rg \in RgId, size \in Sizes :
              AllocFree(p, rg, size) \/ AllocGrow(p, rg, size)
         \/ \E p \in Proc, rg \in RgId : Free(p, rg)
         \/ \E p \in Proc, size \in Sizes : IncOp(p, size)
<1>1. UNCHANGED vars => UNCHANGED regionVars
  BY DEF vars
<1>2. ASSUME NEW p \in Proc, Access(p)
      PROVE  UNCHANGED regionVars
  BY <1>2 DEF Access, AccessReturns, AccessGoesOn, AccessAbsent, AccessPresent,
       AccessFrame, AccessNoVictim, AccessVictim, AccessNoSwap, AccessEvict, AccessLoad,
       AccessPut, AccessCrash, GoesOn, Done, Crash
<1>3. ASSUME NEW p \in Proc,
             \/ \E size \in Sizes : AllocCrash(p, size)
             \/ \E range \in Ranges : MapOp(p, range)
             \/ \E f \in RamFrame : IoWrite(p, f) \/ \E s \in SwapFrame : SwpOp(p, f, s)
             \/ CallCrash(p) \/ PutBack(p) \/ End(p)
             \/ \E op \in Ops, rg \in RgId, off \in Offsets : Begin(p, op, rg, off)
      PROVE  UNCHANGED regionVars
  BY <1>3 DEF AllocCrash, MapOp, IoWrite, SwpOp, CallCrash, PutBack, End, Begin, Crash
<1> QED  BY <1>1, <1>2, <1>3 DEF Next

\* How a step may change the cover of a byte b of p: not at all, or a variable of
\* p with a region gets another one.
Moves(p, b) ==
    \/ Cover(p, b)' = Cover(p, b) /\ grown'[p] >= grown[p]
    \/ \E rg \in RgId : \E new \in 0 .. 1 :
         /\ Cover(p, b)' = Cover(p, b) - One(Holds(symrgtbl[p][rg], b)) + new
         /\ grown'[p] >= grown[p] + new
         /\ symrgtbl'[p][rg] # NoRg

\* Every step is of that kind, and keeps the types of regions.
LEMMA CoverStep ==
  ASSUME RegionTypeOK, [Next]_vars
  PROVE  RegionTypeOK' /\ \A p \in Proc : \A b \in Nat : Moves(p, b)
<1>0. \A q \in Proc : grown[q] \in Nat
  BY DEF RegionTypeOK
<1>1. CASE UNCHANGED regionVars
  <2>1. RegionTypeOK'
    BY <1>1 DEF RegionTypeOK, regionVars
  <2>2. \A p \in Proc : Same(p) /\ grown'[p] >= grown[p]
    BY <1>0, <1>1 DEF regionVars, Same
  <2> QED  BY <2>1, <2>2, CoverSame DEF Moves
<1>2. ASSUME NEW p \in Proc, NEW rg \in RgId, NEW size \in Sizes, AllocFree(p, rg, size)
      PROVE  RegionTypeOK' /\ \A q \in Proc : \A b \in Nat : Moves(q, b)
  <2>1. /\ RegionTypeOK'
        /\ \A q \in Proc : q # p => Same(q)
        /\ UNCHANGED <<sbrk, grown, missed>>
        /\ symrgtbl'[p][rg] # NoRg
        /\ \A b \in Nat : Cover(p, b)' = Cover(p, b) - One(Holds(symrgtbl[p][rg], b))
    BY <1>2, AllocFreeCover
  <2>2. \A q \in Proc : grown'[q] >= grown[q] + 0
    BY <1>0, <2>1
  <2>3. ASSUME NEW b \in Nat  PROVE  Moves(p, b)
    <3>1. Cover(p, b)' = Cover(p, b) - One(Holds(symrgtbl[p][rg], b)) + 0
      BY <2>1, CoverTwice DEF One
    <3> QED  BY <2>1, <2>2, <3>1 DEF Moves
  <2>4. ASSUME NEW q \in Proc, q # p, NEW b \in Nat  PROVE  Moves(q, b)
    BY <1>0, <2>1, <2>4, CoverSame DEF Moves
  <2> QED  BY <2>1, <2>3, <2>4
<1>3. ASSUME NEW p \in Proc, NEW rg \in RgId, NEW size \in Sizes, AllocGrow(p, rg, size)
      PROVE  RegionTypeOK' /\ \A q \in Proc : \A b \in Nat : Moves(q, b)
  <2>1. /\ RegionTypeOK'
        /\ \A q \in Proc : q # p => Same(q)
        /\ grown' = [grown EXCEPT ![p] = @ + 1]
        /\ symrgtbl'[p][rg] # NoRg
        /\ \A b \in Nat : \E new \in 0 .. 1 :
              Cover(p, b)' = Cover(p, b) - One(Holds(symrgtbl[p][rg], b)) + new
    BY <1>3, AllocGrowCover
  <2>2. /\ grown'[p] = grown[p] + 1
        /\ \A q \in Proc : q # p => grown'[q] = grown[q]
    BY <2>1 DEF RegionTypeOK
  <2>3. ASSUME NEW b \in Nat  PROVE  Moves(p, b)
    BY <1>0, <2>1, <2>2 DEF Moves
  <2>4. ASSUME NEW q \in Proc, q # p, NEW b \in Nat  PROVE  Moves(q, b)
    BY <1>0, <2>1, <2>2, <2>4, CoverSame DEF Moves
  <2> QED  BY <2>1, <2>3, <2>4
<1>4. ASSUME NEW p \in Proc, NEW rg \in RgId, Free(p, rg)
      PROVE  RegionTypeOK' /\ \A q \in Proc : \A b \in Nat : Moves(q, b)
  <2>1. /\ RegionTypeOK'
        /\ \A q \in Proc : q # p => Same(q)
        /\ UNCHANGED <<sbrk, grown, missed>>
        /\ \A b \in Nat : Cover(p, b)' = Cover(p, b)
    BY <1>4, FreeCover
  <2> QED  BY <1>0, <2>1, CoverSame DEF Moves
<1>5. ASSUME NEW p \in Proc, NEW size \in Sizes, IncOp(p, size)
      PROVE  RegionTypeOK' /\ \A q \in Proc : \A b \in Nat : Moves(q, b)
  <2>1. /\ RegionTypeOK'
        /\ UNCHANGED <<symrgtbl, freerg>>
        /\ grown' = [grown EXCEPT ![p] = @ + 1]
    BY <1>5, IncOpCover
  <2>2. \A q \in Proc : Same(q) /\ grown'[q] >= grown[q]
    BY <1>0, <2>1 DEF Same, RegionTypeOK
  <2> QED  BY <2>1, <2>2, CoverSame DEF Moves
<1> QED  BY <1>1, <1>2, <1>3, <1>4, <1>5, RegionStep

-----------------------------------------------------------------------------
(* Regions: what holds of them whatever the build and the programs are. *)

\* At the start no byte has an owner.
LEMMA InitCover ==
  ASSUME Init
  PROVE  RegionTypeOK /\ \A p \in Proc : \A b \in Nat : Cover(p, b) = 0
<1>1. NoRg \in Region /\ \A b \in Nat : ~Holds(NoRg, b)
  BY DEF NoRg, Rg, Region, Holds
<1>2. RegionTypeOK
  BY <1>1 DEF Init, RegionTypeOK
<1>3. ASSUME NEW p \in Proc, NEW b \in Nat  PROVE  Cover(p, b) = 0
  <2>1. symrgtbl[p] = [rg \in RgId |-> NoRg] /\ freerg[p] = <<NoRg>>
    BY DEF Init
  <2>2. {rg \in RgId : Holds(symrgtbl[p][rg], b)} = {}
    BY <1>1, <2>1
  <2>3. {i \in DOMAIN freerg[p] : Holds(freerg[p][i], b)} = {}
    BY <1>1, <2>1
  <2> QED  BY <2>2, <2>3, FS_EmptySet DEF Cover
<1> QED  BY <1>2, <1>3

\* The parts of Memory!TypeOK that are about regions, for any constants.
THEOREM RegionTypes == Spec => []RegionTypeOK
<1>1. Init => RegionTypeOK
  BY InitCover
<1>2. RegionTypeOK /\ [Next]_vars => RegionTypeOK'
  BY CoverStep
<1> QED  BY <1>1, <1>2, PTL DEF Spec

\* The cover of every address is at most the growths: over all the numbers, which
\* is what a step preserves.
Granted == \A p \in Proc : \A b \in Nat : Cover(p, b) <= grown[p]

\* A step that covers a byte once more is a growth.
LEMMA GrantedStep ==
  ASSUME RegionTypeOK, Granted, [Next]_vars
  PROVE  Granted'
<1> SUFFICES ASSUME NEW p \in Proc, NEW b \in Nat
             PROVE  Cover(p, b)' <= grown'[p]
  BY DEF Granted
<1>1. RegionTypeOK' /\ Moves(p, b)
  BY CoverStep
<1>2. Cover(p, b) \in Nat /\ Cover(p, b)' \in Nat
  BY <1>1, CoverNat
<1>3. grown[p] \in Nat /\ grown'[p] \in Nat
  BY <1>1 DEF RegionTypeOK
<1>4. Cover(p, b) <= grown[p]
  BY DEF Granted
<1> QED  BY <1>1, <1>2, <1>3, <1>4 DEF Moves, One

\* Below the break, a byte may have an owner more than the allocs of its process
\* that got no memory; from the break on, the memory is still to come.
Below ==
    \A p \in Proc : \A b \in Nat : Cover(p, b) <= missed[p] + One(b < sbrk[p])

\* A step that covers a byte once more raises the break beyond it, or is an alloc
\* that does not raise the break.
LEMMA BelowStep ==
  ASSUME RegionTypeOK, Below, [Next]_vars
  PROVE  Below'
<1>0. ASSUME NEW q \in Proc
      PROVE  missed[q] \in Nat /\ sbrk[q] \in Nat
  BY DEF RegionTypeOK
<1>1. RegionTypeOK'
  BY CoverStep
<1>2. ASSUME NEW q \in Proc, NEW b \in Nat
      PROVE  /\ Cover(q, b) \in Nat /\ Cover(q, b)' \in Nat
             /\ Cover(q, b) <= missed[q] + One(b < sbrk[q])
             /\ sbrk'[q] \in Nat
  BY <1>1, CoverNat DEF Below, RegionTypeOK
<1>3. ASSUME NEW q \in Proc, Same(q), missed'[q] = missed[q], sbrk'[q] >= sbrk[q],
             NEW b \in Nat
      PROVE  Cover(q, b)' <= missed'[q] + One(b < sbrk'[q])
  <2>1. Cover(q, b)' = Cover(q, b) /\ Cover(q, b) <= missed[q] + One(b < sbrk[q])
    BY <1>2, <1>3, CoverSame
  <2>2. b < sbrk[q] => b < sbrk'[q]
    BY <1>0, <1>2, <1>3
  <2> QED  BY <1>0, <1>2, <1>3, <2>1, <2>2 DEF One
<1>4. CASE UNCHANGED regionVars
  <2>1. ASSUME NEW q \in Proc
        PROVE  Same(q) /\ missed'[q] = missed[q] /\ sbrk'[q] >= sbrk[q]
    BY <1>0, <1>4 DEF regionVars, Same
  <2> QED  BY <1>3, <2>1 DEF Below
<1>5. ASSUME NEW p \in Proc, NEW rg \in RgId, NEW size \in Sizes, AllocFree(p, rg, size)
      PROVE  Below'
  <2>1. /\ \A q \in Proc : q # p => Same(q)
        /\ UNCHANGED <<sbrk, grown, missed>>
        /\ \A b \in Nat : Cover(p, b)' = Cover(p, b) - One(Holds(symrgtbl[p][rg], b))
    BY <1>5, AllocFreeCover
  <2>2. ASSUME NEW q \in Proc, q # p, NEW b \in Nat
        PROVE  Cover(q, b)' <= missed'[q] + One(b < sbrk'[q])
    BY <1>0, <1>3, <2>1, <2>2
  <2>3. ASSUME NEW b \in Nat
        PROVE  Cover(p, b)' <= missed'[p] + One(b < sbrk'[p])
    BY <1>0, <1>2, <2>1 DEF One
  <2> QED  BY <2>2, <2>3 DEF Below
<1>6. ASSUME NEW p \in Proc, NEW rg \in RgId, NEW size \in Sizes, AllocGrow(p, rg, size)
      PROVE  Below'
  <2>1. /\ \A q \in Proc : q # p => Same(q)
        /\ missed' = IF listed[p] /\ KRNL_MM = p THEN missed
                     ELSE [missed EXCEPT ![p] = @ + 1]
        /\ \A q \in Proc : sbrk'[q] >= sbrk[q]
        /\ \A b \in Nat :
             \E new \in 0 .. 1 :
               /\ Cover(p, b)' = Cover(p, b) - One(Holds(symrgtbl[p][rg], b)) + new
               /\ b < sbrk[p] => new = 0
               /\ listed[p] /\ KRNL_MM = p /\ b >= sbrk'[p] => new = 0
    BY <1>6, AllocGrowCover
  <2>2. ASSUME NEW q \in Proc, q # p, NEW b \in Nat
        PROVE  Cover(q, b)' <= missed'[q] + One(b < sbrk'[q])
    <3>1. missed'[q] = missed[q]
      BY <2>1, <2>2 DEF RegionTypeOK
    <3> QED  BY <1>3, <2>1, <2>2, <3>1
  <2>3. ASSUME NEW b \in Nat
        PROVE  Cover(p, b)' <= missed'[p] + One(b < sbrk'[p])
    <3>1. PICK new \in 0 .. 1 :
            /\ Cover(p, b)' = Cover(p, b) - One(Holds(symrgtbl[p][rg], b)) + new
            /\ b < sbrk[p] => new = 0
            /\ listed[p] /\ KRNL_MM = p /\ b >= sbrk'[p] => new = 0
      BY <2>1
    <3>2. Cover(p, b)' <= Cover(p, b) + new
      BY <1>2, <3>1 DEF One
    <3>3. /\ Cover(p, b) <= missed[p] + One(b < sbrk[p])
          /\ b < sbrk[p] => b < sbrk'[p]
      BY <1>0, <1>2, <2>1
    <3>4. CASE listed[p] /\ KRNL_MM = p
      <4>1. missed'[p] = missed[p] /\ (b >= sbrk'[p] => new = 0)
        BY <2>1, <3>1, <3>4
      <4> QED  BY <1>0, <1>2, <3>1, <3>2, <3>3, <4>1 DEF One
    <3>5. CASE ~(listed[p] /\ KRNL_MM = p)
      <4>1. missed'[p] = missed[p] + 1
        BY <2>1, <3>5 DEF RegionTypeOK
      <4> QED  BY <1>0, <1>2, <3>1, <3>2, <3>3, <4>1 DEF One
    <3> QED  BY <3>4, <3>5
  <2> QED  BY <2>2, <2>3 DEF Below
<1>7. ASSUME NEW p \in Proc, NEW rg \in RgId, Free(p, rg)
      PROVE  Below'
  <2>1. /\ \A q \in Proc : q # p => Same(q)
        /\ UNCHANGED <<sbrk, grown, missed>>
        /\ \A b \in Nat : Cover(p, b)' = Cover(p, b)
    BY <1>7, FreeCover
  <2>2. ASSUME NEW q \in Proc, q # p, NEW b \in Nat
        PROVE  Cover(q, b)' <= missed'[q] + One(b < sbrk'[q])
    BY <1>0, <1>3, <2>1, <2>2
  <2>3. ASSUME NEW b \in Nat
        PROVE  Cover(p, b)' <= missed'[p] + One(b < sbrk'[p])
    BY <1>2, <2>1
  <2> QED  BY <2>2, <2>3 DEF Below
<1>8. ASSUME NEW p \in Proc, NEW size \in Sizes, IncOp(p, size)
      PROVE  Below'
  <2>1. /\ UNCHANGED <<symrgtbl, freerg, missed>>
        /\ \A q \in Proc : sbrk'[q] >= sbrk[q]
    BY <1>8, IncOpCover
  <2>2. ASSUME NEW q \in Proc
        PROVE  Same(q) /\ missed'[q] = missed[q] /\ sbrk'[q] >= sbrk[q]
    BY <2>1 DEF Same
  <2> QED  BY <1>3, <2>2 DEF Below
<1> QED  BY <1>4, <1>5, <1>6, <1>7, <1>8, RegionStep

\* Every address a page may have is a number.
LEMMA AddrNat == Addr \subseteq Nat
BY DEF Addr

\* No byte gets an owner that the kernel has not granted it, nor a second one but
\* on account of an alloc whose INC_OP left the break where it was: whatever the
\* programs allocate and free, in whatever order and on whatever build, regions are
\* only ever cut, moved and joined to lists.
THEOREM NoByteForgedAlways == Spec => []NoByteForged
<1> DEFINE Inv == RegionTypeOK /\ Granted /\ Below
<1>1. Init => Inv
  <2>1. ASSUME Init, NEW p \in Proc, NEW b \in Nat
        PROVE  /\ Cover(p, b) = 0 /\ grown[p] \in Nat /\ missed[p] = 0 /\ sbrk[p] = 0
    BY <2>1, InitCover DEF Init, RegionTypeOK
  <2>2. ASSUME Init, NEW p \in Proc, NEW b \in Nat
        PROVE  Cover(p, b) <= grown[p] /\ Cover(p, b) <= missed[p] + One(b < sbrk[p])
    BY <2>1, <2>2 DEF One
  <2> QED  BY <2>2, InitCover DEF Granted, Below
<1>2. Inv /\ [Next]_vars => Inv'
  BY CoverStep, GrantedStep, BelowStep
<1>3. Inv => NoByteForged
  <2> SUFFICES ASSUME Inv, NEW p \in Proc, NEW b \in Addr
               PROVE  Cover(p, b) <= grown[p] /\ Cover(p, b) <= 1 + missed[p]
    BY DEF NoByteForged
  <2>1. b \in Nat /\ missed[p] \in Nat
    BY AddrNat DEF RegionTypeOK
  <2>2. Cover(p, b) \in Nat
    <3>1. symrgtbl[p] \in [RgId -> Region] /\ freerg[p] \in Seq(Region)
      BY DEF RegionTypeOK
    <3> DEFINE x == Cardinality(Owners(symrgtbl[p], b))
               y == Cardinality(Places(freerg[p], Around(b)))
    <3>2. x \in Nat /\ y \in Nat /\ Cover(p, b) = x + y
      BY <2>1, <3>1, CoverParts DEF Cover, Owners
    <3> HIDE DEF x, y
    <3> QED  BY <3>2
  <2>3. Cover(p, b) <= grown[p] /\ Cover(p, b) <= missed[p] + One(b < sbrk[p])
    BY <2>1 DEF Granted, Below
  <2> QED  BY <2>1, <2>2, <2>3 DEF One
<1> HIDE DEF Inv
<1>4. Spec => []Inv
  BY <1>1, <1>2, PTL DEF Spec
<1> QED  BY <1>3, <1>4, PTL

\* No byte is lost, but by an alloc into a variable that has a region already.
THEOREM NoByteLostAlways == Spec => NoByteLost
<1> DEFINE Kept == \A p \in Proc : \A b \in Addr :
                     Cover(p, b)' >= Cover(p, b)
                     \/ \E rg \in RgId : Holds(symrgtbl[p][rg], b) /\ symrgtbl'[p][rg] # NoRg
<1>1. RegionTypeOK /\ [Next]_vars => Kept
  <2> SUFFICES ASSUME RegionTypeOK, [Next]_vars, NEW p \in Proc, NEW b \in Addr
               PROVE  Cover(p, b)' >= Cover(p, b)
                      \/ \E rg \in RgId : Holds(symrgtbl[p][rg], b) /\ symrgtbl'[p][rg] # NoRg
    OBVIOUS
  <2>1. b \in Nat
    BY AddrNat
  <2>2. RegionTypeOK' /\ Moves(p, b)
    BY <2>1, CoverStep
  <2>3. Cover(p, b) \in Nat /\ Cover(p, b)' \in Nat
    BY <2>1, <2>2, CoverNat
  <2> QED  BY <2>2, <2>3 DEF Moves, One
<1>2. RegionTypeOK /\ [Next]_vars => [Kept]_vars
  BY <1>1
<1> QED  BY <1>2, RegionTypes, PTL DEF Spec, NoByteLost

-----------------------------------------------------------------------------
(* Types, for every build and all programs                                 *)

\* What may be in the place of a swap offset: a frame of swap, or what 0xdeadbeef
\* has there.
SwapNumber == SwapFrame \cup {PAGING_SWP(Pattern)}

\* An entry for RAM has a frame of RAM, one for swap such a number.
Entries ==
    {e \in PTE : /\ Present(e) => PAGING_FPN(e) \in RamFrame
                 /\ e.swapped => PAGING_SWP(e) \in SwapNumber}

\* What a frame may hold.
Stored == (Proc \X Page) \cup {Blank}

\* An access, or none: which list it has loaded, and which frames it has got, depends
\* on the place it is at.
Accesses ==
    {Idle} \cup
    {a \in [op : Ops, pgn : Page, at : {"page", "swap", "load", "put", "io"},
            free : Seq(RamFrame) \cup Seq(SwapNumber), from : SwapNumber, to : RamFrame] :
        /\ a.at = "page" => a.free \in Seq(RamFrame)
        /\ a.at # "page" => a.free \in Seq(SwapNumber)
        /\ a.at = "put" => a.from \in SwapFrame}

FrameTypeOK ==
    /\ pte \in [Proc -> [Page -> Entries]]
    /\ fifo \in [Proc -> Seq(Page)]
    /\ mram \in Seq(RamFrame)
    /\ mswp \in Seq(SwapNumber)
    /\ ram \in [RamFrame -> Stored]
    /\ swp \in [SwapFrame -> Stored]
    /\ acc \in [Proc -> Accesses]
    /\ lock \in Proc \cup {NoProc}
    /\ listed \in [Proc -> BOOLEAN] /\ ended \in SUBSET Proc /\ crashed \in BOOLEAN

\* The page of an access exists, and its list and its frames are what they are to be.
LEMMA AccessParts ==
  ASSUME NEW a \in Accesses
  PROVE  /\ a.pgn \in Page /\ a.from \in SwapNumber /\ a.to \in RamFrame
         /\ a.at = "page" => a.free \in Seq(RamFrame)
         /\ a.at # "page" => a.free \in Seq(SwapNumber)
         /\ a.at = "put" => a.from \in SwapFrame
<1>1. 0 \in Page /\ 0 \in SwapNumber /\ 0 \in RamFrame /\ <<>> \in Seq(RamFrame)
  BY PageSizeAssumption, DeviceAssumption, EmptySeq
     DEF Page, SwapNumber, SwapFrame, RamFrame
<1>2. CASE a = Idle
  BY <1>1, <1>2 DEF Idle, InAccess
<1>3. CASE a # Idle
  BY <1>3 DEF Accesses
<1> QED  BY <1>2, <1>3

\* Pages are numbers, and finitely many.
LEMMA SomePages ==
  ASSUME NEW D \in SUBSET Page
  PROVE  D \in SUBSET Nat /\ IsFiniteSet(D)
<1>1. Page \subseteq Nat
  BY PageSizeAssumption DEF Page
<1>2. 0 \in Int /\ PAGING_MAX_PGN - 1 \in Int
  BY PageSizeAssumption
<1>3. IsFiniteSet(Page)
  BY <1>2, FS_Interval DEF Page
<1> QED  BY <1>1, <1>3, FS_Subset

\* Every address has a page.
LEMMA PageOf ==
  ASSUME NEW addr \in Nat
  PROVE  PAGING_PGN(addr) \in Page
<1>1. addr \div PAGING_PAGESZ \in Nat
  BY PageSizeAssumption
<1> DEFINE q == addr \div PAGING_PAGESZ
<1> HIDE DEF q
<1>2. q \in Nat => q % PAGING_MAX_PGN \in 0 .. PAGING_MAX_PGN - 1
  BY PageSizeAssumption
<1> QED  BY <1>1, <1>2 DEF PAGING_PGN, Page, q

\* The entries that the code stores are entries.
LEMMA EntriesStored ==
  /\ NoPte \in Entries /\ Pattern \in Entries
  /\ \A e \in Entries, f \in RamFrame : WithFpn(e, f) \in Entries
  /\ \A e, s : s \in SwapNumber => WithSwap(e, 0, s) \in Entries
<1>1. 0 \in Low /\ PATTERN_LOW \in Low
  <2> DEFINE total == SWPTYP_SPAN * SWPOFF_SPAN
  <2>1. total \in Nat /\ PATTERN_LOW \in 0 .. total - 1
    BY SpanFacts, FitAssumption DEF Low
  <2> HIDE DEF total
  <2>2. 0 \in 0 .. total - 1
    BY <2>1
  <2> QED  BY <2>1, <2>2 DEF Low, total
<1>2. NoPte \in Entries /\ Pattern \in Entries
  BY <1>1 DEF Entries, PTE, NoPte, Pattern, Present, SwapNumber
<1>3. ASSUME NEW e \in Entries, NEW f \in RamFrame
      PROVE  WithFpn(e, f) \in Entries
  <2>1. f \in Nat /\ f % FPN_SPAN \in RamFrame
    BY SpanFacts, DeviceAssumption DEF RamFrame
  <2> QED  BY <2>1, PteFpn DEF Entries
<1>4. ASSUME NEW e, NEW s \in SwapNumber
      PROVE  WithSwap(e, 0, s) \in Entries
  <2>1. s \in Nat /\ s % SWPOFF_SPAN \in SwapNumber
    <3>1. PAGING_SWP(Pattern) \in 0 .. SWPOFF_SPAN - 1
      <4>1. PATTERN_LOW \in Nat /\ PATTERN_LOW < SWPTYP_SPAN * SWPOFF_SPAN
        BY <1>1, SpanFacts DEF Low
      <4>2. PATTERN_LOW \div SWPTYP_SPAN \in Nat
            /\ PATTERN_LOW >= (PATTERN_LOW \div SWPTYP_SPAN) * SWPTYP_SPAN
        BY <4>1, SpanFacts
      <4> DEFINE q == PATTERN_LOW \div SWPTYP_SPAN
      <4>3. PAGING_SWP(Pattern) = q
        BY DEF PAGING_SWP, Pattern
      <4> HIDE DEF q
      <4>4. q \in Nat /\ q * SWPTYP_SPAN < SWPOFF_SPAN * SWPTYP_SPAN
        BY <4>1, <4>2, SpanFacts DEF q
      <4>5. q < SWPOFF_SPAN
        <5> SUFFICES ASSUME q >= SWPOFF_SPAN  PROVE FALSE
          BY <4>4, SpanFacts
        <5>1. PICK k \in Nat : q = SWPOFF_SPAN + k
          BY <4>4, SpanFacts
        <5>2. q * SWPTYP_SPAN = SWPOFF_SPAN * SWPTYP_SPAN + k * SWPTYP_SPAN
              /\ k * SWPTYP_SPAN \in Nat /\ SWPOFF_SPAN * SWPTYP_SPAN \in Nat
          BY <5>1, SpanFacts
        <5> QED  BY <4>4, <5>2
      <4> QED  BY <4>3, <4>4, <4>5, SpanFacts
    <3>2. CASE s \in SwapFrame
      BY <3>2, SpanFacts, DeviceAssumption DEF SwapNumber, SwapFrame
    <3>3. CASE s = PAGING_SWP(Pattern)
      BY <3>1, <3>3, SpanFacts DEF SwapNumber
    <3> QED  BY <3>2, <3>3 DEF SwapNumber
  <2> QED  BY <2>1, PteSwap DEF Entries, Present
<1> QED  BY <1>2, <1>3, <1>4

\* MEMPHY_put_freefp, page by page: the list grows by the frames of these pages.
LEMMA GivingAdds ==
  ASSUME NEW D \in SUBSET Nat, IsFiniteSet(D), NEW S,
         NEW frame \in [D -> S], NEW free \in Seq(S)
  PROVE  /\ Giving(frame, free) \in Seq(S)
         /\ Len(Giving(frame, free)) = Cardinality(D) + Len(free)
         /\ Range(Giving(frame, free)) = {frame[g] : g \in D} \cup Range(free)
         /\ /\ IsInjective(free)
            /\ \A g, h \in D : frame[g] = frame[h] => g = h
            /\ \A g \in D : frame[g] \notin Range(free)
            => IsInjective(Giving(frame, free))
<1> DEFINE n == Cardinality(D)
           IsDown(s) == \A k, l \in DOMAIN s : k < l => s[k] > s[l]
           down == CHOOSE s \in [1 .. n -> D] : IsDown(s)
           new == [k \in DOMAIN down |-> frame[down[k]]]
<1>1. n \in Nat
  BY FS_CardinalityType
<1>2. down \in [1 .. n -> D] /\ IsDown(down)
  <2>1. \E s \in [1 .. n -> D] : IsDown(s)
    BY DownListed
  <2> HIDE DEF IsDown
  <2> QED  BY <2>1
<1>3. IsInjective(down) /\ Range(down) = D
  <2> HIDE DEF down
  <2> QED  BY <1>2, DownComplete
<1>4. Giving(frame, free) = new \o free
  <2>1. DOMAIN frame = D
    OBVIOUS
  <2> QED  BY <2>1 DEF Giving
<1> HIDE DEF down, n
<1>5. DOMAIN down = 1 .. n /\ new \in [1 .. n -> S] /\ \A k \in 1 .. n : new[k] = frame[down[k]]
  BY <1>2
<1> HIDE DEF new
<1>6. new \in Seq(S) /\ Len(new) = n
  <2>1. new \in Seq(S)
    BY <1>1, <1>5, SeqDef
  <2>2. DOMAIN new = 1 .. n /\ Len(new) \in Nat /\ DOMAIN new = 1 .. Len(new)
    BY <1>5, <2>1, LenProperties
  <2> QED  BY <1>1, <2>1, <2>2
<1>7. Range(new) = {frame[g] : g \in D}
  <2>1. ASSUME NEW x \in Range(new)  PROVE x \in {frame[g] : g \in D}
    <3>1. PICK k \in 1 .. n : x = new[k]
      BY <1>5 DEF Range
    <3>2. down[k] \in D /\ x = frame[down[k]]
      BY <1>2, <1>5, <3>1
    <3> QED  BY <3>2
  <2>2. \A g \in D : \E k \in 1 .. n : down[k] = g
    BY <1>3, <1>5 DEF Range
  <2>3. \A g \in D : frame[g] \in Range(new)
    BY <1>5, <2>2 DEF Range
  <2> QED  BY <2>1, <2>3
<1>8. ASSUME \A g, h \in D : frame[g] = frame[h] => g = h
      PROVE  IsInjective(new)
  <2>1. \A k, l \in 1 .. n : down[k] = down[l] => k = l
    BY <1>3, <1>5 DEF IsInjective
  <2>2. \A k \in 1 .. n : down[k] \in D
    BY <1>2
  <2>3. ASSUME NEW k \in 1 .. n, NEW l \in 1 .. n, new[k] = new[l]
        PROVE  k = l
    <3>1. down[k] \in D /\ down[l] \in D /\ frame[down[k]] = frame[down[l]]
      BY <1>5, <2>2, <2>3
    <3>2. down[k] = down[l]
      BY <1>8, <3>1
    <3> QED  BY <2>1, <3>2
  <2> QED  BY <1>5, <2>3 DEF IsInjective
<1>9. ASSUME \A g \in D : frame[g] \notin Range(free)
      PROVE  Range(new) \cap Range(free) = {}
  BY <1>7, <1>9
<1>10. /\ new \o free \in Seq(S)
       /\ Len(new \o free) = Len(new) + Len(free)
       /\ Range(new \o free) = Range(new) \cup Range(free)
       /\ IsInjective(new) /\ IsInjective(free) /\ Range(new) \cap Range(free) = {}
            => IsInjective(new \o free)
  BY <1>6, ConcatInjective
<1> QED  BY <1>4, <1>6, <1>7, <1>8, <1>9, <1>10 DEF n

-----------------------------------------------------------------------------

\* vm_map_ram maps pages that exist to frames from the free list.
LEMMA MapRamTypes ==
  ASSUME FrameTypeOK, NEW p \in Proc, NEW addr \in Nat, NEW n \in Nat, MapRam(p, addr, n)
  PROVE  /\ pte' \in [Proc -> [Page -> Entries]]
         /\ fifo' \in [Proc -> Seq(Page)]
         /\ mram' \in Seq(RamFrame)
<1> DEFINE page(i) == PAGING_PGN(addr + i * PAGING_PAGESZ)
           new == {page(i) : i \in 0 .. n - 1}
           mapped(g) == {i \in 0 .. n - 1 : page(i) = g}
           frame(g) == mram[n - Max(mapped(g))]
           head == [i \in 1 .. n |-> page(n - i)]
<1>0. /\ pte \in [Proc -> [Page -> Entries]] /\ fifo \in [Proc -> Seq(Page)]
      /\ mram \in Seq(RamFrame)
  BY DEF FrameTypeOK
<1>1. CASE Len(mram) < n
  BY <1>0, <1>1 DEF MapRam
<1>2. CASE ~(Len(mram) < n)
  <2>1. Len(mram) \in Nat /\ n <= Len(mram) /\ \A i \in 1 .. Len(mram) : mram[i] \in RamFrame
    BY <1>0, <1>2, LenProperties, ElementOfSeq
  <2>2. /\ mram' = FramesLeft(n)
        /\ pte' = [pte EXCEPT ![p] = [g \in Page |->
                IF g \in new THEN WithFpn(pte[p][g], frame(g)) ELSE pte[p][g]]]
        /\ fifo' = [fifo EXCEPT ![p] = head \o fifo[p]]
    BY <1>0, <1>2 DEF MapRam
  <2>3. \A i \in 0 .. n - 1 : page(i) \in Page
    <3> TAKE i \in 0 .. n - 1
    <3>1. addr + i * PAGING_PAGESZ \in Nat
      BY PageSizeAssumption
    <3> QED  BY <3>1, PageOf
  <2> HIDE DEF page
  <2>4. ASSUME NEW g \in new  PROVE frame(g) \in RamFrame
    <3>1. mapped(g) \in SUBSET (0 .. n - 1) /\ mapped(g) # {}
      BY <2>4
    <3>2. Max(mapped(g)) \in 0 .. n - 1
      <4> HIDE DEF mapped
      <4> QED  BY <3>1, MaxFound
    <3>3. n - Max(mapped(g)) \in 1 .. Len(mram)
      BY <2>1, <3>2
    <3> QED  BY <2>1, <3>3
  <2>5. mram' \in Seq(RamFrame)
    <3>1. n \in 0 .. Len(mram)
      BY <2>1
    <3> QED  BY <1>0, <2>2, <3>1, RestEntries DEF FramesLeft
  <2>6. head \o fifo[p] \in Seq(Page)
    <3>1. head \in Seq(Page)
      <4>1. \A i \in 1 .. n : n - i \in 0 .. n - 1
        OBVIOUS
      <4>2. head \in [1 .. n -> Page]
        BY <2>3, <4>1
      <4> HIDE DEF head
      <4> QED  BY <4>2, SeqDef
    <3> HIDE DEF head
    <3>2. fifo[p] \in Seq(Page)
      BY <1>0
    <3> QED  BY <3>1, <3>2, ConcatProperties
  <2> HIDE DEF frame, new, head
  <2>7. fifo' \in [Proc -> Seq(Page)]
    BY <1>0, <2>2, <2>6
  <2>8. \A g \in Page :
          (IF g \in new THEN WithFpn(pte[p][g], frame(g)) ELSE pte[p][g]) \in Entries
    BY <1>0, <2>4, EntriesStored
  <2>9. pte' \in [Proc -> [Page -> Entries]]
    BY <1>0, <2>2, <2>8
  <2> QED  BY <2>5, <2>7, <2>9
<1> QED  BY <1>1, <1>2

\* Each call of inc_vma_limit, if krnl->mm is there.
LEMMA IncVmaLimitTypes ==
  ASSUME RegionTypeOK, FrameTypeOK, NEW p \in Proc, NEW inc_sz \in Nat,
         KRNL_MM # NoProc, IncVmaLimit(p, inc_sz)
  PROVE  /\ pte' \in [Proc -> [Page -> Entries]]
         /\ fifo' \in [Proc -> Seq(Page)]
         /\ mram' \in Seq(RamFrame)
<1> DEFINE n == (inc_sz + PAGING_PAGESZ - 1) \div PAGING_PAGESZ
<1>1. n \in Nat
  BY PageSizeAssumption, WholePages
<1>2. sbrk[KRNL_MM] \in Nat
  BY NoProcAssumption DEF RegionTypeOK
<1>3. MapRam(p, sbrk[KRNL_MM], n)
  BY DEF IncVmaLimit
<1> HIDE DEF n
<1> QED  BY <1>1, <1>2, <1>3, MapRamTypes

\* An access that ends.
LEMMA DoneTypes ==
  ASSUME FrameTypeOK, NEW p \in Proc, Done(p)
  PROVE  /\ acc' \in [Proc -> Accesses]
         /\ lock' \in Proc \cup {NoProc}
         /\ listed' \in [Proc -> BOOLEAN] /\ ended' \in SUBSET Proc /\ crashed' \in BOOLEAN
<1>1. /\ acc' = [acc EXCEPT ![p] = Idle]
      /\ lock' = IF lock = p THEN NoProc ELSE lock
      /\ UNCHANGED <<listed, ended, crashed>>
  BY DEF Done, procVars
<1>2. acc' \in [Proc -> Accesses]
  BY <1>1 DEF FrameTypeOK, Accesses
<1> QED  BY <1>1, <1>2 DEF FrameTypeOK

\* An access that goes on with what it is to have there.
LEMMA GoesOnTypes ==
  ASSUME FrameTypeOK, NEW p \in Proc, acc[p] # Idle,
         NEW at \in {"swap", "load", "put", "io"}, NEW free \in Seq(SwapNumber),
         NEW from \in SwapNumber, NEW to \in RamFrame,
         at = "put" => from \in SwapFrame,
         GoesOn(p, at, free, from, to)
  PROVE  /\ acc' \in [Proc -> Accesses]
         /\ lock' \in Proc \cup {NoProc}
         /\ listed' \in [Proc -> BOOLEAN] /\ ended' \in SUBSET Proc /\ crashed' \in BOOLEAN
<1> DEFINE now == InAccess(acc[p].op, acc[p].pgn, at, free, from, to)
<1>1. acc[p].op \in Ops /\ acc[p].pgn \in Page
  BY DEF FrameTypeOK, Accesses
<1>2. now \in Accesses
  BY <1>1 DEF InAccess, Accesses
<1>3. /\ acc' = [acc EXCEPT ![p] = now]
      /\ UNCHANGED <<lock, listed, ended, crashed>>
  BY DEF GoesOn, procVars, FrameTypeOK
<1> HIDE DEF now
<1> QED  BY <1>2, <1>3 DEF FrameTypeOK

-----------------------------------------------------------------------------

\* The parts of a process's access, and the entry of its page.
LEMMA EntryParts ==
  ASSUME FrameTypeOK, NEW p \in Proc
  PROVE  /\ Pgn(p) \in Page /\ Entry(p) \in Entries
         /\ acc[p].from \in SwapNumber /\ acc[p].to \in RamFrame
         /\ acc[p].at = "page" => acc[p].free \in Seq(RamFrame)
         /\ acc[p].at # "page" => acc[p].free \in Seq(SwapNumber)
         /\ acc[p].at = "put" => acc[p].from \in SwapFrame
BY AccessParts DEF FrameTypeOK, Pgn, Entry

\* Nothing is a list of frames, and zero a frame.
LEMMA NoFrames == <<>> \in Seq(SwapNumber) /\ 0 \in SwapNumber /\ 0 \in RamFrame
BY DeviceAssumption, EmptySeq DEF SwapNumber, SwapFrame, RamFrame

\* The end of an access in RAM keeps the types, ...
LEMMA PresentTypes ==
  ASSUME FrameTypeOK, NEW p \in Proc, AccessPresent(p)
  PROVE  FrameTypeOK'
<1>1. /\ UNCHANGED <<pte, fifo, mram, mswp, swp>> /\ Done(p)
      /\ ram' = IF Stores(p) THEN [ram EXCEPT ![PAGING_FPN(Entry(p))] = <<p, Pgn(p)>>]
                ELSE ram
  BY DEF AccessPresent
<1>2. ram' \in [RamFrame -> Stored]
  BY <1>1, EntryParts DEF Stored, FrameTypeOK
<1>3. /\ acc' \in [Proc -> Accesses] /\ lock' \in Proc \cup {NoProc}
      /\ listed' \in [Proc -> BOOLEAN] /\ ended' \in SUBSET Proc /\ crashed' \in BOOLEAN
  BY <1>1, DoneTypes
<1> QED  BY <1>1, <1>2, <1>3 DEF FrameTypeOK

\* ... and so does taking a frame of RAM, ...
LEMMA TakeTypes ==
  ASSUME FrameTypeOK, NEW p \in Proc, AccessFrame(p)
  PROVE  FrameTypeOK'
<1> DEFINE f == Head(acc[p].free)
           s == PAGING_SWP(Entry(p))
<1>1. /\ acc[p] # Idle /\ acc[p].at = "page" /\ acc[p].free # <<>> /\ Entry(p).swapped
      /\ mram' = Tail(acc[p].free) /\ GoesOn(p, "load", <<>>, s, f)
      /\ UNCHANGED <<pte, fifo, mswp, ram, swp>>
  BY DEF AccessFrame, AccessAt
<1>2. Entry(p) \in Entries /\ acc[p].free \in Seq(RamFrame)
  BY <1>1, EntryParts
<1>3. f \in RamFrame /\ Tail(acc[p].free) \in Seq(RamFrame)
  BY <1>1, <1>2, HeadTailProperties
<1>4. s \in SwapNumber
  BY <1>1, <1>2 DEF Entries
<1> HIDE DEF f, s
<1>5. /\ acc' \in [Proc -> Accesses] /\ lock' \in Proc \cup {NoProc}
      /\ listed' \in [Proc -> BOOLEAN] /\ ended' \in SUBSET Proc /\ crashed' \in BOOLEAN
  BY <1>1, <1>3, <1>4, NoFrames, GoesOnTypes
<1> QED  BY <1>1, <1>3, <1>5 DEF FrameTypeOK

\* ... the choice of a victim, ...
LEMMA VictimTypes ==
  ASSUME FrameTypeOK, NEW p \in Proc, AccessVictim(p)
  PROVE  FrameTypeOK'
<1>1. acc[p] # Idle /\ GoesOn(p, "swap", mswp, 0, 0) /\ UNCHANGED frameVars
  BY DEF AccessVictim, NeedsVictim, AccessAt
<1>2. mswp \in Seq(SwapNumber)
  BY DEF FrameTypeOK
<1>3. /\ acc' \in [Proc -> Accesses] /\ lock' \in Proc \cup {NoProc}
      /\ listed' \in [Proc -> BOOLEAN] /\ ended' \in SUBSET Proc /\ crashed' \in BOOLEAN
  BY <1>1, <1>2, NoFrames, GoesOnTypes
<1> QED  BY <1>1, <1>3 DEF FrameTypeOK, frameVars

\* The oldest page of the list, and the others.
LEMMA VictimParts ==
  ASSUME FrameTypeOK, NEW p \in Proc, fifo[p] # <<>>
  PROVE  Victim(p) \in Page /\ WithoutVictim(p) \in Seq(Page)
<1>1. fifo[p] \in Seq(Page) /\ Len(fifo[p]) \in Nat \ {0}
  BY EmptySeq DEF FrameTypeOK
<1>2. Victim(p) \in Page
  BY <1>1, ElementOfSeq DEF Victim, Last
<1>3. \A i \in 1 .. Len(fifo[p]) - 1 : fifo[p][i] \in Page
  BY <1>1, ElementOfSeq
<1> QED  BY <1>1, <1>2, <1>3, SubSeqProperties DEF Front, WithoutVictim

\* A list without its oldest page is one, even if it had none.
LEMMA WithoutVictimTypes ==
  ASSUME FrameTypeOK, NEW p \in Proc
  PROVE  WithoutVictim(p) \in Seq(Page)
<1>1. CASE fifo[p] # <<>>
  BY <1>1, VictimParts
<1>2. CASE fifo[p] = <<>>
  <2>1. Front(<<>>) = <<>>
    BY DEF Front
  <2> QED  BY <1>2, <2>1, EmptySeq DEF WithoutVictim
<1> QED  BY <1>1, <1>2

\* ... and its loss from the list, ...
LEMMA NoSwapTypes ==
  ASSUME FrameTypeOK, NEW p \in Proc, AccessNoSwap(p)
  PROVE  FrameTypeOK'
<1>1. /\ fifo' = [fifo EXCEPT ![p] = WithoutVictim(p)] /\ Done(p)
      /\ UNCHANGED <<pte, mram, mswp, ram, swp>>
  BY DEF AccessNoSwap
<1>2. fifo' \in [Proc -> Seq(Page)]
  BY <1>1, WithoutVictimTypes DEF FrameTypeOK
<1>3. /\ acc' \in [Proc -> Accesses] /\ lock' \in Proc \cup {NoProc}
      /\ listed' \in [Proc -> BOOLEAN] /\ ended' \in SUBSET Proc /\ crashed' \in BOOLEAN
  BY <1>1, DoneTypes
<1> QED  BY <1>1, <1>2, <1>3 DEF FrameTypeOK

\* ... its eviction, ...
LEMMA EvictTypes ==
  ASSUME FrameTypeOK, NEW p \in Proc, Entry(p).swapped, fifo[p] # <<>>, AccessEvict(p)
  PROVE  FrameTypeOK'
<1> DEFINE v == Victim(p)
           f == PAGING_FPN(pte[p][v])
           s == Head(acc[p].free)
           from == PAGING_SWP(Entry(p))
<1>1. /\ acc[p] # Idle /\ acc[p].at = "swap" /\ acc[p].free # <<>> /\ f \in RamFrame
      /\ mswp' = Tail(acc[p].free)
      /\ swp' = IF listed[p] THEN CopyPage(ram, f, swp, s) ELSE swp
      /\ pte' = [pte EXCEPT ![p][v] = WithSwap(pte[p][v], 0, s)]
      /\ fifo' = [fifo EXCEPT ![p] = WithoutVictim(p)]
      /\ GoesOn(p, "load", <<>>, from, f)
      /\ UNCHANGED <<mram, ram>>
  BY VictimParts DEF AccessEvict, AccessAt, FrameTypeOK
<1>2. v \in Page /\ WithoutVictim(p) \in Seq(Page)
  BY VictimParts
<1>3. acc[p].free \in Seq(SwapNumber) /\ Entry(p) \in Entries
  BY <1>1, EntryParts
<1>4. s \in SwapNumber /\ Tail(acc[p].free) \in Seq(SwapNumber)
  BY <1>1, <1>3, HeadTailProperties
<1>5. from \in SwapNumber
  BY <1>3 DEF Entries
<1>6. WithSwap(pte[p][v], 0, s) \in Entries
  BY <1>4, EntriesStored
<1> HIDE DEF v, f, s, from
<1>7. pte' \in [Proc -> [Page -> Entries]] /\ fifo' \in [Proc -> Seq(Page)]
  BY <1>1, <1>2, <1>6 DEF FrameTypeOK
<1>8. swp' \in [SwapFrame -> Stored]
  BY <1>1 DEF CopyPage, FrameTypeOK
<1>9. /\ acc' \in [Proc -> Accesses] /\ lock' \in Proc \cup {NoProc}
      /\ listed' \in [Proc -> BOOLEAN] /\ ended' \in SUBSET Proc /\ crashed' \in BOOLEAN
  BY <1>1, <1>5, NoFrames, GoesOnTypes
<1> QED  BY <1>1, <1>4, <1>7, <1>8, <1>9 DEF FrameTypeOK

\* ... the load, ...
LEMMA LoadTypes ==
  ASSUME FrameTypeOK, NEW p \in Proc, AccessLoad(p)
  PROVE  FrameTypeOK'
<1>1. /\ acc[p] # Idle /\ acc[p].from \in SwapFrame
      /\ ram' = CopyPage(swp, acc[p].from, ram, acc[p].to)
      /\ GoesOn(p, "put", mswp, acc[p].from, acc[p].to)
      /\ UNCHANGED <<pte, fifo, mram, mswp, swp>>
  BY DEF AccessLoad, AccessAt
<1>2. acc[p].from \in SwapNumber /\ acc[p].to \in RamFrame /\ mswp \in Seq(SwapNumber)
  BY EntryParts DEF FrameTypeOK
<1>3. ram' \in [RamFrame -> Stored]
  BY <1>1 DEF CopyPage, FrameTypeOK
<1>4. /\ acc' \in [Proc -> Accesses] /\ lock' \in Proc \cup {NoProc}
      /\ listed' \in [Proc -> BOOLEAN] /\ ended' \in SUBSET Proc /\ crashed' \in BOOLEAN
  BY <1>1, <1>2, GoesOnTypes
<1> QED  BY <1>1, <1>3, <1>4 DEF FrameTypeOK

\* ... and putting the page's frame of swap back.
LEMMA PutTypes ==
  ASSUME FrameTypeOK, NEW p \in Proc, AccessPut(p)
  PROVE  FrameTypeOK'
<1> DEFINE e == WithFpn(Entry(p), acc[p].to)
<1>1. /\ acc[p] # Idle /\ acc[p].at = "put"
      /\ mswp' = <<acc[p].from>> \o acc[p].free
      /\ pte' = [pte EXCEPT ![p][Pgn(p)] = e]
      /\ fifo' = [fifo EXCEPT ![p] = <<Pgn(p)>> \o fifo[p]]
      /\ GoesOn(p, "io", <<>>, 0, 0)
      /\ UNCHANGED <<mram, ram, swp>>
  BY EntryParts DEF AccessPut, AccessAt, EnlistPgn, PutFree, Entry, FrameTypeOK
<1>2. /\ Pgn(p) \in Page /\ Entry(p) \in Entries
      /\ acc[p].from \in SwapNumber /\ acc[p].to \in RamFrame
      /\ acc[p].free \in Seq(SwapNumber)
  BY <1>1, EntryParts
<1>3. e \in Entries
  BY <1>2, EntriesStored
<1> HIDE DEF e
<1>4. pte' \in [Proc -> [Page -> Entries]]
  BY <1>1, <1>2, <1>3 DEF FrameTypeOK
<1>5. fifo' \in [Proc -> Seq(Page)]
  <2>1. fifo[p] \in Seq(Page)
    BY DEF FrameTypeOK
  <2>2. <<Pgn(p)>> \o fifo[p] \in Seq(Page)
    BY <1>2, <2>1, ConsEntries
  <2> QED  BY <1>1, <2>2 DEF FrameTypeOK
<1>6. mswp' \in Seq(SwapNumber)
  BY <1>1, <1>2, ConsEntries
<1>7. /\ acc' \in [Proc -> Accesses] /\ lock' \in Proc \cup {NoProc}
      /\ listed' \in [Proc -> BOOLEAN] /\ ended' \in SUBSET Proc /\ crashed' \in BOOLEAN
  BY <1>1, NoFrames, GoesOnTypes
<1> QED  BY <1>1, <1>4, <1>5, <1>6, <1>7 DEF FrameTypeOK

\* The end of a process keeps the types, whether its frames go back or not.
LEMMA EndTypes ==
  ASSUME FrameTypeOK, NEW p \in Proc, End(p)
  PROVE  FrameTypeOK'
<1>1. /\ ended' = ended \cup {p} /\ listed' = [listed EXCEPT ![p] = FALSE]
      /\ UNCHANGED <<pte, fifo, ram, swp, acc, lock, crashed>>
  BY DEF End
<1>2. mram' \in Seq(RamFrame)
  <2> DEFINE D == {h \in Looked : Present(pte[p][h])}
  <2>1. D \in SUBSET Nat /\ IsFiniteSet(D)
    BY SomePages DEF Looked
  <2>2. ReturnedRam(p) \in [D -> RamFrame]
    BY DEF ReturnedRam, Looked, FrameTypeOK, Entries
  <2>3. mram \in Seq(RamFrame)
    BY DEF FrameTypeOK
  <2>4. Giving(ReturnedRam(p), mram) \in Seq(RamFrame)
    <3> HIDE DEF D
    <3> QED  BY <2>1, <2>2, <2>3, GivingAdds
  <2> QED  BY <2>3, <2>4 DEF End
<1>3. mswp' \in Seq(SwapNumber)
  <2> DEFINE D == {h \in Looked : pte[p][h].swapped}
  <2>1. D \in SUBSET Nat /\ IsFiniteSet(D)
    BY SomePages DEF Looked
  <2>2. ReturnedSwap(p) \in [D -> SwapNumber]
    BY DEF ReturnedSwap, Looked, FrameTypeOK, Entries
  <2>3. mswp \in Seq(SwapNumber)
    BY DEF FrameTypeOK
  <2>4. Giving(ReturnedSwap(p), mswp) \in Seq(SwapNumber)
    <3> HIDE DEF D
    <3> QED  BY <2>1, <2>2, <2>3, GivingAdds
  <2> QED  BY <2>3, <2>4 DEF End
<1> QED  BY <1>1, <1>2, <1>3 DEF FrameTypeOK

-----------------------------------------------------------------------------

\* An access that waits for its page to be loaded is one of a page in swap, and has a
\* victim when it looks for a frame there; when the page was loaded, it is in RAM.
Waiting ==
    \A p \in Proc :
        /\ acc[p].at \in {"swap", "load", "put"} => Entry(p).swapped
        /\ acc[p].at = "swap" => fifo[p] # <<>>
        /\ acc[p].at = "io" => Present(Entry(p))

\* No process changes the entries, the list or the access of another.
LEMMA OthersKeep ==
  ASSUME FrameTypeOK, [Next]_vars
  PROVE  \/ UNCHANGED <<pte, fifo, acc>>
         \/ \E q \in Proc :
              /\ (acc[q] = Idle /\ acc'[q].at = "page") \/ Access(q)
              /\ \A p \in Proc : p # q =>
                   pte'[p] = pte[p] /\ fifo'[p] = fifo[p] /\ acc'[p] = acc[p]
<1>1. CASE UNCHANGED vars
  BY <1>1 DEF vars, frameVars
<1> DEFINE Own(q) == \A p \in Proc : p # q =>
                       pte'[p] = pte[p] /\ fifo'[p] = fifo[p] /\ acc'[p] = acc[p]
<1>2. ASSUME NEW q \in Proc, NEW addr, NEW n, MapRam(q, addr, n)
      PROVE  \A p \in Proc : p # q => pte'[p] = pte[p] /\ fifo'[p] = fifo[p]
  BY <1>2 DEF MapRam, FrameTypeOK
<1>3. Idle.at = "page"
  BY DEF Idle, InAccess
<1>4. ASSUME NEW q \in Proc,
             \/ \E rg \in RgId, size \in Sizes : AllocGrow(q, rg, size)
             \/ \E size \in Sizes : IncOp(q, size)
      PROVE  acc[q] = Idle /\ acc'[q].at = "page" /\ Own(q)
  <2>1. acc[q] = Idle /\ acc' = acc
    BY <1>4 DEF AllocGrow, IncOp, Ready
  <2>2. UNCHANGED <<pte, fifo>> \/ \E addr, n : MapRam(q, addr, n)
    BY <1>4 DEF AllocGrow, IncOp, IncVmaLimit
  <2> QED  BY <1>2, <1>3, <2>1, <2>2
<1>5. ASSUME NEW q \in Proc,
             \/ \E rg \in RgId, size \in Sizes : AllocFree(q, rg, size)
             \/ \E size \in Sizes : AllocCrash(q, size)
             \/ \E rg \in RgId : Free(q, rg)
             \/ \E f \in RamFrame : IoWrite(q, f) \/ \E s \in SwapFrame : SwpOp(q, f, s)
             \/ CallCrash(q) \/ PutBack(q) \/ End(q)
      PROVE  UNCHANGED <<pte, fifo, acc>>
  BY <1>5 DEF AllocFree, AllocCrash, Free, IoWrite, SwpOp, CallCrash, PutBack, End, Crash,
       frameVars
<1>6. ASSUME NEW q \in Proc, NEW range \in Ranges, MapOp(q, range)
      PROVE  acc[q] = Idle /\ acc'[q].at = "page" /\ Own(q)
  BY <1>3, <1>6 DEF MapOp, Ready, FrameTypeOK
<1>7. ASSUME NEW q \in Proc, NEW op \in Ops, NEW rg \in RgId, NEW off \in Offsets,
             Begin(q, op, rg, off)
      PROVE  acc[q] = Idle /\ acc'[q].at = "page" /\ Own(q)
  BY <1>7 DEF Begin, Ready, InAccess, frameVars, FrameTypeOK
<1>8. ASSUME NEW q \in Proc, Access(q)
      PROVE  Own(q)
  BY <1>8 DEF Access, AccessReturns, AccessGoesOn, AccessAbsent, AccessPresent,
       AccessFrame, AccessNoVictim, AccessVictim, AccessNoSwap, AccessEvict, AccessLoad,
       AccessPut, AccessCrash, GoesOn, Done, Crash, frameVars, FrameTypeOK
<1> QED  BY <1>1, <1>4, <1>5, <1>6, <1>7, <1>8 DEF Next

\* The page of an access is not in RAM when it leaves for swap or for its load.
LEMMA WaitingStep ==
  ASSUME FrameTypeOK, Waiting, [Next]_vars
  PROVE  Waiting'
<1>1. CASE UNCHANGED <<pte, fifo, acc>>
  BY <1>1 DEF Waiting, Entry, Pgn, Present
<1>2. ASSUME NEW q \in Proc,
             (acc[q] = Idle /\ acc'[q].at = "page") \/ Access(q),
             \A p \in Proc : p # q =>
               pte'[p] = pte[p] /\ fifo'[p] = fifo[p] /\ acc'[p] = acc[p]
      PROVE  Waiting'
  <2> SUFFICES /\ acc'[q].at \in {"swap", "load", "put"} => Entry(q)'.swapped
               /\ acc'[q].at = "swap" => fifo'[q] # <<>>
               /\ acc'[q].at = "io" => Present(Entry(q)')
    BY <1>2 DEF Waiting, Entry, Pgn, Present
  <2>1. Idle.at = "page"
    BY DEF Idle, InAccess
  <2>2. /\ acc[q].at \in {"swap", "load", "put"} => Entry(q).swapped
        /\ acc[q].at = "swap" => fifo[q] # <<>>
        /\ acc[q].at = "io" => Present(Entry(q))
    BY DEF Waiting
  <2>3. CASE acc[q] = Idle /\ acc'[q].at = "page"
    BY <2>3
  <2>4. CASE AccessCrash(q)
    BY <2>2, <2>4 DEF AccessCrash, Crash, frameVars, Entry, Pgn, Present
  <2>5. CASE AccessReturns(q)
    BY <2>1, <2>5 DEF AccessReturns, AccessAbsent, AccessPresent, AccessNoVictim,
         AccessNoSwap, Done, FrameTypeOK
  <2>6. CASE AccessFrame(q) \/ AccessVictim(q) \/ AccessLoad(q)
    <3>1. /\ UNCHANGED <<pte, fifo>> /\ acc'[q].pgn = acc[q].pgn /\ Entry(q).swapped
          /\ acc'[q].at = "swap" => fifo[q] # <<>>
          /\ acc'[q].at # "io"
      BY <2>2, <2>6 DEF AccessFrame, AccessVictim, AccessLoad, NeedsVictim, AccessAt,
           GoesOn, InAccess, frameVars, FrameTypeOK
    <3> QED  BY <3>1 DEF Entry, Pgn
  <2>7. CASE AccessEvict(q)
    <3>1. /\ pte' = [pte EXCEPT ![q][Victim(q)] =
                       WithSwap(pte[q][Victim(q)], 0, Head(acc[q].free))]
          /\ acc'[q].pgn = acc[q].pgn /\ acc'[q].at = "load" /\ Entry(q).swapped
          /\ Victim(q) \in Page
      BY <2>2, <2>7, VictimParts DEF AccessEvict, AccessAt, GoesOn, InAccess, FrameTypeOK
    <3>2. \A e, s : WithSwap(e, 0, s).swapped
      BY DEF WithSwap
    <3>3. Entry(q)'.swapped
      BY <3>1, <3>2, EntryParts DEF Entry, Pgn, FrameTypeOK
    <3> QED  BY <3>1, <3>3
  <2>8. CASE AccessPut(q)
    <3>1. /\ pte' = [pte EXCEPT ![q][Pgn(q)] = WithFpn(pte[q][Pgn(q)], acc[q].to)]
          /\ acc'[q].pgn = acc[q].pgn /\ acc'[q].at = "io" /\ Pgn(q) \in Page
      BY <2>8, AccessParts DEF AccessPut, AccessAt, GoesOn, InAccess, FrameTypeOK, Pgn
    <3>2. \A e, f : Present(WithFpn(e, f))
      BY DEF WithFpn, Present
    <3>3. Entry(q)' = WithFpn(pte[q][Pgn(q)], acc[q].to)
      BY <3>1 DEF Entry, Pgn, FrameTypeOK
    <3> QED  BY <3>1, <3>2, <3>3
  <2> QED  BY <1>2, <2>3, <2>4, <2>5, <2>6, <2>7, <2>8 DEF Access, AccessGoesOn
<1> QED  BY <1>1, <1>2, OthersKeep

\* Every step keeps the types of what the processes share.
LEMMA FrameTypeStep ==
  ASSUME RegionTypeOK, FrameTypeOK, Waiting, [Next]_vars
  PROVE  FrameTypeOK'
<1>1. CASE UNCHANGED <<frameVars, acc, lock, procVars>> /\ crashed' \in BOOLEAN
  BY <1>1 DEF FrameTypeOK, frameVars, procVars
<1>2. ASSUME NEW p \in Proc, NEW rg \in RgId, NEW size \in Sizes, AllocGrow(p, rg, size)
      PROVE  FrameTypeOK'
  <2>1. /\ UNCHANGED <<mswp, ram, swp, acc, lock, procVars, crashed>>
        /\ listed[p] => KRNL_MM # NoProc
        /\ IF listed[p] THEN IncVmaLimit(p, RoundUp(size)) ELSE UNCHANGED <<pte, fifo, mram>>
    BY <1>2 DEF AllocGrow
  <2>2. RoundUp(size) \in Nat
    BY OperandAssumption, PageSizeAssumption, WholePages DEF RoundUp
  <2>3. /\ pte' \in [Proc -> [Page -> Entries]]
        /\ fifo' \in [Proc -> Seq(Page)]
        /\ mram' \in Seq(RamFrame)
    BY <2>1, <2>2, IncVmaLimitTypes DEF FrameTypeOK
  <2> QED  BY <2>1, <2>3 DEF FrameTypeOK, procVars
<1>3. ASSUME NEW p \in Proc, NEW size \in Sizes, IncOp(p, size)
      PROVE  FrameTypeOK'
  <2>1. /\ UNCHANGED <<mswp, ram, swp, acc, lock, procVars, crashed>>
        /\ KRNL_MM # NoProc /\ IncVmaLimit(p, size)
    BY <1>3 DEF IncOp
  <2>2. /\ pte' \in [Proc -> [Page -> Entries]]
        /\ fifo' \in [Proc -> Seq(Page)]
        /\ mram' \in Seq(RamFrame)
    BY <2>1, OperandAssumption, IncVmaLimitTypes
  <2> QED  BY <2>1, <2>2 DEF FrameTypeOK, procVars
<1>4. ASSUME NEW p \in Proc, NEW range \in Ranges, MapOp(p, range)
      PROVE  FrameTypeOK'
  <2> DEFINE new == {(range[1] + i) % PAGING_MAX_PGN : i \in 0 .. range[2] - 1}
             now == [g \in Page |-> IF g \in new THEN Pattern ELSE pte[p][g]]
  <2>1. /\ UNCHANGED <<fifo, mram, mswp, ram, swp, acc, lock, procVars, crashed>>
        /\ pte' = [pte EXCEPT ![p] = now]
    BY <1>4 DEF MapOp, FrameTypeOK
  <2>2. now \in [Page -> Entries]
    BY EntriesStored DEF FrameTypeOK
  <2> HIDE DEF now
  <2> QED  BY <2>1, <2>2 DEF FrameTypeOK, procVars
<1>5. ASSUME NEW p \in Proc, NEW f \in RamFrame, NEW s \in SwapFrame, SwpOp(p, f, s)
      PROVE  FrameTypeOK'
  BY <1>5 DEF SwpOp, CopyPage, FrameTypeOK, procVars
<1>6. ASSUME NEW p \in Proc, NEW f \in RamFrame, IoWrite(p, f)
      PROVE  FrameTypeOK'
  BY <1>6 DEF IoWrite, Stored, FrameTypeOK, procVars
<1>7. ASSUME NEW p \in Proc, PutBack(p)
      PROVE  FrameTypeOK'
  BY <1>7 DEF PutBack, FrameTypeOK, frameVars
<1>8. ASSUME NEW p \in Proc, NEW op \in Ops, NEW rg \in RgId, NEW off \in Offsets,
             Begin(p, op, rg, off)
      PROVE  FrameTypeOK'
  <2> DEFINE begun == InAccess(op, PAGING_PGN(symrgtbl[p][rg].rg_start + off),
                               "page", mram, 0, 0)
  <2>1. /\ acc' = [acc EXCEPT ![p] = begun]
        /\ lock' = IF op = "write" THEN p ELSE lock
        /\ UNCHANGED <<frameVars, procVars, crashed>>
    BY <1>8 DEF Begin
  <2>2. symrgtbl[p][rg].rg_start + off \in Nat
    BY OperandAssumption DEF RegionTypeOK, Region
  <2>3. begun \in Accesses
    BY <2>2, PageOf, NoFrames DEF Accesses, InAccess, FrameTypeOK
  <2> HIDE DEF begun
  <2> QED  BY <2>1, <2>3 DEF FrameTypeOK, frameVars, procVars
<1>9. ASSUME NEW p \in Proc, Access(p)
      PROVE  FrameTypeOK'
  <2>1. CASE AccessAbsent(p) \/ AccessNoVictim(p)
    <3>1. UNCHANGED <<frameVars, procVars, crashed>>
          /\ acc' = [acc EXCEPT ![p] = Idle]
          /\ lock' = IF lock = p THEN NoProc ELSE lock
      BY <2>1 DEF AccessAbsent, AccessNoVictim, Done
    <3> QED  BY <3>1 DEF FrameTypeOK, frameVars, procVars, Accesses
  <2>2. CASE AccessCrash(p)
    BY <2>2 DEF AccessCrash, Crash, FrameTypeOK, frameVars, procVars
  <2>3. CASE AccessEvict(p)
    <3>1. acc[p].at = "swap"
      BY <2>3 DEF AccessEvict, AccessAt
    <3> QED  BY <2>3, <3>1, EvictTypes DEF Waiting
  <2> QED  BY <1>9, <2>1, <2>2, <2>3, PresentTypes, TakeTypes, VictimTypes, NoSwapTypes,
           LoadTypes, PutTypes DEF Access, AccessReturns, AccessGoesOn
<1>10. ASSUME NEW p \in Proc,
              \/ \E rg \in RgId, size \in Sizes : AllocFree(p, rg, size)
              \/ \E size \in Sizes : AllocCrash(p, size)
              \/ \E rg \in RgId : Free(p, rg)
              \/ CallCrash(p)
       PROVE  UNCHANGED <<frameVars, acc, lock, procVars>> /\ crashed' \in BOOLEAN
  BY <1>10 DEF AllocFree, AllocCrash, Free, CallCrash, Crash, FrameTypeOK
<1>11. CASE UNCHANGED vars
  BY <1>11 DEF vars, FrameTypeOK, frameVars, procVars
<1> QED  BY <1>1, <1>2, <1>3, <1>4, <1>5, <1>6, <1>7, <1>8, <1>9, <1>10, <1>11, EndTypes
         DEF Next

\* The initial states have these types.
LEMMA InitTypes ==
  ASSUME Init
  PROVE  RegionTypeOK /\ FrameTypeOK /\ Waiting
<1>1. RegionTypeOK
  BY InitCover
<1>2. mram \in Seq(RamFrame) /\ mswp \in Seq(SwapNumber)
  <2>1. /\ mram = [i \in 1 .. RAM_FRAMES |-> i - 1]
        /\ mswp = [i \in 1 .. SWAP_FRAMES |-> i - 1]
    BY DEF Init
  <2>2. mram \in [1 .. RAM_FRAMES -> RamFrame]
    BY <2>1, DeviceAssumption DEF RamFrame
  <2>3. mswp \in [1 .. SWAP_FRAMES -> SwapNumber]
    BY <2>1, DeviceAssumption DEF SwapFrame, SwapNumber
  <2> QED  BY <2>2, <2>3, DeviceAssumption, SeqDef
<1>3. listed \in [Proc -> BOOLEAN]
  BY BuildAssumption DEF Init
<1>4. pte \in [Proc -> [Page -> Entries]]
  BY EntriesStored DEF Init
<1>5. fifo \in [Proc -> Seq(Page)]
  BY EmptySeq DEF Init
<1>6. Waiting
  BY DEF Init, Waiting, Idle, InAccess
<1> QED  BY <1>1, <1>2, <1>3, <1>4, <1>5, <1>6 DEF Init, FrameTypeOK, Accesses, Stored

\* The variables have these types in every reachable state, on every build and for
\* all programs.
THEOREM FrameTypes == Spec => [](RegionTypeOK /\ FrameTypeOK /\ Waiting)
<1>1. RegionTypeOK /\ FrameTypeOK /\ Waiting /\ [Next]_vars
        => (RegionTypeOK /\ FrameTypeOK /\ Waiting)'
  BY CoverStep, FrameTypeStep, WaitingStep
<1> QED  BY <1>1, InitTypes, PTL DEF Spec

\* What changes the free list of swap: a victim takes a frame of it, the page that is
\* loaded gives its own back, and so does a process that ends.
LEMMA SwapUsers ==
  ASSUME [Next]_vars
  PROVE  mswp' = mswp \/ \E p \in Proc : AccessEvict(p) \/ AccessPut(p) \/ End(p)
<1>1. ASSUME NEW p \in Proc, Access(p)
      PROVE  mswp' = mswp \/ AccessEvict(p) \/ AccessPut(p)
  BY <1>1 DEF Access, AccessReturns, AccessGoesOn, AccessAbsent, AccessPresent, AccessFrame,
       AccessNoVictim, AccessVictim, AccessNoSwap, AccessLoad, AccessCrash, Crash, frameVars
<1>2. ASSUME NEW p \in Proc,
             \/ \E rg \in RgId, size \in Sizes :
                  AllocFree(p, rg, size) \/ AllocGrow(p, rg, size)
             \/ \E size \in Sizes : AllocCrash(p, size) \/ IncOp(p, size)
             \/ \E rg \in RgId : Free(p, rg)
             \/ \E range \in Ranges : MapOp(p, range)
             \/ \E f \in RamFrame : IoWrite(p, f) \/ \E s \in SwapFrame : SwpOp(p, f, s)
             \/ CallCrash(p) \/ PutBack(p)
             \/ \E op \in Ops, rg \in RgId, off \in Offsets : Begin(p, op, rg, off)
      PROVE  mswp' = mswp
  BY <1>2 DEF AllocFree, AllocGrow, AllocCrash, IncOp, Free, MapOp, IoWrite, SwpOp,
       CallCrash, PutBack, Begin, Crash, frameVars
<1>3. UNCHANGED vars => mswp' = mswp
  BY DEF vars, frameVars
<1> QED  BY <1>1, <1>2, <1>3 DEF Next

\* The list of swap, as it is and as accesses have loaded it, has frames of the device.
OnDevice ==
    /\ mswp \in Seq(SwapFrame)
    /\ \A p \in Proc : acc[p].at # "page" => acc[p].free \in Seq(SwapFrame)

\* A frame that is given back is one of the device, or a page of a process that ends.
LEMMA OnDeviceStep ==
  ASSUME PAGING_SWP(Pattern) \in SwapFrame \/ ~FREES,
         RegionTypeOK, FrameTypeOK, Waiting, OnDevice, [Next]_vars
  PROVE  OnDevice'
<1>1. CASE PAGING_SWP(Pattern) \in SwapFrame
  <2>1. SwapNumber = SwapFrame
    BY <1>1 DEF SwapNumber
  <2>2. FrameTypeOK'
    BY FrameTypeStep
  <2>3. mswp' \in Seq(SwapNumber) /\ acc' \in [Proc -> Accesses]
    BY <2>2 DEF FrameTypeOK
  <2>4. \A p \in Proc : acc'[p].at # "page" => acc'[p].free \in Seq(SwapNumber)
    BY <2>3, AccessParts
  <2> QED  BY <2>1, <2>3, <2>4 DEF OnDevice
<1>2. CASE ~FREES
  <2>1. mswp' \in Seq(SwapFrame)
    <3>1. ASSUME NEW p \in Proc, AccessEvict(p)
          PROVE  mswp' \in Seq(SwapFrame)
      <4>1. acc[p].at = "swap" /\ acc[p].free # <<>> /\ mswp' = Tail(acc[p].free)
        BY <3>1 DEF AccessEvict, AccessAt
      <4>2. acc[p].free \in Seq(SwapFrame)
        BY <4>1 DEF OnDevice
      <4> QED  BY <4>1, <4>2, HeadTailProperties
    <3>2. ASSUME NEW p \in Proc, AccessPut(p)
          PROVE  mswp' \in Seq(SwapFrame)
      <4>1. acc[p].at = "put" /\ mswp' = <<acc[p].from>> \o acc[p].free
        BY <3>2 DEF AccessPut, AccessAt, PutFree
      <4>2. acc[p].free \in Seq(SwapFrame) /\ acc[p].from \in SwapFrame
        BY <4>1, EntryParts DEF OnDevice
      <4> QED  BY <4>1, <4>2, ConsEntries
    <3>3. ASSUME NEW p \in Proc, End(p)
          PROVE  mswp' = mswp
      BY <1>2, <3>3 DEF End
    <3> QED  BY <3>1, <3>2, <3>3, SwapUsers DEF OnDevice
  <2>2. ASSUME NEW p \in Proc, acc'[p].at # "page"
        PROVE  acc'[p].free \in Seq(SwapFrame)
    <3>1. CASE acc'[p] = acc[p]
      BY <2>2, <3>1 DEF OnDevice
    <3>2. CASE Access(p) /\ acc'[p] # acc[p]
      <4>1. Idle.at = "page" /\ <<>> \in Seq(SwapFrame) /\ mswp \in Seq(SwapFrame)
        BY EmptySeq DEF Idle, InAccess, OnDevice
      <4>2. acc'[p] = Idle \/ acc'[p].free \in {<<>>, mswp}
        BY <3>2 DEF Access, AccessReturns, AccessGoesOn, AccessAbsent, AccessPresent,
             AccessFrame, AccessNoVictim, AccessVictim, AccessNoSwap, AccessEvict,
             AccessLoad, AccessPut, AccessCrash, GoesOn, InAccess, Done, Crash, FrameTypeOK
      <4> QED  BY <2>2, <4>1, <4>2
    <3> QED  BY <2>2, <3>1, <3>2, OthersKeep
  <2> QED  BY <2>1, <2>2 DEF OnDevice
<1> QED  BY <1>1, <1>2

\* So Memory's type invariant holds in the build, which never calls free_pcb_memph; with
\* a call of it, the offset in 0xdeadbeef must be a frame of swap, since the pages that
\* MAP_OP mapped give that number back.
THEOREM MemoryTypes ==
  ASSUME PAGING_SWP(Pattern) \in SwapFrame \/ ~FREES
  PROVE  Spec => []TypeOK
<1>1. RegionTypeOK /\ FrameTypeOK /\ OnDevice => TypeOK
  <2> SUFFICES ASSUME RegionTypeOK, FrameTypeOK, OnDevice  PROVE TypeOK
    OBVIOUS
  <2>1. pte \in [Proc -> [Page -> PTE]]
    BY DEF FrameTypeOK, Entries
  <2>2. ASSUME NEW p \in Proc, acc[p] # Idle
        PROVE  /\ acc[p].op \in Ops /\ acc[p].pgn \in Page
               /\ acc[p].at \in {"page", "swap", "load", "put", "io"}
               /\ acc[p].free \in Seq(IF acc[p].at = "page" THEN RamFrame ELSE SwapFrame)
               /\ acc[p].from \in SwapFrame \cup {PAGING_SWP(Pattern)}
               /\ acc[p].to \in RamFrame
    BY <2>2 DEF FrameTypeOK, Accesses, OnDevice, SwapNumber
  <2> QED  BY <2>1, <2>2 DEF RegionTypeOK, Region, FrameTypeOK, OnDevice, TypeOK, Stored
<1>2. Init => OnDevice
  <2> SUFFICES ASSUME Init  PROVE OnDevice
    OBVIOUS
  <2>1. mswp = [i \in 1 .. SWAP_FRAMES |-> i - 1]
    BY DEF Init
  <2>2. mswp \in [1 .. SWAP_FRAMES -> SwapFrame]
    BY <2>1, DeviceAssumption DEF SwapFrame
  <2>3. mswp \in Seq(SwapFrame)
    BY <2>2, DeviceAssumption, SeqDef
  <2> QED  BY <2>3 DEF Init, OnDevice, Idle, InAccess
<1>3. RegionTypeOK /\ FrameTypeOK /\ Waiting /\ OnDevice /\ [Next]_vars => OnDevice'
  BY OnDeviceStep
<1> QED  BY <1>1, <1>2, <1>3, FrameTypes, PTL DEF Spec

-----------------------------------------------------------------------------
(* Accesses that exclude each other                                        *)

\* When they do: all accesses hold mmvm_lock, and nobody uses INC_OP, which does
\* not take it; or there is one CPU, or one process, at a time.
Serial ==
    \/ Ops \subseteq {"write"} /\ (KRNL_MM = NoProc \/ "inc" \notin CALLS)
    \/ CPUS = 1 /\ ~FREES
    \/ \E p : Proc = {p}

\* Then one process at most is in an access, and the free list it has loaded is still
\* the free list.
Alone ==
    /\ \A p, q \in Proc : acc[p] # Idle /\ acc[q] # Idle => p = q
    /\ \A p \in Proc : acc[p] # Idle =>
         /\ p \notin ended
         /\ acc[p].at = "page" => acc[p].free = mram
         /\ acc[p].at \in {"swap", "put"} => acc[p].free = mswp
    /\ Ops \subseteq {"write"} => \A p \in Proc : acc[p] # Idle => lock = p

\* The first free CPU means: nobody is in an access, if there is only one.
LEMMA OneCPU ==
  ASSUME CPUS = 1, Alone, NEW p \in Proc, Ready(p)
  PROVE  \A q \in Proc : acc[q] = Idle
<1> DEFINE Busy == {q \in Proc : acc[q] # Idle}
<1> SUFFICES ASSUME Busy # {}  PROVE FALSE
  OBVIOUS
<1>1. PICK q : Busy = {q}
  BY DEF Alone
<1>2. Cardinality(Busy) = 1
  BY <1>1, FS_Singleton
<1>3. Cardinality(Busy) < 1
  BY DEF Ready
<1> HIDE DEF Busy
<1> QED  BY <1>2, <1>3

\* Whoever changes the free list of RAM is alone.
LEMMA ChangesAlone ==
  ASSUME Serial, Alone, NEW p \in Proc,
         \/ \E rg \in RgId, size \in Sizes : AllocGrow(p, rg, size) /\ mram' # mram
         \/ \E size \in Sizes : IncOp(p, size)
         \/ End(p) /\ FREES
  PROVE  \A q \in Proc : acc[q] = Idle
<1>1. acc[p] = Idle
  BY DEF AllocGrow, IncOp, Ready, End
<1>2. CASE \E q : Proc = {q}
  BY <1>1, <1>2
<1>3. CASE CPUS = 1 /\ ~FREES
  BY <1>3, OneCPU DEF AllocGrow, IncOp
<1>4. CASE Ops \subseteq {"write"} /\ (KRNL_MM = NoProc \/ "inc" \notin CALLS)
  <2>1. lock = NoProc
    BY <1>4 DEF AllocGrow, IncOp, End
  <2> QED  BY <1>4, <2>1, NoProcAssumption DEF Alone
<1> QED  BY <1>2, <1>3, <1>4 DEF Serial

\* An access that begins is the only one.
LEMMA BeginAlone ==
  ASSUME Serial, FrameTypeOK, Alone, NEW p \in Proc, NEW op \in Ops, NEW rg \in RgId,
         NEW off \in Offsets, Begin(p, op, rg, off)
  PROVE  Alone'
<1>1. Ready(p) /\ acc[p] = Idle /\ p \notin ended
      /\ (op = "write" => lock = NoProc)
      /\ lock' = (IF op = "write" THEN p ELSE lock)
      /\ UNCHANGED <<mram, ended>>
  BY DEF Begin, Ready, frameVars, procVars
<1>2. \A q \in Proc : acc[q] = Idle
  <2>1. CASE \E q : Proc = {q}
    BY <1>1, <2>1
  <2>2. CASE CPUS = 1
    BY <1>1, <2>2, OneCPU
  <2>3. CASE Ops \subseteq {"write"}
    BY <1>1, <2>3, NoProcAssumption DEF Alone
  <2> QED  BY <2>1, <2>2, <2>3 DEF Serial
<1> DEFINE begun == InAccess(op, PAGING_PGN(symrgtbl[p][rg].rg_start + off),
                             "page", mram, 0, 0)
<1>3. acc' = [acc EXCEPT ![p] = begun] /\ begun.free = mram /\ begun.at = "page"
  BY DEF Begin, InAccess
<1> HIDE DEF begun
<1>4. \A q \in Proc : acc'[q] = IF q = p THEN begun ELSE Idle
  BY <1>2, <1>3 DEF FrameTypeOK
<1>5. Ops \subseteq {"write"} => lock' = p
  BY <1>1
<1> QED  BY <1>1, <1>3, <1>4, <1>5 DEF Alone

\* One that goes on stays the only one.
LEMMA GoesOnAlone ==
  ASSUME FrameTypeOK, Alone, NEW p \in Proc, AccessGoesOn(p)
  PROVE  Alone'
<1>1. /\ acc[p] # Idle /\ UNCHANGED <<lock, ended>>
      /\ acc'[p].at # "page"
      /\ acc'[p].at \in {"swap", "put"} => acc'[p].free = mswp'
      /\ \A q \in Proc : q # p => acc'[q] = acc[q]
  BY DEF AccessGoesOn, AccessFrame, AccessVictim, AccessEvict, AccessLoad, AccessPut,
     NeedsVictim, AccessAt, GoesOn, InAccess, frameVars, procVars, FrameTypeOK
<1>2. \A q \in Proc : q # p => acc'[q] = Idle
  BY <1>1 DEF Alone
<1>3. Ops \subseteq {"write"} => lock' = p
  BY <1>1 DEF Alone
<1>4. p \notin ended'
  BY <1>1 DEF Alone
<1> QED  BY <1>1, <1>2, <1>3, <1>4 DEF Alone

\* Every step leaves accesses alone.
LEMMA AloneStep ==
  ASSUME Serial, FrameTypeOK, Alone, [Next]_vars
  PROVE  Alone'
<1>1. CASE UNCHANGED <<acc, lock, mram, mswp, ended>>
  BY <1>1 DEF Alone
<1>2. ASSUME NEW p \in Proc,
             \/ \E rg \in RgId, size \in Sizes : AllocGrow(p, rg, size)
             \/ \E size \in Sizes : IncOp(p, size)
      PROVE  Alone'
  <2>1. UNCHANGED <<acc, lock, mswp, ended>>
    BY <1>2 DEF AllocGrow, IncOp, procVars
  <2>2. CASE mram' = mram
    BY <1>1, <2>1, <2>2
  <2>3. CASE mram' # mram
    <3>1. \A q \in Proc : acc[q] = Idle
      BY <1>2, <2>3, ChangesAlone
    <3> QED  BY <2>1, <3>1 DEF Alone
  <2> QED  BY <2>2, <2>3
<1>3. ASSUME NEW p \in Proc, End(p)
      PROVE  Alone'
  <2>1. UNCHANGED <<acc, lock>> /\ ended' = ended \cup {p} /\ acc[p] = Idle
    BY <1>3 DEF End
  <2>2. CASE FREES
    <3>1. \A q \in Proc : acc[q] = Idle
      BY <1>3, <2>2, ChangesAlone
    <3> QED  BY <2>1, <3>1 DEF Alone
  <2>3. CASE ~FREES
    <3>1. mram' = mram /\ mswp' = mswp
      BY <1>3, <2>3 DEF End
    <3> QED  BY <2>1, <3>1 DEF Alone
  <2> QED  BY <2>2, <2>3
<1>4. ASSUME NEW p \in Proc, Access(p)
      PROVE  Alone'
  <2>1. CASE AccessCrash(p)
    BY <1>1, <2>1 DEF AccessCrash, Crash, frameVars, procVars
  <2>2. CASE AccessReturns(p)
    <3>1. Done(p) /\ acc[p] # Idle
      BY <2>2 DEF AccessReturns, AccessAbsent, AccessPresent, AccessNoVictim,
           AccessNoSwap, NeedsVictim, AccessAt
    <3>2. \A q \in Proc : acc'[q] = Idle
      BY <3>1 DEF Done, Alone, FrameTypeOK
    <3> QED  BY <3>2 DEF Alone
  <2> QED  BY <1>4, <2>1, <2>2, GoesOnAlone DEF Access
<1>5. ASSUME NEW p \in Proc,
             \/ \E rg \in RgId, size \in Sizes : AllocFree(p, rg, size)
             \/ \E size \in Sizes : AllocCrash(p, size)
             \/ \E rg \in RgId : Free(p, rg)
             \/ \E range \in Ranges : MapOp(p, range)
             \/ \E f \in RamFrame : IoWrite(p, f) \/ \E s \in SwapFrame : SwpOp(p, f, s)
             \/ CallCrash(p) \/ PutBack(p)
      PROVE  UNCHANGED <<acc, lock, mram, mswp, ended>>
  BY <1>5 DEF AllocFree, AllocCrash, Free, MapOp, IoWrite, SwpOp, CallCrash, PutBack, Crash,
       frameVars, procVars
<1>6. UNCHANGED vars => UNCHANGED <<acc, lock, mram, mswp, ended>>
  BY DEF vars, frameVars, procVars
<1> QED  BY <1>1, <1>2, <1>3, <1>4, <1>5, <1>6, BeginAlone DEF Next

\* At the start nobody is in an access.
LEMMA InitAlone ==
  ASSUME Init
  PROVE  Alone
BY DEF Init, Alone

-----------------------------------------------------------------------------
(* Swap *)

\* p has the frame for its page, and its frame of swap is still to be given back.
Loading(p) == acc[p].at \in {"load", "put"}

\* Swap has as many free frames as at the start, but for one that an access has taken
\* for its victim.
SwapCounted ==
    /\ Len(mswp) >= SWAP_FRAMES - 1
    /\ (\A p \in Proc : ~Loading(p)) => Len(mswp) >= SWAP_FRAMES

\* How the length of the list changes.
LEMMA SwapLength ==
  ASSUME FrameTypeOK, Alone, [Next]_vars
  PROVE  /\ Len(mswp) \in Nat /\ Len(mswp') \in Nat
         /\ Len(mswp') >= Len(mswp) \/ \E p \in Proc : AccessEvict(p)
         /\ \A p \in Proc : AccessEvict(p) => Len(mswp') = Len(mswp) - 1
         /\ \A p \in Proc : AccessPut(p) => Len(mswp') = Len(mswp) + 1
<1>1. mswp \in Seq(SwapNumber) /\ Len(mswp) \in Nat
  BY LenProperties DEF FrameTypeOK
<1>2. ASSUME NEW p \in Proc, AccessEvict(p)
      PROVE  Len(mswp') = Len(mswp) - 1 /\ Len(mswp') \in Nat
  <2>1. mswp # <<>> /\ mswp' = Tail(mswp)
    BY <1>2 DEF AccessEvict, AccessAt, Alone
  <2> QED  BY <1>1, <2>1, EmptySeq, HeadTailProperties
<1>3. ASSUME NEW p \in Proc, AccessPut(p)
      PROVE  Len(mswp') = Len(mswp) + 1
  <2>1. acc[p].at = "put" /\ mswp' = <<acc[p].from>> \o mswp
    BY <1>3 DEF AccessPut, PutFree, AccessAt, Alone
  <2>2. acc[p].from \in SwapNumber
    BY <2>1, EntryParts
  <2> QED  BY <1>1, <2>1, <2>2, ConsEntries
<1>4. ASSUME NEW p \in Proc, End(p)
      PROVE  Len(mswp') \in Nat /\ Len(mswp') >= Len(mswp)
  <2> DEFINE D == {h \in Looked : pte[p][h].swapped}
  <2>1. D \in SUBSET Nat /\ IsFiniteSet(D)
    BY SomePages DEF Looked
  <2>2. ReturnedSwap(p) \in [D -> SwapNumber]
    BY DEF ReturnedSwap, Looked, FrameTypeOK, Entries
  <2>3. Cardinality(D) \in Nat
    BY <2>1, FS_CardinalityType
  <2> HIDE DEF D
  <2>4. Len(Giving(ReturnedSwap(p), mswp)) = Cardinality(D) + Len(mswp)
    BY <1>1, <2>1, <2>2, GivingAdds
  <2>5. mswp' = mswp \/ mswp' = Giving(ReturnedSwap(p), mswp)
    BY <1>4 DEF End
  <2> QED  BY <1>1, <2>3, <2>4, <2>5
<1> QED  BY <1>1, <1>2, <1>3, <1>4, SwapUsers

\* Every access that takes a frame of swap puts one back before the next.
LEMMA SwapCountedStep ==
  ASSUME FrameTypeOK, Alone, SwapCounted, [Next]_vars
  PROVE  SwapCounted'
<1>1. /\ Len(mswp) \in Nat /\ Len(mswp') \in Nat /\ SWAP_FRAMES \in Nat
      /\ Len(mswp') >= Len(mswp) \/ \E p \in Proc : AccessEvict(p)
      /\ \A p \in Proc : AccessEvict(p) => Len(mswp') = Len(mswp) - 1
      /\ \A p \in Proc : AccessPut(p) => Len(mswp') = Len(mswp) + 1
      /\ Len(mswp) >= SWAP_FRAMES - 1
      /\ (\A p \in Proc : ~Loading(p)) => Len(mswp) >= SWAP_FRAMES
  BY SwapLength, DeviceAssumption DEF SwapCounted
<1>2. \A p \in Proc : Loading(p) => acc[p] # Idle
  BY DEF Loading, Idle, InAccess
<1>3. ASSUME NEW p \in Proc, AccessEvict(p)
      PROVE  SwapCounted'
  <2>1. acc[p] # Idle /\ ~Loading(p) /\ Loading(p)'
    BY <1>3 DEF AccessEvict, AccessAt, GoesOn, InAccess, Loading, FrameTypeOK
  <2>2. \A q \in Proc : ~Loading(q)
    BY <1>2, <2>1 DEF Alone
  <2> QED  BY <1>1, <1>3, <2>1, <2>2 DEF SwapCounted
<1>4. CASE ~(\E p \in Proc : AccessEvict(p))
  <2>1. Len(mswp') >= Len(mswp)
    BY <1>1, <1>4
  <2>2. ASSUME NEW p \in Proc, Loading(p), ~Loading(p)'
        PROVE  AccessPut(p)
    <3>1. acc'[p] # acc[p] /\ acc[p] # Idle
      BY <1>2, <2>2 DEF Loading
    <3>2. Access(p)
      BY <3>1, OthersKeep
    <3> QED  BY <2>2, <3>1, <3>2 DEF Access, AccessReturns, AccessGoesOn, AccessAbsent,
             AccessPresent, AccessFrame, AccessNoVictim, AccessVictim, AccessNoSwap,
             AccessEvict, AccessLoad, AccessCrash, NeedsVictim, AccessAt, GoesOn, InAccess,
             Crash, Loading, FrameTypeOK
  <2> QED  BY <1>1, <2>1, <2>2 DEF SwapCounted
<1> QED  BY <1>3, <1>4

\* Then a victim finds a frame.
LEMMA SwapCountedMeans ==
  ASSUME FrameTypeOK, Alone, SwapCounted
  PROVE  SwapNeverEmpty
<1> SUFFICES ASSUME NEW p \in Proc, AccessAt(p, {"swap"})
             PROVE  acc[p].free # <<>>
  BY DEF SwapNeverEmpty
<1>1. acc[p] # Idle /\ acc[p].at = "swap" /\ acc[p].free = mswp
  BY DEF AccessAt, Alone
<1>2. \A q \in Proc : ~Loading(q)
  BY <1>1 DEF Alone, Loading, Idle, InAccess
<1>3. Len(mswp) >= SWAP_FRAMES /\ Len(<<>>) = 0
  BY <1>2 DEF SwapCounted
<1> QED  BY <1>1, <1>3, DeviceAssumption

\* At the start all frames of swap are free.
LEMMA InitSwap ==
  ASSUME Init
  PROVE  SwapCounted
<1>1. mswp = [i \in 1 .. SWAP_FRAMES |-> i - 1] /\ mswp \in Seq(SwapNumber)
  BY InitTypes DEF Init, FrameTypeOK
<1>2. DOMAIN mswp = 1 .. SWAP_FRAMES /\ DOMAIN mswp = 1 .. Len(mswp) /\ Len(mswp) \in Nat
  BY <1>1, LenProperties
<1> QED  BY <1>2, DeviceAssumption DEF SwapCounted

\* If accesses exclude each other, every victim finds a frame of swap, whatever the
\* programs access and over any number of evictions.  (Two reads that overlap may
\* lose frames of the list.)
THEOREM SwapNeverEmptyAlways ==
  ASSUME Serial
  PROVE  Spec => []SwapNeverEmpty
<1> DEFINE Inv == RegionTypeOK /\ FrameTypeOK /\ Waiting /\ Alone /\ SwapCounted
<1>1. Init => Inv
  BY InitTypes, InitAlone, InitSwap
<1>2. Inv /\ [Next]_vars => Inv'
  <2>1. RegionTypeOK /\ [Next]_vars => RegionTypeOK'
    BY CoverStep
  <2> QED  BY <2>1, FrameTypeStep, WaitingStep, AloneStep, SwapCountedStep
<1>3. Inv => SwapNeverEmpty
  BY SwapCountedMeans
<1> HIDE DEF Inv
<1> QED  BY <1>1, <1>2, <1>3, PTL DEF Spec

-----------------------------------------------------------------------------

\* The pages whose frames are taken, with a name for the page on its way from swap.
Moving == -1
Hold(p) == {g \in Page : Keeps(p, g)} \cup {x \in {Moving} : Loading(p)}
Frame(p, x) == IF x = Moving THEN acc[p].to ELSE PAGING_FPN(pte[p][x])

\* FramesPartitioned, page by page.
Partition ==
    /\ IsInjective(mram)
    /\ \A p, q \in Proc : \A x \in Hold(p), y \in Hold(q) :
         Frame(p, x) = Frame(q, y) => p = q /\ x = y
    /\ \A p \in Proc : \A x \in Hold(p) : Frame(p, x) \notin Range(mram)
    /\ \A f \in RamFrame : f \in Range(mram) \/
         \E p \in Proc : \E x \in Hold(p) : Frame(p, x) = f

\* No page is on its way from swap under a number of its own.
LEMMA MovingIsNoPage == Moving \notin Page
BY PageSizeAssumption DEF Moving, Page

\* What a process holds: its pages in RAM, unless they were given back, and the frame
\* it loads.
LEMMA HoldParts ==
  ASSUME NEW p \in Proc
  PROVE  /\ \A g \in Page : (g \in Hold(p) <=> Keeps(p, g)) /\ Frame(p, g) = PAGING_FPN(pte[p][g])
         /\ Moving \in Hold(p) <=> Loading(p)
         /\ Frame(p, Moving) = acc[p].to
         /\ \A x \in Hold(p) : x \in Page \/ x = Moving
         /\ ~FREES \/ p \notin ended => \A g \in Page : Keeps(p, g) <=> g \in InRam(p)
BY MovingIsNoPage DEF Hold, Frame, Keeps, InRam

\* The two say the same.
LEMMA PartitionMeans ==
  ASSUME FrameTypeOK, Partition
  PROVE  FramesPartitioned
<1> DEFINE used == {u \in Proc \X Page : Keeps(u[1], u[2])}
           frame(u) == PAGING_FPN(pte[u[1]][u[2]])
           loading == {q \in Proc : acc[q].at \in {"load", "put"}}
           taken == {frame(u) : u \in used} \cup {acc[q].to : q \in loading}
<1>1. \A u \in used : /\ u[1] \in Proc /\ u[2] \in Hold(u[1]) /\ u[2] \in Page
                      /\ u = <<u[1], u[2]>> /\ frame(u) = Frame(u[1], u[2])
                      /\ u[2] # Moving
  BY HoldParts, MovingIsNoPage
<1>2. \A q \in loading : q \in Proc /\ Moving \in Hold(q) /\ acc[q].to = Frame(q, Moving)
  BY HoldParts DEF Loading
<1>3. \A u \in used : frame(u) \in RamFrame
  BY DEF Keeps, InRam, FrameTypeOK, Entries
<1>4. \A q \in loading : acc[q].to \in RamFrame
  BY EntryParts
<1>5. \A f \in Range(mram) : f \in RamFrame
  BY ElementOfSeq, LenProperties DEF Range, FrameTypeOK
<1>6. \A p \in Proc : \A x \in Hold(p) : Frame(p, x) \in taken
  <2> SUFFICES ASSUME NEW p \in Proc, NEW x \in Hold(p)  PROVE Frame(p, x) \in taken
    OBVIOUS
  <2>1. CASE x = Moving
    BY <2>1, HoldParts DEF Loading
  <2>2. CASE x # Moving
    <3>1. x \in Page /\ Keeps(p, x) /\ Frame(p, x) = PAGING_FPN(pte[p][x])
      BY <2>2, HoldParts
    <3>2. <<p, x>> \in used /\ frame(<<p, x>>) = Frame(p, x)
      BY <3>1
    <3> QED  BY <3>2
  <2> QED  BY <2>1, <2>2
<1> HIDE DEF used, frame, loading
<1>7. \A u, v \in used : frame(u) = frame(v) => u = v
  BY <1>1 DEF Partition
<1>8. \A q \in loading, u \in used : acc[q].to # frame(u)
  BY <1>1, <1>2 DEF Partition
<1>9. \A q, r \in loading : acc[q].to = acc[r].to => q = r
  BY <1>2 DEF Partition
<1>10. Range(mram) \cap taken = {}
  BY <1>1, <1>2 DEF Partition
<1>11. \A f \in RamFrame : f \in Range(mram) \cup taken
  BY <1>6 DEF Partition
<1>12. Range(mram) \cup taken = RamFrame
  BY <1>3, <1>4, <1>5, <1>11
<1>13. IsInjective(mram)
  BY DEF Partition
<1> QED  BY <1>7, <1>8, <1>9, <1>10, <1>12, <1>13 DEF FramesPartitioned, used, frame, loading

\* Nobody takes or leaves a frame.
HoldSame ==
    \A p \in Proc : Hold(p)' = Hold(p) /\ \A x \in Hold(p) : Frame(p, x)' = Frame(p, x)

\* Then frames stay where they are.
LEMMA HoldSameKeeps ==
  ASSUME Partition, HoldSame, mram' = mram
  PROVE  Partition'
BY DEF Partition, HoldSame

\* One process takes the frame at the head of the list.
LEMMA TakeKeeps ==
  ASSUME FrameTypeOK, Partition, mram # <<>>, mram' = Tail(mram),
         NEW p \in Proc, NEW x, x \notin Hold(p),
         \A q \in Proc : Hold(q)' = IF q = p THEN Hold(p) \cup {x} ELSE Hold(q),
         \A q \in Proc : \A y \in Hold(q)' :
           Frame(q, y)' = IF q = p /\ y = x THEN Head(mram) ELSE Frame(q, y)
  PROVE  Partition'
<1> DEFINE f == Head(mram)
<1>1. mram \in Seq(RamFrame) /\ IsInjective(mram)
  BY DEF FrameTypeOK, Partition
<1>2. f \in RamFrame /\ f \in Range(mram)
      /\ IsInjective(Tail(mram)) /\ Range(Tail(mram)) = Range(mram) \ {f}
  BY <1>1, HeadTailProperties, TailInjective
<1> HIDE DEF f
<1>3. ASSUME NEW q \in Proc, NEW r \in Proc, NEW h \in Hold(q)', NEW k \in Hold(r)',
             Frame(q, h)' = Frame(r, k)'
      PROVE  q = r /\ h = k
  <2>1. CASE q = p /\ h = x
    BY <1>2, <1>3, <2>1 DEF Partition, f
  <2>2. CASE r = p /\ k = x
    BY <1>2, <1>3, <2>2 DEF Partition, f
  <2>3. CASE ~(q = p /\ h = x) /\ ~(r = p /\ k = x)
    BY <1>3, <2>3 DEF Partition
  <2> QED  BY <2>1, <2>2, <2>3
<1>4. ASSUME NEW q \in Proc, NEW h \in Hold(q)'
      PROVE  Frame(q, h)' \notin Range(mram')
  BY <1>2, <1>4 DEF Partition, f
<1>5. ASSUME NEW y \in RamFrame
      PROVE  y \in Range(mram') \/ \E q \in Proc : \E h \in Hold(q)' : Frame(q, h)' = y
  <2>1. CASE y = f
    BY <2>1 DEF f
  <2>2. CASE y # f
    <3>1. CASE y \in Range(mram)
      BY <1>2, <2>2, <3>1
    <3>2. CASE \E q \in Proc : \E h \in Hold(q) : Frame(q, h) = y
      <4>1. PICK q \in Proc : \E h \in Hold(q) : Frame(q, h) = y
        BY <3>2
      <4>2. PICK h \in Hold(q) : Frame(q, h) = y
        BY <4>1
      <4>3. h \in Hold(q)' /\ ~(q = p /\ h = x)
        OBVIOUS
      <4> QED  BY <4>2, <4>3
    <3> QED  BY <3>1, <3>2 DEF Partition
  <2> QED  BY <2>1, <2>2
<1> QED  BY <1>2, <1>3, <1>4, <1>5 DEF Partition

\* One process passes the frame of one page on to another.
LEMMA PassKeeps ==
  ASSUME Partition, mram' = mram,
         NEW p \in Proc, NEW v \in Hold(p), NEW x, x \notin Hold(p),
         \A q \in Proc : Hold(q)' = IF q = p THEN (Hold(p) \ {v}) \cup {x} ELSE Hold(q),
         \A q \in Proc : \A y \in Hold(q)' :
           Frame(q, y)' = IF q = p /\ y = x THEN Frame(p, v) ELSE Frame(q, y)
  PROVE  Partition'
<1>1. ASSUME NEW q \in Proc, NEW r \in Proc, NEW h \in Hold(q)', NEW k \in Hold(r)',
             Frame(q, h)' = Frame(r, k)'
      PROVE  q = r /\ h = k
  <2>1. CASE q = p /\ h = x
    BY <1>1, <2>1 DEF Partition
  <2>2. CASE r = p /\ k = x
    BY <1>1, <2>2 DEF Partition
  <2>3. CASE ~(q = p /\ h = x) /\ ~(r = p /\ k = x)
    BY <1>1, <2>3 DEF Partition
  <2> QED  BY <2>1, <2>2, <2>3
<1>2. ASSUME NEW q \in Proc, NEW h \in Hold(q)'
      PROVE  Frame(q, h)' \notin Range(mram')
  BY <1>2 DEF Partition
<1>3. ASSUME NEW y \in RamFrame
      PROVE  y \in Range(mram') \/ \E q \in Proc : \E h \in Hold(q)' : Frame(q, h)' = y
  <2>1. CASE y = Frame(p, v)
    BY <2>1
  <2>2. CASE y # Frame(p, v)
    <3>1. CASE y \in Range(mram)
      BY <3>1
    <3>2. CASE \E q \in Proc : \E h \in Hold(q) : Frame(q, h) = y
      <4>1. PICK q \in Proc : \E h \in Hold(q) : Frame(q, h) = y
        BY <3>2
      <4>2. PICK h \in Hold(q) : Frame(q, h) = y
        BY <4>1
      <4>3. h \in Hold(q)' /\ ~(q = p /\ h = x)
        BY <2>2, <4>2
      <4> QED  BY <4>2, <4>3
    <3> QED  BY <3>1, <3>2 DEF Partition
  <2> QED  BY <2>1, <2>2
<1> QED  BY <1>1, <1>2, <1>3 DEF Partition

\* Entries, ends and loads as they are: nobody takes or leaves a frame.
LEMMA HoldSameIf ==
  ASSUME UNCHANGED <<pte, ended>>,
         \A p \in Proc : /\ Loading(p)' <=> Loading(p)
                         /\ Loading(p) => acc'[p].to = acc[p].to
  PROVE  HoldSame
<1> SUFFICES ASSUME NEW p \in Proc
             PROVE  Hold(p)' = Hold(p) /\ \A x \in Hold(p) : Frame(p, x)' = Frame(p, x)
  BY DEF HoldSame
<1>1. \A g \in Page : Keeps(p, g)' <=> Keeps(p, g)
  BY DEF Keeps, InRam
<1>2. Hold(p)' = Hold(p)
  BY <1>1 DEF Hold
<1>3. Moving \in Hold(p) => Loading(p)
  BY HoldParts
<1> QED  BY <1>2, <1>3 DEF Frame

\* MAP_OP on pages that nothing is mapped to brings none into RAM.
LEMMA MapOpEntries ==
  ASSUME FrameTypeOK, ~REMAP, NEW p \in Proc, NEW range \in Ranges, MapOp(p, range)
  PROVE  /\ UNCHANGED <<fifo, mram, acc, ended>>
         /\ \A q \in Proc : InRam(q)' = InRam(q)
         /\ \A q \in Proc : \A g \in InRam(q) : pte'[q][g] = pte[q][g]
<1> DEFINE new == {(range[1] + i) % PAGING_MAX_PGN : i \in 0 .. range[2] - 1}
           now == [g \in Page |-> IF g \in new THEN Pattern ELSE pte[p][g]]
<1>1. /\ UNCHANGED <<fifo, mram, acc, procVars>>
      /\ pte' = [pte EXCEPT ![p] = now]
      /\ \A g \in new : pte[p][g] = NoPte
  BY DEF MapOp, FrameTypeOK
<1>2. ~Present(Pattern) /\ ~Present(NoPte)
  BY DEF Present, Pattern, NoPte
<1>3. \A q \in Proc : q # p => pte'[q] = pte[q]
  BY <1>1 DEF FrameTypeOK
<1>4. \A g \in Page : pte'[p][g] = IF g \in new THEN Pattern ELSE pte[p][g]
  BY <1>1 DEF FrameTypeOK
<1> HIDE DEF new, now
<1>5. \A q \in Proc : q # p => InRam(q)' = InRam(q)
  BY <1>3 DEF InRam
<1>6. \A g \in Page : Present(pte'[p][g]) <=> Present(pte[p][g])
  BY <1>1, <1>2, <1>4
<1>7. InRam(p)' = InRam(p)
  BY <1>6 DEF InRam
<1>8. \A g \in InRam(p) : pte'[p][g] = pte[p][g]
  BY <1>1, <1>2, <1>4 DEF InRam
<1> QED  BY <1>1, <1>3, <1>5, <1>7, <1>8 DEF procVars, InRam

LEMMA MapOpKeeps ==
  ASSUME FrameTypeOK, Partition, ~REMAP, NEW p \in Proc, NEW range \in Ranges,
         MapOp(p, range)
  PROVE  Partition'
<1>1. /\ UNCHANGED <<mram, acc, ended>>
      /\ \A q \in Proc : InRam(q)' = InRam(q)
      /\ \A q \in Proc : \A g \in InRam(q) : pte'[q][g] = pte[q][g]
  BY MapOpEntries
<1>2. \A q \in Proc : \A g \in Page : Keeps(q, g)' <=> Keeps(q, g)
  BY <1>1 DEF Keeps, Looked
<1>3. \A q \in Proc : Hold(q)' = Hold(q)
  BY <1>1, <1>2 DEF Hold, Loading
<1>4. ASSUME NEW q \in Proc, NEW x \in Hold(q)
      PROVE  Frame(q, x)' = Frame(q, x)
  <2>1. x # Moving => x \in InRam(q)
    BY <1>4, HoldParts DEF Keeps
  <2> QED  BY <1>1, <2>1 DEF Frame
<1> QED  BY <1>1, <1>3, <1>4, HoldSameKeeps DEF HoldSame

\* A page that was in swap gets the frame at the head of the free list.
LEMMA FrameKeeps ==
  ASSUME FrameTypeOK, Alone, Partition, NEW p \in Proc, AccessFrame(p)
  PROVE  Partition'
<1>1. /\ acc[p] # Idle /\ acc[p].at = "page" /\ acc[p].free = mram /\ mram # <<>>
  BY DEF AccessFrame, AccessAt, Alone
<1>2. /\ mram' = Tail(mram) /\ UNCHANGED <<pte, ended>>
      /\ acc'[p].at = "load" /\ acc'[p].to = Head(mram)
      /\ \A q \in Proc : q # p => acc'[q] = acc[q]
  BY <1>1 DEF AccessFrame, GoesOn, InAccess, procVars, FrameTypeOK
<1>3. ~Loading(p) /\ Loading(p)' /\ \A q \in Proc : q # p => (Loading(q)' <=> Loading(q))
  BY <1>1, <1>2 DEF Loading
<1>4. \A q \in Proc : \A g \in Page : Keeps(q, g)' <=> Keeps(q, g)
  BY <1>2 DEF Keeps, InRam
<1>5. Moving \notin Hold(p)
  BY <1>3, HoldParts
<1>6. \A q \in Proc : Hold(q)' = IF q = p THEN Hold(p) \cup {Moving} ELSE Hold(q)
  BY <1>3, <1>4 DEF Hold
<1>7. \A q \in Proc : \A y \in Hold(q)' :
        Frame(q, y)' = IF q = p /\ y = Moving THEN Head(mram) ELSE Frame(q, y)
  BY <1>2, <1>6 DEF Frame
<1> QED  BY <1>1, <1>2, <1>5, <1>6, <1>7, TakeKeeps

\* What an eviction does to the entries and the list of its process.
LEMMA EvictEntries ==
  ASSUME FrameTypeOK, Waiting, VictimsInRam, NEW p \in Proc, AccessEvict(p)
  PROVE  /\ Victim(p) \in InRam(p)
         /\ InRam(p)' = InRam(p) \ {Victim(p)}
         /\ \A q \in Proc : q # p => InRam(q)' = InRam(q) /\ pte'[q] = pte[q]
         /\ \A g \in Page : g # Victim(p) => pte'[p][g] = pte[p][g]
         /\ IsInjective(fifo'[p]) /\ Range(fifo'[p]) = Range(fifo[p]) \ {Victim(p)}
         /\ \A q \in Proc : q # p => fifo'[q] = fifo[q]
<1> DEFINE v == Victim(p)
<1>1. fifo[p] \in Seq(Page) /\ fifo[p] # <<>> /\ IsInjective(fifo[p])
      /\ Range(fifo[p]) \subseteq InRam(p)
  BY DEF Waiting, AccessEvict, AccessAt, VictimsInRam, FrameTypeOK
<1>2. /\ v \in Range(fifo[p]) /\ IsInjective(WithoutVictim(p))
      /\ Range(WithoutVictim(p)) = Range(fifo[p]) \ {v}
  BY <1>1, FrontInjective DEF Victim, WithoutVictim
<1>3. v \in InRam(p) /\ v \in Page
  BY <1>1, <1>2 DEF InRam
<1>4. /\ pte' = [pte EXCEPT ![p][v] = WithSwap(pte[p][v], 0, Head(acc[p].free))]
      /\ fifo' = [fifo EXCEPT ![p] = WithoutVictim(p)]
  BY <1>3 DEF AccessEvict, FrameTypeOK
<1>5. ~Present(WithSwap(pte[p][v], 0, Head(acc[p].free)))
  BY DEF Present, WithSwap
<1> HIDE DEF v
<1>6. \A q \in Proc : \A h \in Page :
        pte'[q][h] = IF q = p /\ h = v THEN WithSwap(pte[p][v], 0, Head(acc[p].free))
                     ELSE pte[q][h]
  BY <1>3, <1>4 DEF FrameTypeOK
<1>7. InRam(p)' = InRam(p) \ {v}
  BY <1>3, <1>5, <1>6 DEF InRam
<1>8. \A q \in Proc : q # p => pte'[q] = pte[q] /\ fifo'[q] = fifo[q]
  BY <1>4 DEF FrameTypeOK
<1>9. \A q \in Proc : q # p => InRam(q)' = InRam(q)
  BY <1>8 DEF InRam
<1>10. fifo'[p] = WithoutVictim(p)
  BY <1>4 DEF FrameTypeOK
<1> QED  BY <1>2, <1>3, <1>6, <1>7, <1>8, <1>9, <1>10 DEF v

\* A page on its way from swap takes the frame of the oldest page, which goes there.
LEMMA EvictKeeps ==
  ASSUME FrameTypeOK, Waiting, Alone, Partition, VictimsInRam, NEW p \in Proc,
         AccessEvict(p)
  PROVE  Partition'
<1> DEFINE v == Victim(p)
<1>1. /\ v \in InRam(p)
      /\ InRam(p)' = InRam(p) \ {v}
      /\ \A q \in Proc : q # p => InRam(q)' = InRam(q) /\ pte'[q] = pte[q]
      /\ \A g \in Page : g # v => pte'[p][g] = pte[p][g]
  BY EvictEntries
<1>2. /\ acc[p] # Idle /\ acc[p].at = "swap" /\ UNCHANGED <<mram, ended>>
      /\ acc'[p].at = "load" /\ acc'[p].to = PAGING_FPN(pte[p][v])
      /\ \A q \in Proc : q # p => acc'[q] = acc[q]
  BY DEF AccessEvict, AccessAt, GoesOn, InAccess, procVars, FrameTypeOK
<1> HIDE DEF v
<1>3. p \notin ended /\ v \in Page
  BY <1>1, <1>2 DEF Alone, InRam
<1>4. ~Loading(p) /\ Loading(p)' /\ \A q \in Proc : q # p => (Loading(q)' <=> Loading(q))
  BY <1>2 DEF Loading
<1>5. \A q \in Proc : \A g \in Page :
        Keeps(q, g)' <=> Keeps(q, g) /\ ~(q = p /\ g = v)
  BY <1>1, <1>2 DEF Keeps, Looked
<1>6. v \in Hold(p) /\ Frame(p, v) = PAGING_FPN(pte[p][v]) /\ Moving \notin Hold(p)
      /\ v # Moving
  BY <1>1, <1>3, <1>4, HoldParts, MovingIsNoPage
<1>7. \A q \in Proc : Hold(q)' = IF q = p THEN (Hold(p) \ {v}) \cup {Moving} ELSE Hold(q)
  BY <1>4, <1>5, <1>6 DEF Hold
<1>8. ASSUME NEW q \in Proc, NEW y \in Hold(q)'
      PROVE  Frame(q, y)' = IF q = p /\ y = Moving THEN Frame(p, v) ELSE Frame(q, y)
  <2>1. CASE y = Moving
    BY <1>2, <1>6, <2>1 DEF Frame
  <2>2. CASE y # Moving
    <3>1. y \in Page /\ (q = p => y # v)
      BY <1>6, <1>7, <1>8, <2>2, HoldParts
    <3> QED  BY <1>1, <2>2, <3>1 DEF Frame
  <2> QED  BY <2>1, <2>2
<1> QED  BY <1>2, <1>6, <1>7, <1>8, PassKeeps

\* What the end of a load does to the entries and the list of its process.
LEMMA PutEntries ==
  ASSUME FrameTypeOK, Waiting, VictimsInRam, NEW p \in Proc, AccessPut(p)
  PROVE  /\ Pgn(p) \in Page /\ Pgn(p) \notin InRam(p)
         /\ InRam(p)' = InRam(p) \cup {Pgn(p)}
         /\ pte'[p][Pgn(p)] = WithFpn(Entry(p), acc[p].to)
         /\ \A q \in Proc : q # p => InRam(q)' = InRam(q) /\ pte'[q] = pte[q]
         /\ \A g \in Page : g # Pgn(p) => pte'[p][g] = pte[p][g]
         /\ IsInjective(fifo'[p]) /\ Range(fifo'[p]) = Range(fifo[p]) \cup {Pgn(p)}
         /\ \A q \in Proc : q # p => fifo'[q] = fifo[q]
<1> DEFINE g == Pgn(p)
<1>1. g \in Page /\ Entry(p).swapped /\ Entry(p) = pte[p][g] /\ fifo[p] \in Seq(Page)
  BY EntryParts DEF AccessPut, AccessAt, Waiting, Entry, FrameTypeOK
<1>2. g \notin InRam(p)
  BY <1>1 DEF InRam, Present
<1>3. /\ pte' = [pte EXCEPT ![p][g] = WithFpn(Entry(p), acc[p].to)]
      /\ fifo' = [fifo EXCEPT ![p] = <<g>> \o fifo[p]]
  BY <1>1 DEF AccessPut, EnlistPgn, FrameTypeOK
<1>4. Present(WithFpn(Entry(p), acc[p].to))
  BY DEF Present, WithFpn
<1>5. IsInjective(fifo[p]) /\ Range(fifo[p]) \subseteq InRam(p)
  BY DEF VictimsInRam
<1> HIDE DEF g
<1>6. IsInjective(<<g>> \o fifo[p]) /\ Range(<<g>> \o fifo[p]) = Range(fifo[p]) \cup {g}
  BY <1>1, <1>2, <1>5, ConsInjective
<1>7. \A q \in Proc : \A h \in Page :
        pte'[q][h] = IF q = p /\ h = g THEN WithFpn(Entry(p), acc[p].to) ELSE pte[q][h]
  BY <1>1, <1>3 DEF FrameTypeOK
<1>8. InRam(p)' = InRam(p) \cup {g}
  BY <1>1, <1>4, <1>7 DEF InRam
<1>9. \A q \in Proc : q # p => pte'[q] = pte[q] /\ fifo'[q] = fifo[q]
  BY <1>3 DEF FrameTypeOK
<1>10. \A q \in Proc : q # p => InRam(q)' = InRam(q)
  BY <1>9 DEF InRam
<1>11. fifo'[p] = <<g>> \o fifo[p]
  BY <1>3 DEF FrameTypeOK
<1> QED  BY <1>1, <1>2, <1>6, <1>7, <1>8, <1>9, <1>10, <1>11 DEF g

\* The page that was on its way gets the frame.
LEMMA PutKeeps ==
  ASSUME FrameTypeOK, Waiting, Alone, Partition, VictimsInRam, RAM_FRAMES <= FPN_SPAN,
         NEW p \in Proc, AccessPut(p)
  PROVE  Partition'
<1> DEFINE g == Pgn(p)
           f == acc[p].to
<1>1. /\ g \in Page /\ g \notin InRam(p)
      /\ InRam(p)' = InRam(p) \cup {g}
      /\ pte'[p][g] = WithFpn(Entry(p), f)
      /\ \A q \in Proc : q # p => InRam(q)' = InRam(q) /\ pte'[q] = pte[q]
      /\ \A h \in Page : h # g => pte'[p][h] = pte[p][h]
  BY PutEntries
<1>2. /\ acc[p] # Idle /\ acc[p].at = "put" /\ UNCHANGED <<mram, ended>>
      /\ acc'[p].at = "io"
      /\ \A q \in Proc : q # p => acc'[q] = acc[q]
  BY DEF AccessPut, AccessAt, GoesOn, InAccess, procVars, FrameTypeOK
<1>3. PAGING_FPN(WithFpn(Entry(p), f)) = f
  <2>1. f \in Nat /\ f % FPN_SPAN = f /\ Entry(p) \in PTE
    <3>1. f \in RamFrame /\ Entry(p) \in Entries
      BY EntryParts
    <3> QED  BY <3>1, SpanFacts, DeviceAssumption DEF RamFrame, Entries
  <2> HIDE DEF f
  <2> QED  BY <2>1, PteFpn
<1>4. Frame(p, Moving) = f
  BY HoldParts
<1> HIDE DEF g, f
<1>5. p \notin ended
  BY <1>2 DEF Alone
<1>6. Loading(p) /\ ~Loading(p)' /\ \A q \in Proc : q # p => (Loading(q)' <=> Loading(q))
  BY <1>2 DEF Loading
<1>7. \A q \in Proc : \A h \in Page :
        Keeps(q, h)' <=> Keeps(q, h) \/ (q = p /\ h = g)
  BY <1>1, <1>2, <1>5 DEF Keeps, Looked
<1>8. Moving \in Hold(p) /\ g \notin Hold(p) /\ g # Moving
  BY <1>1, <1>6, HoldParts, MovingIsNoPage DEF Keeps
<1>9. \A q \in Proc : Hold(q)' = IF q = p THEN (Hold(p) \ {Moving}) \cup {g} ELSE Hold(q)
  BY <1>1, <1>6, <1>7, <1>8, MovingIsNoPage DEF Hold
<1>10. ASSUME NEW q \in Proc, NEW y \in Hold(q)'
       PROVE  Frame(q, y)' = IF q = p /\ y = g THEN Frame(p, Moving) ELSE Frame(q, y)
  <2>1. CASE y = Moving
    <3>1. q # p
      BY <1>8, <1>9, <1>10, <2>1
    <3> QED  BY <1>2, <2>1, <3>1 DEF Frame
  <2>2. CASE y # Moving
    <3>1. y \in Page
      BY <1>1, <1>9, <1>10, <2>2, HoldParts
    <3> QED  BY <1>1, <1>3, <1>4, <2>2, <3>1 DEF Frame
  <2> QED  BY <2>1, <2>2
<1> QED  BY <1>2, <1>8, <1>9, <1>10, PassKeeps

\* A process that ends takes its frames with it, or gives back those of the pages that
\* free_pcb_memph looks at.
LEMMA EndKeeps ==
  ASSUME FrameTypeOK, Partition, NEW p \in Proc, End(p)
  PROVE  Partition'
<1>1. /\ UNCHANGED <<pte, acc>> /\ ended' = ended \cup {p} /\ p \notin ended
  BY DEF End
<1>2. \A q \in Proc : InRam(q)' = InRam(q) /\ (Loading(q)' <=> Loading(q))
                      /\ \A x : Frame(q, x)' = Frame(q, x)
  BY <1>1 DEF InRam, Loading, Frame
<1>3. CASE ~FREES
  <2>1. mram' = mram
    BY <1>3 DEF End
  <2>2. \A q \in Proc : \A g \in Page : Keeps(q, g)' <=> Keeps(q, g)
    BY <1>2, <1>3 DEF Keeps
  <2>3. \A q \in Proc : Hold(q)' = Hold(q)
    BY <1>2, <2>2 DEF Hold
  <2> QED  BY <1>2, <2>1, <2>3, HoldSameKeeps DEF HoldSame
<1>4. CASE FREES
  <2> DEFINE D == {h \in Looked : Present(pte[p][h])}
             frame == ReturnedRam(p)
  <2>1. D \in SUBSET Nat /\ IsFiniteSet(D) /\ D \subseteq Page
    BY SomePages DEF Looked
  <2>2. \A g \in D : g \in Hold(p) /\ g \in Page /\ g # Moving
    BY <1>1, HoldParts, MovingIsNoPage DEF Looked, InRam
  <2>3. frame \in [D -> RamFrame] /\ \A g \in D : frame[g] = Frame(p, g)
    BY <2>2 DEF ReturnedRam, FrameTypeOK, Entries, Frame, Looked
  <2>4. mram \in Seq(RamFrame) /\ IsInjective(mram) /\ mram' = Giving(frame, mram)
    BY <1>4 DEF FrameTypeOK, Partition, End
  <2>5. \A g, h \in D : frame[g] = frame[h] => g = h
    BY <2>2, <2>3 DEF Partition
  <2>6. \A g \in D : frame[g] \notin Range(mram)
    BY <2>2, <2>3 DEF Partition
  <2>7. \A q \in Proc : Hold(q)' = IF q = p THEN Hold(p) \ D ELSE Hold(q)
    <3>1. \A g \in Page : Keeps(p, g)' <=> Keeps(p, g) /\ g \notin D
      BY <1>1, <1>2, <1>4 DEF Keeps, InRam, Looked
    <3>2. \A q \in Proc : q # p => \A g \in Page : Keeps(q, g)' <=> Keeps(q, g)
      BY <1>1, <1>2 DEF Keeps, Looked
    <3> HIDE DEF D
    <3>3. Hold(p)' = Hold(p) \ D
      BY <1>2, <2>1, <3>1, MovingIsNoPage DEF Hold
    <3>4. \A q \in Proc : q # p => Hold(q)' = Hold(q)
      BY <1>2, <3>2 DEF Hold
    <3> QED  BY <3>3, <3>4
  <2> HIDE DEF D, frame
  <2>8. /\ Range(mram') = {frame[g] : g \in D} \cup Range(mram)
        /\ IsInjective(mram')
    BY <2>1, <2>3, <2>4, <2>5, <2>6, GivingAdds
  <2>9. \A f : f \in Range(mram') <=> f \in Range(mram) \/ \E g \in D : Frame(p, g) = f
    BY <2>3, <2>8
  <2>10. ASSUME NEW q \in Proc, NEW h \in Hold(q)'
         PROVE  Frame(q, h)' \notin Range(mram')
    <3>1. h \in Hold(q) /\ ~(q = p /\ h \in D)
      BY <2>7, <2>10
    <3>2. \A g \in D : Frame(p, g) # Frame(q, h)
      BY <2>2, <3>1 DEF Partition
    <3> QED  BY <1>2, <2>9, <3>1, <3>2 DEF Partition
  <2>11. ASSUME NEW x \in RamFrame
         PROVE  x \in Range(mram') \/ \E q \in Proc : \E h \in Hold(q)' : Frame(q, h)' = x
    <3>1. CASE x \in Range(mram)
      BY <2>9, <3>1
    <3>2. CASE \E q \in Proc : \E h \in Hold(q) : Frame(q, h) = x
      <4>1. PICK q \in Proc : \E h \in Hold(q) : Frame(q, h) = x
        BY <3>2
      <4>2. PICK h \in Hold(q) : Frame(q, h) = x
        BY <4>1
      <4>3. CASE q = p /\ h \in D
        BY <2>9, <4>2, <4>3
      <4>4. CASE ~(q = p /\ h \in D)
        BY <1>2, <2>7, <4>2, <4>4
      <4> QED  BY <4>3, <4>4
    <3> QED  BY <3>1, <3>2 DEF Partition
  <2>12. \A q, r \in Proc : \A h \in Hold(q)', k \in Hold(r)' :
           Frame(q, h)' = Frame(r, k)' => q = r /\ h = k
    <3>1. \A q \in Proc : \A h \in Hold(q)' : h \in Hold(q)
      BY <2>7
    <3> QED  BY <1>2, <3>1 DEF Partition
  <2> QED  BY <2>8, <2>10, <2>11, <2>12 DEF Partition
<1> QED  BY <1>3, <1>4

\* The pages that a growth of p would map have no frame yet, and no two of them are
\* the same.
NewPage(addr, i) == PAGING_PGN(addr + i * PAGING_PAGESZ)
Fresh(p, addr, n) ==
    /\ \A i \in 0 .. n - 1 : NewPage(addr, i) \notin InRam(p)
    /\ \A i, j \in 0 .. n - 1 : NewPage(addr, i) = NewPage(addr, j) => i = j

\* vm_map_ram gives each of those pages a frame of the free list: the k-th frame to
\* the k-th page of what it puts in front of the list of pages.
NewPages(addr, n) == {NewPage(addr, i) : i \in 0 .. n - 1}
NewHead(addr, n) == [i \in 1 .. n |-> NewPage(addr, n - i)]
LEMMA MapRamPages ==
  ASSUME FrameTypeOK, RAM_FRAMES <= FPN_SPAN,
         NEW p \in Proc, NEW addr \in Nat, NEW n \in Nat, Fresh(p, addr, n),
         n <= Len(mram), MapRam(p, addr, n)
  PROVE  /\ NewHead(addr, n) \in Seq(Page) /\ DOMAIN NewHead(addr, n) = 1 .. n
         /\ IsInjective(NewHead(addr, n)) /\ Range(NewHead(addr, n)) = NewPages(addr, n)
         /\ NewPages(addr, n) \subseteq Page /\ NewPages(addr, n) \cap InRam(p) = {}
         /\ \A k \in 1 .. n : LET e == pte'[p][NewHead(addr, n)[k]] IN
              mram[k] \in RamFrame /\ Present(e) /\ PAGING_FPN(e) = mram[k]
         /\ \A q \in Proc : \A h \in Page :
              q # p \/ h \notin NewPages(addr, n) => pte'[q][h] = pte[q][h]
         /\ InRam(p)' = InRam(p) \cup NewPages(addr, n)
         /\ \A q \in Proc : q # p => InRam(q)' = InRam(q)
         /\ mram' = FramesLeft(n)
         /\ fifo' = [fifo EXCEPT ![p] = NewHead(addr, n) \o fifo[p]]
<1> DEFINE page(i) == NewPage(addr, i)
           new == NewPages(addr, n)
           mapped(g) == {i \in 0 .. n - 1 : page(i) = g}
           frame(g) == mram[n - Max(mapped(g))]
           head == NewHead(addr, n)
<1>1. /\ pte \in [Proc -> [Page -> Entries]] /\ fifo \in [Proc -> Seq(Page)]
      /\ mram \in Seq(RamFrame) /\ Len(mram) \in Nat
      /\ \A i \in 1 .. Len(mram) : mram[i] \in RamFrame
  BY LenProperties, ElementOfSeq DEF FrameTypeOK
<1>2. /\ mram' = FramesLeft(n)
      /\ pte' = [pte EXCEPT ![p] = [g \in Page |->
              IF g \in new THEN WithFpn(pte[p][g], frame(g)) ELSE pte[p][g]]]
      /\ fifo' = [fifo EXCEPT ![p] = head \o fifo[p]]
  <2>1. ~(Len(mram) < n)
    BY <1>1
  <2> QED  BY <2>1 DEF MapRam, NewPages, NewHead, NewPage
<1>3. \A i \in 0 .. n - 1 : page(i) \in Page
  <2> TAKE i \in 0 .. n - 1
  <2>1. addr + i * PAGING_PAGESZ \in Nat
    BY PageSizeAssumption
  <2> QED  BY <2>1, PageOf DEF NewPage
<1>4. /\ \A i \in 0 .. n - 1 : page(i) \notin InRam(p)
      /\ \A i, j \in 0 .. n - 1 : page(i) = page(j) => i = j
  BY DEF Fresh
<1> HIDE DEF page
<1>5. \A g : g \in new <=> \E i \in 0 .. n - 1 : g = page(i)
  BY DEF NewPages, page
<1>6. \A i \in 0 .. n - 1 : page(i) \in new /\ frame(page(i)) = mram[n - i]
  <2> TAKE i \in 0 .. n - 1
  <2>1. mapped(page(i)) = {i}
    BY <1>4
  <2>2. Max(mapped(page(i))) \in mapped(page(i))
    <3>1. mapped(page(i)) \in SUBSET (0 .. n - 1) /\ mapped(page(i)) # {}
      BY <2>1
    <3> HIDE DEF mapped
    <3> QED  BY <3>1, MaxFound
  <2>3. page(i) \in new
    BY <1>5
  <2> QED  BY <2>1, <2>2, <2>3
<1> HIDE DEF new, frame
<1>7. \A k \in 1 .. n : /\ n - k \in 0 .. n - 1 /\ n - (n - k) = k
                        /\ k \in 1 .. Len(mram)
  BY <1>1
<1>8. \A k \in 1 .. n : head[k] = page(n - k)
  BY DEF NewHead, page
<1>9. head \in Seq(Page) /\ DOMAIN head = 1 .. n
  <2>1. head \in [1 .. n -> Page]
    BY <1>3, <1>7 DEF NewHead, page
  <2> HIDE DEF head
  <2> QED  BY <2>1, SeqDef
<1> HIDE DEF head
<1>10. \A k \in 1 .. n : /\ head[k] \in new /\ frame(head[k]) = mram[k]
                         /\ mram[k] \in RamFrame
  BY <1>1, <1>6, <1>7, <1>8
<1>11. \A g \in new : \E k \in 1 .. n : g = head[k]
  <2> TAKE g \in new
  <2>1. PICK i \in 0 .. n - 1 : g = page(i)
    BY <1>5
  <2>2. n - i \in 1 .. n /\ n - (n - i) = i
    OBVIOUS
  <2> QED  BY <1>8, <2>1, <2>2
<1>12. Range(head) = new
  BY <1>9, <1>10, <1>11 DEF Range
<1>13. IsInjective(head)
  <2> SUFFICES ASSUME NEW i \in 1 .. n, NEW j \in 1 .. n, head[i] = head[j]
               PROVE  i = j
    BY <1>9 DEF IsInjective
  <2>1. n - i = n - j
    BY <1>4, <1>7, <1>8
  <2> QED  BY <2>1
<1>14. \A g \in new : g \in Page /\ g \notin InRam(p) /\ frame(g) \in RamFrame
  BY <1>3, <1>4, <1>5, <1>10, <1>11
<1>15. \A g \in new :
         /\ Present(WithFpn(pte[p][g], frame(g)))
         /\ PAGING_FPN(WithFpn(pte[p][g], frame(g))) = frame(g)
  <2> TAKE g \in new
  <2>1. frame(g) \in RamFrame /\ g \in Page
    BY <1>14
  <2>2. frame(g) \in Nat /\ frame(g) < FPN_SPAN
    BY <2>1, SpanFacts, DeviceAssumption DEF RamFrame
  <2>3. frame(g) % FPN_SPAN = frame(g)
    BY <2>2, SpanFacts
  <2>4. pte[p][g] \in PTE
    BY <1>1, <2>1 DEF Entries
  <2> QED  BY <2>2, <2>3, <2>4, PteFpn DEF Present
<1>16. \A q \in Proc : \A h \in Page :
         pte'[q][h] = IF q = p /\ h \in new THEN WithFpn(pte[p][h], frame(h))
                      ELSE pte[q][h]
  BY <1>1, <1>2
<1>17. InRam(p)' = InRam(p) \cup new
  BY <1>14, <1>15, <1>16 DEF InRam
<1>18. \A q \in Proc : q # p => InRam(q)' = InRam(q)
  BY <1>16 DEF InRam
<1>19. ASSUME NEW k \in 1 .. n
       PROVE  LET e == pte'[p][head[k]] IN
              mram[k] \in RamFrame /\ Present(e) /\ PAGING_FPN(e) = mram[k]
  <2>1. head[k] \in new /\ head[k] \in Page /\ frame(head[k]) = mram[k]
    BY <1>10, <1>14
  <2> QED  BY <1>10, <1>15, <1>16, <2>1
<1>20. new \subseteq Page /\ new \cap InRam(p) = {}
  BY <1>14
<1>21. \A q \in Proc : \A h \in Page : q # p \/ h \notin new => pte'[q][h] = pte[q][h]
  BY <1>16
<1> QED  BY <1>2, <1>9, <1>12, <1>13, <1>17, <1>18, <1>19, <1>20, <1>21 DEF new, head

\* Without the frames, it does nothing.
LEMMA MapRamFails ==
  ASSUME FrameTypeOK, NEW p \in Proc, NEW addr, NEW n \in Nat, ~(n <= Len(mram)),
         MapRam(p, addr, n)
  PROVE  UNCHANGED <<pte, fifo, mram>>
<1>1. Len(mram) < n
  BY LenProperties DEF FrameTypeOK
<1> QED  BY <1>1 DEF MapRam

\* What is left of the list of free frames.
LEMMA FramesLeftIs ==
  ASSUME FrameTypeOK, NEW n \in Nat, n <= Len(mram), mram' = FramesLeft(n)
  PROVE  /\ mram' \in Seq(RamFrame) /\ Len(mram') = Len(mram) - n
         /\ \A x : x \in Range(mram') <=> \E k \in n + 1 .. Len(mram) : x = mram[k]
         /\ IsInjective(mram) => IsInjective(mram')
<1>1. mram \in Seq(RamFrame) /\ Len(mram) \in Nat /\ DOMAIN mram = 1 .. Len(mram)
      /\ n \in 0 .. Len(mram)
  BY LenProperties DEF FrameTypeOK
<1>2. /\ mram' \in Seq(RamFrame) /\ Len(mram') = Len(mram) - n
      /\ DOMAIN mram' = 1 .. Len(mram) - n
      /\ \A i \in 1 .. Len(mram) - n : i + n \in DOMAIN mram /\ mram'[i] = mram[i + n]
  BY <1>1, RestEntries DEF FramesLeft
<1>3. ASSUME IsInjective(mram)  PROVE IsInjective(mram')
  <2> SUFFICES ASSUME NEW i \in 1 .. Len(mram) - n, NEW j \in 1 .. Len(mram) - n,
                      mram'[i] = mram'[j]
               PROVE  i = j
    BY <1>2 DEF IsInjective
  <2>1. i + n = j + n
    BY <1>2, <1>3 DEF IsInjective
  <2> QED  BY <1>1, <2>1
<1>4. ASSUME NEW k \in n + 1 .. Len(mram)  PROVE mram[k] \in Range(mram')
  <2>1. k - n \in 1 .. Len(mram) - n /\ (k - n) + n = k
    BY <1>1
  <2> QED  BY <1>2, <2>1 DEF Range
<1>5. ASSUME NEW x \in Range(mram')
      PROVE  \E k \in n + 1 .. Len(mram) : x = mram[k]
  <2>1. PICK i \in 1 .. Len(mram) - n : x = mram'[i]
    BY <1>2 DEF Range
  <2>2. i + n \in n + 1 .. Len(mram) /\ x = mram[i + n]
    BY <1>1, <1>2, <2>1
  <2> QED  BY <2>2
<1> QED  BY <1>2, <1>3, <1>4, <1>5

\* The pages in RAM are all candidates for eviction.
Listed(p) == InRam(p) \subseteq Range(fifo[p])

\* A growth lists the pages that it maps.
LEMMA MapRamFifo ==
  ASSUME FrameTypeOK, VictimsInRam, RAM_FRAMES <= FPN_SPAN,
         NEW p \in Proc, NEW addr \in Nat, NEW n \in Nat, Fresh(p, addr, n),
         MapRam(p, addr, n)
  PROVE  VictimsInRam' /\ \A q \in Proc : Listed(q) => Listed(q)'
<1>1. CASE ~(n <= Len(mram))
  BY <1>1, MapRamFails DEF VictimsInRam, Listed, InRam
<1>2. CASE n <= Len(mram)
  <2> DEFINE head == NewHead(addr, n)
             new == NewPages(addr, n)
  <2>1. /\ head \in Seq(Page) /\ IsInjective(head) /\ Range(head) = new
        /\ new \cap InRam(p) = {} /\ InRam(p)' = InRam(p) \cup new
        /\ \A q \in Proc : q # p => InRam(q)' = InRam(q)
        /\ fifo' = [fifo EXCEPT ![p] = head \o fifo[p]]
    BY <1>2, MapRamPages
  <2> HIDE DEF head, new
  <2>2. fifo \in [Proc -> Seq(Page)]
        /\ \A q \in Proc : IsInjective(fifo[q]) /\ Range(fifo[q]) \subseteq InRam(q)
    BY DEF FrameTypeOK, VictimsInRam
  <2>3. /\ IsInjective(head \o fifo[p])
        /\ Range(head \o fifo[p]) = Range(fifo[p]) \cup new
    BY <2>1, <2>2, ConcatInjective
  <2>4. \A q \in Proc : fifo'[q] = IF q = p THEN head \o fifo[p] ELSE fifo[q]
    BY <2>1, <2>2
  <2> QED  BY <2>1, <2>2, <2>3, <2>4 DEF VictimsInRam, Listed
<1> QED  BY <1>1, <1>2

\* And takes the frames at the head of the list for them.
LEMMA MapRamKeeps ==
  ASSUME FrameTypeOK, Partition, RAM_FRAMES <= FPN_SPAN,
         NEW p \in Proc, p \notin ended, NEW addr \in Nat, NEW n \in Nat, Fresh(p, addr, n),
         MapRam(p, addr, n), UNCHANGED <<acc, ended>>
  PROVE  Partition'
<1>1. CASE ~(n <= Len(mram))
  <2>1. UNCHANGED <<pte, mram>>
    BY <1>1, MapRamFails
  <2> QED  BY <2>1, HoldSameIf, HoldSameKeeps DEF Loading
<1>2. CASE n <= Len(mram)
  <2> DEFINE head == NewHead(addr, n)
             new == NewPages(addr, n)
  <2>1. /\ DOMAIN head = 1 .. n /\ IsInjective(head) /\ Range(head) = new
        /\ new \subseteq Page /\ new \cap InRam(p) = {}
        /\ \A k \in 1 .. n : mram[k] \in RamFrame /\ PAGING_FPN(pte'[p][head[k]]) = mram[k]
        /\ \A q \in Proc : \A h \in Page :
             q # p \/ h \notin new => pte'[q][h] = pte[q][h]
        /\ InRam(p)' = InRam(p) \cup new
        /\ \A q \in Proc : q # p => InRam(q)' = InRam(q)
        /\ mram' = FramesLeft(n)
    BY <1>2, MapRamPages
  <2> HIDE DEF head, new
  <2>2. /\ mram \in Seq(RamFrame) /\ Len(mram) \in Nat /\ DOMAIN mram = 1 .. Len(mram)
        /\ IsInjective(mram)
    BY LenProperties DEF FrameTypeOK, Partition
  <2>3. /\ IsInjective(mram')
        /\ \A x : x \in Range(mram') <=> \E k \in n + 1 .. Len(mram) : x = mram[k]
    BY <1>2, <2>1, <2>2, FramesLeftIs
  <2>4. \A q \in Proc : \A g \in Page : Keeps(q, g)' <=> Keeps(q, g) \/ (q = p /\ g \in new)
    BY <2>1 DEF Keeps, Looked
  <2>5. \A q \in Proc : Hold(q)' = IF q = p THEN Hold(p) \cup new ELSE Hold(q)
    BY <2>1, <2>4 DEF Hold, Loading
  <2>6. \A x \in Hold(p) : x \notin new
    BY <2>1, HoldParts, MovingIsNoPage DEF Keeps
  <2>7. \A q \in Proc : \A x \in Hold(q)' :
          ~(q = p /\ x \in new) => x \in Hold(q) /\ Frame(q, x)' = Frame(q, x)
    <3> SUFFICES ASSUME NEW q \in Proc, NEW x \in Hold(q)', ~(q = p /\ x \in new)
                 PROVE  x \in Hold(q) /\ Frame(q, x)' = Frame(q, x)
      OBVIOUS
    <3>1. x \in Hold(q)
      BY <2>5
    <3>2. x # Moving => x \in Page
      BY <3>1, HoldParts
    <3> QED  BY <2>1, <3>1, <3>2 DEF Frame
  \* The pages that are new, with their places in the list.
  <2>8. \A x \in new : \E k \in 1 .. n :
          x = head[k] /\ Frame(p, x)' = mram[k] /\ mram[k] \in RamFrame
    <3> TAKE x \in new
    <3>1. PICK k \in 1 .. n : x = head[k]
      BY <2>1 DEF Range
    <3>2. x # Moving
      BY <2>1, MovingIsNoPage
    <3> QED  BY <2>1, <3>1, <3>2 DEF Frame
  <2>9. \A k \in 1 .. n : k \in 1 .. Len(mram) /\ mram[k] \in Range(mram)
    BY <1>2, <2>2 DEF Range
  <2>10. \A k, l \in 1 .. Len(mram) : mram[k] = mram[l] => k = l
    BY <2>2 DEF IsInjective
  <2>11. \A x \in new : Frame(p, x)' \in Range(mram)
    BY <2>8, <2>9
  <2>12. \A x, y \in new : Frame(p, x)' = Frame(p, y)' => x = y
    <3> SUFFICES ASSUME NEW x \in new, NEW y \in new, Frame(p, x)' = Frame(p, y)'
                 PROVE  x = y
      OBVIOUS
    <3>1. PICK k \in 1 .. n : x = head[k] /\ Frame(p, x)' = mram[k]
      BY <2>8
    <3>2. PICK l \in 1 .. n : y = head[l] /\ Frame(p, y)' = mram[l]
      BY <2>8
    <3>3. mram[k] = mram[l]
      BY <3>1, <3>2
    <3> QED  BY <2>9, <2>10, <3>1, <3>2, <3>3
  <2>13. \A x \in new : Frame(p, x)' \notin Range(mram')
    <3> SUFFICES ASSUME NEW x \in new, Frame(p, x)' \in Range(mram')  PROVE FALSE
      OBVIOUS
    <3>1. PICK k \in 1 .. n : Frame(p, x)' = mram[k]
      BY <2>8
    <3>2. PICK l \in n + 1 .. Len(mram) : Frame(p, x)' = mram[l]
      BY <2>3
    <3>3. mram[k] = mram[l] /\ k \in 1 .. Len(mram) /\ l \in 1 .. Len(mram) /\ k # l
      BY <2>2, <2>9, <3>1, <3>2
    <3> QED  BY <2>10, <3>3
  <2>14. \A x \in Range(mram') : x \in Range(mram)
    <3> TAKE x \in Range(mram')
    <3>1. PICK k \in n + 1 .. Len(mram) : x = mram[k]
      BY <2>3
    <3>2. k \in 1 .. Len(mram)
      BY <2>2
    <3> QED  BY <2>2, <3>1, <3>2 DEF Range
  <2>15. \A q \in Proc : \A x \in Hold(q) : Frame(q, x) \notin Range(mram)
    BY DEF Partition
  <2>16. ASSUME NEW q \in Proc, NEW r \in Proc, NEW x \in Hold(q)', NEW y \in Hold(r)',
                Frame(q, x)' = Frame(r, y)'
         PROVE  q = r /\ x = y
    <3>1. CASE (q = p /\ x \in new) /\ (r = p /\ y \in new)
      BY <2>12, <2>16, <3>1
    <3>2. CASE (q = p /\ x \in new) /\ ~(r = p /\ y \in new)
      BY <2>7, <2>11, <2>15, <2>16, <3>2
    <3>3. CASE ~(q = p /\ x \in new) /\ (r = p /\ y \in new)
      BY <2>7, <2>11, <2>15, <2>16, <3>3
    <3>4. CASE ~(q = p /\ x \in new) /\ ~(r = p /\ y \in new)
      <4>1. x \in Hold(q) /\ y \in Hold(r) /\ Frame(q, x) = Frame(r, y)
        BY <2>7, <2>16, <3>4
      <4> QED  BY <4>1 DEF Partition
    <3> QED  BY <3>1, <3>2, <3>3, <3>4
  <2>17. ASSUME NEW q \in Proc, NEW x \in Hold(q)'
         PROVE  Frame(q, x)' \notin Range(mram')
    BY <2>7, <2>13, <2>14, <2>15, <2>17
  <2>18. ASSUME NEW f \in RamFrame
         PROVE  f \in Range(mram') \/ \E q \in Proc : \E x \in Hold(q)' : Frame(q, x)' = f
    <3>1. CASE f \in Range(mram)
      <4>1. PICK k \in 1 .. Len(mram) : f = mram[k]
        BY <2>2, <3>1 DEF Range
      <4>2. CASE k \in 1 .. n
        <5>1. head[k] \in new
          BY <2>1, <4>2 DEF Range
        <5>2. head[k] \in Hold(p)' /\ head[k] # Moving
          BY <2>1, <2>5, <5>1, MovingIsNoPage
        <5> QED  BY <2>1, <4>1, <4>2, <5>2 DEF Frame
      <4>3. CASE k \notin 1 .. n
        <5>1. k \in n + 1 .. Len(mram)
          BY <2>2, <4>3
        <5> QED  BY <2>3, <4>1, <5>1
      <4> QED  BY <4>2, <4>3
    <3>2. CASE \E q \in Proc : \E x \in Hold(q) : Frame(q, x) = f
      <4>1. PICK q \in Proc : \E x \in Hold(q) : Frame(q, x) = f
        BY <3>2
      <4>2. PICK x \in Hold(q) : Frame(q, x) = f
        BY <4>1
      <4>3. x \in Hold(q)' /\ ~(q = p /\ x \in new)
        BY <2>5, <2>6
      <4> QED  BY <2>7, <4>2, <4>3
    <3> QED  BY <3>1, <3>2 DEF Partition
  <2> QED  BY <2>3, <2>16, <2>17, <2>18 DEF Partition
<1> QED  BY <1>1, <1>2

\* The pages of PAGING_PAGESZ that inc_vma_limit adds for inc_sz bytes.
Whole(inc_sz) == (inc_sz + PAGING_PAGESZ - 1) \div PAGING_PAGESZ

\* What krnl->mm grows by next is fresh in the process that asks.
GrowsFresh ==
    KRNL_MM # NoProc =>
        \A p \in Proc, size \in Sizes :
            grown[p] < MAX_GROWTH =>
                /\ Fresh(p, sbrk[KRNL_MM], Whole(size))
                /\ Fresh(p, sbrk[KRNL_MM], Whole(RoundUp(size)))

\* An allocation and INC_OP change entries only by mapping fresh pages.
LEMMA GrowthMaps ==
  ASSUME RegionTypeOK, GrowsFresh, NEW p \in Proc,
         \/ \E rg \in RgId, size \in Sizes : AllocGrow(p, rg, size)
         \/ \E size \in Sizes : IncOp(p, size)
  PROVE  /\ acc[p] = Idle /\ p \notin ended /\ UNCHANGED <<acc, ended>>
         /\ \/ UNCHANGED <<pte, fifo, mram>>
            \/ \E addr, n \in Nat : Fresh(p, addr, n) /\ MapRam(p, addr, n)
<1>1. acc[p] = Idle /\ p \notin ended /\ UNCHANGED <<acc, ended>>
  BY DEF AllocGrow, IncOp, Ready, procVars
<1>2. ASSUME KRNL_MM # NoProc, NEW inc_sz \in Nat, IncVmaLimit(p, inc_sz),
             Fresh(p, sbrk[KRNL_MM], Whole(inc_sz))
      PROVE  \E addr, n \in Nat : Fresh(p, addr, n) /\ MapRam(p, addr, n)
  <2>1. sbrk[KRNL_MM] \in Nat
    BY <1>2, NoProcAssumption DEF RegionTypeOK
  <2>2. Whole(inc_sz) \in Nat
    BY <1>2, PageSizeAssumption, WholePages DEF Whole
  <2>3. MapRam(p, sbrk[KRNL_MM], Whole(inc_sz))
    BY <1>2 DEF IncVmaLimit, Whole
  <2> QED  BY <1>2, <2>1, <2>2, <2>3
<1>3. ASSUME NEW rg \in RgId, NEW size \in Sizes, AllocGrow(p, rg, size)
      PROVE  \/ UNCHANGED <<pte, fifo, mram>>
             \/ \E addr, n \in Nat : Fresh(p, addr, n) /\ MapRam(p, addr, n)
  <2>1. CASE ~listed[p]
    BY <1>3, <2>1 DEF AllocGrow
  <2>2. CASE listed[p]
    <3>1. KRNL_MM # NoProc /\ IncVmaLimit(p, RoundUp(size)) /\ grown[p] < MAX_GROWTH
      BY <1>3, <2>2 DEF AllocGrow
    <3>2. RoundUp(size) \in Nat
      BY OperandAssumption, PageSizeAssumption, WholePages DEF RoundUp
    <3>3. Fresh(p, sbrk[KRNL_MM], Whole(RoundUp(size)))
      BY <3>1 DEF GrowsFresh
    <3> QED  BY <1>2, <3>1, <3>2, <3>3
  <2> QED  BY <2>1, <2>2
<1>4. ASSUME NEW size \in Sizes, IncOp(p, size)
      PROVE  \E addr, n \in Nat : Fresh(p, addr, n) /\ MapRam(p, addr, n)
  <2>1. /\ KRNL_MM # NoProc /\ IncVmaLimit(p, size) /\ grown[p] < MAX_GROWTH
        /\ size \in Nat
    BY <1>4, OperandAssumption DEF IncOp
  <2>2. Fresh(p, sbrk[KRNL_MM], Whole(size))
    BY <2>1 DEF GrowsFresh
  <2> QED  BY <1>2, <2>1, <2>2
<1> QED  BY <1>1, <1>3, <1>4

\* The steps that leave the frames, the entries and the lists of pages alone.
LEMMA FramesUsers ==
  ASSUME [Next]_vars
  PROVE  \/ UNCHANGED <<pte, fifo, mram, acc, ended>>
         \/ \E p \in Proc :
              \/ \E rg \in RgId, size \in Sizes : AllocGrow(p, rg, size)
              \/ \E size \in Sizes : IncOp(p, size)
              \/ \E range \in Ranges : MapOp(p, range)
              \/ \E op \in Ops, rg \in RgId, off \in Offsets : Begin(p, op, rg, off)
              \/ End(p) \/ Access(p)
<1>1. UNCHANGED vars => UNCHANGED <<pte, fifo, mram, acc, ended>>
  BY DEF vars, frameVars, procVars
<1>2. ASSUME NEW p \in Proc,
             \/ \E rg \in RgId, size \in Sizes : AllocFree(p, rg, size)
             \/ \E size \in Sizes : AllocCrash(p, size)
             \/ \E rg \in RgId : Free(p, rg)
             \/ \E f \in RamFrame : IoWrite(p, f) \/ \E s \in SwapFrame : SwpOp(p, f, s)
             \/ CallCrash(p) \/ PutBack(p)
      PROVE  UNCHANGED <<pte, fifo, mram, acc, ended>>
  BY <1>2 DEF AllocFree, AllocCrash, Free, IoWrite, SwpOp, CallCrash, PutBack, Crash,
       frameVars, procVars
<1> QED  BY <1>1, <1>2 DEF Next

\* Every step leaves pages in RAM as the candidates for eviction, and all of them as
\* long as no victim is without a frame of swap.
LEMMA VictimsStep ==
  ASSUME RegionTypeOK, FrameTypeOK, Waiting, VictimsInRam, GrowsFresh,
         ~REMAP, RAM_FRAMES <= FPN_SPAN, [Next]_vars
  PROVE  /\ VictimsInRam'
         /\ SwapNeverEmpty => \A q \in Proc : Listed(q) => Listed(q)'
<1> DEFINE Goal == /\ VictimsInRam'
                   /\ SwapNeverEmpty => \A q \in Proc : Listed(q) => Listed(q)'
<1>1. CASE UNCHANGED <<pte, fifo>>
  BY <1>1 DEF VictimsInRam, Listed, InRam
<1>2. ASSUME NEW p \in Proc,
             \/ \E rg \in RgId, size \in Sizes : AllocGrow(p, rg, size)
             \/ \E size \in Sizes : IncOp(p, size)
      PROVE  Goal
  BY <1>1, <1>2, GrowthMaps, MapRamFifo
<1>3. ASSUME NEW p \in Proc, NEW range \in Ranges, MapOp(p, range)
      PROVE  Goal
  <2>1. fifo' = fifo /\ \A q \in Proc : InRam(q)' = InRam(q)
    BY <1>3, MapOpEntries
  <2> QED  BY <2>1 DEF VictimsInRam, Listed
<1>4. ASSUME NEW p \in Proc, Access(p)
      PROVE  Goal
  <2>1. CASE AccessEvict(p)
    BY <2>1, EvictEntries DEF VictimsInRam, Listed
  <2>2. CASE AccessPut(p)
    BY <2>2, PutEntries DEF VictimsInRam, Listed
  <2>3. CASE AccessNoSwap(p)
    <3>1. fifo[p] \in Seq(Page) /\ fifo[p] # <<>> /\ IsInjective(fifo[p])
      BY <2>3 DEF AccessNoSwap, AccessAt, Waiting, VictimsInRam, FrameTypeOK
    <3>2. IsInjective(WithoutVictim(p)) /\ Range(WithoutVictim(p)) \subseteq Range(fifo[p])
      BY <3>1, FrontInjective DEF WithoutVictim
    <3>3. /\ pte' = pte
          /\ \A q \in Proc : fifo'[q] = IF q = p THEN WithoutVictim(p) ELSE fifo[q]
      BY <2>3 DEF AccessNoSwap, FrameTypeOK
    <3>4. ~SwapNeverEmpty
      BY <2>3 DEF AccessNoSwap, SwapNeverEmpty
    <3> HIDE DEF WithoutVictim
    <3>5. \A q \in Proc : InRam(q)' = InRam(q)
      BY <3>3 DEF InRam
    <3> QED  BY <3>2, <3>3, <3>4, <3>5 DEF VictimsInRam
  <2>4. CASE ~(AccessEvict(p) \/ AccessPut(p) \/ AccessNoSwap(p))
    <3>1. UNCHANGED <<pte, fifo>>
      BY <1>4, <2>4 DEF Access, AccessReturns, AccessGoesOn, AccessAbsent, AccessPresent,
         AccessFrame, AccessNoVictim, AccessVictim, AccessLoad, AccessCrash, Crash,
         frameVars
    <3> QED  BY <1>1, <3>1
  <2> QED  BY <2>1, <2>2, <2>3, <2>4
<1>5. ASSUME NEW p \in Proc,
             \/ \E op \in Ops, rg \in RgId, off \in Offsets : Begin(p, op, rg, off)
             \/ End(p)
      PROVE  UNCHANGED <<pte, fifo>>
  BY <1>5 DEF Begin, End, frameVars
<1> QED  BY <1>1, <1>2, <1>3, <1>4, <1>5, FramesUsers

\* Every step keeps the frames apart, if accesses exclude each other.
LEMMA FramesStep ==
  ASSUME RegionTypeOK, FrameTypeOK, Waiting, Alone, Partition, VictimsInRam, GrowsFresh,
         ~REMAP, RAM_FRAMES <= FPN_SPAN, [Next]_vars
  PROVE  Partition'
<1>1. CASE UNCHANGED <<pte, mram, acc, ended>>
  BY <1>1, HoldSameIf, HoldSameKeeps DEF Loading
<1>2. ASSUME NEW p \in Proc,
             \/ \E rg \in RgId, size \in Sizes : AllocGrow(p, rg, size)
             \/ \E size \in Sizes : IncOp(p, size)
      PROVE  Partition'
  BY <1>1, <1>2, GrowthMaps, MapRamKeeps
<1>3. ASSUME NEW p \in Proc,
             UNCHANGED <<pte, mram, ended>>,
             \A q \in Proc : q # p => acc'[q] = acc[q],
             Loading(p)' <=> Loading(p), Loading(p) => acc'[p].to = acc[p].to
      PROVE  Partition'
  <2>1. \A q \in Proc : /\ Loading(q)' <=> Loading(q)
                        /\ Loading(q) => acc'[q].to = acc[q].to
    BY <1>3 DEF Loading
  <2> QED  BY <1>3, <2>1, HoldSameIf, HoldSameKeeps
<1>4. ~(Idle.at \in {"load", "put"})
  BY DEF Idle, InAccess
<1>5. ASSUME NEW p \in Proc, NEW op \in Ops, NEW rg \in RgId, NEW off \in Offsets,
             Begin(p, op, rg, off)
      PROVE  Partition'
  <2>1. /\ UNCHANGED <<pte, mram, ended>> /\ acc[p] = Idle /\ acc'[p].at = "page"
        /\ \A q \in Proc : q # p => acc'[q] = acc[q]
    BY <1>5 DEF Begin, Ready, InAccess, frameVars, procVars, FrameTypeOK
  <2> QED  BY <1>3, <1>4, <2>1 DEF Loading
<1>6. ASSUME NEW p \in Proc, Access(p)
      PROVE  Partition'
  <2>1. CASE AccessCrash(p)
    BY <1>1, <2>1 DEF AccessCrash, Crash, frameVars, procVars
  <2>2. CASE AccessReturns(p)
    <3>1. /\ UNCHANGED <<pte, mram, ended>> /\ acc'[p] = Idle
          /\ ~(acc[p].at \in {"load", "put"})
          /\ \A q \in Proc : q # p => acc'[q] = acc[q]
      BY <2>2 DEF AccessReturns, AccessAbsent, AccessPresent, AccessNoVictim,
         AccessNoSwap, NeedsVictim, AccessAt, Done, frameVars, procVars, FrameTypeOK
    <3> QED  BY <1>3, <1>4, <3>1 DEF Loading
  <2>3. CASE AccessVictim(p) \/ AccessLoad(p)
    <3>1. /\ UNCHANGED <<pte, mram, ended>>
          /\ \A q \in Proc : q # p => acc'[q] = acc[q]
          /\ \/ acc[p].at = "page" /\ acc'[p].at = "swap"
             \/ acc[p].at = "load" /\ acc'[p].at = "put" /\ acc'[p].to = acc[p].to
      BY <2>3 DEF AccessVictim, AccessLoad, NeedsVictim, AccessAt, GoesOn, InAccess,
         frameVars, procVars, FrameTypeOK
    <3> QED  BY <1>3, <3>1 DEF Loading
  <2> QED  BY <1>6, <2>1, <2>2, <2>3, FrameKeeps, EvictKeeps, PutKeeps
           DEF Access, AccessGoesOn
<1> QED  BY <1>1, <1>2, <1>5, <1>6, MapOpKeeps, EndKeeps, FramesUsers

\* At the start every frame is free, and no page is in RAM.
LEMMA InitFrames ==
  ASSUME Init
  PROVE  Partition /\ VictimsInRam /\ \A p \in Proc : Listed(p)
<1>1. \A p \in Proc : InRam(p) = {} /\ fifo[p] = <<>> /\ ~Loading(p)
  BY DEF Init, InRam, Present, NoPte, Loading, Idle, InAccess
<1>2. VictimsInRam /\ \A p \in Proc : Listed(p)
  <2>1. IsInjective(<<>>) /\ Range(<<>>) = {}
    BY DEF IsInjective, Range
  <2> QED  BY <1>1, <2>1 DEF VictimsInRam, Listed
<1>3. mram = [i \in 1 .. RAM_FRAMES |-> i - 1] /\ RAM_FRAMES \in Nat
  BY DeviceAssumption DEF Init
<1>4. IsInjective(mram)
  BY <1>3 DEF IsInjective
<1>5. \A f \in RamFrame : f \in Range(mram)
  <2> TAKE f \in RamFrame
  <2>1. f + 1 \in 1 .. RAM_FRAMES /\ mram[f + 1] = f
    BY <1>3 DEF RamFrame
  <2> QED  BY <1>3, <2>1 DEF Range
<1>6. \A p \in Proc : Hold(p) = {}
  BY <1>1 DEF Hold, Keeps
<1>7. Partition
  BY <1>4, <1>5, <1>6 DEF Partition
<1> QED  BY <1>2, <1>7

-----------------------------------------------------------------------------
(* Growth of the one process whose mm krnl->mm is *)

\* What MAX_GROWTH allocations ask for, rounded up, is no more than this many pages.
GrowthFits(largest, pages) ==
    /\ \A size \in Sizes : RoundUp(size) <= largest
    /\ MAX_GROWTH * largest <= pages * PAGING_PAGESZ

\* x bytes that fit in u units of s bytes still do when rounded up to units.
LEMMA WholeFits ==
  ASSUME NEW x \in Nat, NEW u \in Nat, NEW s \in Nat \ {0}, x <= u * s
  PROVE  ((x + s - 1) \div s) * s <= u * s
<1> DEFINE d == (x + s - 1) \div s
<1>1. d \in Nat /\ d * s <= x + s - 1
  <2>1. x + s - 1 \in Nat
    OBVIOUS
  <2> DEFINE y == x + s - 1
  <2>2. d \in Nat /\ y % s \in 0 .. s - 1 /\ y = d * s + (y % s)
    <3> HIDE DEF y
    <3> QED  BY <2>1, DigitsOf DEF y
  <2>3. d * s \in Nat
    BY <2>2
  <2> HIDE DEF d
  <2> QED  BY <2>2, <2>3
<1> HIDE DEF d
<1>2. d <= u
  <2> SUFFICES ASSUME d >= u + 1  PROVE FALSE
    BY <1>1
  <2>1. d * s >= (u + 1) * s
    BY <1>1
  <2>2. (u + 1) * s = u * s + s /\ u * s \in Nat
    OBVIOUS
  <2> QED  BY <1>1, <2>1, <2>2
<1> QED  BY <1>1, <1>2 DEF d

\* Neither an alloc nor INC_OP adds more than the operand rounded up by alloc.
LEMMA WholeOperand ==
  ASSUME NEW size \in Sizes
  PROVE  /\ RoundUp(size) \in Nat /\ Whole(size) \in Nat /\ Whole(RoundUp(size)) \in Nat
         /\ Whole(size) * PAGING_PAGESZ <= RoundUp(size)
         /\ Whole(RoundUp(size)) * PAGING_PAGESZ = RoundUp(size)
<1> DEFINE P == PAGING_PAGESZ
           c == (size + PAGING64_PAGESZ - 1) \div PAGING64_PAGESZ
           k == PAGING64_PAGESZ \div P
<1>1. size \in Nat /\ P \in Nat \ {0} /\ PAGING64_PAGESZ \in Nat \ {0}
  BY OperandAssumption, PageSizeAssumption
<1>2. c \in Nat /\ RoundUp(size) = c * PAGING64_PAGESZ /\ RoundUp(size) \in Nat
      /\ RoundUp(size) >= size
  BY <1>1, WholePages DEF RoundUp
<1>3. k \in Nat /\ PAGING64_PAGESZ = k * P
  <2>1. k \in Nat /\ PAGING64_PAGESZ = k * P + (PAGING64_PAGESZ % P)
    BY <1>1, DigitsOf
  <2>2. PAGING64_PAGESZ % P = 0
    BY PageSizeAssumption
  <2>3. k * P \in Nat
    BY <1>1, <2>1
  <2> HIDE DEF k
  <2> QED  BY <2>1, <2>2, <2>3
<1> HIDE DEF c, k, P
<1>4. c * k \in Nat /\ RoundUp(size) = (c * k) * P
  BY <1>1, <1>2, <1>3
<1>5. \A x \in Nat : /\ Whole(x) \in Nat /\ Whole(x) * P >= x
                     /\ x <= (c * k) * P => Whole(x) * P <= (c * k) * P
  BY <1>1, <1>4, WholePages, WholeFits DEF Whole, P
<1>6. Whole(RoundUp(size)) * P \in Nat
  BY <1>1, <1>2, <1>5
<1> QED  BY <1>1, <1>2, <1>4, <1>5, <1>6 DEF P

\* Below page m the address space is in use, above it is untouched.
BreakAt(m, largest) ==
    /\ m \in Nat
    /\ sbrk[KRNL_MM] = m * PAGING_PAGESZ
    /\ sbrk[KRNL_MM] <= grown[KRNL_MM] * largest
    /\ grown[KRNL_MM] <= MAX_GROWTH
    /\ \A g \in Page : g >= m => pte[KRNL_MM][g] = NoPte
    /\ \A g \in Page : ~pte[KRNL_MM][g].swapped

\* The next growth maps the pages from m on, and stays inside.
LEMMA NextPages ==
  ASSUME NEW largest \in Nat, NEW pages \in Nat, GrowthFits(largest, pages),
         RegionTypeOK, NEW m, BreakAt(m, largest), KRNL_MM \in Proc,
         grown[KRNL_MM] < MAX_GROWTH, NEW n \in Nat, n * PAGING_PAGESZ <= largest
  PROVE  /\ m + n <= pages
         /\ (m + n) * PAGING_PAGESZ = sbrk[KRNL_MM] + n * PAGING_PAGESZ
         /\ sbrk[KRNL_MM] + n * PAGING_PAGESZ <= (grown[KRNL_MM] + 1) * largest
<1> DEFINE P == PAGING_PAGESZ
           brk == sbrk[KRNL_MM]
           count == grown[KRNL_MM]
<1>1. /\ P \in Nat \ {0} /\ brk \in Nat /\ count \in Nat /\ m \in Nat /\ MAX_GROWTH \in Nat
      /\ brk = m * P /\ brk <= count * largest /\ count < MAX_GROWTH
      /\ MAX_GROWTH * largest <= pages * P /\ n * P <= largest
  BY PageSizeAssumption, OperandAssumption DEF RegionTypeOK, BreakAt, GrowthFits
<1> HIDE DEF P, brk, count
<1>2. (m + n) * P = brk + n * P /\ n * P \in Nat /\ m + n \in Nat
  BY <1>1
<1>3. (count + 1) * largest = count * largest + largest /\ count * largest \in Nat
  BY <1>1
<1>4. brk + n * P <= (count + 1) * largest
  BY <1>1, <1>2, <1>3
<1>5. (count + 1) * largest <= MAX_GROWTH * largest
  BY <1>1
<1>6. (m + n) * P <= pages * P
  <2>1. MAX_GROWTH * largest \in Nat /\ pages * P \in Nat /\ (count + 1) * largest \in Nat
    BY <1>1
  <2> QED  BY <1>1, <1>2, <1>4, <1>5, <2>1
<1>7. m + n <= pages
  <2> SUFFICES ASSUME m + n >= pages + 1  PROVE FALSE
    BY <1>2
  <2>1. (m + n) * P >= (pages + 1) * P
    BY <1>1, <1>2
  <2>2. (pages + 1) * P = pages * P + P /\ pages * P \in Nat /\ (m + n) * P \in Nat
    BY <1>1, <1>2
  <2> QED  BY <1>1, <1>6, <2>1, <2>2
<1> QED  BY <1>2, <1>4, <1>7 DEF P, brk, count

\* Those pages, one by one.
LEMMA PageAt ==
  ASSUME NEW m \in Nat, NEW i \in Nat, m + i < PAGING_MAX_PGN
  PROVE  PAGING_PGN(m * PAGING_PAGESZ + i * PAGING_PAGESZ) = m + i
<1> DEFINE P == PAGING_PAGESZ
<1>1. P \in Nat \ {0} /\ PAGING_MAX_PGN \in Nat \ {0}
  BY PageSizeAssumption
<1> HIDE DEF P
<1>2. m * P + i * P = (m + i) * P + 0
  BY <1>1
<1>3. ((m + i) * P + 0) \div P = m + i
  <2>1. m + i \in Nat /\ 0 \in 0 .. P - 1
    BY <1>1
  <2> QED  BY <1>1, <2>1, DigitsMade
<1>4. (m + i) % PAGING_MAX_PGN = m + i
  BY <1>1
<1> QED  BY <1>2, <1>3, <1>4 DEF PAGING_PGN, P

\* A growth of krnl->mm moves the page that divides the address space.
LEMMA GrowthStep ==
  ASSUME NEW largest \in Nat, GrowthFits(largest, PAGING_MAX_PGN), RAM_FRAMES <= FPN_SPAN,
         RegionTypeOK, FrameTypeOK, NEW m, BreakAt(m, largest), KRNL_MM \in Proc,
         grown[KRNL_MM] < MAX_GROWTH, grown' = [grown EXCEPT ![KRNL_MM] = @ + 1],
         NEW inc_sz \in Nat, Whole(inc_sz) * PAGING_PAGESZ <= largest,
         IncVmaLimit(KRNL_MM, inc_sz)
  PROVE  BreakAt(m + Whole(inc_sz), largest)'
<1> DEFINE p == KRNL_MM
           n == Whole(inc_sz)
           addr == sbrk[p]
<1>1. /\ n \in Nat /\ m \in Nat /\ PAGING_MAX_PGN \in Nat
      /\ sbrk \in [Proc -> Nat] /\ grown \in [Proc -> Nat]
      /\ addr = m * PAGING_PAGESZ /\ addr \in Nat
  BY PageSizeAssumption, WholePages DEF RegionTypeOK, BreakAt, Whole
<1>2. /\ m + n <= PAGING_MAX_PGN
      /\ (m + n) * PAGING_PAGESZ = addr + n * PAGING_PAGESZ
      /\ addr + n * PAGING_PAGESZ <= (grown[p] + 1) * largest
  BY <1>1, NextPages
<1>3. /\ MapRam(p, addr, n)
      /\ sbrk' = [sbrk EXCEPT ![p] = @ + n * PAGING_PAGESZ]
  BY DEF IncVmaLimit, Whole
<1> HIDE DEF n
<1>4. /\ m + n \in Nat /\ grown'[p] = grown[p] + 1 /\ sbrk'[p] = (m + n) * PAGING_PAGESZ
      /\ grown'[p] <= MAX_GROWTH
      /\ \A g \in Page : g >= m + n => g >= m
  BY <1>1, <1>2, <1>3, OperandAssumption, PageSizeAssumption DEF Page
<1>5. /\ \A g \in Page : g >= m => pte[p][g] = NoPte
      /\ \A g \in Page : ~pte[p][g].swapped
  BY DEF BreakAt
<1> HIDE DEF addr
<1>6. /\ \A g \in Page : g >= m + n => pte'[p][g] = NoPte
      /\ \A g \in Page : ~pte'[p][g].swapped
  <2>1. CASE ~(n <= Len(mram))
    <3>1. pte' = pte
      BY <1>1, <1>3, <2>1, MapRamFails
    <3> QED  BY <1>4, <1>5, <3>1
  <2>2. CASE n <= Len(mram)
    <3> DEFINE new == NewPages(addr, n)
               head == NewHead(addr, n)
    <3>1. \A i \in 0 .. n - 1 :
            NewPage(addr, i) = m + i /\ m + i \in Page /\ m + i < m + n
      <4> TAKE i \in 0 .. n - 1
      <4>1. i \in Nat /\ m + i < PAGING_MAX_PGN
        BY <1>1, <1>2
      <4> QED  BY <1>1, <4>1, PageAt DEF NewPage, Page
    <3>2. \A i \in 0 .. n - 1 : m + i \notin InRam(p)
      <4> TAKE i \in 0 .. n - 1
      <4>1. pte[p][m + i] = NoPte
        BY <1>1, <1>5, <3>1
      <4> QED  BY <4>1 DEF InRam, Present, NoPte
    <3>3. \A i, j \in 0 .. n - 1 : m + i = m + j => i = j
      BY <1>1
    <3>4. Fresh(p, addr, n)
      BY <3>1, <3>2, <3>3 DEF Fresh
    <3>5. /\ DOMAIN head = 1 .. n /\ Range(head) = new
          /\ \A k \in 1 .. n : Present(pte'[p][head[k]])
          /\ \A g \in Page : g \notin new => pte'[p][g] = pte[p][g]
      BY <1>1, <1>3, <2>2, <3>4, MapRamPages
    <3> HIDE DEF head
    <3>6. \A g \in new : Present(pte'[p][g])
      BY <3>5 DEF Range
    <3>7. \A g \in new : g < m + n
      BY <3>1 DEF NewPages
    <3> HIDE DEF new
    <3>8. \A g \in Page : g >= m + n => g \notin new
      BY <1>4, <3>7 DEF Page
    <3>9. \A g \in Page : ~pte'[p][g].swapped
      BY <1>5, <3>5, <3>6 DEF Present
    <3> QED  BY <1>4, <1>5, <3>5, <3>8, <3>9
  <2> QED  BY <2>1, <2>2
<1> QED  BY <1>2, <1>4, <1>6 DEF BreakAt, n, addr

\* One process runs, its mm is krnl->mm, and it maps no pages itself.
Single == Proc = {KRNL_MM} /\ Ranges = {}

\* Then only an allocation that does not fit and INC_OP change its page table: no page
\* of it is in swap.
LEMMA SingleStep ==
  ASSUME Single, FrameTypeOK, Waiting, \A g \in Page : ~pte[KRNL_MM][g].swapped,
         [Next]_vars
  PROVE  \/ UNCHANGED <<pte, sbrk, grown>>
         \/ \E rg \in RgId, size \in Sizes : AllocGrow(KRNL_MM, rg, size)
         \/ \E size \in Sizes : IncOp(KRNL_MM, size)
<1>1. UNCHANGED vars => UNCHANGED <<pte, sbrk, grown>>
  BY DEF vars, frameVars, regionVars
<1>2. \A p \in Proc : p = KRNL_MM
  BY DEF Single
<1>3. ASSUME NEW p \in Proc, Access(p)
      PROVE  UNCHANGED <<pte, sbrk, grown>>
  <2>1. ~Entry(p).swapped
    BY <1>2, EntryParts DEF Entry
  <2>2. ~(acc[p].at \in {"swap", "load", "put"})
    BY <2>1 DEF Waiting
  <2> QED  BY <1>3, <2>1, <2>2 DEF Access, AccessReturns, AccessGoesOn, AccessAbsent,
           AccessPresent, AccessFrame, AccessNoVictim, AccessVictim, AccessNoSwap,
           AccessEvict, AccessLoad, AccessPut, AccessCrash, NeedsVictim, AccessAt,
           Crash, Done, frameVars, regionVars
<1>4. ASSUME NEW p \in Proc,
             \/ \E rg \in RgId, size \in Sizes : AllocFree(p, rg, size)
             \/ \E size \in Sizes : AllocCrash(p, size)
             \/ \E rg \in RgId : Free(p, rg)
             \/ \E f \in RamFrame : IoWrite(p, f) \/ \E s \in SwapFrame : SwpOp(p, f, s)
             \/ CallCrash(p) \/ PutBack(p) \/ End(p)
             \/ \E op \in Ops, rg \in RgId, off \in Offsets : Begin(p, op, rg, off)
      PROVE  UNCHANGED <<pte, sbrk, grown>>
  BY <1>4 DEF AllocFree, AllocCrash, Free, IoWrite, SwpOp, CallCrash, PutBack, End, Begin,
       Crash, frameVars, regionVars
<1>5. ~(\E p \in Proc : \E range \in Ranges : MapOp(p, range))
  BY DEF Single
<1> QED  BY <1>1, <1>2, <1>3, <1>4, <1>5 DEF Next

\* The page that divides the address space moves with the break.
LEMMA BreakStep ==
  ASSUME NEW largest \in Nat, GrowthFits(largest, PAGING_MAX_PGN), Single,
         RAM_FRAMES <= FPN_SPAN, RegionTypeOK, FrameTypeOK, Waiting,
         NEW m, BreakAt(m, largest), [Next]_vars
  PROVE  \E k \in Nat : BreakAt(k, largest)'
<1> DEFINE p == KRNL_MM
<1>1. /\ p \in Proc /\ m \in Nat /\ grown \in [Proc -> Nat] /\ sbrk \in [Proc -> Nat]
      /\ \A size \in Sizes : RoundUp(size) <= largest
  BY DEF Single, BreakAt, RegionTypeOK, GrowthFits
<1>2. CASE UNCHANGED <<pte, sbrk, grown>>
  <2>1. BreakAt(m, largest)'
    BY <1>2 DEF BreakAt
  <2> QED  BY <1>1, <2>1
<1>3. ASSUME NEW rg \in RgId, NEW size \in Sizes, AllocGrow(p, rg, size)
      PROVE  \E k \in Nat : BreakAt(k, largest)'
  <2>1. grown[p] < MAX_GROWTH /\ grown' = [grown EXCEPT ![p] = @ + 1]
    BY <1>3 DEF AllocGrow
  <2>2. CASE listed[p]
    <3>1. IncVmaLimit(p, RoundUp(size))
      BY <1>3, <2>2 DEF AllocGrow
    <3>2. RoundUp(size) \in Nat /\ Whole(RoundUp(size)) \in Nat
          /\ Whole(RoundUp(size)) * PAGING_PAGESZ <= largest
      <4>1. /\ RoundUp(size) \in Nat /\ Whole(RoundUp(size)) \in Nat
            /\ Whole(RoundUp(size)) * PAGING_PAGESZ = RoundUp(size)
        BY WholeOperand
      <4> QED  BY <1>1, <4>1
    <3>3. BreakAt(m + Whole(RoundUp(size)), largest)'
      BY <1>1, <2>1, <3>1, <3>2, GrowthStep
    <3> QED  BY <1>1, <3>2, <3>3
  <2>3. CASE ~listed[p]
    <3>1. UNCHANGED <<sbrk, pte>> /\ grown'[p] = grown[p] + 1
      BY <1>1, <1>3, <2>1, <2>3 DEF AllocGrow
    <3>2. /\ grown[p] \in Nat /\ grown'[p] <= MAX_GROWTH /\ sbrk[p] <= grown[p] * largest
          /\ sbrk[p] \in Nat
      BY <1>1, <2>1, <3>1, OperandAssumption DEF BreakAt
    <3>3. sbrk[p] <= (grown[p] + 1) * largest
      <4>1. (grown[p] + 1) * largest = grown[p] * largest + largest
            /\ grown[p] * largest \in Nat
        BY <3>2
      <4> QED  BY <3>2, <4>1
    <3>4. BreakAt(m, largest)'
      BY <1>1, <3>1, <3>2, <3>3 DEF BreakAt
    <3> QED  BY <1>1, <3>4
  <2> QED  BY <2>2, <2>3
<1>4. ASSUME NEW size \in Sizes, IncOp(p, size)
      PROVE  \E k \in Nat : BreakAt(k, largest)'
  <2>1. /\ grown[p] < MAX_GROWTH /\ grown' = [grown EXCEPT ![p] = @ + 1]
        /\ IncVmaLimit(p, size) /\ size \in Nat
    BY <1>4, OperandAssumption DEF IncOp
  <2>2. Whole(size) \in Nat /\ Whole(size) * PAGING_PAGESZ <= largest
    <3>1. /\ RoundUp(size) \in Nat /\ Whole(size) \in Nat
          /\ Whole(size) * PAGING_PAGESZ <= RoundUp(size)
      BY WholeOperand
    <3>2. Whole(size) * PAGING_PAGESZ \in Nat
      BY <3>1, PageSizeAssumption
    <3> QED  BY <1>1, <3>1, <3>2
  <2>3. BreakAt(m + Whole(size), largest)'
    BY <1>1, <2>1, <2>2, GrowthStep
  <2> QED  BY <1>1, <2>2, <2>3
<1>5. \A g \in Page : ~pte[p][g].swapped
  BY DEF BreakAt
<1> QED  BY <1>2, <1>3, <1>4, <1>5, SingleStep

\* What is mapped next is fresh.
LEMMA BreakFresh ==
  ASSUME NEW largest \in Nat, GrowthFits(largest, PAGING_MAX_PGN), Single,
         RegionTypeOK, NEW m, BreakAt(m, largest)
  PROVE  GrowsFresh
<1> DEFINE p == KRNL_MM
<1>1. /\ p \in Proc /\ m \in Nat /\ PAGING_MAX_PGN \in Nat /\ Proc = {p}
      /\ sbrk[p] = m * PAGING_PAGESZ
      /\ \A size \in Sizes : RoundUp(size) <= largest
  BY PageSizeAssumption DEF Single, BreakAt, GrowthFits
<1>2. ASSUME grown[p] < MAX_GROWTH, NEW n \in Nat, n * PAGING_PAGESZ <= largest
      PROVE  Fresh(p, sbrk[p], n)
  <2>1. m + n <= PAGING_MAX_PGN
    BY <1>1, <1>2, NextPages
  <2>2. \A i \in 0 .. n - 1 :
          NewPage(sbrk[p], i) = m + i /\ m + i \notin InRam(p)
    <3> TAKE i \in 0 .. n - 1
    <3>1. i \in Nat /\ m + i < PAGING_MAX_PGN /\ m + i >= m
      BY <1>1, <2>1
    <3>2. m + i \in Page => pte[p][m + i] = NoPte
      BY <3>1 DEF BreakAt
    <3> QED  BY <1>1, <3>1, <3>2, PageAt DEF NewPage, InRam, Present, NoPte
  <2>3. \A i, j \in 0 .. n - 1 : m + i = m + j => i = j
    BY <1>1
  <2> QED  BY <2>2, <2>3 DEF Fresh
<1>3. ASSUME NEW size \in Sizes, grown[p] < MAX_GROWTH
      PROVE  Fresh(p, sbrk[p], Whole(size)) /\ Fresh(p, sbrk[p], Whole(RoundUp(size)))
  <2>1. /\ RoundUp(size) \in Nat /\ Whole(size) \in Nat /\ Whole(RoundUp(size)) \in Nat
        /\ Whole(size) * PAGING_PAGESZ <= RoundUp(size)
        /\ Whole(RoundUp(size)) * PAGING_PAGESZ = RoundUp(size)
    BY WholeOperand
  <2>2. Whole(size) * PAGING_PAGESZ \in Nat
    BY <2>1, PageSizeAssumption
  <2>3. Whole(size) * PAGING_PAGESZ <= largest /\ Whole(RoundUp(size)) * PAGING_PAGESZ <= largest
    BY <1>1, <2>1, <2>2
  <2> QED  BY <1>2, <1>3, <2>1, <2>3
<1> HIDE DEF p
<1>4. ASSUME NEW q \in Proc, NEW size \in Sizes, grown[q] < MAX_GROWTH
      PROVE  Fresh(q, sbrk[p], Whole(size)) /\ Fresh(q, sbrk[p], Whole(RoundUp(size)))
  <2>1. q = p
    BY <1>1
  <2> QED  BY <1>3, <1>4, <2>1
<1> QED  BY <1>4 DEF GrowsFresh, p

\* At the start nothing is mapped, and nothing asked for.
LEMMA InitBreak ==
  ASSUME Init, Single, NEW largest \in Nat
  PROVE  BreakAt(0, largest)
<1>1. KRNL_MM \in Proc /\ sbrk[KRNL_MM] = 0 /\ grown[KRNL_MM] = 0
      /\ \A g \in Page : pte[KRNL_MM][g] = NoPte
  BY DEF Init, Single
<1>2. 0 * largest = 0 /\ 0 * PAGING_PAGESZ = 0 /\ 0 <= MAX_GROWTH
  BY OperandAssumption, PageSizeAssumption
<1> QED  BY <1>1, <1>2 DEF BreakAt, NoPte

\* The two situations in which growth maps fresh pages: krnl->mm is NULL, as main
\* leaves it (then no system call grows a process), or there is one process, whose
\* requests fit in its address space.
OrderlyGrowth ==
    \/ KRNL_MM = NoProc
    \/ Single /\ \E largest \in Nat : GrowthFits(largest, PAGING_MAX_PGN)

\* What is invariant if growth maps fresh pages is so if growth is orderly.
LEMMA OrderlyStep ==
  ASSUME RAM_FRAMES <= FPN_SPAN, NEW largest \in Nat,
         KRNL_MM = NoProc \/ (Single /\ GrowthFits(largest, PAGING_MAX_PGN))
  PROVE  LET Break == KRNL_MM = NoProc \/ \E m \in Nat : BreakAt(m, largest) IN
         /\ Init => Break
         /\ RegionTypeOK /\ Break => GrowsFresh
         /\ RegionTypeOK /\ FrameTypeOK /\ Waiting /\ Break /\ [Next]_vars => Break'
<1>1. CASE KRNL_MM = NoProc
  BY <1>1 DEF GrowsFresh
<1>2. CASE Single /\ GrowthFits(largest, PAGING_MAX_PGN) /\ KRNL_MM # NoProc
  BY <1>2, InitBreak, BreakFresh, BreakStep
<1> QED  BY <1>1, <1>2

\* Whatever accesses overlap, the candidates for eviction are pages in RAM, each once,
\* if programs do not map a page twice and growth is orderly.
THEOREM VictimsInRamAlways ==
  ASSUME ~REMAP, RAM_FRAMES <= FPN_SPAN, OrderlyGrowth
  PROVE  Spec => []VictimsInRam
<1>1. PICK largest \in Nat :
        KRNL_MM = NoProc \/ (Single /\ GrowthFits(largest, PAGING_MAX_PGN))
  <2>1. CASE KRNL_MM = NoProc
    <3> WITNESS 0 \in Nat
    <3> QED  BY <2>1
  <2>2. CASE \E largest \in Nat : Single /\ GrowthFits(largest, PAGING_MAX_PGN)
    BY <2>2
  <2> QED  BY <2>1, <2>2 DEF OrderlyGrowth
<1> DEFINE Break == KRNL_MM = NoProc \/ \E m \in Nat : BreakAt(m, largest)
           Inv == RegionTypeOK /\ FrameTypeOK /\ Waiting /\ VictimsInRam /\ Break
<1>2. /\ Init => Break
      /\ RegionTypeOK /\ Break => GrowsFresh
      /\ RegionTypeOK /\ FrameTypeOK /\ Waiting /\ Break /\ [Next]_vars => Break'
  BY <1>1, OrderlyStep
<1> HIDE DEF Break
<1>3. Init => Inv
  BY <1>2, InitTypes, InitFrames
<1>4. Inv /\ [Next]_vars => Inv'
  <2>1. RegionTypeOK /\ [Next]_vars => RegionTypeOK'
    BY CoverStep
  <2> QED  BY <1>2, <2>1, FrameTypeStep, WaitingStep, VictimsStep
<1> QED  BY <1>3, <1>4, PTL DEF Spec

\* If mmvm_lock or the only CPU keeps accesses apart, if programs do not map a page
\* twice and growth is orderly, the partition of the frames and the lists of victims
\* outlive load, eviction, growth and the end of processes.
THEOREM FramesInvariance ==
  ASSUME Serial, ~REMAP, RAM_FRAMES <= FPN_SPAN, OrderlyGrowth
  PROVE  Spec => [](FramesPartitioned /\ FifoIsInRam)
<1>1. PICK largest \in Nat :
        KRNL_MM = NoProc \/ (Single /\ GrowthFits(largest, PAGING_MAX_PGN))
  <2>1. CASE KRNL_MM = NoProc
    <3> WITNESS 0 \in Nat
    <3> QED  BY <2>1
  <2>2. CASE \E largest \in Nat : Single /\ GrowthFits(largest, PAGING_MAX_PGN)
    BY <2>2
  <2> QED  BY <2>1, <2>2 DEF OrderlyGrowth
<1> DEFINE Break == KRNL_MM = NoProc \/ \E m \in Nat : BreakAt(m, largest)
           AllListed == \A p \in Proc : Listed(p)
           Inv == /\ RegionTypeOK /\ FrameTypeOK /\ Waiting /\ Break
                  /\ Alone /\ SwapCounted
                  /\ Partition /\ VictimsInRam /\ AllListed
<1>2. /\ Init => Break
      /\ RegionTypeOK /\ Break => GrowsFresh
      /\ RegionTypeOK /\ FrameTypeOK /\ Waiting /\ Break /\ [Next]_vars => Break'
  BY <1>1, OrderlyStep
<1> HIDE DEF Break
<1>3. Init => Inv
  BY <1>2, InitTypes, InitAlone, InitSwap, InitFrames
<1>4. Inv /\ [Next]_vars => Inv'
  <2> SUFFICES ASSUME Inv, [Next]_vars  PROVE Inv'
    OBVIOUS
  <2>1. RegionTypeOK' /\ FrameTypeOK' /\ Waiting' /\ Break'
    BY <1>2, CoverStep, FrameTypeStep, WaitingStep
  <2>2. Alone' /\ SwapCounted'
    BY AloneStep, SwapCountedStep
  <2>3. GrowsFresh /\ SwapNeverEmpty
    BY <1>2, SwapCountedMeans
  <2>4. Partition'
    BY <2>3, FramesStep
  <2>5. VictimsInRam' /\ AllListed'
    BY <2>3, VictimsStep
  <2> QED  BY <2>1, <2>2, <2>4, <2>5
<1>5. Inv => FramesPartitioned /\ FifoIsInRam
  <2>1. VictimsInRam /\ AllListed => FifoIsInRam
    BY DEF VictimsInRam, Listed, FifoIsInRam
  <2> QED  BY <2>1, PartitionMeans
<1> QED  BY <1>3, <1>4, <1>5, PTL DEF Spec

\* Then every frame is at any time free, or holds one page of one process, or waits for
\* one: none is shared or on the list twice, and none is lost but those of pages that
\* free_pcb_memph does not look at.
THEOREM FramesAlways ==
  ASSUME Serial, ~REMAP, RAM_FRAMES <= FPN_SPAN, OrderlyGrowth
  PROVE  Spec => []FramesPartitioned
BY FramesInvariance, PTL

\* And the candidates for eviction are the pages in RAM, each once.
THEOREM VictimsAlways ==
  ASSUME Serial, ~REMAP, RAM_FRAMES <= FPN_SPAN, OrderlyGrowth
  PROVE  Spec => []FifoIsInRam
BY FramesInvariance, PTL

-----------------------------------------------------------------------------
(* Processes that map pages see memories of their own, as long as RAM has  *)
(* a frame for every page that is mapped                                   *)

\* The pages that programs map.
MappedPages ==
    {g \in Page : \E range \in Ranges : \E k \in 0 .. range[2] - 1 :
        g = (range[1] + k) % PAGING_MAX_PGN}

\* There is a frame for each of them, in every process.
RoomForAll == IsFiniteSet(Proc) /\ Cardinality(Proc \X MappedPages) <= RAM_FRAMES

\* As main leaves it, no system call grows a process.  The programs do not call SWP_OP
\* and IO_WRITE, which overwrite any frame, and do not map a page twice.
MapsOnly ==
    /\ KRNL_MM = NoProc /\ ~REMAP
    /\ CALLS \cap {"swp", "out"} = {}

\* A page is nowhere, mapped and not yet used, or in RAM: none was ever evicted, so that
\* nothing has been written to swap, and nothing comes from there.
NeverOut ==
    /\ \A p \in Proc : \A g \in Page :
         \/ pte[p][g] = NoPte
         \/ /\ g \in MappedPages
            /\ pte[p][g] = Pattern \/ Present(pte[p][g])
    /\ swp = [s \in SwapFrame |-> Blank]
    /\ \A p \in Proc :
         /\ acc[p].at # "swap"
         /\ Loading(p) => acc[p].from = PAGING_SWP(Pattern)
         /\ acc[p].at = "put" => ram[acc[p].to] = Blank

\* If a mapped page is not yet in RAM, there is a frame for it.
LEMMA RoomLeft ==
  ASSUME RoomForAll, FrameTypeOK, Partition, NeverOut, \A q \in Proc : ~Loading(q),
         NEW p \in Proc, NEW g \in MappedPages, pte[p][g] = Pattern
  PROVE  mram # <<>>
<1> SUFFICES ASSUME mram = <<>>  PROVE FALSE
  OBVIOUS
<1> DEFINE all == Proc \X MappedPages
           rest == all \ {<<p, g>>}
           holds(f, u) == u[2] \in Hold(u[1]) /\ Frame(u[1], u[2]) = f
           page == [f \in RamFrame |-> CHOOSE u \in rest : holds(f, u)]
<1>1. IsFiniteSet(all) /\ <<p, g>> \in all
  <2>1. IsFiniteSet(MappedPages)
    BY SomePages DEF MappedPages
  <2> QED  BY <2>1, FS_Product DEF RoomForAll
<1>2. IsFiniteSet(rest) /\ Cardinality(rest) = Cardinality(all) - 1
      /\ Cardinality(all) \in Nat
  <2> HIDE DEF all
  <2> QED  BY <1>1, FS_RemoveElement, FS_CardinalityType
<1>3. IsFiniteSet(RamFrame) /\ Cardinality(RamFrame) = RAM_FRAMES
  BY DeviceAssumption, FS_Interval DEF RamFrame
<1>4. Cardinality(rest) < Cardinality(RamFrame)
  BY <1>2, <1>3, DeviceAssumption DEF RoomForAll
<1>5. \A f \in RamFrame : \E u \in rest : holds(f, u)
  <2> TAKE f \in RamFrame
  <2>1. f \notin Range(mram)
    BY DEF Range
  <2>2. PICK q \in Proc : \E h \in Hold(q) : Frame(q, h) = f
    BY <2>1 DEF Partition
  <2>3. PICK h \in Hold(q) : Frame(q, h) = f
    BY <2>2
  <2>4. h \in Page /\ h \in InRam(q)
    BY HoldParts DEF Keeps
  <2>5. h \in MappedPages /\ pte[q][h] # Pattern
    BY <2>4 DEF NeverOut, InRam, Present, NoPte, Pattern
  <2>6. <<q, h>> \in rest
    BY <2>5
  <2> QED  BY <2>3, <2>6
<1>6. page \in [RamFrame -> rest] /\ \A f \in RamFrame : holds(f, page[f])
  <2> HIDE DEF rest, holds
  <2> QED  BY <1>5
<1>7. \A u \in rest : u[1] \in Proc /\ u = <<u[1], u[2]>>
  OBVIOUS
<1> HIDE DEF page, rest
<1>8. PICK f, e \in RamFrame : f # e /\ page[f] = page[e]
  BY <1>2, <1>3, <1>4, <1>6, FS_PigeonHole
<1> QED  BY <1>6, <1>8

\* So no page is ever evicted: an access to a page that is not in RAM finds a frame.
LEMMA NoEviction ==
  ASSUME RoomForAll, FrameTypeOK, Alone, Partition, NeverOut, NEW p \in Proc
  PROVE  /\ ~NeedsVictim(p) /\ ~AccessAt(p, {"swap"})
         /\ Pgn(p) \in Page
         /\ Entry(p).swapped => Pgn(p) \in MappedPages /\ Entry(p) = Pattern
<1>1. Pgn(p) \in Page
  BY EntryParts
<1>2. Entry(p).swapped => Pgn(p) \in MappedPages /\ Entry(p) = Pattern
  BY <1>1 DEF NeverOut, Entry, NoPte, Present
<1>3. ASSUME NeedsVictim(p)  PROVE FALSE
  <2>1. acc[p] # Idle /\ acc[p].at = "page" /\ mram = <<>> /\ Entry(p).swapped
    BY <1>3 DEF NeedsVictim, AccessAt, Alone
  <2>2. \A q \in Proc : ~Loading(q)
    BY <2>1 DEF Alone, Loading, Idle, InAccess
  <2> QED  BY <1>2, <2>1, <2>2, RoomLeft DEF Entry
<1>4. ~AccessAt(p, {"swap"})
  BY DEF NeverOut, AccessAt
<1> QED  BY <1>1, <1>2, <1>3, <1>4

\* What can happen to pages then.
LEMMA PagesStep ==
  ASSUME MapsOnly, RoomForAll, FrameTypeOK, Alone, Partition, NeverOut, [Next]_vars
  PROVE  \/ UNCHANGED <<pte, ram, swp, acc, ended>>
         \/ \E p \in Proc :
              \/ \E range \in Ranges : MapOp(p, range)
              \/ \E op \in Ops, rg \in RgId, off \in Offsets : Begin(p, op, rg, off)
              \/ AccessAbsent(p) \/ AccessPresent(p)
              \/ AccessFrame(p) \/ AccessLoad(p) \/ AccessPut(p)
              \/ End(p)
<1>1. UNCHANGED vars => UNCHANGED <<pte, ram, swp, acc, ended>>
  BY DEF vars, frameVars, procVars
<1>2. ASSUME NEW p \in Proc, Access(p)
      PROVE  \/ UNCHANGED <<pte, ram, swp, acc, ended>>
             \/ AccessAbsent(p) \/ AccessPresent(p)
             \/ AccessFrame(p) \/ AccessLoad(p) \/ AccessPut(p)
  <2>1. ~(AccessNoVictim(p) \/ AccessVictim(p) \/ AccessNoSwap(p) \/ AccessEvict(p))
    BY NoEviction DEF AccessNoVictim, AccessVictim, AccessNoSwap, AccessEvict
  <2>2. AccessCrash(p) => UNCHANGED <<pte, ram, swp, acc, ended>>
    BY DEF AccessCrash, Crash, frameVars, procVars
  <2> QED  BY <1>2, <2>1, <2>2 DEF Access, AccessReturns, AccessGoesOn
<1>3. ASSUME NEW p \in Proc,
             \/ \E rg \in RgId, size \in Sizes : AllocFree(p, rg, size) \/ AllocGrow(p, rg, size)
             \/ \E size \in Sizes : AllocCrash(p, size) \/ IncOp(p, size)
             \/ \E rg \in RgId : Free(p, rg)
             \/ \E f \in RamFrame : IoWrite(p, f) \/ \E s \in SwapFrame : SwpOp(p, f, s)
             \/ CallCrash(p) \/ PutBack(p)
      PROVE  UNCHANGED <<pte, ram, swp, acc, ended>>
  BY <1>3 DEF MapsOnly, AllocFree, AllocGrow, AllocCrash, IncOp, Free, IoWrite, SwpOp,
     CallCrash, PutBack, Crash, frameVars, procVars
<1> QED  BY <1>1, <1>2, <1>3 DEF Next

\* A load fills the frame of the page with what no one has written.
LEMMA LoadsPage ==
  ASSUME FrameTypeOK, Alone, Partition, NeverOut, NEW p \in Proc, AccessLoad(p)
  PROVE  /\ UNCHANGED <<pte, swp, ended>>
         /\ acc[p].to \in RamFrame
         /\ ram' = [ram EXCEPT ![acc[p].to] = Blank]
         /\ acc'[p].at = "put" /\ acc'[p].from = acc[p].from /\ acc'[p].to = acc[p].to
         /\ \A q \in Proc \ ended : \A h \in InRam(q) : Frame(q, h) # acc[p].to
<1>1. /\ UNCHANGED <<pte, swp, ended>> /\ acc[p].from \in SwapFrame /\ Loading(p)
      /\ ram' = [ram EXCEPT ![acc[p].to] = swp[acc[p].from]]
      /\ acc'[p].at = "put" /\ acc'[p].from = acc[p].from /\ acc'[p].to = acc[p].to
  BY DEF AccessLoad, AccessAt, GoesOn, InAccess, CopyPage, Loading, procVars, FrameTypeOK
<1>2. swp[acc[p].from] = Blank
  BY <1>1 DEF NeverOut
<1>3. acc[p].to \in RamFrame
  BY EntryParts
<1>4. Moving \in Hold(p) /\ Frame(p, Moving) = acc[p].to
  BY <1>1, HoldParts
<1>5. \A q \in Proc \ ended : \A h \in InRam(q) : h \in Hold(q) /\ h # Moving
  BY HoldParts, MovingIsNoPage DEF Keeps, InRam
<1> QED  BY <1>1, <1>2, <1>3, <1>4, <1>5 DEF Partition

\* And a page that was mapped gets it.
LEMMA PutsPage ==
  ASSUME RoomForAll, RAM_FRAMES <= FPN_SPAN,
         FrameTypeOK, Waiting, Alone, Partition, NeverOut, NEW p \in Proc, AccessPut(p)
  PROVE  /\ UNCHANGED <<ram, swp, ended>>
         /\ p \notin ended /\ Pgn(p) \in MappedPages /\ pte[p][Pgn(p)] = Pattern
         /\ ram[acc[p].to] = Blank /\ acc'[p].at = "io"
         /\ LET e == WithFpn(Pattern, acc[p].to) IN
            /\ pte' = [pte EXCEPT ![p][Pgn(p)] = e]
            /\ Present(e) /\ PAGING_FPN(e) = acc[p].to
<1>1. /\ UNCHANGED <<ram, swp, ended>> /\ p \notin ended /\ acc[p].at = "put"
      /\ acc'[p].at = "io" /\ pte' = [pte EXCEPT ![p][Pgn(p)] = WithFpn(@, acc[p].to)]
  BY DEF AccessPut, AccessAt, GoesOn, InAccess, Alone, procVars, FrameTypeOK
<1>2. Entry(p) = Pattern /\ Pgn(p) \in MappedPages /\ Entry(p) = pte[p][Pgn(p)]
      /\ Pgn(p) \in Page /\ ram[acc[p].to] = Blank
  BY <1>1, NoEviction DEF Waiting, Entry, NeverOut
<1>3. Pattern \in PTE
  BY FitAssumption DEF Pattern, PTE
<1>4. acc[p].to \in Nat /\ acc[p].to % FPN_SPAN = acc[p].to
  <2>1. acc[p].to \in RamFrame
    BY EntryParts
  <2> QED  BY <2>1, SpanFacts, DeviceAssumption DEF RamFrame
<1>5. Present(WithFpn(Pattern, acc[p].to)) /\ PAGING_FPN(WithFpn(Pattern, acc[p].to)) = acc[p].to
  <2> DEFINE f == acc[p].to
  <2>1. f \in Nat /\ f % FPN_SPAN = f
    BY <1>4
  <2> HIDE DEF f
  <2>2. PAGING_FPN(WithFpn(Pattern, f)) = f
    BY <1>3, <2>1, PteFpn
  <2> QED  BY <2>2 DEF WithFpn, Present, f
<1>6. pte' = [pte EXCEPT ![p][Pgn(p)] = WithFpn(Pattern, acc[p].to)]
  BY <1>1, <1>2 DEF FrameTypeOK
<1> QED  BY <1>1, <1>2, <1>5, <1>6

\* No step evicts a page.
LEMMA NeverOutStep ==
  ASSUME MapsOnly, RoomForAll, RAM_FRAMES <= FPN_SPAN,
         FrameTypeOK, Waiting, Alone, Partition, NeverOut, [Next]_vars
  PROVE  NeverOut'
<1> DEFINE Kind(e, g) == e = NoPte \/ (g \in MappedPages /\ (e = Pattern \/ Present(e)))
           Way(p) == /\ acc[p].at # "swap"
                     /\ Loading(p) => acc[p].from = PAGING_SWP(Pattern)
                     /\ acc[p].at = "put" => ram[acc[p].to] = Blank
<1>1. /\ \A p \in Proc : \A g \in Page : Kind(pte[p][g], g)
      /\ \A p \in Proc : Way(p)
      /\ swp = [s \in SwapFrame |-> Blank]
  BY DEF NeverOut
<1>2. CASE UNCHANGED <<pte, ram, swp, acc>>
  BY <1>2 DEF NeverOut, Loading
<1>3. ASSUME NEW p \in Proc, NEW range \in Ranges, MapOp(p, range)
      PROVE  NeverOut'
  <2> DEFINE new == {(range[1] + k) % PAGING_MAX_PGN : k \in 0 .. range[2] - 1}
  <2>1. /\ UNCHANGED <<ram, swp, acc>>
        /\ pte' = [pte EXCEPT ![p] = [g \in Page |-> IF g \in new THEN Pattern ELSE pte[p][g]]]
    BY <1>3 DEF MapOp, FrameTypeOK
  <2>2. \A g \in Page : g \in new => g \in MappedPages
    BY DEF MappedPages
  <2> HIDE DEF new
  <2>3. \A q \in Proc : \A g \in Page :
          pte'[q][g] = IF q = p /\ g \in new THEN Pattern ELSE pte[q][g]
    BY <2>1 DEF FrameTypeOK
  <2>4. \A q \in Proc : \A g \in Page : Kind(pte'[q][g], g)
    BY <1>1, <2>2, <2>3
  <2>5. \A q \in Proc : Way(q)'
    BY <1>1, <2>1 DEF Loading
  <2> QED  BY <1>1, <2>1, <2>4, <2>5 DEF NeverOut
\* In an access, p is the only one.
<1>4. ASSUME NEW p \in Proc, acc[p] # Idle, Way(p)', UNCHANGED swp,
             \A q \in Proc : q # p => acc'[q] = acc[q],
             \A q \in Proc : \A g \in Page : Kind(pte'[q][g], g)
      PROVE  NeverOut'
  <2>1. \A q \in Proc : q # p => acc'[q] = Idle
    BY <1>4 DEF Alone
  <2>2. Idle.at = "page"
    BY DEF Idle, InAccess
  <2>3. \A q \in Proc : Way(q)'
    BY <1>4, <2>1, <2>2 DEF Loading
  <2> QED  BY <1>1, <1>4, <2>3 DEF NeverOut
<1>5. ASSUME NEW p \in Proc, AccessPut(p)
      PROVE  NeverOut'
  <2>1. PICK e : /\ Present(e) /\ pte' = [pte EXCEPT ![p][Pgn(p)] = e]
                 /\ UNCHANGED swp /\ Pgn(p) \in MappedPages /\ acc'[p].at = "io"
    BY <1>5, PutsPage
  <2>2. \A q \in Proc : \A g \in Page :
          pte'[q][g] = IF q = p /\ g = Pgn(p) THEN e ELSE pte[q][g]
    BY <2>1 DEF FrameTypeOK
  <2>3. \A q \in Proc : \A g \in Page : Kind(pte'[q][g], g)
    BY <1>1, <2>1, <2>2
  <2>4. acc[p] # Idle /\ \A q \in Proc : q # p => acc'[q] = acc[q]
    BY <1>5 DEF AccessPut, AccessAt, GoesOn, FrameTypeOK
  <2>5. Way(p)'
    BY <2>1 DEF Loading
  <2> QED  BY <1>4, <2>1, <2>3, <2>4, <2>5
<1>6. ASSUME NEW p \in Proc, AccessLoad(p)
      PROVE  NeverOut'
  <2>1. /\ UNCHANGED <<pte, swp>> /\ acc[p].to \in RamFrame
        /\ ram' = [ram EXCEPT ![acc[p].to] = Blank]
        /\ acc'[p].at = "put" /\ acc'[p].from = acc[p].from /\ acc'[p].to = acc[p].to
    BY <1>6, LoadsPage
  <2>2. Loading(p) /\ acc[p] # Idle /\ \A q \in Proc : q # p => acc'[q] = acc[q]
    BY <1>6 DEF AccessLoad, AccessAt, Loading, GoesOn, FrameTypeOK
  <2>3. Way(p)'
    BY <1>1, <2>1, <2>2 DEF FrameTypeOK
  <2>4. \A q \in Proc : \A g \in Page : Kind(pte'[q][g], g)
    BY <1>1, <2>1
  <2> QED  BY <1>4, <2>1, <2>2, <2>3, <2>4
<1>7. ASSUME NEW p \in Proc, AccessFrame(p)
      PROVE  NeverOut'
  <2>1. /\ UNCHANGED <<pte, swp>> /\ acc[p] # Idle /\ Entry(p).swapped
        /\ acc'[p].at = "load" /\ acc'[p].from = PAGING_SWP(Entry(p))
        /\ \A q \in Proc : q # p => acc'[q] = acc[q]
    BY <1>7 DEF AccessFrame, AccessAt, GoesOn, InAccess, FrameTypeOK
  <2>2. Way(p)'
    BY <2>1, NoEviction
  <2>3. \A q \in Proc : \A g \in Page : Kind(pte'[q][g], g)
    BY <1>1, <2>1
  <2> QED  BY <1>4, <2>1, <2>2, <2>3
<1>8. ASSUME NEW p \in Proc, AccessAbsent(p) \/ AccessPresent(p)
      PROVE  NeverOut'
  <2>1. /\ UNCHANGED <<pte, swp>> /\ acc[p] # Idle /\ acc'[p] = Idle
        /\ \A q \in Proc : q # p => acc'[q] = acc[q]
    BY <1>8 DEF AccessAbsent, AccessPresent, AccessAt, Done, frameVars, FrameTypeOK
  <2>2. Way(p)'
    BY <2>1 DEF Loading, Idle, InAccess
  <2>3. \A q \in Proc : \A g \in Page : Kind(pte'[q][g], g)
    BY <1>1, <2>1
  <2> QED  BY <1>4, <2>1, <2>2, <2>3
<1>9. ASSUME NEW p \in Proc, NEW op \in Ops, NEW rg \in RgId, NEW off \in Offsets,
             Begin(p, op, rg, off)
      PROVE  NeverOut'
  <2>1. /\ UNCHANGED <<pte, ram, swp>> /\ acc'[p].at = "page"
        /\ \A q \in Proc : q # p => acc'[q] = acc[q]
    BY <1>9 DEF Begin, InAccess, frameVars, FrameTypeOK
  <2>2. \A q \in Proc : Way(q)'
    BY <1>1, <2>1 DEF Loading
  <2> QED  BY <1>1, <2>1, <2>2 DEF NeverOut
<1>10. ASSUME NEW p \in Proc, End(p)
       PROVE  UNCHANGED <<pte, ram, swp, acc>>
  BY <1>10 DEF End
<1> QED  BY <1>2, <1>3, <1>5, <1>6, <1>7, <1>8, <1>9, <1>10, PagesStep

\* What Memory says a process sees in its page g.
SeenAt(p, g) ==
    IF p \in ended \/ Absent(pte[p][g]) THEN Unmapped ELSE Contents(pte[p][g])

\* The memory that Memory says the processes see.
Seen ==
    [p \in Proc |-> [g \in Page |->
        IF p \in ended \/ Absent(pte[p][g]) THEN Unmapped ELSE Contents(pte[p][g])]]

\* Here that is nothing, the untouched swap, or what its frame of RAM holds.
SeenOK ==
    \A p \in Proc : \A g \in Page :
        /\ p \in ended \/ pte[p][g] = NoPte => SeenAt(p, g) = Unmapped
        /\ p \notin ended /\ pte[p][g] = Pattern => SeenAt(p, g) = Blank
        /\ p \notin ended /\ Present(pte[p][g]) => SeenAt(p, g) = ram[Frame(p, g)]
        /\ pte[p][g] = NoPte \/ pte[p][g] = Pattern \/ Present(pte[p][g])
        /\ SeenAt(p, g) \in Stored \cup {Unmapped}

\* While no page has been evicted, every page of every process is of one of these kinds.
LEMMA SeenKinds ==
  ASSUME PAGING_SWP(Pattern) \in SwapFrame, FrameTypeOK, NeverOut
  PROVE  SeenOK
<1> SUFFICES ASSUME NEW p \in Proc, NEW g \in Page
             PROVE  /\ p \in ended \/ pte[p][g] = NoPte => SeenAt(p, g) = Unmapped
                    /\ p \notin ended /\ pte[p][g] = Pattern => SeenAt(p, g) = Blank
                    /\ p \notin ended /\ Present(pte[p][g]) => SeenAt(p, g) = ram[Frame(p, g)]
                    /\ pte[p][g] = NoPte \/ pte[p][g] = Pattern \/ Present(pte[p][g])
                    /\ SeenAt(p, g) \in Stored \cup {Unmapped}
  BY DEF SeenOK
<1>1. Absent(NoPte) /\ ~Absent(Pattern) /\ ~Present(NoPte) /\ Pattern.swapped
  BY DEF Absent, Present, NoPte, Pattern
<1>2. p \in ended \/ pte[p][g] = NoPte => SeenAt(p, g) = Unmapped
  BY <1>1 DEF SeenAt
<1>3. p \notin ended /\ pte[p][g] = Pattern => SeenAt(p, g) = Blank
  BY <1>1 DEF SeenAt, Contents, NeverOut
<1>4. p \notin ended /\ Present(pte[p][g]) =>
        SeenAt(p, g) = ram[Frame(p, g)] /\ ram[Frame(p, g)] \in Stored
  <2>1. pte[p][g] \in Entries /\ ram \in [RamFrame -> Stored]
    BY DEF FrameTypeOK
  <2> QED  BY <2>1, MovingIsNoPage DEF SeenAt, Contents, Frame, Absent, Present, Entries
<1>5. Blank \in Stored
  BY DEF Stored
<1>6. pte[p][g] = NoPte \/ pte[p][g] = Pattern \/ Present(pte[p][g])
  BY DEF NeverOut
<1> QED  BY <1>2, <1>3, <1>4, <1>5, <1>6

\* A step after which each page of each process is as it was, is none of VirtualMemory.
LEMMA SeenSame ==
  ASSUME \A p \in Proc : \A g \in Page : SeenAt(p, g)' = SeenAt(p, g)
  PROVE  [VM!Next]_Seen
<1>1. Seen' = Seen
  BY DEF Seen, SeenAt
<1> QED  BY <1>1

\* One that gives a process pages, and leaves those that there are, is a Map.
LEMMA SeenMap ==
  ASSUME NEW p \in Proc,
         \A q \in Proc : \A g \in Page :
            /\ q # p \/ SeenAt(q, g) # Unmapped => SeenAt(q, g)' = SeenAt(q, g)
            /\ SeenAt(q, g)' \in Stored \cup {Unmapped}
  PROVE  [VM!Next]_Seen
<1>1. /\ Seen' = [Seen EXCEPT ![p] = Seen'[p]]
      /\ Seen'[p] \in [Page -> Stored \cup {Unmapped}]
      /\ \A g \in Page : Seen[p][g] # Unmapped => Seen'[p][g] = Seen[p][g]
  <2>1. /\ Seen = [q \in Proc |-> [g \in Page |-> SeenAt(q, g)]]
        /\ Seen' = [q \in Proc |-> [g \in Page |-> SeenAt(q, g)']]
    BY DEF Seen, SeenAt
  <2> QED  BY <2>1
<1> QED  BY <1>1 DEF VM!Next, VM!Map, Seen, Stored

\* One that takes all its pages is a Release.
LEMMA SeenRelease ==
  ASSUME NEW p \in Proc,
         \A q \in Proc : \A g \in Page :
            SeenAt(q, g)' = IF q = p THEN Unmapped ELSE SeenAt(q, g)
  PROVE  [VM!Next]_Seen
<1>1. Seen' = [Seen EXCEPT ![p] = [g \in Page |-> Unmapped]]
  <2>1. /\ Seen = [q \in Proc |-> [g \in Page |-> SeenAt(q, g)]]
        /\ Seen' = [q \in Proc |-> [g \in Page |-> SeenAt(q, g)']]
    BY DEF Seen, SeenAt
  <2> QED  BY <2>1
<1> QED  BY <1>1 DEF VM!Next, VM!Release, Seen

\* One that changes a page that is there to what its process writes is a Write.
LEMMA SeenWrite ==
  ASSUME NEW p \in Proc, NEW g \in Page, SeenAt(p, g) # Unmapped,
         \A q \in Proc : \A h \in Page :
            SeenAt(q, h)' = IF q = p /\ h = g THEN <<p, g>> ELSE SeenAt(q, h)
  PROVE  [VM!Next]_Seen
<1>1. Seen[p][g] # Unmapped /\ Seen' = [Seen EXCEPT ![p][g] = <<p, g>>]
  <2>1. /\ Seen = [q \in Proc |-> [h \in Page |-> SeenAt(q, h)]]
        /\ Seen' = [q \in Proc |-> [h \in Page |-> SeenAt(q, h)']]
    BY DEF Seen, SeenAt
  <2>2. Seen[p][g] # Unmapped
    BY <2>1
  <2>3. ASSUME NEW q \in Proc
        PROVE  Seen'[q] = [Seen EXCEPT ![p][g] = <<p, g>>][q]
    <3>1. CASE q = p
      <4>1. Seen'[p] = [h \in Page |-> IF h = g THEN <<p, g>> ELSE SeenAt(p, h)]
        BY <2>1
      <4>2. Seen[p] = [h \in Page |-> SeenAt(p, h)]
        BY <2>1
      <4>3. [Seen EXCEPT ![p][g] = <<p, g>>][p] = [Seen[p] EXCEPT ![g] = <<p, g>>]
        BY <2>1
      <4> QED  BY <3>1, <4>1, <4>2, <4>3
    <3>2. CASE q # p
      BY <2>1, <3>2
    <3> QED  BY <3>1, <3>2
  <2> QED  BY <2>1, <2>2, <2>3
<1> QED  BY <1>1 DEF VM!Next, VM!Write, Seen, Written

\* A page does not notice that another is stored in a frame that it does not have.
LEMMA OthersSee ==
  ASSUME SeenOK, SeenOK', NEW q \in Proc, NEW h \in Page, NEW f \in RamFrame,
         FrameTypeOK, pte'[q][h] = pte[q][h],
         q \notin ended /\ h \in InRam(q) => Frame(q, h) # f,
         \A e \in RamFrame : e # f => ram'[e] = ram[e],
         UNCHANGED ended
  PROVE  SeenAt(q, h)' = SeenAt(q, h)
<1>1. h # Moving
  BY MovingIsNoPage
<1>2. CASE q \in ended \/ pte[q][h] = NoPte
  BY <1>2 DEF SeenOK
<1>3. CASE q \notin ended /\ pte[q][h] = Pattern
  BY <1>3 DEF SeenOK
<1>4. CASE q \notin ended /\ Present(pte[q][h])
  <2>1. h \in InRam(q) /\ Frame(q, h) \in RamFrame
    BY <1>1, <1>4 DEF InRam, Frame, FrameTypeOK, Entries
  <2>2. ram'[Frame(q, h)] = ram[Frame(q, h)] /\ Frame(q, h)' = Frame(q, h)
    BY <1>1, <1>4, <2>1 DEF Frame
  <2>3. SeenAt(q, h) = ram[Frame(q, h)]
    BY <1>4 DEF SeenOK
  <2>4. SeenAt(q, h)' = ram'[Frame(q, h)']
    BY <1>4 DEF SeenOK
  <2> QED  BY <2>2, <2>3, <2>4
<1> QED  BY <1>2, <1>3, <1>4 DEF SeenOK

\* Every step is one of VirtualMemory's.
LEMMA MappedSeenStep ==
  ASSUME MapsOnly, RoomForAll, RAM_FRAMES <= FPN_SPAN,
         FrameTypeOK, Waiting, Alone, Partition, NeverOut, SeenOK, SeenOK', [Next]_vars
  PROVE  [VM!Next]_Seen
<1>1. CASE UNCHANGED <<pte, ram, swp, ended>>
  <2>1. \A p \in Proc : \A g \in Page : SeenAt(p, g)' = SeenAt(p, g)
    BY <1>1 DEF SeenAt, Contents
  <2> QED  BY <2>1, SeenSame
<1>2. ASSUME NEW p \in Proc, NEW range \in Ranges, MapOp(p, range)
      PROVE  [VM!Next]_Seen
  <2> DEFINE new == {(range[1] + k) % PAGING_MAX_PGN : k \in 0 .. range[2] - 1}
  <2>1. /\ UNCHANGED <<ram, swp, ended>> /\ \A g \in new : pte[p][g] = NoPte
        /\ pte' = [pte EXCEPT ![p] = [g \in Page |-> IF g \in new THEN Pattern ELSE pte[p][g]]]
    BY <1>2 DEF MapOp, MapsOnly, FrameTypeOK, procVars
  <2> HIDE DEF new
  <2>2. \A q \in Proc : \A g \in Page :
          pte'[q][g] = IF q = p /\ g \in new THEN Pattern ELSE pte[q][g]
    BY <2>1 DEF FrameTypeOK
  <2>3. \A q \in Proc : \A g \in Page :
          /\ q # p \/ SeenAt(q, g) # Unmapped => SeenAt(q, g)' = SeenAt(q, g)
          /\ SeenAt(q, g)' \in Stored \cup {Unmapped}
    <3> TAKE q \in Proc
    <3> TAKE g \in Page
    <3>1. pte'[q][g] = pte[q][g] => SeenAt(q, g)' = SeenAt(q, g)
      BY <2>1 DEF SeenAt, Contents
    <3>2. q # p \/ SeenAt(q, g) # Unmapped => pte'[q][g] = pte[q][g]
      BY <2>1, <2>2 DEF SeenOK
    <3> QED  BY <3>1, <3>2 DEF SeenOK
  <2> QED  BY <2>3, SeenMap
<1>3. ASSUME NEW p \in Proc, End(p)
      PROVE  [VM!Next]_Seen
  <2>1. UNCHANGED <<pte, ram, swp>> /\ ended' = ended \cup {p}
    BY <1>3 DEF End
  <2>2. \A q \in Proc : \A g \in Page :
          SeenAt(q, g)' = IF q = p THEN Unmapped ELSE SeenAt(q, g)
    BY <2>1 DEF SeenAt, Contents
  <2> QED  BY <2>2, SeenRelease
<1>4. ASSUME NEW p \in Proc, AccessPresent(p)
      PROVE  [VM!Next]_Seen
  <2>0. PICK g \in Page : g = Pgn(p)
    BY EntryParts
  <2> DEFINE f == PAGING_FPN(pte[p][g])
  <2>1. /\ UNCHANGED <<pte, swp, ended>> /\ p \notin ended /\ Present(pte[p][g])
        /\ ram' = IF Stores(p) THEN [ram EXCEPT ![f] = <<p, g>>] ELSE ram
    BY <1>4, <2>0 DEF AccessPresent, AccessAt, Alone, Done, Entry, procVars
  <2>2. CASE ~Stores(p)
    BY <1>1, <2>1, <2>2
  <2>3. CASE Stores(p)
    <3>1. g \in Hold(p) /\ Frame(p, g) = f /\ f \in RamFrame
      <4>1. g \in InRam(p) /\ f \in RamFrame
        BY <2>1 DEF InRam, FrameTypeOK, Entries
      <4> QED  BY <2>1, <4>1, HoldParts
    <3>2. \A q \in Proc : \A h \in Page : q # p \/ h # g =>
            (q \notin ended /\ h \in InRam(q) => Frame(q, h) # f)
      BY <3>1, HoldParts DEF Partition
    <3>3. ram \in [RamFrame -> Stored] /\ ram' = [ram EXCEPT ![f] = <<p, g>>]
      BY <2>1, <2>3 DEF FrameTypeOK
    <3>4. SeenAt(p, g) # Unmapped
      <4>1. Unmapped \notin Stored
        BY NoProcAssumption DEF Unmapped, Stored, Blank
      <4> QED  BY <2>1, <3>1, <3>3, <4>1 DEF SeenOK
    <3>5. SeenAt(p, g)' = <<p, g>>
      <4>1. Frame(p, g)' = f /\ ram'[f] = <<p, g>>
        BY <2>1, <3>1, <3>3, HoldParts, MovingIsNoPage DEF Frame
      <4>2. SeenAt(p, g)' = ram'[Frame(p, g)']
        BY <2>1 DEF SeenOK
      <4> QED  BY <4>1, <4>2
    <3>6. \A e \in RamFrame : e # f => ram'[e] = ram[e]
      BY <3>3
    <3> HIDE DEF f
    <3>7. \A q \in Proc : \A h \in Page : q # p \/ h # g => SeenAt(q, h)' = SeenAt(q, h)
      BY <2>1, <3>1, <3>2, <3>6, OthersSee
    <3> QED  BY <3>4, <3>5, <3>7, SeenWrite
  <2> QED  BY <2>2, <2>3
<1>5. ASSUME NEW p \in Proc, AccessLoad(p)
      PROVE  [VM!Next]_Seen
  <2> DEFINE f == acc[p].to
  <2>1. /\ UNCHANGED <<pte, swp, ended>> /\ f \in RamFrame
        /\ ram' = [ram EXCEPT ![f] = Blank]
        /\ \A q \in Proc \ ended : \A h \in InRam(q) : Frame(q, h) # f
    BY <1>5, LoadsPage
  <2> HIDE DEF f
  <2>2. \A e \in RamFrame : e # f => ram'[e] = ram[e]
    BY <2>1 DEF FrameTypeOK
  <2>3. \A q \in Proc : \A h \in Page : SeenAt(q, h)' = SeenAt(q, h)
    BY <2>1, <2>2, OthersSee
  <2> QED  BY <2>3, SeenSame
<1>6. ASSUME NEW p \in Proc, AccessPut(p)
      PROVE  [VM!Next]_Seen
  <2>0. PICK g \in Page : g = Pgn(p)
    BY EntryParts
  <2> DEFINE e == WithFpn(Pattern, acc[p].to)
  <2>1. /\ UNCHANGED <<ram, swp, ended>> /\ p \notin ended /\ pte[p][g] = Pattern
        /\ pte' = [pte EXCEPT ![p][g] = e]
        /\ Present(e) /\ ram[PAGING_FPN(e)] = Blank
    BY <1>6, <2>0, PutsPage
  <2> HIDE DEF e
  <2>2. \A q \in Proc : \A h \in Page : pte'[q][h] = IF q = p /\ h = g THEN e ELSE pte[q][h]
    BY <2>1 DEF FrameTypeOK
  <2>3. SeenAt(p, g) = Blank
    BY <2>1 DEF SeenOK
  <2>4. SeenAt(p, g)' = Blank
    <3>1. pte'[p][g] = e /\ p \notin ended'
      BY <2>1, <2>2
    <3>2. SeenAt(p, g)' = ram'[Frame(p, g)'] /\ Frame(p, g)' = PAGING_FPN(e)
      BY <2>1, <3>1, MovingIsNoPage DEF SeenOK, Frame
    <3> QED  BY <2>1, <3>2
  <2>5. \A q \in Proc : \A h \in Page : q # p \/ h # g => SeenAt(q, h)' = SeenAt(q, h)
    BY <2>1, <2>2 DEF SeenAt, Contents
  <2>6. \A q \in Proc : \A h \in Page : SeenAt(q, h)' = SeenAt(q, h)
    BY <2>3, <2>4, <2>5
  <2> QED  BY <2>6, SeenSame
<1>7. ASSUME NEW p \in Proc,
             \/ \E op \in Ops, rg \in RgId, off \in Offsets : Begin(p, op, rg, off)
             \/ AccessAbsent(p) \/ AccessFrame(p)
      PROVE  UNCHANGED <<pte, ram, swp, ended>>
  BY <1>7 DEF Begin, AccessAbsent, AccessFrame, GoesOn, Done, frameVars, procVars
<1> QED  BY <1>1, <1>2, <1>3, <1>4, <1>5, <1>6, <1>7, PagesStep

\* Programs that only map pages and write to them, under mmvm_lock, each see a memory of
\* their own, whatever the others do and however their accesses are interleaved, as long
\* as RAM has a frame for every page they map.
THEOREM ImplementsVMMapped ==
  ASSUME Serial, MapsOnly, RoomForAll, RAM_FRAMES <= FPN_SPAN,
         PAGING_SWP(Pattern) \in SwapFrame
  PROVE  Spec => ImplementsVM
<1> DEFINE Inv == /\ RegionTypeOK /\ FrameTypeOK /\ Waiting /\ Alone
                  /\ Partition /\ VictimsInRam /\ NeverOut
<1>1. Init => Inv
  <2>1. Init => NeverOut
    BY DEF Init, NeverOut, Loading, Idle, InAccess
  <2> QED  BY <2>1, InitTypes, InitAlone, InitFrames
<1>2. Inv /\ [Next]_vars => Inv'
  <2> SUFFICES ASSUME Inv, [Next]_vars  PROVE Inv'
    OBVIOUS
  <2>1. GrowsFresh /\ ~REMAP
    BY DEF GrowsFresh, MapsOnly
  <2>2. RegionTypeOK' /\ FrameTypeOK' /\ Waiting' /\ Alone'
    BY CoverStep, FrameTypeStep, WaitingStep, AloneStep
  <2>3. Partition' /\ VictimsInRam'
    BY <2>1, FramesStep, VictimsStep
  <2> QED  BY <2>2, <2>3, NeverOutStep
<1>3. Inv => SeenOK
  BY SeenKinds
<1>4. Init => VM!Init
  <2> SUFFICES ASSUME Init  PROVE VM!Init
    OBVIOUS
  <2>1. \A p \in Proc : \A g \in Page : pte[p][g] = NoPte
    BY DEF Init
  <2>2. Seen = [p \in Proc |-> [g \in Page |-> Unmapped]]
    BY <2>1 DEF Seen, Absent, NoPte
  <2> QED  BY <2>2 DEF VM!Init, Seen
<1>5. Inv /\ SeenOK /\ SeenOK' /\ [Next]_vars => [VM!Next]_Seen
  BY MappedSeenStep
<1>6. Spec => VM!Init /\ [][VM!Next]_Seen
  <2> HIDE DEF Inv
  <2> QED  BY <1>1, <1>2, <1>3, <1>4, <1>5, PTL DEF Spec
<1> QED  BY <1>6, PTL DEF ImplementsVM, VM!Spec, Seen
=============================================================================
