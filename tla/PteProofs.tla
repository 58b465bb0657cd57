------------------------------ MODULE PteProofs ------------------------------
(***************************************************************************)
(* Proofs about Pte, for every width of the fields: what the functions of  *)
(* mm.h and mm64.c store in an entry is what they read back.               *)
(***************************************************************************)
EXTENDS Pte, ListProofs

\* The fields that the code stores in an entry are those it reads back.
LEMMA SpanFacts ==
  /\ FPN_SPAN \in Nat \ {0} /\ SWPTYP_SPAN \in Nat \ {0} /\ SWPOFF_SPAN \in Nat \ {0}
  /\ SWPTYP_SPAN * SWPOFF_SPAN \in Nat
  /\ \E m \in Nat : SWPTYP_SPAN * SWPOFF_SPAN = m * FPN_SPAN
<1>1. /\ FPN_SPAN \in Nat \ {0} /\ SWPTYP_SPAN \in Nat \ {0} /\ SWPOFF_SPAN \in Nat \ {0}
  BY SpanAssumption
<1>2. SWPTYP_SPAN * SWPOFF_SPAN \in Nat
  BY <1>1
<1> DEFINE total == SWPTYP_SPAN * SWPOFF_SPAN
<1>3. total % FPN_SPAN = 0
  BY FitAssumption
<1> HIDE DEF total
<1>4. total \in Nat
  BY <1>2 DEF total
<1>5. total = (total \div FPN_SPAN) * FPN_SPAN + 0 /\ total \div FPN_SPAN \in Nat
  BY <1>1, <1>3, <1>4, DigitsOf
<1>6. \A m \in Nat : m * FPN_SPAN + 0 = m * FPN_SPAN
  BY <1>1
<1> QED  BY <1>1, <1>2, <1>5, <1>6 DEF total

\* pte_set_fpn: the entry says RAM, and the frame number that fits.
LEMMA PteFpn ==
  ASSUME NEW e \in PTE, NEW fpn \in Nat
  PROVE  /\ WithFpn(e, fpn) \in PTE
         /\ WithFpn(e, fpn).present /\ ~WithFpn(e, fpn).swapped
         /\ PAGING_FPN(WithFpn(e, fpn)) = fpn % FPN_SPAN
<1> DEFINE d == fpn % FPN_SPAN
           low == e.low - (e.low % FPN_SPAN) + d
<1>1. d \in 0 .. FPN_SPAN - 1
  BY SpanFacts
<1>2. e.low \in Nat /\ e.low < SWPTYP_SPAN * SWPOFF_SPAN
  BY SpanFacts DEF PTE, Low
<1> HIDE DEF d
<1>3. /\ low \in Nat /\ low % FPN_SPAN = d
      /\ \A m \in Nat : e.low < m * FPN_SPAN => low < m * FPN_SPAN
  <2> DEFINE old == e.low
  <2>1. old \in Nat /\ FPN_SPAN \in Nat \ {0}
    BY <1>2, SpanFacts
  <2> HIDE DEF old
  <2>2. /\ old - (old % FPN_SPAN) + d \in Nat
        /\ (old - (old % FPN_SPAN) + d) % FPN_SPAN = d
        /\ \A m \in Nat : old < m * FPN_SPAN => old - (old % FPN_SPAN) + d < m * FPN_SPAN
    BY <1>1, <2>1, DigitReplaced
  <2> QED  BY <2>2 DEF old
<1>4. WithFpn(e, fpn) = [present |-> TRUE, swapped |-> FALSE, low |-> low]
  BY DEF WithFpn, PAGING_FPN, d
<1> HIDE DEF low
<1>5. low \in Low
  <2>1. PICK m \in Nat : SWPTYP_SPAN * SWPOFF_SPAN = m * FPN_SPAN
    BY SpanFacts
  <2>2. low < SWPTYP_SPAN * SWPOFF_SPAN
    BY <1>2, <1>3, <2>1
  <2> DEFINE total == SWPTYP_SPAN * SWPOFF_SPAN
  <2>3. low < total /\ low \in Nat /\ total \in Nat
    BY <1>3, <2>2, SpanFacts
  <2> HIDE DEF total
  <2>4. low \in 0 .. total - 1
    BY <2>3
  <2> QED  BY <2>4 DEF Low, total
<1> QED  BY <1>3, <1>4, <1>5 DEF PTE, PAGING_FPN, d

\* pte_set_swap, with any swap type: the entry says swap, and the offset that fits.
LEMMA PteSwap ==
  ASSUME NEW e, NEW typ \in Nat, NEW swpoff \in Nat
  PROVE  /\ WithSwap(e, typ, swpoff) \in PTE
         /\ WithSwap(e, typ, swpoff).swapped /\ ~WithSwap(e, typ, swpoff).present
         /\ PAGING_SWP(WithSwap(e, typ, swpoff)) = swpoff % SWPOFF_SPAN
<1> DEFINE d == swpoff % SWPOFF_SPAN
           t == typ % SWPTYP_SPAN
           low == d * SWPTYP_SPAN + t
<1>1. d \in 0 .. SWPOFF_SPAN - 1 /\ t \in 0 .. SWPTYP_SPAN - 1
  BY SpanFacts
<1> HIDE DEF d, t
<1>2. low \in 0 .. SWPOFF_SPAN * SWPTYP_SPAN - 1
  BY <1>1, SpanFacts, DigitsFit
<1>3. low \div SWPTYP_SPAN = d
  BY <1>1, SpanFacts, DigitsMade
<1>4. SWPOFF_SPAN * SWPTYP_SPAN = SWPTYP_SPAN * SWPOFF_SPAN
  BY SpanFacts
<1>5. WithSwap(e, typ, swpoff) = [present |-> FALSE, swapped |-> TRUE, low |-> low]
  BY DEF WithSwap, d, t
<1> HIDE DEF low
<1>6. low \in Low
  BY <1>2, <1>4 DEF Low
<1>7. WithSwap(e, typ, swpoff) \in PTE
  <2>1. [present |-> FALSE, swapped |-> TRUE, low |-> low] \in PTE
    BY <1>6 DEF PTE
  <2> QED  BY <1>5, <2>1
<1>8. PAGING_SWP(WithSwap(e, typ, swpoff)) = d
  BY <1>3, <1>5 DEF PAGING_SWP
<1>9. WithSwap(e, typ, swpoff).swapped /\ ~WithSwap(e, typ, swpoff).present
  BY <1>5
<1> QED  BY <1>7, <1>8, <1>9 DEF d
=============================================================================
