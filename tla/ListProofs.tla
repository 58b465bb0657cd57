---------------------------- MODULE ListProofs ----------------------------
(***************************************************************************)
(* Facts about natural numbers and lists that the proofs share.  The lists *)
(* of this code (queues, free regions, free frames, pages in RAM) are cut  *)
(* at any place and grow at the head; what matters of them is which        *)
(* elements they have, and that none is there twice.                       *)
(***************************************************************************)
EXTENDS Naturals, Sequences, SequencesExt, FiniteSets, FiniteSetTheorems,
        SequenceTheorems, FunctionTheorems, WellFoundedInduction, TLAPS

\* A nonempty set of natural numbers has a least element.
LEMMA NatMinimum ==
  ASSUME NEW T \in SUBSET Nat, T # {}
  PROVE  \E x \in T : \A y \in T : x <= y
<1>1. \E x \in T : \A y \in T : <<y, x>> \notin OpToRel(<, Nat)
  BY NatLessThanWellFounded, WFMin
<1>2. \A x, y \in Nat : y < x => <<y, x>> \in OpToRel(<, Nat)
  BY Zenon DEF OpToRel
<1>3. \A x, y \in Nat : ~(y < x) => x <= y
  OBVIOUS
<1> QED  BY <1>1, <1>2, <1>3, Zenon

\* So a nonempty set of numbers below n has a greatest one.
LEMMA MaxFound ==
  ASSUME NEW n \in Nat, NEW T \in SUBSET (0 .. n - 1), T # {}
  PROVE  Max(T) \in T /\ \A y \in T : Max(T) >= y
<1> DEFINE Gaps == {n - x : x \in T}
<1>1. Gaps \in SUBSET Nat /\ Gaps # {}
  <2>1. \A x \in T : x \in Nat /\ n - x \in Nat
    OBVIOUS
  <2> QED  BY <2>1
<1>2. PICK g \in Gaps : \A h \in Gaps : g <= h
  <2> HIDE DEF Gaps
  <2> QED  BY <1>1, NatMinimum
<1>3. PICK x \in T : g = n - x
  BY <1>2
<1>4. ASSUME NEW y \in T  PROVE  x >= y
  <2>1. n - y \in Gaps
    OBVIOUS
  <2>2. n - x <= n - y
    BY <1>2, <1>3, <2>1
  <2> QED  BY <2>2
<1> QED  BY <1>3, <1>4 DEF Max

-----------------------------------------------------------------------------
(* Numbers packed into one, as the fields of a page table entry and the    *)
(* indices of a page number are.                                           *)

\* Every number splits into a multiple of s and the rest below s.
LEMMA DigitsOf ==
  ASSUME NEW n \in Nat, NEW s \in Nat \ {0}
  PROVE  /\ n \div s \in Nat /\ n % s \in 0 .. s - 1
         /\ n = (n \div s) * s + (n % s)
OBVIOUS

\* In one way only.
LEMMA DigitsMade ==
  ASSUME NEW s \in Nat \ {0}, NEW a \in Nat, NEW b \in 0 .. s - 1
  PROVE  (a * s + b) \div s = a /\ (a * s + b) % s = b
OBVIOUS

\* And two fields take no more room than the product of their spans.
LEMMA DigitsFit ==
  ASSUME NEW m \in Nat, NEW s \in Nat, NEW a \in 0 .. m - 1, NEW b \in 0 .. s - 1
  PROVE  a * s + b \in 0 .. m * s - 1
<1>1. PICK k \in Nat : m = a + 1 + k
  BY SMT
<1>2. m * s = a * s + s + k * s /\ a * s \in Nat /\ k * s \in Nat /\ m * s \in Nat
  BY <1>1
<1> QED  BY <1>2

\* Exchanging the low field leaves the high one, and needs no more room.
LEMMA DigitReplaced ==
  ASSUME NEW n \in Nat, NEW s \in Nat \ {0}, NEW d \in 0 .. s - 1
  PROVE  /\ n - (n % s) + d \in Nat
         /\ (n - (n % s) + d) % s = d
         /\ (n - (n % s) + d) \div s = n \div s
         /\ \A m \in Nat : n < m * s => n - (n % s) + d < m * s
<1> DEFINE a == n \div s
           r == n % s
<1>1. a \in Nat /\ r \in 0 .. s - 1 /\ n = a * s + r
  BY DigitsOf
<1> HIDE DEF a, r
<1>2. a * s \in Nat
  BY <1>1
<1>3. n - r + d = a * s + d
  BY <1>1, <1>2
<1>4. ASSUME NEW m \in Nat, n < m * s
      PROVE  a * s + d < m * s
  <2>1. a < m
    <3> SUFFICES ASSUME a >= m  PROVE FALSE
      BY <1>1
    <3>1. PICK k \in Nat : a = m + k
      BY <1>1
    <3>2. a * s = m * s + k * s /\ k * s \in Nat /\ m * s \in Nat
      BY <3>1
    <3> QED  BY <1>1, <1>4, <3>2
  <2>2. a \in 0 .. m - 1 /\ m * s \in Nat
    BY <1>1, <2>1
  <2>3. a * s + d \in 0 .. m * s - 1
    BY <2>2, DigitsFit
  <2> QED  BY <2>2, <2>3
<1>5. (a * s + d) % s = d /\ (a * s + d) \div s = a
  BY <1>1, DigitsMade
<1>6. a * s + d \in Nat
  BY <1>1, <1>5
<1> QED  BY <1>3, <1>4, <1>5, <1>6 DEF a, r

-----------------------------------------------------------------------------
(* Recursion, up to a number                                               *)

\* What holds of 0, and of k + 1 when it holds of k, holds of every number up to n.
LEMMA UpTo ==
  ASSUME NEW n \in Nat, NEW T, 0 \in T, \A k \in 0 .. n - 1 : k \in T => k + 1 \in T
  PROVE  0 .. n \subseteq T
<1> DEFINE Left == (0 .. n) \ T
<1> SUFFICES ASSUME Left # {} PROVE FALSE
  OBVIOUS
<1>1. PICK m \in Left : \A k \in Left : m <= k
  <2>1. Left \in SUBSET Nat
    OBVIOUS
  <2> HIDE DEF Left
  <2> QED  BY <2>1, NatMinimum
<1>2. m - 1 \in 0 .. n - 1 /\ (m - 1) + 1 = m
  OBVIOUS
<1>3. m - 1 \notin Left
  BY <1>1, <1>2
<1> QED  BY <1>1, <1>2, <1>3

\* A function that starts with e and goes on as Step says, up to n.
Stepwise(f, e, Step, n) == f[0] = e /\ \A k \in 1 .. n : f[k] = Step[k][f[k - 1]]

\* There is one.
LEMMA StepwiseExists ==
  ASSUME NEW S, NEW e \in S, NEW Step \in [Nat -> [S -> S]], NEW n \in Nat
  PROVE  \E f \in [0 .. n -> S] : Stepwise(f, e, Step, n)
<1> USE DEF Stepwise
<1> DEFINE Good(m) == \E f \in [0 .. m -> S] : Stepwise(f, e, Step, m)
           T == {m \in Nat : Good(m)}
<1>1. 0 \in T
  <2> DEFINE f == [k \in 0 .. 0 |-> e]
  <2>1. f \in [0 .. 0 -> S] /\ f[0] = e /\ 1 .. 0 = {}
    OBVIOUS
  <2> HIDE DEF f
  <2> QED  BY <2>1
<1>2. ASSUME NEW m \in 0 .. n - 1, m \in T
      PROVE  m + 1 \in T
  <2>1. PICK f \in [0 .. m -> S] : Stepwise(f, e, Step, m)
    BY <1>2
  <2> DEFINE v == Step[m + 1][f[m]]
             g == [k \in 0 .. m + 1 |-> IF k = m + 1 THEN v ELSE f[k]]
  <2>2. v \in S
    BY <2>1
  <2> HIDE DEF v
  <2>3. g \in [0 .. m + 1 -> S]
    BY <2>1, <2>2
  <2>4. g[0] = e
    BY <2>1
  <2>5. ASSUME NEW k \in 1 .. m + 1
        PROVE  g[k] = Step[k][g[k - 1]]
    <3>1. g[k - 1] = f[k - 1]
      OBVIOUS
    <3>2. CASE k = m + 1
      BY <3>1, <3>2 DEF v
    <3>3. CASE k # m + 1
      BY <2>1, <3>1, <3>3
    <3> QED  BY <3>2, <3>3
  <2> HIDE DEF g
  <2>6. Good(m + 1)
    BY <2>3, <2>4, <2>5
  <2> QED  BY <2>6
<1> HIDE DEF T
<1>3. 0 .. n \subseteq T
  BY <1>1, <1>2, UpTo
<1>4. n \in T
  BY <1>3
<1> QED  BY <1>4 DEF T

-----------------------------------------------------------------------------
(* Lists                                                                   *)

\* Removing an entry moves the later ones up by one.
LEMMA RemoveAtEntries ==
  ASSUME NEW S, NEW q \in Seq(S), NEW i \in DOMAIN q
  PROVE  /\ RemoveAt(q, i) \in Seq(S)
         /\ Len(RemoveAt(q, i)) = Len(q) - 1
         /\ \A j \in 1 .. Len(q) - 1 :
              RemoveAt(q, i)[j] = IF j < i THEN q[j] ELSE q[j + 1]
<1> DEFINE n == Len(q)
           a == SubSeq(q, 1, i - 1)
           b == SubSeq(q, i + 1, n)
           r == RemoveAt(q, i)
<1>1. n \in Nat /\ DOMAIN q = 1 .. n /\ i \in 1 .. n
      /\ \A j \in 1 .. n : q[j] \in S
  BY ElementOfSeq, LenProperties
<1>2. a \in Seq(S) /\ Len(a) = i - 1 /\ \A j \in 1 .. i - 1 : a[j] = q[j]
  <2>1. \A j \in 1 .. i - 1 : q[j] \in S
    BY <1>1
  <2>2. /\ a \in Seq(S)
        /\ Len(a) = IF 1 <= i - 1 THEN i - 1 - 1 + 1 ELSE 0
        /\ \A j \in 1 .. i - 1 - 1 + 1 : a[j] = q[1 + j - 1]
    BY <1>1, <2>1, SubSeqProperties
  <2> HIDE DEF a
  <2> QED  BY <1>1, <2>2
<1>3. b \in Seq(S) /\ Len(b) = n - i /\ \A j \in 1 .. n - i : b[j] = q[i + j]
  <2>1. \A j \in i + 1 .. n : q[j] \in S
    BY <1>1
  <2>2. /\ b \in Seq(S)
        /\ Len(b) = IF i + 1 <= n THEN n - (i + 1) + 1 ELSE 0
        /\ \A j \in 1 .. n - (i + 1) + 1 : b[j] = q[i + 1 + j - 1]
    BY <1>1, <2>1, SubSeqProperties
  <2> HIDE DEF b
  <2>3. /\ (IF i + 1 <= n THEN n - (i + 1) + 1 ELSE 0) = n - i
        /\ n - (i + 1) + 1 = n - i
        /\ \A j \in 1 .. n - i : i + 1 + j - 1 = i + j
    BY <1>1
  <2> QED  BY <2>2, <2>3
<1>4. r = a \o b
  BY DEF RemoveAt
<1> HIDE DEF a, b, r, n
<1>5. /\ r \in Seq(S)
      /\ Len(r) = n - 1
      /\ \A j \in 1 .. n - 1 : r[j] = IF j < i THEN q[j] ELSE q[j + 1]
  <2>1. /\ r \in Seq(S)
        /\ Len(r) = Len(a) + Len(b)
        /\ \A j \in 1 .. Len(a) + Len(b) :
             r[j] = IF j <= Len(a) THEN a[j] ELSE b[j - Len(a)]
    BY <1>2, <1>3, <1>4, ConcatProperties
  <2>2. Len(a) + Len(b) = n - 1
    BY <1>1, <1>2, <1>3
  <2>3. ASSUME NEW j \in 1 .. n - 1
        PROVE  r[j] = IF j < i THEN q[j] ELSE q[j + 1]
    <3>1. CASE j < i
      BY <1>1, <1>2, <2>1, <2>2, <2>3, <3>1
    <3>2. CASE ~(j < i)
      <4>1. j - (i - 1) \in 1 .. n - i /\ i + (j - (i - 1)) = j + 1
        BY <1>1, <2>3, <3>2
      <4>2. r[j] = b[j - (i - 1)]
        BY <1>1, <1>2, <2>1, <2>2, <2>3, <3>2
      <4> QED  BY <1>3, <3>2, <4>1, <4>2
    <3> QED  BY <3>1, <3>2
  <2> QED  BY <2>1, <2>2, <2>3
<1> QED  BY <1>5 DEF r, n

\* Removing an entry of a list without repetitions removes that element and
\* leaves a list without repetitions.
LEMMA RemoveAtInjective ==
  ASSUME NEW S, NEW q \in Seq(S), IsInjective(q), NEW i \in DOMAIN q
  PROVE  /\ RemoveAt(q, i) \in Seq(S)
         /\ IsInjective(RemoveAt(q, i))
         /\ Range(RemoveAt(q, i)) = Range(q) \ {q[i]}
<1> DEFINE n == Len(q)
           r == RemoveAt(q, i)
<1>1. n \in Nat /\ DOMAIN q = 1 .. n /\ i \in 1 .. n
      /\ \A j \in 1 .. n : q[j] \in S
  BY ElementOfSeq, LenProperties
<1>5. /\ r \in Seq(S)
      /\ Len(r) = n - 1
      /\ \A j \in 1 .. n - 1 : r[j] = IF j < i THEN q[j] ELSE q[j + 1]
  BY RemoveAtEntries
<1> HIDE DEF r, n
<1>6. DOMAIN r = 1 .. n - 1
  BY <1>1, <1>5, LenProperties
<1>7. IsInjective(r)
  <2> SUFFICES ASSUME NEW j \in 1 .. n - 1, NEW k \in 1 .. n - 1, r[j] = r[k]
               PROVE  j = k
    BY <1>6 DEF IsInjective
  <2>1. \A x, y \in 1 .. n : q[x] = q[y] => x = y
    BY <1>1 DEF IsInjective
  <2> QED  BY <1>1, <1>5, <2>1
<1>8. Range(r) = Range(q) \ {q[i]}
  <2>1. \A j \in 1 .. n - 1 : r[j] \in Range(q) \ {q[i]}
    <3> TAKE j \in 1 .. n - 1
    <3>1. PICK k \in 1 .. n : k # i /\ r[j] = q[k]
      <4>1. j \in 1 .. n /\ j + 1 \in 1 .. n /\ (j < i => j # i)
            /\ (~(j < i) => j + 1 # i)
        BY <1>1
      <4> QED  BY <1>5, <4>1
    <3>2. q[k] # q[i]
      BY <1>1, <3>1 DEF IsInjective
    <3> QED  BY <1>1, <3>1, <3>2 DEF Range
  <2>2. ASSUME NEW j \in 1 .. n, j # i
        PROVE  \E k \in 1 .. n - 1 : r[k] = q[j]
    <3>1. CASE j < i
      BY <1>1, <1>5, <3>1
    <3>2. CASE j > i
      <4>1. j - 1 \in 1 .. n - 1 /\ ~(j - 1 < i) /\ (j - 1) + 1 = j
        BY <1>1, <3>2
      <4> QED  BY <1>5, <4>1
    <3> QED  BY <1>1, <2>2, <3>1, <3>2
  <2>3. Range(r) \subseteq Range(q) \ {q[i]}
    BY <1>6, <2>1 DEF Range
  <2>4. Range(q) \ {q[i]} \subseteq Range(r)
    BY <1>1, <1>6, <2>2 DEF Range
  <2> QED  BY <2>3, <2>4
<1> QED  BY <1>5, <1>7, <1>8 DEF r

\* A list grows at its head.
LEMMA ConsEntries ==
  ASSUME NEW S, NEW q \in Seq(S), NEW e \in S
  PROVE  /\ <<e>> \o q \in Seq(S)
         /\ Len(<<e>> \o q) = Len(q) + 1
         /\ (<<e>> \o q)[1] = e
         /\ \A j \in 1 .. Len(q) : (<<e>> \o q)[j + 1] = q[j]
<1>1. <<e>> \in Seq(S) /\ Len(<<e>>) = 1 /\ <<e>>[1] = e /\ Len(q) \in Nat
  BY LenProperties
<1> DEFINE one == <<e>>
<1> HIDE DEF one
<1>2. /\ one \o q \in Seq(S)
      /\ Len(one \o q) = 1 + Len(q)
      /\ \A j \in 1 .. 1 + Len(q) :
           (one \o q)[j] = IF j <= 1 THEN one[j] ELSE q[j - 1]
  BY <1>1, ConcatProperties DEF one
<1>3. \A j \in 1 .. Len(q) : (one \o q)[j + 1] = q[j]
  BY <1>1, <1>2
<1> QED  BY <1>1, <1>2, <1>3 DEF one

\* A new element at the head keeps a list without repetitions so.
LEMMA ConsInjective ==
  ASSUME NEW S, NEW q \in Seq(S), NEW e \in S
  PROVE  /\ Range(<<e>> \o q) = Range(q) \cup {e}
         /\ IsInjective(q) /\ e \notin Range(q) => IsInjective(<<e>> \o q)
<1> DEFINE n == Len(q)
           r == <<e>> \o q
<1>1. n \in Nat /\ DOMAIN q = 1 .. n
  BY LenProperties
<1>2. /\ r \in Seq(S) /\ Len(r) = n + 1 /\ r[1] = e
      /\ \A j \in 1 .. n : r[j + 1] = q[j]
  BY ConsEntries
<1>3. DOMAIN r = 1 .. n + 1
  BY <1>1, <1>2, LenProperties
<1> HIDE DEF n, r
<1>4. \A j \in 1 .. n + 1 : j = 1 \/ (j - 1 \in 1 .. n /\ r[j] = q[j - 1])
  <2> TAKE j \in 1 .. n + 1
  <2>1. j # 1 => j - 1 \in 1 .. n /\ (j - 1) + 1 = j
    BY <1>1
  <2> QED  BY <1>2, <2>1
<1>5. Range(r) = Range(q) \cup {e}
  <2>1. 1 \in 1 .. n + 1 /\ \A j \in 1 .. n : j + 1 \in 1 .. n + 1
    BY <1>1
  <2>2. ASSUME NEW j \in 1 .. n + 1
        PROVE  r[j] \in Range(q) \cup {e}
    <3>1. CASE j = 1
      BY <1>2, <3>1
    <3>2. CASE j # 1
      BY <1>1, <1>4, <3>2 DEF Range
    <3> QED  BY <3>1, <3>2
  <2>4. \A x \in Range(r) : x \in Range(q) \cup {e}
    BY <1>3, <2>2 DEF Range
  <2>3. \A x \in Range(q) \cup {e} : x \in Range(r)
    BY <1>1, <1>2, <1>3, <2>1 DEF Range
  <2> QED  BY <2>3, <2>4
<1>6. IsInjective(q) /\ e \notin Range(q) => IsInjective(r)
  <2> SUFFICES ASSUME IsInjective(q), e \notin Range(q),
                      NEW j \in 1 .. n + 1, NEW k \in 1 .. n + 1, r[j] = r[k]
               PROVE  j = k
    BY <1>3 DEF IsInjective
  <2>1. \A m \in 1 .. n : q[m] # e
    BY <1>1 DEF Range
  <2>2. CASE j = 1 \/ k = 1
    BY <1>2, <1>4, <2>1, <2>2
  <2>3. CASE j # 1 /\ k # 1
    <3>1. /\ j - 1 \in 1 .. n /\ r[j] = q[j - 1]
          /\ k - 1 \in 1 .. n /\ r[k] = q[k - 1]
      BY <1>4, <2>3
    <3>2. j - 1 = k - 1
      BY <1>1, <3>1 DEF IsInjective
    <3> QED  BY <1>1, <3>2
  <2> QED  BY <2>2, <2>3
<1> QED  BY <1>5, <1>6 DEF r

\* A list without repetitions loses its head, and nothing else.
LEMMA TailInjective ==
  ASSUME NEW S, NEW q \in Seq(S), q # <<>>, IsInjective(q)
  PROVE  /\ Head(q) \in Range(q)
         /\ Tail(q) \in Seq(S)
         /\ IsInjective(Tail(q))
         /\ Range(Tail(q)) = Range(q) \ {Head(q)}
<1> DEFINE n == Len(q)
           t == Tail(q)
<1>1. n \in Nat /\ n > 0 /\ DOMAIN q = 1 .. n /\ Head(q) = q[1]
  BY LenProperties, EmptySeq
<1>2. t \in Seq(S) /\ Len(t) = n - 1 /\ \A j \in 1 .. Len(t) : t[j] = q[j + 1]
  BY HeadTailProperties
<1>3. DOMAIN t = 1 .. n - 1
  BY <1>1, <1>2, LenProperties
<1> HIDE DEF n, t
<1>4. \A j \in 1 .. n - 1 : j + 1 \in 1 .. n /\ j + 1 # 1 /\ t[j] = q[j + 1]
  BY <1>1, <1>2
<1>5. \A j \in 1 .. n : j # 1 => j - 1 \in 1 .. n - 1 /\ t[j - 1] = q[j]
  <2> TAKE j \in 1 .. n
  <2>1. j # 1 => j - 1 \in 1 .. n - 1 /\ (j - 1) + 1 = j
    BY <1>1
  <2> QED  BY <1>4, <2>1
<1>6. IsInjective(t)
  <2> SUFFICES ASSUME NEW j \in 1 .. n - 1, NEW k \in 1 .. n - 1, t[j] = t[k]
               PROVE  j = k
    BY <1>3 DEF IsInjective
  <2>1. /\ j + 1 \in 1 .. n /\ t[j] = q[j + 1]
        /\ k + 1 \in 1 .. n /\ t[k] = q[k + 1]
    BY <1>4
  <2>2. j + 1 = k + 1
    BY <1>1, <2>1 DEF IsInjective
  <2> QED  BY <1>1, <2>2
<1>7. Range(t) = Range(q) \ {q[1]}
  <2>1. \A j \in 1 .. n : q[j] = q[1] => j = 1
    BY <1>1 DEF IsInjective
  <2>2. \A x \in Range(t) : x \in Range(q) \ {q[1]}
    BY <1>1, <1>3, <1>4, <2>1 DEF Range
  <2>3. \A x \in Range(q) \ {q[1]} : x \in Range(t)
    BY <1>1, <1>3, <1>5 DEF Range
  <2> QED  BY <2>2, <2>3
<1>8. q[1] \in Range(q)
  BY <1>1 DEF Range
<1> QED  BY <1>1, <1>2, <1>6, <1>7, <1>8 DEF t

\* Or its last entry.
LEMMA FrontInjective ==
  ASSUME NEW S, NEW q \in Seq(S), q # <<>>, IsInjective(q)
  PROVE  /\ Last(q) \in Range(q)
         /\ Front(q) \in Seq(S)
         /\ IsInjective(Front(q))
         /\ Range(Front(q)) = Range(q) \ {Last(q)}
<1> DEFINE n == Len(q)
           t == Front(q)
<1>1. n \in Nat /\ n > 0 /\ DOMAIN q = 1 .. n /\ Last(q) = q[n]
      /\ \A j \in 1 .. n : q[j] \in S
  BY LenProperties, EmptySeq, ElementOfSeq DEF Last
<1>2. t \in Seq(S) /\ Len(t) = n - 1 /\ \A j \in 1 .. n - 1 : t[j] = q[j]
  <2>1. \A j \in 1 .. n - 1 : q[j] \in S
    BY <1>1
  <2>2. /\ t \in Seq(S)
        /\ Len(t) = IF 1 <= n - 1 THEN n - 1 - 1 + 1 ELSE 0
        /\ \A j \in 1 .. n - 1 - 1 + 1 : t[j] = q[1 + j - 1]
    BY <1>1, <2>1, SubSeqProperties DEF Front
  <2>3. /\ (IF 1 <= n - 1 THEN n - 1 - 1 + 1 ELSE 0) = n - 1
        /\ n - 1 - 1 + 1 = n - 1
        /\ \A j \in 1 .. n - 1 : 1 + j - 1 = j
    BY <1>1
  <2> HIDE DEF n, t
  <2> QED  BY <2>2, <2>3
<1>3. DOMAIN t = 1 .. n - 1
  BY <1>1, <1>2, LenProperties
<1> HIDE DEF n, t
<1>4. IsInjective(t)
  BY <1>1, <1>2, <1>3 DEF IsInjective
<1>5. Range(t) = Range(q) \ {q[n]}
  <2>1. \A j \in 1 .. n : (q[j] = q[n] => j = n) /\ (j # n => j \in 1 .. n - 1)
    BY <1>1 DEF IsInjective
  <2>2. \A j \in 1 .. n - 1 : j \in 1 .. n /\ j # n
    BY <1>1
  <2> QED  BY <1>1, <1>2, <1>3, <2>1, <2>2 DEF Range
<1>6. q[n] \in Range(q)
  BY <1>1 DEF Range
<1> QED  BY <1>1, <1>2, <1>4, <1>5, <1>6 DEF t

\* Two lists without repetitions that share no element give one without.
LEMMA ConcatInjective ==
  ASSUME NEW S, NEW q \in Seq(S), NEW r \in Seq(S)
  PROVE  /\ q \o r \in Seq(S)
         /\ Len(q \o r) = Len(q) + Len(r)
         /\ Range(q \o r) = Range(q) \cup Range(r)
         /\ IsInjective(q) /\ IsInjective(r) /\ Range(q) \cap Range(r) = {}
              => IsInjective(q \o r)
<1> DEFINE n == Len(q)
           m == Len(r)
           t == q \o r
<1>1. n \in Nat /\ m \in Nat /\ DOMAIN q = 1 .. n /\ DOMAIN r = 1 .. m
  BY LenProperties
<1>2. /\ t \in Seq(S) /\ Len(t) = n + m
      /\ \A i \in 1 .. n + m : t[i] = IF i <= n THEN q[i] ELSE r[i - n]
  BY ConcatProperties
<1>3. DOMAIN t = 1 .. n + m
  BY <1>1, <1>2, LenProperties
<1> HIDE DEF n, m, t
<1>4. \A i \in 1 .. n + m : \/ i \in 1 .. n /\ t[i] = q[i]
                            \/ i - n \in 1 .. m /\ t[i] = r[i - n] /\ i = (i - n) + n
  BY <1>1, <1>2
<1>5. \A x \in Range(t) : x \in Range(q) \cup Range(r)
  BY <1>1, <1>3, <1>4 DEF Range
<1>6. \A x \in Range(q) \cup Range(r) : x \in Range(t)
  <2>1. \A i \in 1 .. n : i \in 1 .. n + m /\ t[i] = q[i]
    BY <1>1, <1>2
  <2>2. \A i \in 1 .. m : i + n \in 1 .. n + m /\ t[i + n] = r[i]
    <3> TAKE i \in 1 .. m
    <3>1. i + n \in 1 .. n + m /\ ~(i + n <= n) /\ (i + n) - n = i
      BY <1>1
    <3> QED  BY <1>2, <3>1
  <2> QED  BY <1>1, <1>3, <2>1, <2>2 DEF Range
<1>7. ASSUME IsInjective(q), IsInjective(r), Range(q) \cap Range(r) = {}
      PROVE  IsInjective(t)
  <2> SUFFICES ASSUME NEW i \in 1 .. n + m, NEW j \in 1 .. n + m, t[i] = t[j]
               PROVE  i = j
    BY <1>3 DEF IsInjective
  <2>1. \A a \in 1 .. n, b \in 1 .. m : q[a] # r[b]
    BY <1>1, <1>7 DEF Range
  <2>2. /\ \A a, b \in 1 .. n : q[a] = q[b] => a = b
        /\ \A a, b \in 1 .. m : r[a] = r[b] => a = b
    BY <1>1, <1>7 DEF IsInjective
  <2> QED  BY <1>4, <2>1, <2>2
<1> QED  BY <1>2, <1>5, <1>6, <1>7 DEF n, m, t

\* What is left of a list after its first n entries.
LEMMA RestEntries ==
  ASSUME NEW S, NEW q \in Seq(S), NEW n \in 0 .. Len(q)
  PROVE  LET t == SubSeq(q, n + 1, Len(q)) IN
         /\ t \in Seq(S)
         /\ Len(t) = Len(q) - n
         /\ DOMAIN t = 1 .. Len(q) - n
         /\ \A i \in 1 .. Len(q) - n : i + n \in DOMAIN q /\ t[i] = q[i + n]
<1> DEFINE len == Len(q)
           t == SubSeq(q, n + 1, len)
<1>1. len \in Nat /\ DOMAIN q = 1 .. len /\ \A i \in 1 .. len : q[i] \in S
  BY LenProperties, ElementOfSeq
<1>2. \A i \in n + 1 .. len : q[i] \in S
  BY <1>1
<1>3. /\ t \in Seq(S)
      /\ Len(t) = IF n + 1 <= len THEN len - (n + 1) + 1 ELSE 0
      /\ \A i \in 1 .. len - (n + 1) + 1 : t[i] = q[n + 1 + i - 1]
  BY <1>1, <1>2, SubSeqProperties
<1> HIDE DEF t, len
<1>4. n \in 0 .. len
  BY DEF len
<1>5. /\ (IF n + 1 <= len THEN len - (n + 1) + 1 ELSE 0) = len - n
      /\ len - (n + 1) + 1 = len - n
      /\ \A i \in 1 .. len - n : n + 1 + i - 1 = i + n /\ i + n \in 1 .. len
  BY <1>1, <1>4
<1>6. Len(t) = len - n /\ \A i \in 1 .. len - n : i + n \in DOMAIN q /\ t[i] = q[i + n]
  BY <1>1, <1>3, <1>5
<1>7. DOMAIN t = 1 .. len - n
  BY <1>3, <1>6, LenProperties
<1> QED  BY <1>3, <1>6, <1>7 DEF t, len

\* The elements of a finite set of numbers can be listed, the largest first.
LEMMA DownListed ==
  ASSUME NEW T \in SUBSET Nat, IsFiniteSet(T)
  PROVE  \E s \in [1 .. Cardinality(T) -> T] : \A i, j \in DOMAIN s : i < j => s[i] > s[j]
<1> DEFINE Lists(R) == {s \in [1 .. Cardinality(R) -> R] :
                          \A i, j \in 1 .. Cardinality(R) : i < j => s[i] > s[j]}
           Bad == {n \in Nat : \E R \in SUBSET Nat :
                     IsFiniteSet(R) /\ Cardinality(R) = n /\ Lists(R) = {}}
<1> SUFFICES Lists(T) # {}
  <2>1. \A s \in Lists(T) : DOMAIN s = 1 .. Cardinality(T)
    OBVIOUS
  <2> QED  BY <2>1
<1>1. Cardinality(T) \in Nat
  BY FS_CardinalityType
<1> HIDE DEF Lists
<1> SUFFICES ASSUME Bad # {}  PROVE FALSE
  BY <1>1
<1>2. PICK n \in Bad : \A m \in Bad : n <= m
  <2>1. Bad \in SUBSET Nat
    OBVIOUS
  <2> HIDE DEF Bad
  <2> QED  BY <2>1, NatMinimum
<1>3. PICK R \in SUBSET Nat : IsFiniteSet(R) /\ Cardinality(R) = n /\ Lists(R) = {}
  BY <1>2
<1>4. n \in Nat
  BY <1>2
<1>5. CASE R = {}
  <2>1. n = 0
    BY <1>3, <1>5, FS_EmptySet
  <2>2. [i \in 1 .. 0 |-> 0] \in Lists(R)
    BY <1>3, <1>5, <2>1 DEF Lists
  <2> QED  BY <1>3, <2>2
<1>6. CASE R # {}
  <2>1. PICK least \in R : \A y \in R : least <= y
    BY <1>6, NatMinimum
  <2> DEFINE U == R \ {least}
  <2>2. IsFiniteSet(U) /\ Cardinality(U) = n - 1
    BY <1>3, <2>1, FS_RemoveElement
  <2>3. n - 1 \in Nat /\ U \in SUBSET Nat
    BY <2>2, FS_CardinalityType
  <2>4. n - 1 \notin Bad
    BY <1>2, <1>4, <2>3
  <2>5. PICK s \in Lists(U) : TRUE
    BY <2>2, <2>3, <2>4
  <2>6. s \in [1 .. n - 1 -> U] /\ \A i, j \in 1 .. n - 1 : i < j => s[i] > s[j]
    BY <2>2, <2>5 DEF Lists
  <2> HIDE DEF U
  <2> DEFINE t == [i \in 1 .. n |-> IF i = n THEN least ELSE s[i]]
  <2>7. \A y \in U : y \in R /\ y > least
    BY <2>1 DEF U
  <2>8. \A i \in 1 .. n : i # n => i \in 1 .. n - 1 /\ s[i] \in U
    BY <1>4, <2>6
  <2>9. t \in [1 .. n -> R]
    BY <2>1, <2>7, <2>8
  <2>10. ASSUME NEW i \in 1 .. n, NEW j \in 1 .. n, i < j
         PROVE  t[i] > t[j]
    <3>1. i # n
      BY <1>4, <2>10
    <3> QED  BY <2>6, <2>7, <2>8, <2>10, <3>1
  <2> HIDE DEF t
  <2>11. t \in Lists(R)
    BY <1>3, <2>9, <2>10 DEF Lists
  <2> QED  BY <1>3, <2>11
<1> QED  BY <1>5, <1>6

\* Such a list has every element of the set, once.
LEMMA DownComplete ==
  ASSUME NEW T \in SUBSET Nat, IsFiniteSet(T),
         NEW s \in [1 .. Cardinality(T) -> T],
         \A i, j \in DOMAIN s : i < j => s[i] > s[j]
  PROVE  IsInjective(s) /\ Range(s) = T
<1> DEFINE n == Cardinality(T)
<1>1. n \in Nat
  BY FS_CardinalityType
<1>2. ASSUME NEW i \in 1 .. n, NEW j \in 1 .. n, s[i] = s[j]
      PROVE  i = j
  <2>1. s[i] \in Nat /\ s[j] \in Nat /\ DOMAIN s = 1 .. n
    OBVIOUS
  <2>2. ~(i < j) /\ ~(j < i)
    BY <1>2, <2>1
  <2> QED  BY <1>1, <2>2
<1>3. IsInjective(s)
  BY <1>2 DEF IsInjective
<1>4. s \in Injection(1 .. n, T)
  BY <1>3 DEF Injection, IsInjective
<1>5. Cardinality(1 .. n) = n
  BY <1>1, FS_Interval
<1>6. s \in Surjection(1 .. n, T)
  BY <1>4, <1>5, FS_Injection
<1> QED  BY <1>3, <1>6 DEF Surjection, Range

-----------------------------------------------------------------------------
(* How many entries of a list belong to a set. *)

Places(q, P) == {i \in DOMAIN q : q[i] \in P}

\* It is a number.
LEMMA PlacesFinite ==
  ASSUME NEW S, NEW q \in Seq(S), NEW P
  PROVE  IsFiniteSet(Places(q, P)) /\ Cardinality(Places(q, P)) \in Nat
<1>1. DOMAIN q = 1 .. Len(q) /\ Len(q) \in Nat
  BY LenProperties
<1>2. IsFiniteSet(DOMAIN q)
  BY <1>1, FS_Interval
<1>3. Places(q, P) \in SUBSET DOMAIN q
  BY DEF Places
<1> QED  BY <1>2, <1>3, FS_Subset, FS_CardinalityType

\* Where two lists differ in one entry, that one counts.
LEMMA PlacesReplace ==
  ASSUME NEW S, NEW q \in Seq(S), NEW r \in Seq(S), DOMAIN r = DOMAIN q,
         NEW i \in DOMAIN q, \A j \in DOMAIN q : j # i => r[j] = q[j], NEW P
  PROVE  Cardinality(Places(r, P))
           = Cardinality(Places(q, P)) - (IF q[i] \in P THEN 1 ELSE 0)
                                       + (IF r[i] \in P THEN 1 ELSE 0)
<1> DEFINE rest == Places(q, P) \ {i}
<1>1. IsFiniteSet(Places(q, P)) /\ Cardinality(Places(q, P)) \in Nat
  BY PlacesFinite
<1>2. IsFiniteSet(rest) /\ Cardinality(rest) =
        IF i \in Places(q, P) THEN Cardinality(Places(q, P)) - 1
                              ELSE Cardinality(Places(q, P))
  BY <1>1, FS_RemoveElement
<1>3. i \notin rest /\ (i \in Places(q, P) <=> q[i] \in P)
  BY DEF Places
<1>4. Places(r, P) = IF r[i] \in P THEN rest \cup {i} ELSE rest
  BY DEF Places
<1>5. Cardinality(rest \cup {i}) = Cardinality(rest) + 1
  BY <1>2, <1>3, FS_AddElement
<1> HIDE DEF rest
<1>6. Cardinality(Places(r, P)) = Cardinality(rest) + (IF r[i] \in P THEN 1 ELSE 0)
  <2>1. Cardinality(rest) \in Nat
    BY <1>2, FS_CardinalityType
  <2> QED  BY <1>4, <1>5, <2>1
<1> QED  BY <1>1, <1>2, <1>3, <1>6

\* A new entry at the head is counted in.
LEMMA PlacesCons ==
  ASSUME NEW S, NEW q \in Seq(S), NEW e \in S, NEW P
  PROVE  Cardinality(Places(<<e>> \o q, P))
           = Cardinality(Places(q, P)) + (IF e \in P THEN 1 ELSE 0)
<1> DEFINE n == Len(q)
           r == <<e>> \o q
           old == Places(q, P)
           moved == {j \in DOMAIN r : j # 1 /\ r[j] \in P}
           up == [j \in old |-> j + 1]
<1>1. n \in Nat /\ DOMAIN q = 1 .. n
  BY LenProperties
<1>2. /\ r \in Seq(S) /\ Len(r) = n + 1 /\ r[1] = e
      /\ \A j \in 1 .. n : r[j + 1] = q[j]
  BY ConsEntries
<1>3. DOMAIN r = 1 .. n + 1
  BY <1>1, <1>2, LenProperties
<1>4. IsFiniteSet(old) /\ Cardinality(old) \in Nat
  BY PlacesFinite
<1> HIDE DEF n, r
<1>5. \A j \in old : j \in 1 .. n /\ q[j] \in P
  BY <1>1 DEF Places
<1>6. \A j \in moved : j - 1 \in old /\ (j - 1) + 1 = j
  <2> TAKE j \in moved
  <2>1. j - 1 \in 1 .. n /\ (j - 1) + 1 = j
    BY <1>1, <1>3
  <2> QED  BY <1>1, <1>2, <2>1 DEF Places
<1>7. \A j \in old : j + 1 \in moved
  <2> TAKE j \in old
  <2>1. j + 1 \in 1 .. n + 1 /\ j + 1 # 1
    BY <1>1, <1>5
  <2> QED  BY <1>2, <1>3, <1>5, <2>1
<1>8. up \in Bijection(old, moved)
  <2> HIDE DEF moved, old
  <2>1. up \in [old -> moved]
    BY <1>7
  <2>2. \A a, b \in old : up[a] = up[b] => a = b
    <3>1. \A j \in old : j \in Nat
      BY <1>1, <1>5
    <3> QED  BY <3>1
  <2>3. \A t \in moved : \E s \in old : up[s] = t
    BY <1>6
  <2> HIDE DEF up
  <2> QED  BY <2>1, <2>2, <2>3, Fun_IsBij
<1>9. IsFiniteSet(moved) /\ Cardinality(moved) = Cardinality(old)
  <2>1. ExistsBijection(old, moved)
    BY <1>8 DEF ExistsBijection
  <2> HIDE DEF moved, old
  <2> QED  BY <1>4, <2>1, FS_Bijection
<1>10. Places(r, P) = IF e \in P THEN moved \cup {1} ELSE moved
  BY <1>1, <1>2, <1>3 DEF Places
<1>11. Cardinality(moved \cup {1}) = Cardinality(moved) + 1
  BY <1>9, FS_AddElement
<1> HIDE DEF moved, old
<1> QED  BY <1>4, <1>9, <1>10, <1>11 DEF r, old

\* A removed entry is counted out.
LEMMA PlacesRemoveAt ==
  ASSUME NEW S, NEW q \in Seq(S), NEW i \in DOMAIN q, NEW P
  PROVE  Cardinality(Places(RemoveAt(q, i), P))
           = Cardinality(Places(q, P)) - (IF q[i] \in P THEN 1 ELSE 0)
<1> DEFINE n == Len(q)
           r == RemoveAt(q, i)
           old == Places(q, P) \ {i}
           now == Places(r, P)
           up == [j \in now |-> IF j < i THEN j ELSE j + 1]
<1>1. n \in Nat /\ DOMAIN q = 1 .. n /\ i \in 1 .. n
  BY LenProperties
<1>2. /\ r \in Seq(S) /\ Len(r) = n - 1
      /\ \A j \in 1 .. n - 1 : r[j] = IF j < i THEN q[j] ELSE q[j + 1]
  BY RemoveAtEntries
<1>3. DOMAIN r = 1 .. n - 1
  BY <1>1, <1>2, LenProperties
<1>4. IsFiniteSet(Places(q, P)) /\ Cardinality(Places(q, P)) \in Nat /\ IsFiniteSet(now)
  BY <1>2, PlacesFinite
<1> HIDE DEF n, r
<1>5. \A j \in now : j \in 1 .. n - 1 /\ r[j] \in P
  BY <1>3 DEF Places
<1>6. \A j \in now : (IF j < i THEN j ELSE j + 1) \in old
  <2> TAKE j \in now
  <2>1. CASE j < i
    BY <1>1, <1>2, <1>5, <2>1 DEF Places
  <2>2. CASE ~(j < i)
    <3>1. j + 1 \in 1 .. n /\ j + 1 # i
      BY <1>1, <1>5, <2>2
    <3> QED  BY <1>1, <1>2, <1>5, <2>2, <3>1 DEF Places
  <2> QED  BY <2>1, <2>2
<1>7. \A k \in old : \E j \in now : (IF j < i THEN j ELSE j + 1) = k
  <2> TAKE k \in old
  <2>1. k \in 1 .. n /\ k # i /\ q[k] \in P
    BY <1>1 DEF Places
  <2>2. CASE k < i
    <3>1. k \in 1 .. n - 1
      BY <1>1, <2>1, <2>2
    <3> QED  BY <1>2, <1>3, <2>1, <2>2, <3>1 DEF Places
  <2>3. CASE k > i
    <3>1. k - 1 \in 1 .. n - 1 /\ ~(k - 1 < i) /\ (k - 1) + 1 = k
      BY <1>1, <2>1, <2>3
    <3>2. k - 1 \in now
      BY <1>2, <1>3, <2>1, <3>1 DEF Places
    <3> QED  BY <3>1, <3>2
  <2> QED  BY <1>1, <2>1, <2>2, <2>3
<1>8. up \in Bijection(now, old)
  <2> HIDE DEF now, old
  <2>1. up \in [now -> old]
    BY <1>6
  <2>2. \A a, b \in now : up[a] = up[b] => a = b
    <3>1. \A j \in now : j \in Nat
      BY <1>1, <1>5
    <3> QED  BY <1>1, <3>1
  <2>3. \A t \in old : \E s \in now : up[s] = t
    BY <1>7
  <2> HIDE DEF up
  <2> QED  BY <2>1, <2>2, <2>3, Fun_IsBij
<1>9. Cardinality(old) = Cardinality(now)
  <2>1. ExistsBijection(now, old)
    BY <1>8 DEF ExistsBijection
  <2> HIDE DEF now, old
  <2> QED  BY <1>4, <2>1, FS_Bijection
<1>10. Cardinality(old) = IF i \in Places(q, P) THEN Cardinality(Places(q, P)) - 1
                                                 ELSE Cardinality(Places(q, P))
  BY <1>4, FS_RemoveElement
<1>11. i \in Places(q, P) <=> q[i] \in P
  BY DEF Places
<1> HIDE DEF old
<1> QED  BY <1>4, <1>9, <1>10, <1>11 DEF r, now
=============================================================================
