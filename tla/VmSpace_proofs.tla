--------------------------- MODULE VmSpace_proofs ---------------------------
(***************************************************************************)
(* Proofs about VmSpace, for every layout of the address space and every   *)
(* sequence of requests: the list of regions stays in order and without    *)
(* overlap, the cache tells the truth, GetUsableVMR finds the lowest room  *)
(* there is, and no page that is mapped loses what was written into it.    *)
(***************************************************************************)
EXTENDS VmSpace, SequenceTheorems, WellFoundedInduction, TLAPS

(***************************************************************************)
(* Arithmetic of pages.                                                    *)
(***************************************************************************)
LEMMA Quotient ==
  ASSUME NEW a \in Nat, NEW P \in Nat \ {0}
  PROVE  /\ a \div P \in Nat /\ a % P \in 0 .. P - 1
         /\ a = (a \div P) * P + (a % P)
OBVIOUS

LEMMA Multiples ==
  ASSUME NEW j \in Nat, NEW k \in Nat, NEW P \in Nat \ {0}
  PROVE  /\ j * P \in Nat
         /\ j < k => j * P + P <= k * P
         /\ (j + k) * P = j * P + k * P
<1>1. j * P \in Nat /\ (j + k) * P = j * P + k * P
  OBVIOUS
<1>2. ASSUME j < k PROVE j * P + P <= k * P
  <2>1. PICK m \in Nat : k = j + 1 + m
    <3>1. k - j - 1 \in Nat /\ k = j + 1 + (k - j - 1)
      BY <1>2
    <3> QED  BY <3>1
  <2>2. m * P \in Nat
    OBVIOUS
  <2>3. k * P = j * P + P + m * P
    BY <2>1
  <2> QED  BY <1>1, <2>2, <2>3
<1> QED  BY <1>1, <1>2

LEMMA AlignedIs ==
  ASSUME NEW a \in Nat
  PROVE  Aligned(a) <=> \E k \in Nat : a = k * PAGESIZE
<1> DEFINE P == PAGESIZE
<1>1. P \in Nat \ {0}
  BY LayoutAssumption
<1>2. Aligned(a) <=> a % P = 0
  BY DEF Aligned
<1> HIDE DEF P
<1>3. a \div P \in Nat /\ a % P \in 0 .. P - 1 /\ a = (a \div P) * P + (a % P)
  BY <1>1, Quotient
<1>4. ASSUME a % P = 0 PROVE \E k \in Nat : a = k * P
  <2>1. a = (a \div P) * P
    <3> DEFINE q == (a \div P) * P
    <3>1. q \in Nat
      BY <1>1, <1>3, Multiples
    <3> HIDE DEF q
    <3>2. a = q + (a % P)
      BY <1>3 DEF q
    <3>3. a = q
      BY <1>4, <3>1, <3>2
    <3> QED  BY <3>3 DEF q
  <2> QED  BY <1>3, <2>1
<1>5. ASSUME NEW k \in Nat, a = k * P PROVE a % P = 0
  <2> DEFINE q == a \div P
             m == a % P
  <2>1. q \in Nat /\ m \in 0 .. P - 1 /\ k * P = q * P + m
    BY <1>3, <1>5
  <2> HIDE DEF q, m
  <2>2. q * P \in Nat /\ k * P \in Nat /\ k < q => k * P + P <= q * P
    BY <1>1, <2>1, Multiples
  <2>3. q < k => q * P + P <= k * P
    BY <1>1, <2>1, Multiples
  <2>4. ~(q < k) /\ ~(k < q)
    BY <1>1, <2>1, <2>2, <2>3
  <2>5. q = k
    BY <2>1, <2>4
  <2>6. m = 0
    BY <1>1, <2>1, <2>2, <2>5
  <2> QED  BY <2>6 DEF m
<1> QED  BY <1>2, <1>4, <1>5 DEF P

LEMMA RoundUpIs ==
  ASSUME NEW a \in Nat
  PROVE  /\ RoundUp(a) \in Nat /\ Aligned(RoundUp(a))
         /\ a <= RoundUp(a) /\ RoundUp(a) < a + PAGESIZE
<1> DEFINE P == PAGESIZE
           b == a + P - 1
           q == b \div P
           m == b % P
<1>1. P \in Nat \ {0}
  BY LayoutAssumption
<1>2. RoundUp(a) = q * P
  BY DEF RoundUp
<1>3. b \in Nat /\ b = a + P - 1
  BY <1>1
<1> HIDE DEF b
<1>4. q \in Nat /\ m \in 0 .. P - 1 /\ b = q * P + m
  BY <1>1, <1>3, Quotient
<1> DEFINE r == q * P
<1>5. r \in Nat
  BY <1>1, <1>4, Multiples
<1>6. Aligned(r)
  BY <1>4, <1>5, AlignedIs
<1>7. RoundUp(a) = r /\ b = r + m
  BY <1>2, <1>4
<1> HIDE DEF P, q, m, r
<1>8. a <= r /\ r < a + P
  BY <1>1, <1>3, <1>4, <1>5, <1>7
<1> QED  BY <1>5, <1>6, <1>7, <1>8 DEF P

LEMMA RoundDownIs ==
  ASSUME NEW a \in Nat
  PROVE  /\ RoundDown(a) \in Nat /\ Aligned(RoundDown(a))
         /\ RoundDown(a) <= a /\ (Aligned(a) => RoundDown(a) = a)
<1> DEFINE P == PAGESIZE
           q == a \div P
           m == a % P
<1>1. P \in Nat \ {0}
  BY LayoutAssumption
<1>2. RoundDown(a) = q * P /\ (Aligned(a) <=> m = 0)
  BY DEF RoundDown, Aligned
<1>3. q \in Nat /\ m \in 0 .. P - 1 /\ a = q * P + m
  BY <1>1, Quotient
<1> DEFINE r == q * P
<1>4. r \in Nat
  BY <1>1, <1>3, Multiples
<1>5. Aligned(r)
  BY <1>3, <1>4, AlignedIs
<1>6. RoundDown(a) = r /\ a = r + m
  BY <1>2, <1>3
<1> HIDE DEF P, q, r, m
<1>7. r <= a /\ (m = 0 => r = a)
  BY <1>1, <1>3, <1>4, <1>6
<1> QED  BY <1>2, <1>4, <1>5, <1>6, <1>7

LEMMA AlignedApart ==
  ASSUME NEW a \in Nat, NEW b \in Nat, Aligned(a), Aligned(b), a < b
  PROVE  a + PAGESIZE <= b
<1>1. PICK j \in Nat : a = j * PAGESIZE
  BY AlignedIs
<1>2. PICK k \in Nat : b = k * PAGESIZE
  BY AlignedIs
<1>3. PAGESIZE \in Nat \ {0}
  BY LayoutAssumption
<1>4. CASE j < k
  BY <1>1, <1>2, <1>3, <1>4, Multiples
<1>5. CASE k < j
  BY <1>1, <1>2, <1>3, <1>5, Multiples
<1>6. CASE j = k
  BY <1>1, <1>2, <1>6
<1> QED  BY <1>4, <1>5, <1>6

LEMMA RoundUpLeast ==
  ASSUME NEW a \in Nat, NEW b \in Nat, Aligned(b)
  PROVE  a <= b <=> RoundUp(a) <= b
<1>1. /\ RoundUp(a) \in Nat /\ Aligned(RoundUp(a))
      /\ a <= RoundUp(a) /\ RoundUp(a) < a + PAGESIZE
  BY RoundUpIs
<1>2. PAGESIZE \in Nat
  BY LayoutAssumption
<1>3. b < RoundUp(a) => b + PAGESIZE <= RoundUp(a)
  BY <1>1, AlignedApart
<1> QED  BY <1>1, <1>2, <1>3

LEMMA AlignedSum ==
  ASSUME NEW a \in Nat, NEW b \in Nat, Aligned(a), Aligned(b)
  PROVE  Aligned(a + b)
<1>1. PICK j \in Nat : a = j * PAGESIZE
  BY AlignedIs
<1>2. PICK k \in Nat : b = k * PAGESIZE
  BY AlignedIs
<1>3. PAGESIZE \in Nat \ {0}
  BY LayoutAssumption
<1>4. a + b = (j + k) * PAGESIZE
  BY <1>1, <1>2, <1>3, Multiples
<1>5. j + k \in Nat /\ a + b \in Nat
  OBVIOUS
<1> QED  BY <1>4, <1>5, AlignedIs

LEMMA RoundUpAligned ==
  ASSUME NEW a \in Nat, Aligned(a)
  PROVE  RoundUp(a) = a
<1>1. a <= a /\ RoundUp(a) \in Nat /\ a <= RoundUp(a)
  BY RoundUpIs
<1>2. RoundUp(a) <= a
  BY <1>1, RoundUpLeast
<1> QED  BY <1>1, <1>2

LEMMA RoundUpSum ==
  ASSUME NEW a \in Nat, NEW n \in Nat, Aligned(a)
  PROVE  RoundUp(a + n) = a + RoundUp(n)
<1> DEFINE r == RoundUp(n)
           t == RoundUp(a + n)
<1>1. r \in Nat /\ Aligned(r) /\ n <= r /\ r < n + PAGESIZE
  BY RoundUpIs
<1>2. /\ a + n \in Nat /\ t \in Nat /\ Aligned(t) /\ a + n <= t
      /\ t < (a + n) + PAGESIZE
  BY RoundUpIs
<1>3. a + r \in Nat /\ Aligned(a + r)
  BY <1>1, AlignedSum
<1>4. PAGESIZE \in Nat
  BY LayoutAssumption
<1>5. a + r < t => (a + r) + PAGESIZE <= t
  BY <1>2, <1>3, AlignedApart
<1>6. t < a + r => t + PAGESIZE <= a + r
  BY <1>2, <1>3, AlignedApart
<1> HIDE DEF r, t
<1>7. ~(a + r < t) /\ ~(t < a + r)
  BY <1>1, <1>2, <1>4, <1>5, <1>6
<1>8. t = a + r
  BY <1>1, <1>2, <1>7
<1> QED  BY <1>8 DEF r, t

LEMMA PageIs ==
  ASSUME NEW p \in Page
  PROVE  /\ p \in Nat /\ p * PAGESIZE \in Nat /\ Aligned(p * PAGESIZE)
         /\ p * PAGESIZE < KernelStart
<1>1. PAGESIZE \in Nat \ {0} /\ KernelStart \in Nat
  BY LayoutAssumption
<1> DEFINE q == KernelStart \div PAGESIZE
           m == KernelStart % PAGESIZE
<1>2. q \in Nat /\ m \in 0 .. PAGESIZE - 1 /\ KernelStart = q * PAGESIZE + m
  BY <1>1, Quotient
<1>3. p \in Nat /\ p < q
  BY <1>2 DEF Page
<1> HIDE DEF q, m
<1>4. /\ p * PAGESIZE \in Nat /\ q * PAGESIZE \in Nat
      /\ p * PAGESIZE + PAGESIZE <= q * PAGESIZE
  BY <1>1, <1>2, <1>3, Multiples
<1>5. Aligned(p * PAGESIZE)
  BY <1>3, <1>4, AlignedIs
<1>6. p * PAGESIZE < KernelStart
  <2> DEFINE a == p * PAGESIZE
             b == q * PAGESIZE
  <2>1. a \in Nat /\ b \in Nat /\ a + PAGESIZE <= b /\ KernelStart = b + m
    BY <1>2, <1>4
  <2> HIDE DEF a, b
  <2>2. a < KernelStart
    BY <1>1, <1>2, <2>1
  <2> QED  BY <2>2 DEF a
<1> QED  BY <1>3, <1>4, <1>5, <1>6

(***************************************************************************)
(* The least of a set of numbers, and the first place in a list where      *)
(* something holds.                                                        *)
(***************************************************************************)
LEMMA MinIs ==
  ASSUME NEW S \in SUBSET Nat, S # {}
  PROVE  Min(S) \in S /\ \A n \in S : Min(S) <= n
<1>1. IsWellFoundedOn(OpToRel(<, Nat), Nat)
  BY NatLessThanWellFounded
<1>2. PICK m \in S : \A n \in S : ~(<<n, m>> \in OpToRel(<, Nat))
  BY <1>1, WFMin
<1>3. \A n \in S : n < m => <<n, m>> \in OpToRel(<, Nat)
  BY DEF OpToRel
<1>4. \A n \in S : ~(n < m)
  BY <1>2, <1>3, Zenon
<1>5. \A n \in S : m <= n
  BY <1>4
<1> QED  BY <1>5 DEF Min

-----------------------------------------------------------------------------
(***************************************************************************)
(* Lists with one element more, or one less.                               *)
(***************************************************************************)
Inserted(t, l, at, v) ==
  /\ t \in Seq(Region) /\ Len(t) = Len(l) + 1
  /\ at \in 1 .. Len(l) + 1
  /\ \A k \in 1 .. Len(l) + 1 :
       t[k] = IF k < at THEN l[k] ELSE IF k = at THEN v ELSE l[k - 1]

Removed(t, l, at) ==
  /\ t \in Seq(Region) /\ Len(t) = Len(l) - 1
  /\ \A k \in 1 .. Len(l) - 1 : t[k] = IF k < at THEN l[k] ELSE l[k + 1]

Joined(t, a, b, m, n) ==
  /\ t \in Seq(Region) /\ Len(t) = m + n
  /\ \A k \in 1 .. m : t[k] = a[k]
  /\ \A k \in 1 .. n : t[m + k] = b[k]

LEMMA JoinedIs ==
  ASSUME NEW a \in Seq(Region), NEW b \in Seq(Region), NEW m, NEW n,
         Len(a) = m, Len(b) = n
  PROVE  Joined(a \o b, a, b, m, n)
<1> DEFINE t == a \o b
<1>1. /\ t \in Seq(Region) /\ Len(t) = Len(a) + Len(b)
      /\ \A k \in 1 .. Len(a) + Len(b) :
           t[k] = IF k <= Len(a) THEN a[k] ELSE b[k - Len(a)]
  BY ConcatProperties
<1>2. m \in Nat /\ n \in Nat
  OBVIOUS
<1> HIDE DEF t
<1>3. ASSUME NEW k \in 1 .. m PROVE t[k] = a[k]
  BY <1>1, <1>2
<1>4. ASSUME NEW k \in 1 .. n PROVE t[m + k] = b[k]
  <2>1. m + k \in 1 .. m + n /\ ~(m + k <= m) /\ (m + k) - m = k
    BY <1>2
  <2> QED  BY <1>1, <2>1
<1>5. Joined(t, a, b, m, n)
  BY <1>1, <1>3, <1>4 DEF Joined
<1> QED  BY <1>5 DEF t

LEMMA PrefixIs ==
  ASSUME NEW l \in Seq(Region), NEW i \in 0 .. Len(l)
  PROVE  /\ SubSeq(l, 1, i) \in Seq(Region) /\ Len(SubSeq(l, 1, i)) = i
         /\ \A k \in 1 .. i : SubSeq(l, 1, i)[k] = l[k]
<1>1. Len(l) \in Nat /\ i \in Int /\ 1 \in Int
  OBVIOUS
<1>2. \A k \in 1 .. i : l[k] \in Region
  OBVIOUS
<1> DEFINE a == SubSeq(l, 1, i)
<1>3. /\ a \in Seq(Region) /\ Len(a) = IF 1 <= i THEN i - 1 + 1 ELSE 0
      /\ \A k \in 1 .. i - 1 + 1 : a[k] = l[1 + k - 1]
  BY <1>1, <1>2, SubSeqProperties
<1> HIDE DEF a
<1>4. a \in Seq(Region) /\ Len(a) = i /\ \A k \in 1 .. i : a[k] = l[k]
  BY <1>1, <1>3
<1> QED  BY <1>4 DEF a

LEMMA SuffixIs ==
  ASSUME NEW l \in Seq(Region), NEW i \in 0 .. Len(l)
  PROVE  /\ SubSeq(l, i + 1, Len(l)) \in Seq(Region)
         /\ Len(SubSeq(l, i + 1, Len(l))) = Len(l) - i
         /\ \A k \in 1 .. Len(l) - i : SubSeq(l, i + 1, Len(l))[k] = l[i + k]
<1> DEFINE n == Len(l)
           b == SubSeq(l, i + 1, n)
<1>1. n \in Nat /\ n \in Int /\ i \in Int /\ i + 1 \in Int /\ i \in 0 .. n
  OBVIOUS
<1>2. \A k \in i + 1 .. n : l[k] \in Region
  OBVIOUS
<1>3. /\ b \in Seq(Region) /\ Len(b) = IF i + 1 <= n THEN n - (i + 1) + 1 ELSE 0
      /\ \A k \in 1 .. n - (i + 1) + 1 : b[k] = l[i + 1 + k - 1]
  BY <1>1, <1>2, SubSeqProperties
<1> HIDE DEF b, n
<1>4. b \in Seq(Region) /\ Len(b) = n - i
  BY <1>1, <1>3
<1>5. ASSUME NEW k \in 1 .. n - i PROVE b[k] = l[i + k]
  <2>1. k \in 1 .. n - (i + 1) + 1 /\ i + 1 + k - 1 = i + k
    BY <1>1
  <2> QED  BY <1>3, <2>1
<1> QED  BY <1>4, <1>5 DEF b, n

LEMMA InsertAtIs ==
  ASSUME NEW l \in Seq(Region), NEW v \in Region, NEW at \in 1 .. Len(l)
  PROVE  Inserted(InsertAt(l, at, v), l, at, v)
<1> DEFINE n == Len(l)
           i == at - 1
           a == SubSeq(l, 1, i)
           b == SubSeq(l, i + 1, n)
           o == <<v>>
           c == a \o o
           t == c \o b
<1>1. n \in Nat /\ i \in 0 .. n /\ at = i + 1 /\ at \in 1 .. n
  OBVIOUS
<1>2. /\ a \in Seq(Region) /\ Len(a) = i /\ \A k \in 1 .. i : a[k] = l[k]
  BY <1>1, PrefixIs
<1>3. /\ b \in Seq(Region) /\ Len(b) = n - i
      /\ \A k \in 1 .. n - i : b[k] = l[i + k]
  BY <1>1, SuffixIs
<1>4. o \in Seq(Region) /\ Len(o) = 1 /\ o[1] = v
  OBVIOUS
<1>5. t = InsertAt(l, at, v)
  BY <1>1 DEF InsertAt
<1> HIDE DEF a, b, o, n, i
<1>6. Joined(c, a, o, i, 1)
  BY <1>2, <1>4, JoinedIs
<1> HIDE DEF c
<1>7. c \in Seq(Region) /\ Len(c) = i + 1
  BY <1>6 DEF Joined
<1>8. Joined(t, c, b, i + 1, n - i)
  BY <1>3, <1>7, JoinedIs
<1> HIDE DEF t
<1>9. /\ t \in Seq(Region) /\ Len(t) = n + 1
      /\ \A k \in 1 .. i + 1 : t[k] = c[k]
      /\ \A k \in 1 .. n - i : t[i + 1 + k] = b[k]
  BY <1>1, <1>8 DEF Joined
<1>10. (\A k \in 1 .. i : c[k] = a[k]) /\ c[i + 1] = v
  BY <1>4, <1>6 DEF Joined
<1>11. ASSUME NEW k \in 1 .. n + 1
       PROVE  t[k] = IF k < at THEN l[k] ELSE IF k = at THEN v ELSE l[k - 1]
  <2>1. CASE k <= at
    BY <1>1, <1>2, <1>9, <1>10, <2>1
  <2>2. CASE ~(k <= at)
    <3>1. PICK j \in 1 .. n - i : k = i + 1 + j
      <4>1. k - at \in 1 .. n - i /\ k = i + 1 + (k - at)
        BY <1>1, <2>2
      <4> QED  BY <4>1
    <3>2. t[k] = l[i + j]
      BY <1>3, <1>9, <3>1
    <3>3. i + j = k - 1
      BY <1>1, <3>1
    <3> QED  BY <1>1, <2>2, <3>2, <3>3
  <2> QED  BY <2>1, <2>2
<1>12. Len(t) = n + 1 /\ at \in 1 .. n + 1 /\ t \in Seq(Region)
  BY <1>1, <1>9
<1> QED  BY <1>5, <1>11, <1>12 DEF Inserted, n

LEMMA AppendIs ==
  ASSUME NEW l \in Seq(Region), NEW v \in Region
  PROVE  Inserted(Append(l, v), l, Len(l) + 1, v)
<1> DEFINE n == Len(l)
           t == Append(l, v)
<1>1. /\ n \in Nat /\ t \in Seq(Region) /\ Len(t) = n + 1 /\ t[n + 1] = v
      /\ \A k \in 1 .. n : t[k] = l[k]
  BY AppendProperties
<1> HIDE DEF n, t
<1>2. \A k \in 1 .. n + 1 :
        t[k] = IF k < n + 1 THEN l[k] ELSE IF k = n + 1 THEN v ELSE l[k - 1]
  BY <1>1
<1>3. n + 1 \in 1 .. n + 1
  BY <1>1
<1> QED  BY <1>1, <1>2, <1>3 DEF Inserted, n, t

LEMMA RemoveAtIs ==
  ASSUME NEW l \in Seq(Region), NEW at \in 1 .. Len(l)
  PROVE  Removed(RemoveAt(l, at), l, at)
<1> DEFINE n == Len(l)
           i == at - 1
           a == SubSeq(l, 1, i)
           b == SubSeq(l, at + 1, n)
           t == a \o b
<1>1. n \in Nat /\ i \in 0 .. n /\ at = i + 1 /\ at \in 1 .. n /\ at \in 0 .. n
  OBVIOUS
<1>2. /\ a \in Seq(Region) /\ Len(a) = i /\ \A k \in 1 .. i : a[k] = l[k]
  BY <1>1, PrefixIs
<1>3. /\ b \in Seq(Region) /\ Len(b) = n - at
      /\ \A k \in 1 .. n - at : b[k] = l[at + k]
  BY <1>1, SuffixIs
<1>4. t = RemoveAt(l, at)
  BY DEF RemoveAt
<1> HIDE DEF a, b, n, i
<1>5. Joined(t, a, b, i, n - at)
  BY <1>2, <1>3, JoinedIs
<1> HIDE DEF t
<1>6. /\ t \in Seq(Region) /\ Len(t) = n - 1
      /\ \A k \in 1 .. i : t[k] = a[k]
      /\ \A k \in 1 .. n - at : t[i + k] = b[k]
  BY <1>1, <1>5 DEF Joined
<1>7. ASSUME NEW k \in 1 .. n - 1
      PROVE  t[k] = IF k < at THEN l[k] ELSE l[k + 1]
  <2>1. CASE k < at
    BY <1>1, <1>2, <1>6, <2>1
  <2>2. CASE ~(k < at)
    <3>1. PICK j \in 1 .. n - at : k = i + j
      <4>1. k - i \in 1 .. n - at /\ k = i + (k - i)
        BY <1>1, <2>2
      <4> QED  BY <4>1
    <3>2. t[k] = l[at + j]
      BY <1>3, <1>6, <3>1
    <3>3. at + j = k + 1
      BY <1>1, <3>1
    <3> QED  BY <1>1, <2>2, <3>2, <3>3
  <2> QED  BY <2>1, <2>2
<1> QED  BY <1>4, <1>6, <1>7 DEF Removed, n

(***************************************************************************)
(* The first place of a list where something holds, as SelectInSeq finds   *)
(* it: at = 0 if there is none.                                            *)
(***************************************************************************)
First(at, n, S) ==
  /\ at \in 0 .. n
  /\ at = 0 => S = {}
  /\ at # 0 => at \in S /\ \A k \in 1 .. at - 1 : k \notin S

LEMMA FirstIs ==
  ASSUME NEW n \in Nat, NEW S \in SUBSET (1 .. n), NEW at,
         at = IF S # {} THEN Min(S) ELSE 0
  PROVE  First(at, n, S)
<1>1. CASE S = {}
  BY <1>1 DEF First
<1>2. CASE S # {}
  <2>1. S \in SUBSET Nat
    OBVIOUS
  <2>2. at \in S /\ \A k \in S : at <= k
    BY <1>2, <2>1, MinIs
  <2> QED  BY <1>2, <2>2 DEF First
<1> QED  BY <1>1, <1>2

LEMMA PlaceIs ==
  ASSUME NEW l \in Seq(Region), NEW s, NEW e, NEW v
  PROVE  First(Place(l, s, e, v), Len(l),
               {k \in 1 .. Len(l) : e[v] <= s[l[k]] \/ s[v] < e[l[k]]})
<1> DEFINE S == {k \in 1 .. Len(l) : e[v] <= s[l[k]] \/ s[v] < e[l[k]]}
<1>1. Place(l, s, e, v) = IF S # {} THEN Min(S) ELSE 0
  BY DEF Place, SelectInSeq
<1>2. Len(l) \in Nat /\ S \in SUBSET (1 .. Len(l))
  OBVIOUS
<1> QED  BY <1>1, <1>2, FirstIs

LEMMA PositionIs ==
  ASSUME list \in Seq(Region), NEW v
  PROVE  First(Position(v), Len(list), {k \in 1 .. Len(list) : list[k] = v})
<1> DEFINE S == {k \in 1 .. Len(list) : list[k] = v}
<1>1. Position(v) = IF S # {} THEN Min(S) ELSE 0
  BY DEF Position, SelectInSeq
<1>2. Len(list) \in Nat /\ S \in SUBSET (1 .. Len(list))
  OBVIOUS
<1> QED  BY <1>1, <1>2, FirstIs

Reaches(a) == {k \in 1 .. Len(list) : a < start[list[k]] \/ a < end[list[k]]}

LEMMA SearchIs ==
  ASSUME list \in Seq(Region), NEW a
  PROVE  \E at : /\ First(at, Len(list), Reaches(a))
                 /\ Search(a) = IF at # 0 /\ start[list[at]] <= a THEN list[at] ELSE Nil
<1> DEFINE S == {k \in 1 .. Len(list) : a < start[list[k]] \/ a < end[list[k]]}
           at == SelectInSeq(list, LAMBDA v : a < start[v] \/ a < end[v])
<1>1. at = IF S # {} THEN Min(S) ELSE 0
  BY DEF SelectInSeq
<1>2. Len(list) \in Nat /\ S \in SUBSET (1 .. Len(list))
  OBVIOUS
<1>3. Search(a) = IF at # 0 /\ start[list[at]] <= a THEN list[at] ELSE Nil
  BY DEF Search
<1> HIDE DEF at
<1>4. First(at, Len(list), Reaches(a))
  BY <1>1, <1>2, FirstIs DEF Reaches
<1> QED  BY <1>3, <1>4

-----------------------------------------------------------------------------
(***************************************************************************)
(* The invariant.  Bounds lie on pages; the heap is region 2 from execve   *)
(* to the fork that drops it; the list is in the order of the addresses,   *)
(* with the kernel's region at its end, and no region reaches into a later *)
(* one but a heap whose break went astray.                                 *)
(***************************************************************************)
Listed == {v \in Region : kind[v] # "free"}

Bounds(v) ==
  /\ Aligned(start[v]) /\ Aligned(end[v])
  /\ start[v] <= end[v] /\ Lowest <= end[v]
  /\ kind[v] \in Mapping => Lowest <= start[v]
  /\ kind[v] = "kernel" => start[v] = KernelStart

BoundsInv == \A v \in Listed : Bounds(v)

HeapInv ==
  /\ kind[2] \in {"heap", "program"} /\ start[2] = HeapStart
  /\ Heap \in {Nil, 2} /\ \A v \in Region : kind[v] = "heap" <=> v = Heap
  /\ Heap # Nil /\ ~astray => start[2] + BreakPointLength <= end[2]
  /\ Heap # Nil => told <= end[2]

Before(u, v) ==
  /\ start[u] <= start[v]
  /\ end[u] <= start[v] \/ (astray /\ u = 2)

OrderInv ==
  /\ Len(list) > 0
  /\ \A k \in 1 .. Len(list) : kind[list[k]] = "kernel" <=> k = Len(list)
  /\ \A j, k \in 1 .. Len(list) : j < k => Before(list[j], list[k])
  /\ halted = "overlap" => astray

CacheInv == VmrCache # Nil => VmrCache \in Listed

VmInv == TypeOK /\ BoundsInv /\ HeapInv /\ OrderInv /\ CacheInv /\ NothingLost

(***************************************************************************)
(* The numbers the layout and the requests are made of.                    *)
(***************************************************************************)
LEMMA Layout ==
  /\ PAGESIZE \in Nat /\ PAGESIZE > 0 /\ Lowest \in Nat /\ Lowest > 0
  /\ HeapStart \in Nat /\ MmapStart \in Nat /\ MmapEnd \in Nat /\ KernelStart \in Nat
  /\ Aligned(Lowest) /\ Aligned(HeapStart) /\ Aligned(MmapStart) /\ Aligned(MmapEnd)
  /\ Aligned(KernelStart) /\ Aligned(PAGESIZE)
  /\ Lowest <= HeapStart /\ HeapStart + PAGESIZE <= MmapStart
  /\ MmapStart + PAGESIZE <= MmapEnd /\ MmapEnd < KernelStart
  /\ MaxRegions \in Nat /\ MaxRegions >= 5 /\ 2 \in Region /\ Nil \notin Region
<1>1. /\ PAGESIZE \in Nat /\ PAGESIZE > 0
      /\ \A a \in {Lowest, ProgramStart, HeapStart, MmapStart, MmapEnd, StackStart,
                   StackEnd, KernelStart, KernelEnd} : a \in Nat /\ Aligned(a)
      /\ 0 < Lowest /\ Lowest <= HeapStart
      /\ HeapStart + PAGESIZE <= MmapStart
      /\ MmapStart + PAGESIZE <= MmapEnd /\ MmapEnd <= StackStart
      /\ StackStart < StackEnd /\ StackEnd <= KernelStart
  BY LayoutAssumption
<1>2. MmapEnd < KernelStart
  BY <1>1
<1>3. Aligned(PAGESIZE)
  <2>1. PAGESIZE = 1 * PAGESIZE
    BY <1>1
  <2> QED  BY <1>1, <2>1, AlignedIs
<1>4. MaxRegions \in Nat /\ MaxRegions >= 5
  BY BoundAssumption
<1>5. 2 \in Region /\ Nil \notin Region
  BY <1>4 DEF Region, Nil
<1> QED  BY <1>1, <1>2, <1>3, <1>4, <1>5

LEMMA ListIs ==
  ASSUME TypeOK
  PROVE  /\ list \in Seq(Region) /\ Len(list) \in Nat
         /\ \A k \in 1 .. Len(list) : list[k] \in Listed
         /\ \A v \in Listed : \E k \in 1 .. Len(list) : list[k] = v
         /\ \A j, k \in 1 .. Len(list) : list[j] = list[k] => j = k
         /\ ToSet(list) = Listed
<1>1. list \in Seq(Region) /\ ToSet(list) = Listed /\ IsInjective(list)
  BY DEF TypeOK, Listed
<1>2. Len(list) \in Nat /\ DOMAIN list = 1 .. Len(list)
  BY <1>1
<1>3. \A k \in 1 .. Len(list) : list[k] \in ToSet(list)
  BY <1>2 DEF ToSet
<1>4. \A v \in ToSet(list) : \E k \in 1 .. Len(list) : list[k] = v
  BY <1>2 DEF ToSet
<1>5. \A j, k \in 1 .. Len(list) : list[j] = list[k] => j = k
  BY <1>1, <1>2 DEF IsInjective
<1> QED  BY <1>1, <1>2, <1>3, <1>4, <1>5

LEMMA ListNext ==
  ASSUME NEW l \in Seq(Region), NEW S,
         \A k \in 1 .. Len(l) : l[k] \in S,
         \A v \in S : \E k \in 1 .. Len(l) : l[k] = v,
         \A j, k \in 1 .. Len(l) : l[j] = l[k] => j = k
  PROVE  ToSet(l) = S /\ IsInjective(l)
<1>1. DOMAIN l = 1 .. Len(l)
  OBVIOUS
<1> QED  BY <1>1 DEF ToSet, IsInjective

LEMMA Types ==
  ASSUME TypeOK
  PROVE  /\ start \in [Region -> Nat] /\ end \in [Region -> Nat]
         /\ kind \in [Region -> Kind] /\ list \in Seq(Region)
         /\ VmrCache \in Region \cup {Nil} /\ VmrCount = Len(list)
         /\ Heap \in Region \cup {Nil} /\ BreakPointLength \in Nat
         /\ pt \in [Page -> {"none", "zero", "data"}]
         /\ halted \in {"no", "overlap", "unaligned", "empty", "copy"}
         /\ written \subseteq Page /\ told \in Nat /\ astray \in BOOLEAN
         /\ forks \in 0 .. MaxForks
BY DEF TypeOK

LEMMA VmParts ==
  ASSUME VmInv
  PROVE  TypeOK /\ BoundsInv /\ HeapInv /\ OrderInv /\ CacheInv /\ NothingLost
BY DEF VmInv

(***************************************************************************)
(* The kernel's region is the last one, and no other can be behind it.     *)
(***************************************************************************)
LEMMA KernelIsLast ==
  ASSUME VmInv
  PROVE  /\ Len(list) \in Nat /\ Len(list) >= 1 /\ Len(list) \in 1 .. Len(list)
         /\ list[Len(list)] \in Listed
         /\ start[list[Len(list)]] = KernelStart
         /\ end[list[Len(list)]] >= KernelStart
         /\ kind[list[Len(list)]] = "kernel"
<1> DEFINE n == Len(list)
           v == list[n]
<1>1. n \in Nat /\ n > 0 /\ n \in 1 .. n
  BY VmParts, ListIs DEF OrderInv
<1>2. v \in Listed
  BY <1>1, VmParts, ListIs
<1>3. kind[v] = "kernel"
  BY <1>1, VmParts DEF OrderInv
<1>4. start[v] = KernelStart /\ start[v] <= end[v]
  BY <1>2, <1>3, VmParts DEF BoundsInv, Bounds
<1>5. start[v] \in Nat /\ end[v] \in Nat
  BY <1>2, VmParts, Types DEF Listed
<1> HIDE DEF n, v
<1>6. end[v] >= KernelStart /\ n >= 1
  BY <1>1, <1>4, <1>5
<1> QED  BY <1>1, <1>2, <1>3, <1>4, <1>6 DEF n, v

(***************************************************************************)
(* FindVMR gives a region of the list that the address is in.              *)
(***************************************************************************)
LEMMA FindIs ==
  ASSUME VmInv, NEW a \in Nat, FindVMR(a) # Nil
  PROVE  /\ FindVMR(a) \in Listed /\ FindVMR(a) \in Region /\ CacheAfter(a) = FindVMR(a)
         /\ start[FindVMR(a)] <= a /\ a < end[FindVMR(a)]
<1>1. CASE VmrCache # Nil /\ In(VmrCache, a)
  BY <1>1, VmParts DEF FindVMR, CacheInv, In, CacheAfter, Listed
<1>2. CASE ~(VmrCache # Nil /\ In(VmrCache, a))
  <2>1. FindVMR(a) = Search(a)
    BY <1>2 DEF FindVMR
  <2>2. /\ list \in Seq(Region)
        /\ \A k \in 1 .. Len(list) : list[k] \in Listed
    BY VmParts, ListIs
  <2>3. PICK at : /\ First(at, Len(list), Reaches(a))
                  /\ Search(a) = IF at # 0 /\ start[list[at]] <= a THEN list[at] ELSE Nil
    BY <2>2, SearchIs
  <2>4. at # 0 /\ start[list[at]] <= a /\ FindVMR(a) = list[at]
    BY <2>1, <2>3
  <2>5. at \in 1 .. Len(list) /\ (a < start[list[at]] \/ a < end[list[at]])
    BY <2>3, <2>4 DEF First, Reaches
  <2> DEFINE v == list[at]
  <2>6. v \in Listed /\ v \in Region
    BY <2>2, <2>5 DEF Listed
  <2>7. start[v] \in Nat /\ end[v] \in Nat
    BY <2>6, VmParts, Types
  <2> HIDE DEF v
  <2>8. start[v] <= a /\ a < end[v] /\ FindVMR(a) = v
    BY <2>4, <2>5, <2>7 DEF v
  <2> QED  BY <2>6, <2>8 DEF CacheAfter
<1> QED  BY <1>1, <1>2

-----------------------------------------------------------------------------
(***************************************************************************)
(* What the invariant says.                                                *)
(***************************************************************************)
LEMMA OrderIs ==
  ASSUME VmInv, NEW j \in 1 .. Len(list), NEW k \in 1 .. Len(list), j < k
  PROVE  /\ start[list[j]] <= start[list[k]]
         /\ end[list[j]] <= start[list[k]] \/ (astray /\ list[j] = 2)
BY VmParts DEF OrderInv, Before

LEMMA ElementIs ==
  ASSUME VmInv, NEW k \in 1 .. Len(list)
  PROVE  /\ list[k] \in Region /\ list[k] \in Listed
         /\ start[list[k]] \in Nat /\ end[list[k]] \in Nat
         /\ start[list[k]] <= end[list[k]] /\ Lowest <= end[list[k]]
         /\ Aligned(start[list[k]]) /\ Aligned(end[list[k]])
<1>1. list[k] \in Listed
  BY VmParts, ListIs
<1>2. list[k] \in Region
  BY <1>1 DEF Listed
<1>3. start[list[k]] \in Nat /\ end[list[k]] \in Nat
  BY <1>2, VmParts, Types
<1>4. Bounds(list[k])
  BY <1>1, VmParts DEF BoundsInv
<1> QED  BY <1>1, <1>2, <1>3, <1>4 DEF Bounds

LEMMA DisjointIs ==
  ASSUME VmInv
  PROVE  RegionsDisjoint
<1>1. DOMAIN list = 1 .. Len(list)
  BY VmParts, ListIs
<1>2. ASSUME NEW i \in 1 .. Len(list), NEW j \in 1 .. Len(list), i < j,
             end[list[i]] > start[list[j]]
      PROVE  astray /\ list[i] = 2
  <2>1. end[list[i]] \in Nat /\ start[list[j]] \in Nat
    BY ElementIs
  <2> QED  BY <1>2, <2>1, OrderIs
<1>3. halted = "overlap" => astray
  BY VmParts DEF OrderInv
<1> QED  BY <1>1, <1>2, <1>3 DEF RegionsDisjoint

LEMMA CacheIsTrue ==
  ASSUME VmInv
  PROVE  CacheTransparent
<1>1. VmrCache # Nil => VmrCache \in ToSet(list)
  BY VmParts, ListIs DEF CacheInv
<1>2. ASSUME ~astray, NEW p \in Page
      PROVE  FindVMR(p * PAGESIZE) = Search(p * PAGESIZE)
  <2> DEFINE a == p * PAGESIZE
  <2>1. a \in Nat
    BY PageIs
  <2> HIDE DEF a
  <2>2. CASE ~(VmrCache # Nil /\ In(VmrCache, a))
    BY <2>2 DEF FindVMR, a
  <2>3. CASE VmrCache # Nil /\ In(VmrCache, a)
    <3>1. VmrCache \in Listed
      BY <2>3, VmParts DEF CacheInv
    <3>2. PICK c \in 1 .. Len(list) : list[c] = VmrCache
      BY <3>1, VmParts, ListIs
    <3>3. list \in Seq(Region) /\ Len(list) \in Nat
      BY VmParts, ListIs
    <3>4. PICK at : /\ First(at, Len(list), Reaches(a))
                    /\ Search(a) = IF at # 0 /\ start[list[at]] <= a THEN list[at] ELSE Nil
      BY <3>3, SearchIs
    <3>5. start[list[c]] <= a /\ a < end[list[c]]
      BY <2>3, <3>2 DEF In
    <3>6. c \in Reaches(a)
      BY <3>5 DEF Reaches
    <3>7. at \in 1 .. Len(list) /\ at # 0 /\ at \in Reaches(a) /\ ~(c < at)
      <4>1. at # 0 /\ at \in 0 .. Len(list) /\ at \in Reaches(a)
            /\ \A k \in 1 .. at - 1 : k \notin Reaches(a)
        BY <3>4, <3>6 DEF First
      <4>2. c < at => c \in 1 .. at - 1
        BY <3>3, <4>1
      <4> QED  BY <3>3, <3>6, <4>1, <4>2
    <3>8. ~(at < c)
      <4> SUFFICES ASSUME at < c PROVE FALSE
        OBVIOUS
      <4>1. end[list[at]] <= start[list[c]]
        BY <1>2, <3>7, OrderIs
      <4>2. /\ start[list[at]] \in Nat /\ end[list[at]] \in Nat
            /\ start[list[at]] <= end[list[at]] /\ start[list[c]] \in Nat
        BY <3>7, ElementIs
      <4>3. a < start[list[at]] \/ a < end[list[at]]
        BY <3>7 DEF Reaches
      <4> QED  BY <2>1, <3>5, <4>1, <4>2, <4>3
    <3>9. at = c
      BY <3>3, <3>7, <3>8
    <3>10. Search(a) = VmrCache
      BY <3>2, <3>4, <3>5, <3>7, <3>9
    <3>11. FindVMR(a) = VmrCache
      BY <2>3 DEF FindVMR
    <3> QED  BY <3>10, <3>11 DEF a
  <2> QED  BY <2>2, <2>3
<1> QED  BY <1>1, <1>2 DEF CacheTransparent

-----------------------------------------------------------------------------
(***************************************************************************)
(* GetUsableVMR, for ends e that are the regions' or, for a mapping that   *)
(* MAP_FIXED cut, less.                                                    *)
(***************************************************************************)
Cut(e) ==
  /\ e \in [Region -> Nat]
  /\ \A v \in Listed : /\ Aligned(e[v]) /\ Lowest <= e[v]
                       /\ start[v] <= e[v] /\ e[v] <= end[v]

Gaps(e, from, to, long) ==
  {i \in 1 .. Len(list) - 1 :
     GapStart(e, list[i], from) + long <= Smaller(start[list[i + 1]], to)}

LEMMA UsableIs ==
  ASSUME NEW e, NEW from, NEW to, NEW length
  PROVE  GetUsableVMR(e, from, to, length) =
           IF from >= to \/ to - from < length THEN 0
           ELSE IF Greater(Lowest, RoundDown(from)) + RoundUp(length)
                     <= Smaller(start[list[1]], to)
                THEN Greater(Lowest, RoundDown(from))
           ELSE IF Gaps(e, RoundDown(from), to, RoundUp(length)) = {} THEN 0
           ELSE GapStart(e, list[Min(Gaps(e, RoundDown(from), to, RoundUp(length)))],
                         RoundDown(from))
BY DEF GetUsableVMR, Gaps

LEMMA GreaterIs ==
  ASSUME NEW a \in Nat, NEW b \in Nat
  PROVE  /\ Greater(a, b) \in {a, b} /\ Greater(a, b) >= a /\ Greater(a, b) >= b
         /\ Greater(a, b) \in Nat
BY DEF Greater

LEMMA SmallerIs ==
  ASSUME NEW a \in Nat, NEW b \in Nat, NEW c \in Nat
  PROVE  c <= Smaller(a, b) <=> c <= a /\ c <= b
BY DEF Smaller

\* the room a lies between the regions i and i + 1
Between(e, a, long, i) ==
  /\ i \in 0 .. Len(list) - 1
  /\ i # 0 => e[list[i]] <= a
  /\ a + long <= start[list[i + 1]]

LEMMA UsableLies ==
  ASSUME VmInv, NEW e, Cut(e), NEW from \in Nat, NEW length \in Nat \ {0},
         GetUsableVMR(e, from, MmapEnd, length) # 0
  PROVE  LET a == GetUsableVMR(e, from, MmapEnd, length) IN
         /\ a \in Nat /\ Aligned(a) /\ a >= RoundDown(from) /\ a >= Lowest
         /\ from + length <= MmapEnd /\ a + RoundUp(length) <= MmapEnd
         /\ \E i : Between(e, a, RoundUp(length), i)
<1> DEFINE n == Len(list)
           long == RoundUp(length)
           first == RoundDown(from)
           low == Greater(Lowest, first)
           a == GetUsableVMR(e, from, MmapEnd, length)
           S == Gaps(e, first, MmapEnd, long)
<1>0. first \in Nat /\ Aligned(first) /\ from + length <= MmapEnd
  <2>1. ~(from >= MmapEnd \/ MmapEnd - from < length)
    BY UsableIs
  <2>2. MmapEnd \in Nat
    BY Layout
  <2>3. from + length <= MmapEnd
    BY <2>1, <2>2
  <2> QED  BY <2>3, RoundDownIs
<1>1. n \in Nat /\ n >= 1 /\ 1 \in 1 .. n
  BY KernelIsLast
<1>2. long \in Nat /\ MmapEnd \in Nat
  BY RoundUpIs, Layout
<1>3. low \in Nat /\ low >= first /\ low >= Lowest /\ Aligned(low)
  BY <1>0, Layout, GreaterIs
<1>4. CASE low + long <= Smaller(start[list[1]], MmapEnd) /\ a = low
  <2>1. start[list[1]] \in Nat
    BY <1>1, ElementIs
  <2>2. low + long \in Nat
    BY <1>2, <1>3
  <2>3. low + long <= start[list[1]] /\ low + long <= MmapEnd
    BY <1>2, <1>4, <2>1, <2>2, SmallerIs
  <2>4. Between(e, a, long, 0)
    BY <1>1, <1>4, <2>3 DEF Between
  <2> QED  BY <1>0, <1>3, <1>4, <2>3, <2>4
<1>5. CASE S # {} /\ a = GapStart(e, list[Min(S)], first)
  <2> DEFINE i == Min(S)
  <2>1. S \in SUBSET Nat
    BY <1>1 DEF Gaps
  <2>2. i \in S
    BY <1>5, <2>1, MinIs
  <2> HIDE DEF i
  <2>3. i \in 1 .. n - 1 /\ GapStart(e, list[i], first) + long
                              <= Smaller(start[list[i + 1]], MmapEnd)
    BY <2>2 DEF Gaps
  <2>4. i \in 1 .. n /\ i + 1 \in 1 .. n /\ i # 0 /\ i \in 0 .. n - 1
    BY <1>1, <2>3
  <2>5. list[i] \in Listed /\ list[i] \in Region /\ start[list[i + 1]] \in Nat
    BY <2>4, ElementIs
  <2>6. e[list[i]] \in Nat /\ Aligned(e[list[i]]) /\ e[list[i]] >= Lowest
    BY <2>5 DEF Cut
  <2>7. a = Greater(e[list[i]], first)
    BY <1>5 DEF GapStart, i
  <2> HIDE DEF a
  <2>8. a \in Nat /\ Aligned(a) /\ a >= e[list[i]] /\ a >= first
    <3> DEFINE b == e[list[i]]
    <3>1. b \in Nat /\ Aligned(b) /\ a = Greater(b, first)
      BY <2>6, <2>7
    <3> HIDE DEF b
    <3>2. a \in Nat /\ Aligned(a) /\ a >= b /\ a >= first
      BY <1>0, <3>1, GreaterIs
    <3> QED  BY <3>2 DEF b
  <2>9. a + long <= start[list[i + 1]] /\ a + long <= MmapEnd
    <3>1. a + long \in Nat /\ a + long <= Smaller(start[list[i + 1]], MmapEnd)
      <4>1. GapStart(e, list[i], first) = a
        BY <2>7 DEF GapStart
      <4> QED  BY <1>2, <2>3, <2>8, <4>1
    <3> QED  BY <1>2, <2>5, <3>1, SmallerIs
  <2>10. a >= Lowest
    BY <2>6, <2>8, Layout
  <2>11. Between(e, a, long, i)
    BY <2>4, <2>8, <2>9 DEF Between
  <2> QED  BY <1>0, <2>8, <2>9, <2>10, <2>11 DEF a
<1> QED  BY <1>0, <1>4, <1>5, UsableIs

(***************************************************************************)
(* A room that no region reaches into is behind one region and before the  *)
(* next; and the other way round when the list is in order.                *)
(***************************************************************************)
LEMMA FreeIsBetween ==
  ASSUME VmInv, NEW a \in Nat, NEW long \in Nat, a + long <= KernelStart,
         \A k \in 1 .. Len(list) : a + long <= start[list[k]] \/ end[list[k]] <= a
  PROVE  \E i : Between(end, a, long, i)
<1> DEFINE n == Len(list)
           S == {k \in 1 .. n : a + long <= start[list[k]]}
           j == Min(S)
<1>1. n \in Nat /\ n >= 1 /\ n \in 1 .. n /\ start[list[n]] = KernelStart
  BY KernelIsLast
<1>2. n \in S /\ S \in SUBSET Nat
  BY <1>1
<1>3. j \in S /\ \A k \in S : j <= k
  BY <1>2, MinIs
<1> HIDE DEF j
<1>4. j \in 1 .. n /\ a + long <= start[list[j]]
  BY <1>3
<1>5. j - 1 \in 0 .. n - 1 /\ (j - 1) + 1 = j
  BY <1>1, <1>4
<1>6. ASSUME j - 1 # 0 PROVE end[list[j - 1]] <= a
  <2>1. j - 1 \in 1 .. n /\ ~(j <= j - 1)
    BY <1>1, <1>4, <1>6
  <2>2. j - 1 \notin S
    BY <1>3, <2>1
  <2> QED  BY <2>1, <2>2
<1>7. Between(end, a, long, j - 1)
  BY <1>4, <1>5, <1>6 DEF Between
<1> QED  BY <1>7

LEMMA BetweenIsFree ==
  ASSUME VmInv, ~astray, NEW e, Cut(e), NEW a \in Nat, NEW long \in Nat, NEW i,
         Between(e, a, long, i), NEW k \in 1 .. Len(list)
  PROVE  /\ k <= i => e[list[k]] <= a
         /\ i < k => a + long <= start[list[k]]
<1> DEFINE n == Len(list)
<1>1. n \in Nat /\ i \in 0 .. n - 1
  BY KernelIsLast DEF Between
<1>2. list[k] \in Listed /\ start[list[k]] \in Nat /\ end[list[k]] \in Nat
  BY ElementIs
<1>3. e[list[k]] \in Nat /\ e[list[k]] <= end[list[k]]
  BY <1>2 DEF Cut, Listed
<1>4. ASSUME k <= i PROVE e[list[k]] <= a
  <2>1. i # 0 /\ i \in 1 .. n /\ e[list[i]] <= a
    BY <1>1, <1>4 DEF Between
  <2>2. CASE k = i
    BY <2>1, <2>2
  <2>3. CASE k < i
    <3>1. end[list[k]] <= start[list[i]]
      BY <2>1, <2>3, OrderIs
    <3>2. list[i] \in Listed /\ start[list[i]] \in Nat
      BY <2>1, ElementIs
    <3>3. start[list[i]] <= e[list[i]] /\ e[list[i]] \in Nat
      BY <3>2 DEF Cut, Listed
    <3> QED  BY <1>2, <1>3, <2>1, <3>1, <3>2, <3>3
  <2> QED  BY <1>1, <1>4, <2>2, <2>3
<1>5. ASSUME i < k PROVE a + long <= start[list[k]]
  <2>1. i + 1 \in 1 .. n /\ i + 1 <= k /\ a + long <= start[list[i + 1]]
    BY <1>1, <1>5 DEF Between
  <2>2. CASE k = i + 1
    BY <2>1, <2>2
  <2>3. CASE i + 1 < k
    <3>1. start[list[i + 1]] <= start[list[k]]
      BY <2>1, <2>3, OrderIs
    <3>2. start[list[i + 1]] \in Nat
      BY <2>1, ElementIs
    <3> QED  BY <1>2, <2>1, <3>1, <3>2
  <2> QED  BY <1>1, <1>5, <2>1, <2>2, <2>3
<1> QED  BY <1>4, <1>5

LEMMA EndIsCut ==
  ASSUME VmInv
  PROVE  Cut(end)
<1>1. end \in [Region -> Nat]
  BY VmParts, Types
<1>2. \A v \in Listed : Bounds(v) /\ end[v] \in Nat
  BY <1>1, VmParts DEF BoundsInv, Listed
<1> QED  BY <1>1, <1>2 DEF Cut, Bounds

Rooms(from, length) ==
  {a \in Greater(Lowest, RoundDown(from)) .. MmapEnd - 1 :
     /\ from + length <= MmapEnd
     /\ Aligned(a) /\ RoundUp(a + length) <= MmapEnd /\ FreeRoom(a, length)}

LEMMA MinIsIt ==
  ASSUME NEW S \in SUBSET Nat, NEW m \in S, \A k \in S : m <= k
  PROVE  Min(S) = m
<1> DEFINE z == Min(S)
<1>1. z \in S /\ \A k \in S : z <= k
  BY MinIs
<1> HIDE DEF z
<1>2. z \in Nat /\ m \in Nat /\ z <= m /\ m <= z
  BY <1>1
<1>3. z = m
  BY <1>2
<1> QED  BY <1>3 DEF z

\* each room lies behind the lowest address, or in a gap that is long enough
LEMMA RoomLies ==
  ASSUME VmInv, NEW from \in Nat, NEW length \in Nat, NEW a \in Rooms(from, length)
  PROVE  /\ a \in Nat /\ a >= RoundDown(from) /\ a >= Lowest
         /\ from + length <= MmapEnd /\ a + RoundUp(length) <= MmapEnd
         /\ \E i : Between(end, a, RoundUp(length), i)
<1> DEFINE long == RoundUp(length)
           first == RoundDown(from)
<1>0. first \in Nat /\ from + length <= MmapEnd
  BY RoundDownIs DEF Rooms
<1>1. Greater(Lowest, first) \in Nat /\ Greater(Lowest, first) >= Lowest
      /\ Greater(Lowest, first) >= first /\ Lowest \in Nat /\ MmapEnd \in Nat
      /\ MmapEnd < KernelStart /\ KernelStart \in Nat
  BY <1>0, Layout, GreaterIs
<1>2. a \in Nat /\ a >= first /\ a >= Lowest /\ Aligned(a)
  BY <1>0, <1>1 DEF Rooms
<1>3. RoundUp(a + length) = a + long /\ long \in Nat
  BY <1>2, RoundUpSum, RoundUpIs
<1>4. a + long <= MmapEnd
  BY <1>3 DEF Rooms
<1>5. \A v \in ToSet(list) : a + long <= start[v] \/ end[v] <= a
  BY <1>3 DEF Rooms, FreeRoom
<1>6. ToSet(list) = Listed
  BY VmParts, ListIs
<1>7. \A k \in 1 .. Len(list) : a + long <= start[list[k]] \/ end[list[k]] <= a
  BY <1>5, <1>6, ElementIs
<1>8. a + long <= KernelStart
  BY <1>1, <1>2, <1>3, <1>4
<1>9. \E i : Between(end, a, long, i)
  BY <1>2, <1>3, <1>7, <1>8, FreeIsBetween
<1> QED  BY <1>0, <1>2, <1>4, <1>9

LEMMA LiesIsRoom ==
  ASSUME VmInv, ~astray, NEW from \in Nat, NEW length \in Nat \ {0}, NEW a \in Nat,
         from + length <= MmapEnd, a >= RoundDown(from), a >= Lowest, Aligned(a), a + RoundUp(length) <= MmapEnd,
         NEW i, Between(end, a, RoundUp(length), i)
  PROVE  a \in Rooms(from, length)
<1> DEFINE long == RoundUp(length)
           first == RoundDown(from)
<1>0. first \in Nat
  BY RoundDownIs
<1>1. RoundUp(a + length) = a + long /\ long \in Nat /\ long >= length
  BY RoundUpSum, RoundUpIs
<1>2. Lowest \in Nat /\ MmapEnd \in Nat
  BY Layout
<1>3. a \in Greater(Lowest, first) .. MmapEnd - 1
  <2>1. Greater(Lowest, first) \in {Lowest, first}
    BY <1>0, <1>2, GreaterIs
  <2> QED  BY <1>0, <1>1, <1>2, <2>1
<1>4. i \in Int /\ Cut(end)
  BY KernelIsLast, EndIsCut DEF Between
<1>5. ASSUME NEW v \in ToSet(list) PROVE a + long <= start[v] \/ end[v] <= a
  <2>1. PICK k \in 1 .. Len(list) : list[k] = v
    BY VmParts, ListIs
  <2>2. k <= i \/ i < k
    BY <1>4
  <2> QED  BY <1>1, <1>4, <2>1, <2>2, BetweenIsFree
<1>6. FreeRoom(a, length)
  BY <1>1, <1>5 DEF FreeRoom
<1> QED  BY <1>1, <1>3, <1>6 DEF Rooms

LEMMA RoomFoundIs ==
  ASSUME VmInv
  PROVE  RoomIsFound
<1> SUFFICES ASSUME ~astray, NEW from \in Hints \cup {MmapStart}, NEW length \in Lengths
             PROVE  GetUsableVMR(end, from, MmapEnd, length)
                      = IF Rooms(from, length) = {} THEN 0 ELSE Min(Rooms(from, length))
  BY DEF RoomIsFound, Rooms
<1> DEFINE n == Len(list)
           long == RoundUp(length)
           R == Rooms(from, length)
           first == RoundDown(from)
           low == Greater(Lowest, first)
           S == Gaps(end, first, MmapEnd, long)
           x == GetUsableVMR(end, from, MmapEnd, length)
<1>1. from \in Nat /\ length \in Nat /\ length > 0 /\ first \in Nat
  BY Layout, RequestAssumption, RoundDownIs
<1>2. n \in Nat /\ n >= 1 /\ 1 \in 1 .. n
  BY KernelIsLast
<1>3. long \in Nat /\ long >= length /\ MmapEnd \in Nat /\ Lowest \in Nat /\ Lowest > 0
  BY <1>1, RoundUpIs, Layout
<1>4. low \in Nat /\ low >= first /\ low >= Lowest /\ low \in {Lowest, first}
  BY <1>1, <1>3, GreaterIs
<1>5. R \in SUBSET Nat
  BY <1>1, RoomLies
<1>6. Cut(end)
  BY EndIsCut
<1>7. x # 0 => x \in R
  <2> SUFFICES ASSUME x # 0 PROVE x \in R
    OBVIOUS
  <2>1. /\ x \in Nat /\ Aligned(x) /\ x >= first /\ x >= Lowest
        /\ from + length <= MmapEnd /\ x + long <= MmapEnd
        /\ \E i : Between(end, x, long, i)
    BY <1>1, <1>6, UsableLies
  <2> HIDE DEF x
  <2> QED  BY <1>1, <2>1, LiesIsRoom
<1>8. ASSUME NEW a \in R PROVE x # 0 /\ x <= a
  <2>1. a \in Nat /\ a >= first /\ a >= Lowest /\ a + long <= MmapEnd
        /\ from + length <= MmapEnd
    BY <1>1, RoomLies
  <2>2. PICK i : Between(end, a, long, i)
    BY <1>1, RoomLies
  <2>3. ~(from >= MmapEnd \/ MmapEnd - from < length)
    BY <1>1, <1>3, <2>1
  <2>4. low <= a
    BY <1>4, <2>1
  <2>5. CASE i = 0
    <3>1. a + long <= start[list[1]]
      BY <2>2, <2>5 DEF Between
    <3>2. start[list[1]] \in Nat
      BY <1>2, ElementIs
    <3>3. low + long \in Nat /\ low + long <= start[list[1]] /\ low + long <= MmapEnd
      BY <1>3, <1>4, <2>1, <2>4, <3>1, <3>2
    <3>4. low + long <= Smaller(start[list[1]], MmapEnd)
      BY <1>3, <3>2, <3>3, SmallerIs
    <3>5. x = low
      BY <2>3, <3>4, UsableIs
    <3> QED  BY <1>3, <1>4, <2>4, <3>5
  <2>6. CASE i # 0
    <3>1. i \in 1 .. n - 1 /\ i \in 1 .. n /\ i + 1 \in 1 .. n /\ end[list[i]] <= a
          /\ a + long <= start[list[i + 1]]
      BY <1>2, <2>2, <2>6 DEF Between
    <3>2. end[list[i]] \in Nat /\ start[list[i + 1]] \in Nat
      BY <3>1, ElementIs
    <3>3. GapStart(end, list[i], first) \in Nat /\ GapStart(end, list[i], first) <= a
      <4>1. GapStart(end, list[i], first) \in {end[list[i]], first}
        BY <1>1, <3>2, GreaterIs DEF GapStart
      <4> QED  BY <1>1, <2>1, <3>1, <3>2, <4>1
    <3>4. i \in S
      <4> DEFINE g == GapStart(end, list[i], first)
      <4>1. g \in Nat /\ g <= a
        BY <3>3
      <4> HIDE DEF g
      <4>2. g + long \in Nat /\ g + long <= start[list[i + 1]] /\ g + long <= MmapEnd
        BY <1>3, <2>1, <3>1, <3>2, <4>1
      <4>3. g + long <= Smaller(start[list[i + 1]], MmapEnd)
        BY <1>3, <3>2, <4>2, SmallerIs
      <4> QED  BY <3>1, <4>3 DEF Gaps, g
    <3> DEFINE m == Min(S)
    <3>5. m \in S /\ m <= i
      <4>1. S \in SUBSET Nat
        BY <1>2 DEF Gaps
      <4> QED  BY <3>4, <4>1, MinIs
    <3>6. x = low \/ x = GapStart(end, list[m], first)
      BY <2>3, <3>4, UsableIs
    <3> HIDE DEF m, x
    <3>7. m \in 1 .. n
      BY <1>2, <3>5 DEF Gaps
    <3>8. end[list[m]] \in Nat /\ end[list[m]] >= Lowest
          /\ end[list[m]] <= end[list[i]]
      <4>1. /\ end[list[m]] \in Nat /\ end[list[m]] >= Lowest
            /\ start[list[i]] \in Nat /\ start[list[i]] <= end[list[i]]
        BY <1>3, <3>1, <3>7, ElementIs
      <4>2. CASE m = i
        BY <3>2, <4>1, <4>2
      <4>3. CASE m < i
        <5>1. end[list[m]] <= start[list[i]]
          BY <3>1, <3>7, <4>3, OrderIs
        <5> QED  BY <3>2, <4>1, <5>1
      <4> QED  BY <3>1, <3>5, <3>7, <4>2, <4>3
    <3>9. /\ GapStart(end, list[m], first) \in {end[list[m]], first}
          /\ GapStart(end, list[m], first) >= end[list[m]]
      BY <1>1, <3>8, GreaterIs DEF GapStart
    <3>10. CASE x = low
      BY <1>3, <1>4, <2>4, <3>10
    <3>11. CASE x = GapStart(end, list[m], first)
      <4>1. end[list[m]] <= x /\ (x = end[list[m]] \/ x = first)
        BY <3>9, <3>11
      <4>2. end[list[m]] <= a /\ end[list[m]] # 0
        BY <1>3, <2>1, <3>1, <3>2, <3>8
      <4>3. first <= a /\ first \in Nat
        BY <1>1, <2>1
      <4> QED  BY <1>3, <3>8, <4>1, <4>2, <4>3
    <3> QED  BY <3>6, <3>10, <3>11
  <2> QED  BY <2>5, <2>6
<1> HIDE DEF x, R
<1>9. ASSUME R = {} PROVE x = 0
  BY <1>7, <1>9
<1>10. ASSUME R # {} PROVE x = Min(R)
  <2>1. x \in R /\ \A a \in R : x <= a
    BY <1>7, <1>8, <1>10
  <2>2. Min(R) = x
    BY <1>5, <2>1, MinIsIt
  <2> QED  BY <2>2
<1>11. x = IF R = {} THEN 0 ELSE Min(R)
  BY <1>9, <1>10
<1> QED  BY <1>11 DEF x, R

-----------------------------------------------------------------------------
(***************************************************************************)
(* fork copies the list as it is, unless the kernel stops.                 *)
(***************************************************************************)
LEMMA PrefixGrows ==
  ASSUME NEW l \in Seq(Region), NEW i \in 1 .. Len(l)
  PROVE  Append(SubSeq(l, 1, i - 1), l[i]) = SubSeq(l, 1, i)
<1> DEFINE a == SubSeq(l, 1, i - 1)
           b == SubSeq(l, 1, i)
           c == Append(a, l[i])
<1>1. i - 1 \in 0 .. Len(l) /\ i \in 0 .. Len(l) /\ l[i] \in Region /\ i \in Nat
  OBVIOUS
<1>2. a \in Seq(Region) /\ Len(a) = i - 1 /\ \A k \in 1 .. i - 1 : a[k] = l[k]
  BY <1>1, PrefixIs
<1>3. b \in Seq(Region) /\ Len(b) = i /\ \A k \in 1 .. i : b[k] = l[k]
  BY <1>1, PrefixIs
<1> HIDE DEF a, b
<1>4. /\ c \in Seq(Region) /\ Len(c) = Len(a) + 1 /\ c[Len(a) + 1] = l[i]
      /\ \A k \in 1 .. Len(a) : c[k] = a[k]
  BY <1>1, <1>2, AppendProperties
<1> HIDE DEF c
<1>5. Len(c) = i /\ c[i] = l[i] /\ \A k \in 1 .. i - 1 : c[k] = l[k]
  BY <1>1, <1>2, <1>4
<1>6. \A k \in 1 .. i : c[k] = b[k]
  BY <1>1, <1>3, <1>5
<1>7. c = b
  BY <1>3, <1>4, <1>5, <1>6, SeqEqual
<1> QED  BY <1>7 DEF a, b, c

CopyStep(c, v) == InsertVMR(c, IF c = <<>> THEN Nil ELSE Last(c), start, end, v)

LEMMA CopyStepIs ==
  ASSUME VmInv, ~CopyFails, NEW i \in 1 .. Len(list)
  PROVE  CopyStep(SubSeq(list, 1, i - 1), list[i]) = SubSeq(list, 1, i)
<1> DEFINE c == SubSeq(list, 1, i - 1)
           v == list[i]
           h == IF c = <<>> THEN Nil ELSE Last(c)
           at == Place(c, start, end, v)
<1>1. list \in Seq(Region) /\ i \in Nat /\ i - 1 \in 0 .. Len(list) /\ Len(list) \in Nat
  BY VmParts, ListIs
<1>2. c \in Seq(Region) /\ Len(c) = i - 1 /\ \A k \in 1 .. i - 1 : c[k] = list[k]
  BY <1>1, PrefixIs
<1>3. First(at, i - 1, {k \in 1 .. i - 1 : end[v] <= start[c[k]] \/ start[v] < end[c[k]]})
  <2>1. First(at, Len(c), {k \in 1 .. Len(c) : end[v] <= start[c[k]] \/ start[v] < end[c[k]]})
    BY <1>2, PlaceIs
  <2>2. Len(c) = i - 1
    BY <1>2
  <2> HIDE DEF c, at
  <2> QED  BY <2>1, <2>2
<1>4. CopyStep(c, v) = IF Behind(c, h, start, end, v) \/ at = 0 THEN Append(c, v)
                       ELSE InsertAt(c, at, v)
  BY DEF CopyStep, InsertVMR
<1>5. Behind(c, h, start, end, v) \/ at = 0
  <2> SUFFICES ASSUME ~Behind(c, h, start, end, v), at # 0 PROVE FALSE
    OBVIOUS
  <2>1. at \in 1 .. i - 1
    BY <1>3 DEF First
  <2>2. c # <<>> /\ i \in 2 .. Len(list)
    <3>1. i - 1 \in Nat /\ i - 1 # 0 /\ Len(c) = i - 1
      BY <1>1, <1>2, <2>1
    <3>2. i \in 2 .. Len(list)
      BY <1>1, <2>1
    <3> HIDE DEF c
    <3>3. Len(<<>>) = 0
      BY EmptySeq
    <3> QED  BY <3>1, <3>2, <3>3
  <2>3. ~Overlaps(c, Last(c), start, end, v) /\ start[v] # end[v]
    <3>1. v \in ToSet(list)
      BY VmParts, ListIs
    <3> QED  BY <2>2, <3>1 DEF CopyFails
  <2>4. h = Last(c)
    BY <2>2
  <2> HIDE DEF c, v, h, at
  <2>5. at = Place(c, start, end, v)
    BY DEF at
  <2>6. end[v] <= start[c[at]]
    BY <2>3, <2>4, <2>5 DEF Overlaps
  <2>7. c[at] = list[at] /\ at \in 1 .. Len(list) /\ at < i
    BY <1>1, <1>2, <2>1
  <2>8. start[list[at]] <= start[v]
    BY <2>7, OrderIs DEF v
  <2>9. /\ start[v] \in Nat /\ end[v] \in Nat /\ start[v] <= end[v]
        /\ start[list[at]] \in Nat
    BY <2>7, ElementIs DEF v
  <2> QED  BY <2>3, <2>6, <2>7, <2>8, <2>9
<1>6. CopyStep(c, v) = Append(c, v)
  BY <1>4, <1>5
<1> QED  BY <1>1, <1>6, PrefixGrows

LEMMA CopyIsTheList ==
  ASSUME VmInv, ~CopyFails
  PROVE  CopyList = list
<1> DEFINE n == Len(list)
           Rule(f) == [i \in 0 .. n |-> IF i = 0 THEN <<>> ELSE CopyStep(f[i - 1], list[i])]
           copy == CHOOSE f : f = Rule(f)
           g == [i \in 0 .. n |-> SubSeq(list, 1, i)]
<1>1. list \in Seq(Region) /\ n \in Nat
  BY VmParts, ListIs
<1>2. CopyList = copy[n]
  BY DEF CopyList, CopyOf, CopyStep
<1>3. g = Rule(g)
  <2>1. ASSUME NEW i \in 0 .. n
        PROVE  g[i] = IF i = 0 THEN <<>> ELSE CopyStep(g[i - 1], list[i])
    <3>1. CASE i = 0
      <4>1. SubSeq(list, 1, 0) = <<>>
        <5>1. SubSeq(list, 1, 0) \in Seq(Region) /\ Len(SubSeq(list, 1, 0)) = 0
          BY <1>1, PrefixIs
        <5> QED  BY <5>1, EmptySeq
      <4> QED  BY <3>1, <4>1
    <3>2. CASE i # 0
      <4>1. i \in 1 .. n /\ i - 1 \in 0 .. n
        BY <1>1, <3>2
      <4> QED  BY <3>2, <4>1, CopyStepIs
    <3> QED  BY <3>1, <3>2
  <2>2. Rule(g) = [i \in 0 .. n |-> g[i]]
    BY <2>1
  <2> QED  BY <2>2
<1>4. copy = Rule(copy)
  BY <1>3
<1> HIDE DEF copy
<1>5. \A i \in 0 .. n : copy[i] = IF i = 0 THEN <<>> ELSE CopyStep(copy[i - 1], list[i])
  BY <1>4
<1>6. \A i \in 0 .. n : g[i] = IF i = 0 THEN <<>> ELSE CopyStep(g[i - 1], list[i])
  BY <1>3
<1>7. g[n] = list
  <2>1. n \in 0 .. n
    BY <1>1
  <2>2. SubSeq(list, 1, n) \in Seq(Region) /\ Len(SubSeq(list, 1, n)) = n
        /\ \A k \in 1 .. n : SubSeq(list, 1, n)[k] = list[k]
    BY <1>1, <2>1, PrefixIs
  <2>3. SubSeq(list, 1, n) = list
    BY <1>1, <2>2, SeqEqual
  <2> QED  BY <2>1, <2>3
<1> HIDE DEF g
<1>8. \A i \in 0 .. n : copy[i] = g[i]
  <2> SUFFICES ASSUME NEW j \in 0 .. n, copy[j] # g[j] PROVE FALSE
    OBVIOUS
  <2> DEFINE S == {i \in 0 .. n : copy[i] # g[i]}
             m == Min(S)
  <2>1. S \in SUBSET Nat /\ S # {}
    BY <1>1
  <2>2. m \in S /\ \A i \in S : m <= i
    BY <2>1, MinIs
  <2> HIDE DEF m
  <2>3. m \in 0 .. n /\ copy[m] # g[m]
    BY <2>2
  <2>4. CASE m = 0
    BY <1>5, <1>6, <2>3, <2>4
  <2>5. CASE m # 0
    <3>1. m - 1 \in 0 .. n /\ ~(m <= m - 1)
      BY <1>1, <2>3, <2>5
    <3>2. copy[m - 1] = g[m - 1]
      BY <2>2, <3>1
    <3> QED  BY <1>5, <1>6, <2>3, <2>5, <3>2
  <2> QED  BY <2>4, <2>5
<1>9. n \in 0 .. n
  BY <1>1
<1> QED  BY <1>2, <1>7, <1>8, <1>9

-----------------------------------------------------------------------------
(***************************************************************************)
(* The steps that leave the regions as they are.                           *)
(***************************************************************************)
LEMMA SameRegions ==
  ASSUME VmInv, UNCHANGED <<start, end, kind, list, VmrCount, Heap, told, forks>>,
         astray => astray', astray' \in BOOLEAN,
         halted' \in {"no", "overlap", "unaligned", "empty", "copy"}, halted' = "overlap" => astray',
         VmrCache' = Nil \/ VmrCache' \in Listed,
         BreakPointLength' \in Nat,
         Heap # Nil /\ ~astray' => start[2] + BreakPointLength' <= end[2],
         pt' \in [Page -> {"none", "zero", "data"}], written' \subseteq Page,
         NothingLost'
  PROVE  VmInv'
<1>1. TypeOK /\ BoundsInv /\ HeapInv /\ OrderInv
  BY VmParts
<1>2. Listed' = Listed
  BY DEF Listed
<1>3. TypeOK'
  <2>1. VmrCache' \in Region \cup {Nil}
    BY DEF Listed
  <2> QED  BY <1>1, <2>1 DEF TypeOK
<1>4. BoundsInv'
  BY <1>1, <1>2 DEF BoundsInv, Bounds
<1>5. HeapInv'
  BY <1>1 DEF HeapInv
<1>6. OrderInv'
  BY <1>1 DEF OrderInv, Before
<1>7. CacheInv'
  BY <1>2 DEF CacheInv
<1> QED  BY <1>3, <1>4, <1>5, <1>6, <1>7 DEF VmInv

LEMMA UseOfCopyStep ==
  ASSUME VmInv, NEW a, UseOfCopy(a)
  PROVE  VmInv'
<1>1. /\ halted' = "copy"
      /\ UNCHANGED <<start, end, kind, list, VmrCount, VmrCache, Heap, BreakPointLength>>
      /\ UNCHANGED <<told, astray, pt, written, forks>>
  BY DEF UseOfCopy, regions, heap
<1>2. NothingLost'
  BY <1>1, VmParts DEF NothingLost
<1>3. VmrCache' = Nil \/ VmrCache' \in Listed
  BY <1>1, VmParts DEF CacheInv
<1> QED  BY <1>1, <1>2, <1>3, VmParts, Types, SameRegions DEF HeapInv

LEMMA AccessStep ==
  ASSUME VmInv, NEW p \in Page, NEW write \in BOOLEAN, Access(p, write)
  PROVE  VmInv'
<1> DEFINE a == p * PAGESIZE
<1>1. /\ halted = "no"
      /\ \E v \in ToSet(list) : kind[v] # "kernel" /\ In(v, a)
      /\ pt[p] = "none" => FindVMR(a) # Nil
      /\ pt' = [pt EXCEPT ![p] = IF write THEN "data" ELSE IF @ = "none" THEN "zero" ELSE @]
      /\ VmrCache' = IF pt[p] = "none" THEN CacheAfter(a) ELSE VmrCache
      /\ written' = IF write THEN written \cup {p} ELSE written
      /\ UNCHANGED <<start, end, kind, list, VmrCount, Heap, BreakPointLength>>
      /\ UNCHANGED <<told, astray, halted, forks>>
  BY DEF Access, regions, heap
<1>2. a \in Nat
  BY PageIs
<1>3. VmrCache' = Nil \/ VmrCache' \in Listed
  <2>1. CASE pt[p] = "none"
    BY <1>1, <1>2, <2>1, FindIs
  <2>2. CASE pt[p] # "none"
    BY <1>1, <2>2, VmParts DEF CacheInv
  <2> QED  BY <2>1, <2>2
<1>4. /\ pt \in [Page -> {"none", "zero", "data"}]
      /\ pt' \in [Page -> {"none", "zero", "data"}] /\ written' \subseteq Page
  BY <1>1, VmParts, Types
<1>5. NothingLost'
  <2> SUFFICES ASSUME NEW q \in written'
               PROVE  pt'[q] = "data"
                      /\ (halted' = "no" => \E v \in ToSet(list)' : In(v, q * PAGESIZE)')
    BY DEF NothingLost
  <2>0. ToSet(list)' = ToSet(list) /\ \A v, b : In(v, b)' <=> In(v, b)
    BY <1>1 DEF In, ToSet
  <2>1. CASE q = p
    <3>1. pt'[q] = "data"
      <4>1. CASE write
        BY <1>1, <1>4, <2>1, <4>1
      <4>2. CASE ~write
        <5>1. q \in written
          BY <1>1, <4>2
        <5>2. pt[q] = "data"
          BY <5>1, VmParts DEF NothingLost
        <5> QED  BY <1>1, <1>4, <2>1, <4>2, <5>2
      <4> QED  BY <4>1, <4>2
    <3> QED  BY <1>1, <2>0, <2>1, <3>1
  <2>2. CASE q # p
    <3>1. q \in written /\ q \in Page
      BY <1>1, <1>4, <2>2
    <3>2. pt[q] = "data" /\ \E v \in ToSet(list) : In(v, q * PAGESIZE)
      BY <1>1, <3>1, VmParts DEF NothingLost
    <3>3. pt'[q] = pt[q]
      BY <1>1, <1>4, <2>2, <3>1
    <3> QED  BY <2>0, <3>2, <3>3
  <2> QED  BY <2>1, <2>2
<1>6. TypeOK /\ HeapInv /\ OrderInv
  BY VmParts
<1> QED  BY <1>1, <1>3, <1>4, <1>5, <1>6, Types, SameRegions DEF HeapInv, OrderInv

-----------------------------------------------------------------------------
(***************************************************************************)
(* brk.  The heap is the only region whose end moves.                      *)
(***************************************************************************)
LEMMA HeapIs ==
  ASSUME VmInv, Heap # Nil
  PROVE  /\ Heap = 2 /\ 2 \in Region /\ 2 \in Listed /\ kind[2] = "heap"
         /\ start[2] \in Nat /\ end[2] \in Nat /\ start[2] = HeapStart
         /\ start[2] <= end[2] /\ Aligned(end[2]) /\ Lowest <= start[2]
         /\ BreakPointLength \in Nat /\ told \in Nat /\ told <= end[2]
         /\ ~astray => start[2] + BreakPointLength <= end[2]
<1>1. Heap = 2 /\ 2 \in Region /\ kind[2] = "heap" /\ start[2] = HeapStart
      /\ (~astray => start[2] + BreakPointLength <= end[2]) /\ told <= end[2]
  BY VmParts, Layout DEF HeapInv
<1>2. 2 \in Listed
  BY <1>1 DEF Listed
<1>3. Bounds(2)
  BY <1>2, VmParts DEF BoundsInv
<1>4. start[2] \in Nat /\ end[2] \in Nat /\ BreakPointLength \in Nat /\ told \in Nat
  BY <1>1, VmParts, Types
<1> QED  BY <1>1, <1>2, <1>3, <1>4, Layout DEF Bounds

LEMMA SetBreakStep ==
  ASSUME VmInv, Heap # Nil, halted = "no", NEW a \in Nat, NEW e \in Nat, SetBreak(a, e),
         Aligned(e), start[2] <= a, a <= e, astray' \in BOOLEAN, astray => astray',
         ~astray' => \A k \in 1 .. Len(list), j \in 1 .. Len(list) :
                       list[j] = 2 /\ j < k => e <= start[list[k]]
  PROVE  VmInv'
<1>1. /\ Heap = 2 /\ 2 \in Region /\ 2 \in Listed /\ kind[2] = "heap"
      /\ start[2] \in Nat /\ end[2] \in Nat /\ start[2] = HeapStart
      /\ Lowest <= start[2]
  BY HeapIs
<1>2. /\ BreakPointLength' = a - start[2] /\ end' = [end EXCEPT ![2] = e] /\ told' = a
      /\ written' = written \ PagesOf(e, end[2])
      /\ UNCHANGED <<start, kind, list, VmrCount, VmrCache, Heap, pt, halted, forks>>
  BY <1>1 DEF SetBreak
<1>3. /\ TypeOK /\ BoundsInv /\ HeapInv /\ OrderInv /\ CacheInv /\ NothingLost
      /\ end \in [Region -> Nat] /\ list \in Seq(Region)
  BY VmParts, Types
<1>4. /\ end' \in [Region -> Nat] /\ end'[2] = e
      /\ \A v \in Region : v # 2 => end'[v] = end[v]
  BY <1>1, <1>2, <1>3
<1>5. BreakPointLength' \in Nat /\ start[2] + BreakPointLength' = a
  BY <1>1, <1>2
<1>6. TypeOK'
  BY <1>2, <1>3, <1>4, <1>5 DEF TypeOK
<1>7. Listed' = Listed
  BY <1>2 DEF Listed
<1>8. BoundsInv'
  <2> SUFFICES ASSUME NEW v \in Listed PROVE Bounds(v)'
    BY <1>7 DEF BoundsInv
  <2>1. Bounds(v) /\ v \in Region
    BY <1>3 DEF BoundsInv, Listed
  <2>2. CASE v # 2
    BY <1>2, <1>4, <2>1, <2>2 DEF Bounds
  <2>3. CASE v = 2
    <3>1. start[2] <= e /\ Lowest <= e
      BY <1>1, Layout
    <3> QED  BY <1>1, <1>2, <1>4, <2>1, <2>3, <3>1 DEF Bounds, Mapping
  <2> QED  BY <2>2, <2>3
<1>9. HeapInv'
  BY <1>1, <1>2, <1>3, <1>4, <1>5 DEF HeapInv
<1>10. OrderInv'
  <2>1. ASSUME NEW j \in 1 .. Len(list), NEW k \in 1 .. Len(list), j < k
        PROVE  Before(list[j], list[k])'
    <3>1. Before(list[j], list[k]) /\ list[j] \in Region
      BY <1>3, <2>1, ElementIs DEF OrderInv
    <3>2. CASE list[j] # 2
      BY <1>2, <1>4, <3>1, <3>2 DEF Before
    <3>3. CASE list[j] = 2
      BY <1>2, <1>4, <2>1, <3>1, <3>3 DEF Before
    <3> QED  BY <3>2, <3>3
  <2>2. halted' # "overlap"
    BY <1>2
  <2> QED  BY <1>2, <1>3, <2>1, <2>2 DEF OrderInv
<1>11. CacheInv'
  BY <1>2, <1>3, <1>7 DEF CacheInv
<1>12. NothingLost'
  <2> SUFFICES ASSUME NEW q \in written'
               PROVE  pt'[q] = "data" /\ \E v \in ToSet(list)' : In(v, q * PAGESIZE)'
    BY DEF NothingLost
  <2>0. ToSet(list)' = ToSet(list) /\ ToSet(list) = Listed
    BY <1>2, VmParts, ListIs DEF ToSet
  <2>1. q \in written /\ q \notin PagesOf(e, end[2]) /\ q \in Page
    BY <1>2, VmParts, Types
  <2>2. PICK v \in ToSet(list) : In(v, q * PAGESIZE)
    BY <1>3, <2>1 DEF NothingLost
  <2>3. pt'[q] = "data"
    BY <1>2, <1>3, <2>1 DEF NothingLost
  <2> DEFINE b == q * PAGESIZE
  <2>4. b \in Nat
    BY <2>1, PageIs
  <2> HIDE DEF b
  <2>5. In(v, b) /\ v \in Region
    BY <2>0, <2>2 DEF b, Listed
  <2>6. In(v, b)'
    <3>1. CASE v # 2
      BY <1>2, <1>4, <2>5, <3>1 DEF In
    <3>2. CASE v = 2
      <4>1. b < e
        <5>1. ~(e <= b /\ b < end[2])
          BY <2>1 DEF PagesOf, b
        <5>2. b < end[2]
          BY <2>5, <3>2 DEF In
        <5> QED  BY <2>4, <5>1, <5>2
      <4> QED  BY <1>2, <1>4, <2>5, <3>2, <4>1 DEF In
    <3> QED  BY <3>1, <3>2
  <2> QED  BY <2>0, <2>2, <2>3, <2>6 DEF b
<1> QED  BY <1>6, <1>8, <1>9, <1>10, <1>11, <1>12 DEF VmInv

LEMMA NextIs ==
  ASSUME VmInv, Heap # Nil
  PROVE  \E i \in 1 .. Len(list) - 1 : list[i] = 2 /\ NextStart = start[list[i + 1]]
<1> DEFINE n == Len(list)
           S == {k \in 1 .. n : list[k] = 2}
<1>1. Heap = 2 /\ 2 \in Listed /\ kind[2] = "heap"
  BY HeapIs
<1>2. PICK c \in 1 .. n : list[c] = 2
  BY <1>1, VmParts, ListIs
<1>3. list \in Seq(Region) /\ n \in Nat
  BY VmParts, ListIs
<1> DEFINE i == Position(2)
<1>4. First(i, n, S)
  BY <1>3, PositionIs
<1>5. NextStart = start[list[i + 1]]
  BY <1>1 DEF NextStart
<1> HIDE DEF i
<1>6. c \in S
  BY <1>2
<1>7. i \in S
  BY <1>4, <1>6 DEF First
<1>8. i # n
  <2>1. kind[list[n]] = "kernel"
    BY KernelIsLast
  <2> QED  BY <1>1, <1>7, <2>1
<1>9. i \in 1 .. n - 1
  BY <1>3, <1>7, <1>8
<1> QED  BY <1>5, <1>7, <1>9

LEMMA BrkGrowsStep ==
  ASSUME VmInv, NEW a \in Nat, BrkGrows(a)
  PROVE  VmInv'
<1> DEFINE e == IF a > end[2] THEN RoundUp(a) ELSE end[2]
<1>0. halted = "no" /\ Heap # Nil
  BY DEF BrkGrows
<1>1. /\ Heap = 2 /\ start[2] \in Nat /\ end[2] \in Nat /\ BreakPointLength \in Nat
      /\ Aligned(end[2])
  BY <1>0, HeapIs
<1>2. /\ a >= BreakPoint /\ (a <= end[2] \/ a <= NextStart) /\ SetBreak(a, e)
      /\ astray' = astray
  BY <1>1 DEF BrkGrows, EndForBreak
<1>3. start[2] <= a
  BY <1>1, <1>2 DEF BreakPoint
<1>4. e \in Nat /\ Aligned(e) /\ a <= e
  BY <1>1, RoundUpIs
<1>5. PICK i \in 1 .. Len(list) - 1 : list[i] = 2 /\ NextStart = start[list[i + 1]]
  BY <1>0, NextIs
<1>6. Len(list) \in Nat /\ i \in 1 .. Len(list) /\ i + 1 \in 1 .. Len(list)
  BY VmParts, ListIs
<1>7. ASSUME ~astray, NEW k \in 1 .. Len(list), NEW j \in 1 .. Len(list), list[j] = 2, j < k
      PROVE  e <= start[list[k]]
  <2>1. start[list[k]] \in Nat /\ start[list[i + 1]] \in Nat
        /\ Aligned(start[list[i + 1]])
    BY <1>6, ElementIs
  <2>2. CASE a <= end[2]
    <3>1. end[2] <= start[list[k]]
      BY <1>7, OrderIs
    <3> QED  BY <1>1, <2>2, <3>1
  <2>3. CASE ~(a <= end[2])
    <3>1. RoundUp(a) <= start[list[i + 1]] /\ RoundUp(a) \in Nat
      BY <1>2, <1>5, <2>1, <2>3, RoundUpLeast, RoundUpIs
    <3>2. j = i
      BY <1>5, <1>6, <1>7, VmParts, ListIs
    <3>3. start[list[i + 1]] <= start[list[k]]
      <4>1. CASE k = i + 1
        BY <2>1, <4>1
      <4>2. CASE i + 1 < k
        BY <1>6, <4>2, OrderIs
      <4> QED  BY <1>6, <1>7, <3>2, <4>1, <4>2
    <3> QED  BY <1>1, <2>1, <2>3, <3>1, <3>3
  <2> QED  BY <2>2, <2>3
<1> HIDE DEF e
<1>8. astray \in BOOLEAN
  BY VmParts, Types
<1> QED  BY <1>0, <1>2, <1>3, <1>4, <1>7, <1>8, SetBreakStep

LEMMA BrkShrinksStep ==
  ASSUME VmInv, NEW a \in Nat, BrkShrinks(a)
  PROVE  VmInv'
<1> DEFINE e == RoundUp(a)
<1>0. halted = "no" /\ Heap # Nil
  BY DEF BrkShrinks
<1>1. /\ Heap = 2 /\ start[2] \in Nat /\ end[2] \in Nat /\ BreakPointLength \in Nat
      /\ Aligned(end[2]) /\ (~astray => start[2] + BreakPointLength <= end[2])
  BY <1>0, HeapIs
<1>2. /\ start[2] <= a /\ a < start[2] + BreakPointLength
      /\ SetBreak(a, e) /\ astray' = astray
  BY <1>1 DEF BrkShrinks, EndForBreak, BreakPoint
<1>3. e \in Nat /\ Aligned(e) /\ a <= e
  BY RoundUpIs
<1>4. ~astray => e <= end[2]
  <2>1. ~astray => a <= end[2]
    BY <1>1, <1>2
  <2> QED  BY <1>1, <2>1, RoundUpLeast
<1>5. ASSUME ~astray, NEW k \in 1 .. Len(list), NEW j \in 1 .. Len(list), list[j] = 2, j < k
      PROVE  e <= start[list[k]]
  <2>1. end[2] <= start[list[k]]
    BY <1>5, OrderIs
  <2>2. start[list[k]] \in Nat
    BY ElementIs
  <2> HIDE DEF e
  <2> QED  BY <1>1, <1>3, <1>4, <1>5, <2>1, <2>2
<1> HIDE DEF e
<1>6. astray \in BOOLEAN
  BY VmParts, Types
<1> QED  BY <1>0, <1>2, <1>3, <1>5, <1>6, SetBreakStep

LEMMA BrkBelowStep ==
  ASSUME VmInv, NEW a, BrkBelow(a)
  PROVE  VmInv'
<1> DEFINE b == start[2]
           e == start[2] + PAGESIZE
<1>0. halted = "no" /\ Heap # Nil /\ astray' = TRUE
  BY DEF BrkBelow
<1>1. Heap = 2 /\ b \in Nat /\ b = HeapStart
  BY <1>0, HeapIs
<1>2. SetBreak(b, e)
  BY <1>1 DEF BrkBelow
<1>3. e \in Nat /\ b <= e /\ Aligned(e)
  BY <1>1, Layout, AlignedSum
<1>4. start[2] <= b
  BY <1>1
<1> HIDE DEF b, e
<1> QED  BY <1>0, <1>1, <1>2, <1>3, <1>4, SetBreakStep

LEMMA BrkCollidesStep ==
  ASSUME VmInv, NEW a \in Nat, BrkCollides(a)
  PROVE  VmInv'
<1>1. /\ halted = "no" /\ Heap # Nil /\ a >= BreakPoint
      /\ BreakPointLength' = a - start[Heap] /\ astray' = TRUE
      /\ UNCHANGED <<start, end, kind, list, VmrCount, VmrCache, Heap>>
      /\ UNCHANGED <<told, pt, halted, written, forks>>
  BY DEF BrkCollides, regions
<1>2. Heap = 2 /\ start[2] \in Nat /\ BreakPointLength \in Nat
  BY <1>1, HeapIs
<1>3. BreakPointLength' \in Nat
  BY <1>1, <1>2 DEF BreakPoint
<1>4. NothingLost'
  BY <1>1, VmParts DEF NothingLost, In, ToSet
<1>5. VmrCache' = Nil \/ VmrCache' \in Listed
  BY <1>1, VmParts DEF CacheInv
<1> QED  BY <1>1, <1>3, <1>4, <1>5, VmParts, Types, SameRegions

-----------------------------------------------------------------------------
(***************************************************************************)
(* munmap.                                                                 *)
(***************************************************************************)
LEMMA MunmapStep ==
  ASSUME VmInv, NEW a \in Nat, Munmap(a)
  PROVE  VmInv'
<1> DEFINE v == FindVMR(a)
           n == Len(list)
           at == Position(v)
<1>1. /\ halted = "no" /\ v # Nil /\ kind[v] \in {"anon", "file"} /\ a = start[v]
      /\ list' = RemoveAt(list, at)
      /\ kind' = [kind EXCEPT ![v] = "free"]
      /\ start' = [start EXCEPT ![v] = 0] /\ end' = [end EXCEPT ![v] = 0]
      /\ VmrCount' = VmrCount - 1 /\ VmrCache' = Nil
      /\ written' = written \ PagesOf(start[v], end[v])
      /\ UNCHANGED <<Heap, BreakPointLength, told, astray, pt, halted, forks>>
  BY DEF Munmap, heap, CacheAfterRemove
<1>2. v \in Listed /\ v \in Region
  BY <1>1, FindIs
<1>3. list \in Seq(Region) /\ n \in Nat /\ list \in Seq(Region)
  BY VmParts, ListIs
<1>4. at \in 1 .. n /\ list[at] = v
  <2>1. PICK c \in 1 .. n : list[c] = v
    BY <1>2, VmParts, ListIs
  <2>2. First(at, n, {k \in 1 .. n : list[k] = v})
    BY <1>3, PositionIs
  <2> HIDE DEF at, v
  <2> QED  BY <2>1, <2>2 DEF First
<1>5. Removed(list', list, at)
  BY <1>1, <1>3, <1>4, RemoveAtIs
<1>6. /\ TypeOK /\ BoundsInv /\ HeapInv /\ OrderInv /\ NothingLost
      /\ start \in [Region -> Nat] /\ end \in [Region -> Nat] /\ kind \in [Region -> Kind]
  BY VmParts, Types
<1> HIDE DEF v, at
<1>7. /\ start' \in [Region -> Nat] /\ end' \in [Region -> Nat]
      /\ kind' \in [Region -> Kind] /\ kind'[v] = "free"
      /\ \A u \in Region : u # v => /\ start'[u] = start[u] /\ end'[u] = end[u]
                                    /\ kind'[u] = kind[u]
  BY <1>1, <1>2, <1>6 DEF Kind
<1>8. Listed' = Listed \ {v}
  BY <1>2, <1>7 DEF Listed
<1>9. at # n
  <2>1. kind[list[n]] = "kernel"
    BY KernelIsLast
  <2> QED  BY <1>1, <1>4, <2>1
\* where the elements of the list come from
<1> DEFINE From(k) == IF k < at THEN k ELSE k + 1
<1>10. /\ list' \in Seq(Region) /\ Len(list') = n - 1
       /\ \A k \in 1 .. n - 1 : /\ list'[k] = list[From(k)] /\ From(k) \in 1 .. n
                                /\ From(k) # at /\ list'[k] # v
  <2>1. list' \in Seq(Region) /\ Len(list') = n - 1
        /\ \A k \in 1 .. n - 1 : list'[k] = list[From(k)]
    BY <1>5 DEF Removed
  <2>2. \A k \in 1 .. n - 1 : From(k) \in 1 .. n /\ From(k) # at
    BY <1>3, <1>4
  <2>3. \A k \in 1 .. n : list[k] = v => k = at
    BY <1>4, VmParts, ListIs
  <2> HIDE DEF From
  <2> QED  BY <2>1, <2>2, <2>3
<1>11. \A j, k \in 1 .. n - 1 : (j < k <=> From(j) < From(k)) /\ (From(j) = From(k) => j = k)
  BY <1>3, <1>4
<1>12. From(n - 1) = n /\ n - 1 \in 1 .. n - 1
  BY <1>3, <1>4, <1>9
<1>13. ASSUME NEW k \in 1 .. n, k # at PROVE \E j \in 1 .. n - 1 : From(j) = k
  <2>1. CASE k < at
    <3>1. k \in 1 .. n - 1 /\ From(k) = k
      BY <1>3, <1>4, <2>1
    <3> QED  BY <3>1
  <2>2. CASE at < k
    <3>1. k - 1 \in 1 .. n - 1 /\ From(k - 1) = k
      BY <1>3, <1>4, <2>2
    <3> QED  BY <3>1
  <2> QED  BY <1>3, <1>4, <1>13, <2>1, <2>2
<1> HIDE DEF From, n
<1>14. ToSet(list') = Listed \ {v} /\ IsInjective(list')
  <2>1. \A k \in 1 .. n - 1 : list'[k] \in Listed \ {v}
    BY <1>10, VmParts, ListIs DEF n
  <2>2. \A u \in Listed \ {v} : \E k \in 1 .. n - 1 : list'[k] = u
    <3> SUFFICES ASSUME NEW u \in Listed, u # v PROVE \E k \in 1 .. n - 1 : list'[k] = u
      OBVIOUS
    <3>1. PICK k \in 1 .. n : list[k] = u
      BY VmParts, ListIs DEF n
    <3>2. PICK j \in 1 .. n - 1 : From(j) = k
      BY <1>4, <1>13, <3>1
    <3> QED  BY <1>10, <3>1, <3>2
  <2>3. ASSUME NEW j \in 1 .. n - 1, NEW k \in 1 .. n - 1, list'[j] = list'[k]
        PROVE  j = k
    <3>1. From(j) = From(k)
      BY <1>10, <2>3, VmParts, ListIs DEF n
    <3> QED  BY <1>11, <3>1
  <2> QED  BY <1>10, <2>1, <2>2, <2>3, ListNext
<1>15. TypeOK'
  <2>1. VmrCount' = Len(list')
    BY <1>1, <1>6, <1>10, Types DEF n
  <2>2. ToSet(list)' = {u \in Region : kind'[u] # "free"}
    BY <1>8, <1>14 DEF Listed, ToSet
  <2>3. IsInjective(list)'
    BY <1>14 DEF IsInjective
  <2>4. VmrCache' \in Region \cup {Nil} /\ written' \subseteq Page
    BY <1>1, <1>6, Types
  <2> QED  BY <1>1, <1>6, <1>7, <1>10, <2>1, <2>2, <2>3, <2>4 DEF TypeOK
<1>16. BoundsInv'
  <2> SUFFICES ASSUME NEW u \in Listed, u # v PROVE Bounds(u)'
    BY <1>8 DEF BoundsInv
  <2>1. Bounds(u) /\ u \in Region
    BY <1>6 DEF BoundsInv, Listed
  <2> QED  BY <1>7, <2>1 DEF Bounds
<1>17. HeapInv'
  <2>1. v # 2 /\ v # Heap /\ 2 \in Region
    BY <1>1, <1>2, <1>6, Layout DEF HeapInv
  <2>2. \A u \in Region : kind'[u] = "heap" <=> u = Heap
    BY <1>6, <1>7, <2>1 DEF HeapInv
  <2> QED  BY <1>1, <1>6, <1>7, <2>1, <2>2 DEF HeapInv
<1>18. OrderInv'
  <2>1. ASSUME NEW k \in 1 .. n - 1
        PROVE  kind'[list'[k]] = "kernel" <=> k = n - 1
    <3>1. /\ list'[k] = list[From(k)] /\ From(k) \in 1 .. n /\ list'[k] \in Region
          /\ list'[k] # v
      BY <1>10
    <3>2. kind'[list'[k]] = kind[list[From(k)]]
      BY <1>7, <3>1
    <3>3. kind[list[From(k)]] = "kernel" <=> From(k) = n
      BY <1>6, <3>1 DEF OrderInv, n
    <3>4. From(k) = n <=> k = n - 1
      BY <1>11, <1>12
    <3> QED  BY <3>2, <3>3, <3>4
  <2>2. ASSUME NEW j \in 1 .. n - 1, NEW k \in 1 .. n - 1, j < k
        PROVE  Before(list[j], list[k])'
    <3>1. /\ list'[j] = list[From(j)] /\ From(j) \in 1 .. n /\ list'[j] \in Region
          /\ list'[k] = list[From(k)] /\ From(k) \in 1 .. n /\ list'[k] \in Region
          /\ list'[j] # v /\ list'[k] # v /\ From(j) < From(k)
      BY <1>10, <1>11, <2>2
    <3>2. Before(list[From(j)], list[From(k)])
      BY <1>6, <3>1 DEF OrderInv, n
    <3> QED  BY <1>1, <1>7, <3>1, <3>2 DEF Before
  <2>3. Len(list') > 0 /\ halted' # "overlap"
    BY <1>1, <1>3, <1>10, <1>12 DEF n
  <2> QED  BY <1>10, <2>1, <2>2, <2>3 DEF OrderInv
<1>19. CacheInv'
  BY <1>1 DEF CacheInv
<1>20. NothingLost'
  <2> SUFFICES ASSUME NEW q \in written'
               PROVE  pt'[q] = "data" /\ \E u \in ToSet(list') : In(u, q * PAGESIZE)'
    BY DEF NothingLost, ToSet
  <2>1. q \in written /\ q \notin PagesOf(start[v], end[v]) /\ q \in Page
    BY <1>1, VmParts, Types
  <2>2. ToSet(list) = Listed
    BY VmParts, ListIs
  <2>3. PICK u \in Listed : In(u, q * PAGESIZE)
    BY <1>1, <1>6, <2>1, <2>2 DEF NothingLost
  <2>4. u # v
    BY <2>1, <2>3 DEF In, PagesOf
  <2>5. In(u, q * PAGESIZE)'
    BY <1>7, <2>3, <2>4 DEF In, Listed
  <2>6. pt'[q] = "data"
    BY <1>1, <1>6, <2>1 DEF NothingLost
  <2> QED  BY <1>14, <2>4, <2>5, <2>6
<1> QED  BY <1>15, <1>16, <1>17, <1>18, <1>19, <1>20 DEF VmInv

-----------------------------------------------------------------------------
(***************************************************************************)
(* fork.  A region after another that reaches into it is behind a heap     *)
(* whose break went astray; without one the copy meets no overlap.         *)
(***************************************************************************)
LEMMA CopyFailure ==
  ASSUME VmInv, CopyFails, \A v \in ToSet(list) : start[v] # end[v]
  PROVE  astray
<1>1. PICK i \in 2 .. Len(list) :
        Overlaps(SubSeq(list, 1, i - 1), Last(SubSeq(list, 1, i - 1)), start, end, list[i])
  BY DEF CopyFails
<1> DEFINE l == SubSeq(list, 1, i - 1)
<1>2. list \in Seq(Region) /\ Len(list) \in Nat /\ i - 1 \in 0 .. Len(list)
      /\ i - 1 \in 1 .. Len(list) /\ i \in 1 .. Len(list) /\ i - 1 < i
  BY <1>1, VmParts, ListIs
<1>3. l \in Seq(Region) /\ Len(l) = i - 1 /\ \A k \in 1 .. i - 1 : l[k] = list[k]
  BY <1>2, PrefixIs
<1>4. Last(l) = list[i - 1]
  BY <1>2, <1>3 DEF Last
<1>5. l # <<>>
  <2>1. i - 1 \in Nat /\ i - 1 # 0
    BY <1>2
  <2> HIDE DEF l
  <2>2. Len(<<>>) = 0
    BY EmptySeq
  <2> QED  BY <1>3, <2>1, <2>2
<1>6. ~(end[list[i - 1]] <= start[list[i]])
  <2>1. list[i - 1] # Nil
    BY <1>2, ElementIs, Layout
  <2> HIDE DEF l
  <2>2. Overlaps(l, Last(l), start, end, list[i])
    BY <1>1 DEF l
  <2> QED  BY <1>4, <1>5, <2>1, <2>2 DEF Overlaps, Behind
<1> QED  BY <1>2, <1>6, OrderIs

LEMMA ForkStep ==
  ASSUME VmInv, Fork
  PROVE  VmInv'
<1>1. /\ TypeOK /\ BoundsInv /\ HeapInv /\ OrderInv /\ CacheInv /\ NothingLost
      /\ halted = "no" /\ forks' = forks + 1 /\ forks < MaxForks /\ written' = written
  BY VmParts DEF Fork
<1>2. forks' \in 0 .. MaxForks
  BY <1>1, Types, BoundAssumption
<1>3. CASE CopyFails
  <2>1. /\ halted' = IF \E v \in ToSet(list) : start[v] = end[v] THEN "empty" ELSE "overlap"
        /\ UNCHANGED <<start, end, kind, list, VmrCount, VmrCache, Heap>>
        /\ UNCHANGED <<BreakPointLength, told, astray, pt>>
    BY <1>3 DEF Fork, regions, heap
  <2>2. halted' = "overlap" => astray
    BY <1>3, <2>1, CopyFailure
  <2>3. TypeOK'
    BY <1>1, <1>2, <2>1 DEF TypeOK
  <2>4. BoundsInv' /\ HeapInv' /\ CacheInv'
    BY <1>1, <2>1 DEF BoundsInv, Bounds, HeapInv, CacheInv, Listed
  <2>5. OrderInv'
    BY <1>1, <2>1, <2>2 DEF OrderInv, Before
  <2>6. NothingLost'
    <3>1. halted' # "no"
      BY <2>1
    <3> QED  BY <1>1, <2>1, <3>1 DEF NothingLost
  <2> QED  BY <2>3, <2>4, <2>5, <2>6 DEF VmInv
<1>4. CASE ~CopyFails
  <2>1. /\ list' = list
        /\ kind' = [v \in Region |-> CASE kind[v] = "file" -> "copy"
                                       [] kind[v] = "heap" -> "program"
                                       [] OTHER -> kind[v]]
        /\ VmrCache' = Last(list) /\ Heap' = Nil /\ BreakPointLength' = 0
        /\ pt' = [p \in Page |-> IF \E v \in ToSet(list) : kind[v] # "kernel" /\ Copied(v, p)
                                 THEN pt[p] ELSE "none"]
        /\ VmrCount' = Len(list)
        /\ UNCHANGED <<start, end, told, astray, halted>>
    BY <1>4, CopyIsTheList DEF Fork
  <2>2. /\ kind \in [Region -> Kind] /\ pt \in [Page -> {"none", "zero", "data"}]
        /\ written \subseteq Page
    BY <1>1, Types
  <2>3. /\ kind' \in [Region -> Kind]
        /\ \A v \in Region : /\ kind'[v] = "free" <=> kind[v] = "free"
                             /\ kind'[v] = "kernel" <=> kind[v] = "kernel"
                             /\ kind'[v] # "heap"
                             /\ kind'[v] \in Mapping => kind[v] \in Mapping
    <3>1. ASSUME NEW v \in Region
          PROVE  /\ kind'[v] \in Kind
                 /\ kind'[v] = "free" <=> kind[v] = "free"
                 /\ kind'[v] = "kernel" <=> kind[v] = "kernel"
                 /\ kind'[v] # "heap"
                 /\ kind'[v] \in Mapping => kind[v] \in Mapping
      <4>1. kind'[v] = CASE kind[v] = "file" -> "copy"
                         [] kind[v] = "heap" -> "program"
                         [] OTHER -> kind[v]
        BY <2>1
      <4>2. kind[v] \in Kind
        BY <2>2
      <4>3. CASE kind[v] = "file"
        BY <4>1, <4>3 DEF Kind, Mapping
      <4>4. CASE kind[v] = "heap"
        BY <4>1, <4>4 DEF Kind, Mapping
      <4>5. CASE kind[v] \notin {"file", "heap"}
        <5>1. kind'[v] = kind[v]
          BY <4>1, <4>5
        <5> QED  BY <4>2, <4>5, <5>1
      <4> QED  BY <4>3, <4>4, <4>5
    <3>2. kind' \in [Region -> Kind]
      BY <2>1, <3>1
    <3> QED  BY <3>1, <3>2
  <2>4. Listed' = Listed
    BY <2>3 DEF Listed
  <2>5. Last(list) \in Listed
    BY KernelIsLast DEF Last
  <2>6. TypeOK'
    <3>1. VmrCache' \in Region \cup {Nil}
      BY <2>1, <2>5 DEF Listed
    <3>2. pt' \in [Page -> {"none", "zero", "data"}]
      BY <2>1, <2>2
    <3>3. ToSet(list)' = {v \in Region : kind'[v] # "free"}
      BY <1>1, <2>1, <2>4 DEF TypeOK, Listed
    <3> QED  BY <1>1, <1>2, <2>1, <2>3, <3>1, <3>2, <3>3 DEF TypeOK
  <2>7. BoundsInv'
    BY <1>1, <2>1, <2>3, <2>4 DEF BoundsInv, Bounds, Listed
  <2>8. HeapInv'
    <3>1. kind'[2] \in {"heap", "program"}
      <4>1. 2 \in Region /\ kind[2] \in {"heap", "program"}
        BY <1>1, Layout DEF HeapInv
      <4> QED  BY <2>1, <4>1
    <3>2. Nil \notin Region
      BY Layout
    <3> QED  BY <1>1, <2>1, <2>3, <3>1, <3>2 DEF HeapInv
  <2>9. OrderInv'
    <3>1. \A k \in 1 .. Len(list) : list[k] \in Region
      BY ElementIs
    <3> QED  BY <1>1, <2>1, <2>3, <3>1 DEF OrderInv, Before
  <2>10. CacheInv'
    BY <2>1, <2>4, <2>5 DEF CacheInv
  <2>11. NothingLost'
    <3> SUFFICES ASSUME NEW q \in written
                 PROVE  pt'[q] = "data" /\ \E u \in ToSet(list)' : In(u, q * PAGESIZE)'
      BY <1>1 DEF NothingLost
    <3>1. ToSet(list)' = ToSet(list) /\ ToSet(list) = Listed
      BY <2>1, VmParts, ListIs DEF ToSet
    <3>2. pt[q] = "data" /\ q \in Page
      BY <1>1, <2>2 DEF NothingLost
    <3>3. PICK u \in ToSet(list) : In(u, q * PAGESIZE)
      BY <1>1 DEF NothingLost
    <3>4. In(u, q * PAGESIZE)' /\ Copied(u, q)
      BY <2>1, <3>3 DEF In, Copied
    <3>5. kind[u] # "kernel"
      <4> DEFINE b == q * PAGESIZE
      <4>1. b \in Nat /\ b < KernelStart /\ start[u] <= b /\ KernelStart \in Nat
        BY <3>2, <3>3, PageIs, Layout DEF In
      <4> HIDE DEF b
      <4>2. Bounds(u) /\ start[u] \in Nat
        BY <1>1, <3>1, Types DEF BoundsInv, Listed
      <4> QED  BY <4>1, <4>2 DEF Bounds
    <3>6. pt'[q] = "data"
      BY <2>1, <3>2, <3>4, <3>5
    <3> QED  BY <3>1, <3>4, <3>6
  <2> QED  BY <2>6, <2>7, <2>8, <2>9, <2>10, <2>11 DEF VmInv
<1> QED  BY <1>3, <1>4

-----------------------------------------------------------------------------
(***************************************************************************)
(* mmap: what MAP_FIXED cuts off, and the room it finds.                   *)
(***************************************************************************)
CutsOnly(e, hint, length) ==
  \A u \in Region :
    e[u] = end[u] \/ /\ hint # Nil /\ kind[u] \in Mapping /\ e[u] = RoundUp(hint)
                     /\ end[u] <= RoundUp(hint + length)

LEMMA RequestIs ==
  ASSUME NEW hint \in Hints \cup {Nil}, NEW length \in Lengths
  PROVE  /\ hint \in Nat /\ length \in Nat \ {0} /\ hint + length \in Nat
<1>1. hint \in Nat /\ length \in Nat \ {0}
  BY RequestAssumption DEF Nil
<1> QED  BY <1>1

LEMMA CutIs ==
  ASSUME VmInv, NEW hint \in Hints \cup {Nil}, NEW length \in Lengths,
         NEW fixed \in BOOLEAN, Asks(fixed, hint, length)
  PROVE  /\ Cut(EndsAfterCut(fixed, hint, length))
         /\ CutsOnly(EndsAfterCut(fixed, hint, length), hint, length)
<1> DEFINE e == EndsAfterCut(fixed, hint, length)
           w == FindVMR(hint)
           c == RoundUp(hint)
<1>1. Cut(end) /\ end \in [Region -> Nat] /\ start \in [Region -> Nat]
  BY EndIsCut, VmParts, Types
<1>2. hint \in Nat /\ c \in Nat /\ Aligned(c) /\ hint <= c
  BY RequestIs, RoundUpIs
<1>3. CASE ~Cuts(fixed, hint, length)
  <2>1. e = end
    BY <1>3 DEF EndsAfterCut
  <2> QED  BY <1>1, <2>1 DEF CutsOnly
<1>4. CASE Cuts(fixed, hint, length)
  <2>1. e = [end EXCEPT ![w] = c] /\ w # Nil /\ fixed /\ end[w] <= RoundUp(hint + length)
    BY <1>4 DEF EndsAfterCut, Cuts
  <2>2. w \in Listed /\ w \in Region /\ start[w] <= hint /\ hint < end[w]
    BY <1>2, <2>1, FindIs
  <2>3. hint # Nil /\ kind[w] \in Mapping
    BY <2>1 DEF Asks
  <2> HIDE DEF w
  <2>3a. c <= end[w]
    <3>1. end[w] \in Nat /\ Aligned(end[w]) /\ hint <= end[w]
      BY <1>1, <1>2, <2>2, VmParts DEF BoundsInv, Bounds
    <3> QED  BY <1>2, <3>1, RoundUpLeast
  <2>4. e \in [Region -> Nat] /\ e[w] = c /\ \A u \in Region : u # w => e[u] = end[u]
    BY <1>1, <1>2, <2>1, <2>2
  <2> HIDE DEF e
  <2>5. Bounds(w)
    BY <2>2, VmParts DEF BoundsInv
  <2>6. Lowest <= c /\ start[w] <= c
    BY <1>1, <1>2, <2>2, <2>3, <2>5, Layout DEF Bounds
  <2>7. ASSUME NEW v \in Listed
        PROVE  Aligned(e[v]) /\ Lowest <= e[v] /\ start[v] <= e[v] /\ e[v] <= end[v]
    <3>1. v \in Region
      BY DEF Listed
    <3>2. CASE v # w
      BY <1>1, <2>4, <3>1, <3>2 DEF Cut
    <3>3. CASE v = w
      BY <1>2, <2>3a, <2>4, <2>6, <3>3
    <3> QED  BY <3>2, <3>3
  <2>8. Cut(e)
    BY <2>4, <2>7 DEF Cut
  <2>9. CutsOnly(e, hint, length)
    BY <2>1, <2>3, <2>4 DEF CutsOnly
  <2> QED  BY <2>8, <2>9 DEF e
<1> QED  BY <1>3, <1>4

LEMMA MappingIs ==
  ASSUME VmInv, NEW e, NEW hint, NEW length, CutsOnly(e, hint, length)
  PROVE  e[2] = end[2] /\ \A u \in Region : kind[u] = "kernel" => e[u] = end[u]
BY VmParts, Layout DEF CutsOnly, HeapInv, Mapping

LEMMA CacheCutIs ==
  ASSUME VmInv, NEW hint \in Hints \cup {Nil}, NEW fixed
  PROVE  CacheAfterCut(fixed, hint) = Nil \/ CacheAfterCut(fixed, hint) \in Listed
<1>1. hint \in Nat
  BY RequestAssumption DEF Nil
<1>2. VmrCache = Nil \/ VmrCache \in Listed
  BY VmParts DEF CacheInv
<1>3. CacheAfter(hint) = VmrCache \/ CacheAfter(hint) \in Listed
  BY <1>1, FindIs DEF CacheAfter
<1> QED  BY <1>2, <1>3 DEF CacheAfterCut

(***************************************************************************)
(* A page that was written and is not in the part that was cut off is      *)
(* where it was.                                                           *)
(***************************************************************************)
LEMMA StillThere ==
  ASSUME VmInv, halted = "no", NEW e, Cut(e), NEW q \in written
  PROVE  /\ pt[q] = "data" /\ q \in Page /\ q * PAGESIZE \in Nat
         /\ \E u \in Listed : /\ start[u] <= q * PAGESIZE /\ q * PAGESIZE < end[u]
                              /\ q * PAGESIZE < e[u] \/ e[u] <= q * PAGESIZE
<1>1. q \in Page /\ q * PAGESIZE \in Nat
  BY VmParts, Types, PageIs
<1>2. pt[q] = "data" /\ \E u \in ToSet(list) : In(u, q * PAGESIZE)
  BY VmParts DEF NothingLost
<1>3. PICK u \in Listed : In(u, q * PAGESIZE)
  BY <1>2, VmParts, ListIs
<1>4. e[u] \in Nat
  BY DEF Cut, Listed
<1>5. q * PAGESIZE < e[u] \/ e[u] <= q * PAGESIZE
  <2> DEFINE b == q * PAGESIZE
  <2> HIDE DEF b
  <2>1. b \in Nat => b < e[u] \/ e[u] <= b
    BY <1>4
  <2> QED  BY <1>1, <2>1 DEF b
<1> QED  BY <1>1, <1>2, <1>3, <1>5 DEF In

LEMMA MmapRefusedStep ==
  ASSUME VmInv, NEW hint \in Hints \cup {Nil}, NEW length \in Lengths,
         NEW fixed \in BOOLEAN, MmapRefused(fixed, hint, length)
  PROVE  VmInv'
<1> DEFINE e == EndsAfterCut(fixed, hint, length)
<1>1. /\ Asks(fixed, hint, length) /\ end' = e /\ VmrCache' = CacheAfterCut(fixed, hint)
      /\ written' = written \ UNION {PagesOf(e[v], end[v]) : v \in Region}
      /\ UNCHANGED <<start, kind, list, VmrCount, Heap, BreakPointLength, told, astray>>
      /\ UNCHANGED <<pt, halted, forks>>
  BY DEF MmapRefused, heap
<1>2. Cut(e) /\ CutsOnly(e, hint, length) /\ e[2] = end[2]
      /\ halted = "no"
  BY <1>1, CutIs, MappingIs DEF Asks
<1>3. VmrCache' = Nil \/ VmrCache' \in Listed
  BY <1>1, CacheCutIs
<1> HIDE DEF e
<1>4. /\ TypeOK /\ BoundsInv /\ HeapInv /\ OrderInv /\ Listed' = Listed
      /\ end \in [Region -> Nat] /\ start \in [Region -> Nat] /\ written \subseteq Page
  BY <1>1, VmParts, Types DEF Listed
<1>5. TypeOK'
  <2>1. VmrCache' \in Region \cup {Nil} /\ end' \in [Region -> Nat] /\ written' \subseteq Page
    BY <1>1, <1>2, <1>3, <1>4 DEF Listed, Cut
  <2> QED  BY <1>1, <1>4, <2>1 DEF TypeOK
<1>6. BoundsInv'
  <2> SUFFICES ASSUME NEW v \in Listed PROVE Bounds(v)'
    BY <1>4 DEF BoundsInv
  <2>1. Bounds(v) /\ Aligned(e[v]) /\ Lowest <= e[v] /\ start[v] <= e[v]
    BY <1>2, <1>4 DEF BoundsInv, Cut
  <2> QED  BY <1>1, <2>1 DEF Bounds
<1>7. HeapInv'
  BY <1>1, <1>2, <1>4 DEF HeapInv
<1>8. OrderInv'
  <2>1. ASSUME NEW j \in 1 .. Len(list), NEW k \in 1 .. Len(list), j < k
        PROVE  Before(list[j], list[k])'
    <3>1. Before(list[j], list[k]) /\ list[j] \in Listed /\ start[list[k]] \in Nat
          /\ end[list[j]] \in Nat
      BY <1>4, <2>1, ElementIs DEF OrderInv
    <3>2. e[list[j]] <= end[list[j]] /\ e[list[j]] \in Nat
      BY <1>2, <3>1 DEF Cut, Listed
    <3>3. end[list[j]] <= start[list[k]] => e[list[j]] <= start[list[k]]
      BY <3>1, <3>2
    <3> QED  BY <1>1, <3>1, <3>3 DEF Before
  <2> QED  BY <1>1, <1>4, <2>1 DEF OrderInv
<1>9. CacheInv'
  BY <1>3, <1>4 DEF CacheInv
<1>10. NothingLost'
  <2> SUFFICES ASSUME NEW q \in written'
               PROVE  pt'[q] = "data" /\ \E u \in ToSet(list)' : In(u, q * PAGESIZE)'
    BY DEF NothingLost
  <2>1. q \in written /\ \A v \in Region : q \notin PagesOf(e[v], end[v])
    BY <1>1
  <2>2. pt[q] = "data" /\ q \in Page
    BY <1>2, <2>1, StillThere
  <2>3. PICK u \in Listed : /\ start[u] <= q * PAGESIZE /\ q * PAGESIZE < end[u]
                            /\ q * PAGESIZE < e[u] \/ e[u] <= q * PAGESIZE
    BY <1>2, <2>1, StillThere
  <2>4. q * PAGESIZE < e[u]
    BY <2>1, <2>2, <2>3 DEF PagesOf, Listed
  <2>5. ToSet(list)' = Listed
    BY <1>1, VmParts, ListIs DEF ToSet
  <2> QED  BY <1>1, <2>2, <2>3, <2>4, <2>5 DEF In
<1> QED  BY <1>5, <1>6, <1>7, <1>8, <1>9, <1>10 DEF VmInv

(***************************************************************************)
(* The room mmap takes: pages from s up to t.  length bytes from s would   *)
(* fit behind the region i and before the next; the region is for length   *)
(* bytes from a, which is s if a is the start of a page.                   *)
(***************************************************************************)
Taken(e, hint, length, s, a, t) ==
  /\ Cut(e) /\ CutsOnly(e, hint, length) /\ e[2] = end[2] /\ length \in Nat
  /\ s \in Nat /\ t \in Nat /\ Aligned(s) /\ Aligned(t) /\ s < t
  /\ Lowest <= s /\ t <= MmapEnd
  /\ a \in Nat /\ s <= a /\ t = RoundUp(a + length) /\ a + length <= t
  /\ hint # Nil => a = hint
  /\ Aligned(hint) => a = s
  /\ \E i : Between(e, s, RoundUp(length), i)

LEMMA RoomIs ==
  ASSUME VmInv, NEW hint \in Hints \cup {Nil}, NEW length \in Lengths,
         NEW fixed \in BOOLEAN, Asks(fixed, hint, length), ~Refused(fixed, hint, length)
  PROVE  Taken(EndsAfterCut(fixed, hint, length), hint, length,
               Room(fixed, hint, length), Given(fixed, hint, length),
               RoundUp(Given(fixed, hint, length) + length))
<1> DEFINE e == EndsAfterCut(fixed, hint, length)
           s == Room(fixed, hint, length)
           a == Given(fixed, hint, length)
           from == IF hint = Nil THEN MmapStart ELSE hint
           long == RoundUp(length)
           t == RoundUp(a + length)
<1>1. Cut(e) /\ CutsOnly(e, hint, length) /\ e[2] = end[2]
  BY CutIs, MappingIs
<1>2. length \in Nat /\ length > 0 /\ from \in Nat /\ hint \in Nat
      /\ (hint # Nil => from = hint)
  BY RequestIs, Layout
<1>3. s = GetUsableVMR(e, from, MmapEnd, length)
  BY DEF Room
<1>4. s # 0 /\ (hint # Nil => s = RoundDown(hint) /\ a = hint) /\ (hint = Nil => a = s)
  BY DEF Refused, Given
<1> HIDE DEF e, from
<1>5. /\ s \in Nat /\ Aligned(s) /\ s >= Lowest /\ s + long <= MmapEnd
      /\ from + length <= MmapEnd
      /\ \E i : Between(e, s, long, i)
  BY <1>1, <1>2, <1>3, <1>4, UsableLies
<1> HIDE DEF s, a
<1>6. a \in Nat /\ s <= a /\ (Aligned(hint) => a = s)
  BY <1>2, <1>4, <1>5, RoundDownIs
<1>7. long \in Nat /\ long >= length /\ MmapEnd \in Nat /\ Aligned(MmapEnd)
      /\ Lowest \in Nat
  BY <1>2, RoundUpIs, Layout
<1>8. a + length \in Nat /\ a + length <= MmapEnd
  BY <1>2, <1>4, <1>5, <1>6, <1>7
<1>9. t \in Nat /\ Aligned(t) /\ a + length <= t /\ t <= MmapEnd
  BY <1>7, <1>8, RoundUpIs, RoundUpLeast
<1> HIDE DEF t, long
<1>10. s < t /\ Lowest <= s
  BY <1>2, <1>5, <1>6, <1>7, <1>8, <1>9
<1> QED  BY <1>1, <1>2, <1>4, <1>5, <1>6, <1>9, <1>10 DEF Taken, t, s, a, e, long

(***************************************************************************)
(* Where InsertVMR puts the new region: never at the end, since the last   *)
(* region is the kernel's, and before the first region that begins behind  *)
(* it; if the hint is the start of a page, a region that overlaps it can   *)
(* only be a heap that went astray.                                        *)
(***************************************************************************)
Prepares(starts, ends, e, v, s, t) ==
  starts = [start EXCEPT ![v] = s] /\ ends = [e EXCEPT ![v] = t]

Placed(cache, starts, ends, e, hint, v, s, t) ==
  /\ Overlaps(list, cache, starts, ends, v) /\ Aligned(hint) => astray
  /\ ~Overlaps(list, cache, starts, ends, v) =>
       \E at \in 1 .. Len(list) :
         /\ InsertVMR(list, cache, starts, ends, v) = InsertAt(list, at, v)
         /\ t <= start[list[at]]
         /\ \A k \in 1 .. at - 1 : e[list[k]] <= s

LEMMA MmapPlace ==
  ASSUME VmInv, NEW e, NEW hint, NEW length, NEW s, NEW a, NEW t,
         Taken(e, hint, length, s, a, t),
         NEW v \in Region, v \notin Listed, NEW cache, NEW starts, NEW ends,
         Prepares(starts, ends, e, v, s, t)
  PROVE  Placed(cache, starts, ends, e, hint, v, s, t)
<1> DEFINE n == Len(list)
           at == Place(list, starts, ends, v)
<1>1. /\ list \in Seq(Region) /\ n \in Nat /\ n >= 1 /\ n \in 1 .. n
      /\ start[list[n]] = KernelStart /\ end[list[n]] >= KernelStart
      /\ kind[list[n]] = "kernel"
  BY VmParts, ListIs, KernelIsLast
<1>2. start \in [Region -> Nat] /\ end \in [Region -> Nat] /\ e \in [Region -> Nat]
  BY VmParts, Types DEF Taken, Cut
<1>3. \A k \in 1 .. n : list[k] \in Region /\ list[k] \in Listed /\ list[k] # v
  BY ElementIs
<1>4. /\ starts[v] = s /\ ends[v] = t
      /\ \A k \in 1 .. n : starts[list[k]] = start[list[k]] /\ ends[list[k]] = e[list[k]]
  BY <1>2, <1>3 DEF Prepares
<1>5. /\ s \in Nat /\ t \in Nat /\ s < t /\ t <= MmapEnd /\ Cut(e)
      /\ CutsOnly(e, hint, length)
  BY DEF Taken
<1>6. e[list[n]] = end[list[n]] /\ e[list[n]] \in Nat /\ start[list[n]] \in Nat
  BY <1>1, <1>2, <1>3, <1>5, MappingIs
<1>7. ~Behind(list, cache, starts, ends, v)
  <2>1. ~(ends[list[n]] <= starts[v])
    BY <1>1, <1>4, <1>5, <1>6, Layout
  <2> QED  BY <2>1 DEF Behind, Last
<1>8. First(at, n, {k \in 1 .. n : ends[v] <= starts[list[k]] \/ starts[v] < ends[list[k]]})
  BY <1>1, PlaceIs
<1> DEFINE S == {k \in 1 .. n : t <= start[list[k]] \/ s < e[list[k]]}
<1>9. First(at, n, S)
  <2>1. S = {k \in 1 .. n : ends[v] <= starts[list[k]] \/ starts[v] < ends[list[k]]}
    BY <1>4
  <2> QED  BY <1>8, <2>1
<1>10. Overlaps(list, cache, starts, ends, v) <=> at # 0 /\ ~(ends[v] <= starts[list[at]])
  BY <1>7 DEF Overlaps
<1>11. InsertVMR(list, cache, starts, ends, v) = IF at = 0 THEN Append(list, v)
                                                 ELSE InsertAt(list, at, v)
  BY <1>7 DEF InsertVMR
<1> HIDE DEF at
<1>12. n \in S
  <2>1. t <= start[list[n]]
    BY <1>1, <1>5, Layout
  <2> QED  BY <1>1, <2>1
<1>13. at \in 1 .. n /\ at # 0 /\ at \in S /\ \A k \in 1 .. at - 1 : k \notin S
  BY <1>1, <1>9, <1>12 DEF First
<1>14. ends[v] <= starts[list[at]] <=> t <= start[list[at]]
  BY <1>4, <1>13
<1>15. ASSUME ~(t <= start[list[at]]), Aligned(hint) PROVE astray
  <2> SUFFICES ASSUME ~astray PROVE FALSE
    OBVIOUS
  <2>1. PICK i : Between(e, s, RoundUp(length), i) /\ t = s + RoundUp(length)
    <3>1. PICK i : Between(e, s, RoundUp(length), i)
      BY DEF Taken
    <3>2. s \in Nat /\ Aligned(s) /\ length \in Nat /\ t = RoundUp(s + length)
      BY <1>15 DEF Taken
    <3>3. t = s + RoundUp(length)
      BY <3>2, RoundUpSum
    <3> QED  BY <3>1, <3>3
  <2>2. i \in Int /\ RoundUp(length) \in Nat
    <3>1. i \in Int
      BY <1>1, <2>1 DEF Between
    <3>2. RoundUp(length) \in Nat
      BY RoundUpIs DEF Taken
    <3> QED  BY <3>1, <3>2
  <2>3. CASE at <= i
    <3>1. e[list[at]] <= s
      BY <1>5, <1>13, <1>15, <2>1, <2>2, <2>3, BetweenIsFree
    <3>2. e[list[at]] \in Nat
      BY <1>2, <1>3, <1>13
    <3> QED  BY <1>5, <1>13, <1>15, <3>1, <3>2
  <2>4. CASE i < at
    <3>1. t <= start[list[at]]
      BY <1>5, <1>13, <2>1, <2>2, <2>4, BetweenIsFree
    <3> QED  BY <1>15, <3>1
  <2> QED  BY <1>13, <2>2, <2>3, <2>4
<1>16. \A k \in 1 .. at - 1 : e[list[k]] <= s
  <2> SUFFICES ASSUME NEW k \in 1 .. at - 1 PROVE e[list[k]] <= s
    OBVIOUS
  <2>1. k \in 1 .. n /\ k \notin S
    BY <1>1, <1>13
  <2>2. ~(s < e[list[k]]) /\ e[list[k]] \in Nat
    BY <1>2, <1>3, <2>1
  <2> QED  BY <1>5, <2>2
<1> QED  BY <1>10, <1>11, <1>13, <1>14, <1>15, <1>16 DEF Placed

(***************************************************************************)
(* The step that puts the new region into the list.                        *)
(***************************************************************************)
Inserts(e, hint, length, s, a, t, v, what, at, pages) ==
  /\ Taken(e, hint, length, s, a, t)
  /\ v \in Region /\ v \notin Listed /\ kind[v] = "free" /\ what \in {"anon", "file"}
  /\ halted = "no" /\ halted' = "no"
  /\ at \in 1 .. Len(list) /\ list' = InsertAt(list, at, v) /\ t <= start[list[at]]
  /\ \A k \in 1 .. at - 1 : e[list[k]] <= s
  /\ start' = [start EXCEPT ![v] = s] /\ end' = [e EXCEPT ![v] = t]
  /\ kind' = [kind EXCEPT ![v] = what]
  /\ VmrCache' = v /\ VmrCount' = VmrCount + 1
  /\ pages = PagesOf(s, a + length)
  /\ pt' = [p \in Page |-> IF what = "file" /\ p \in pages THEN "data" ELSE pt[p]]
  /\ written' = IF what = "file" THEN written \cup pages ELSE written \ pages
  /\ UNCHANGED <<Heap, BreakPointLength, told, astray, forks>>

LEMMA InsertedList ==
  ASSUME list \in Seq(Region), NEW v \in Region, v \notin Listed, TypeOK,
         NEW at \in 1 .. Len(list), list' = InsertAt(list, at, v)
  PROVE  /\ list' \in Seq(Region) /\ Len(list') = Len(list) + 1
         /\ \A k \in 1 .. Len(list) + 1 :
              /\ k < at => list'[k] = list[k] /\ k \in 1 .. Len(list)
              /\ k = at => list'[k] = v
              /\ k > at => list'[k] = list[k - 1] /\ k - 1 \in 1 .. Len(list)
         /\ ToSet(list') = Listed \cup {v} /\ IsInjective(list')
<1> DEFINE n == Len(list)
<1>1. Inserted(list', list, at, v) /\ n \in Nat
  BY InsertAtIs
<1>2. /\ list' \in Seq(Region) /\ Len(list') = n + 1
      /\ \A k \in 1 .. n + 1 :
           /\ k < at => list'[k] = list[k] /\ k \in 1 .. n
           /\ k = at => list'[k] = v
           /\ k > at => list'[k] = list[k - 1] /\ k - 1 \in 1 .. n
  BY <1>1 DEF Inserted
<1>3. /\ \A k \in 1 .. n : list[k] \in Listed
      /\ \A u \in Listed : \E k \in 1 .. n : list[k] = u
      /\ \A j, k \in 1 .. n : list[j] = list[k] => j = k
  BY ListIs
<1> HIDE DEF n
<1>4. ASSUME NEW k \in 1 .. n + 1 PROVE list'[k] \in Listed \cup {v}
  BY <1>1, <1>2, <1>3
<1>5. ASSUME NEW u \in Listed \cup {v} PROVE \E k \in 1 .. n + 1 : list'[k] = u
  <2>1. CASE u = v
    <3>1. at \in 1 .. n + 1
      BY <1>1 DEF n
    <3> QED  BY <1>2, <2>1, <3>1
  <2>2. CASE u # v
    <3>1. PICK k \in 1 .. n : list[k] = u
      BY <1>3, <2>2
    <3>2. CASE k < at
      <4>1. k \in 1 .. n + 1
        BY <1>1
      <4> QED  BY <1>2, <3>1, <3>2, <4>1
    <3>3. CASE ~(k < at)
      <4>1. k + 1 \in 1 .. n + 1 /\ k + 1 > at /\ (k + 1) - 1 = k
        BY <1>1, <3>3 DEF n
      <4>2. list'[k + 1] = list[(k + 1) - 1]
        BY <1>2, <4>1
      <4> QED  BY <3>1, <4>1, <4>2
    <3> QED  BY <3>2, <3>3
  <2> QED  BY <2>1, <2>2
<1>6. ASSUME NEW j \in 1 .. n + 1, NEW k \in 1 .. n + 1, list'[j] = list'[k] PROVE j = k
  <2>1. CASE j = at \/ k = at
    <3>1. ASSUME NEW i \in 1 .. n + 1, i # at PROVE list'[i] # v
      <4>1. at \in Int /\ i \in Int
        BY <1>1 DEF n
      <4>2. CASE i < at
        BY <1>2, <1>3, <4>2
      <4>3. CASE i > at
        <5>1. list'[i] = list[i - 1] /\ i - 1 \in 1 .. n
          BY <1>2, <4>3
        <5> QED  BY <1>3, <5>1
      <4> QED  BY <3>1, <4>1, <4>2, <4>3
    <3>2. list'[at] = v
      <4>1. at \in 1 .. n + 1
        BY <1>1 DEF n
      <4> QED  BY <1>2, <4>1
    <3> QED  BY <1>6, <2>1, <3>1, <3>2
  <2>2. CASE j < at /\ k < at
    BY <1>2, <1>3, <1>6, <2>2
  <2>3. CASE j > at /\ k > at
    <3>1. j - 1 = k - 1
      BY <1>2, <1>3, <1>6, <2>3
    <3> QED  BY <3>1
  <2>4. CASE j < at /\ k > at
    <3>1. j = k - 1
      BY <1>2, <1>3, <1>6, <2>4
    <3> QED  BY <2>4, <3>1 DEF n
  <2>5. CASE j > at /\ k < at
    <3>1. j - 1 = k
      BY <1>2, <1>3, <1>6, <2>5
    <3> QED  BY <2>5, <3>1 DEF n
  <2>6. at \in Int
    BY <1>1 DEF n
  <2> QED  BY <2>1, <2>2, <2>3, <2>4, <2>5, <2>6
<1>7. ToSet(list') = Listed \cup {v} /\ IsInjective(list')
  <2> DEFINE l == list'
             S == Listed \cup {v}
  <2>1. l \in Seq(Region) /\ Len(l) = n + 1
    BY <1>2
  <2>2. /\ \A k \in 1 .. n + 1 : l[k] \in S
        /\ \A u \in S : \E k \in 1 .. n + 1 : l[k] = u
        /\ \A j, k \in 1 .. n + 1 : l[j] = l[k] => j = k
    BY <1>4, <1>5, <1>6
  <2> HIDE DEF l, S
  <2>3. /\ \A k \in 1 .. Len(l) : l[k] \in S
        /\ \A u \in S : \E k \in 1 .. Len(l) : l[k] = u
        /\ \A j, k \in 1 .. Len(l) : l[j] = l[k] => j = k
    BY <2>1, <2>2
  <2>4. ToSet(l) = S /\ IsInjective(l)
    BY <2>1, <2>3, ListNext
  <2> QED  BY <2>4 DEF l, S
<1> QED  BY <1>2, <1>7 DEF n

LEMMA InsertStep ==
  ASSUME VmInv, NEW e, NEW hint, NEW length, NEW s, NEW a, NEW t, NEW v,
         NEW what, NEW at,
         NEW pages, Inserts(e, hint, length, s, a, t, v, what, at, pages)
  PROVE  VmInv'
<1> DEFINE n == Len(list)
<1>1. /\ Taken(e, hint, length, s, a, t)
      /\ v \in Region /\ v \notin Listed /\ kind[v] = "free" /\ what \in {"anon", "file"}
      /\ halted = "no" /\ halted' = "no"
      /\ at \in 1 .. n /\ list' = InsertAt(list, at, v) /\ t <= start[list[at]]
      /\ \A k \in 1 .. at - 1 : e[list[k]] <= s
      /\ start' = [start EXCEPT ![v] = s] /\ end' = [e EXCEPT ![v] = t]
      /\ kind' = [kind EXCEPT ![v] = what]
      /\ VmrCache' = v /\ VmrCount' = VmrCount + 1
      /\ pages = PagesOf(s, a + length)
      /\ pt' = [p \in Page |-> IF what = "file" /\ p \in pages THEN "data" ELSE pt[p]]
      /\ written' = IF what = "file" THEN written \cup pages ELSE written \ pages
      /\ UNCHANGED <<Heap, BreakPointLength, told, astray, forks>>
  BY DEF Inserts
<1>2. /\ Cut(e) /\ CutsOnly(e, hint, length) /\ e[2] = end[2] /\ length \in Nat
      /\ s \in Nat /\ t \in Nat /\ Aligned(s) /\ Aligned(t) /\ s < t
      /\ Lowest <= s /\ a \in Nat /\ s <= a /\ t = RoundUp(a + length) /\ a + length <= t
      /\ (hint # Nil => a = hint) /\ e \in [Region -> Nat]
  BY <1>1 DEF Taken, Cut
<1>3. /\ TypeOK /\ BoundsInv /\ HeapInv /\ OrderInv
      /\ start \in [Region -> Nat] /\ end \in [Region -> Nat] /\ kind \in [Region -> Kind]
      /\ list \in Seq(Region) /\ n \in Nat /\ VmrCount = n /\ written \subseteq Page
      /\ pt \in [Page -> {"none", "zero", "data"}]
  BY VmParts, Types, ListIs
<1>4. /\ start' \in [Region -> Nat] /\ end' \in [Region -> Nat] /\ kind' \in [Region -> Kind]
      /\ start'[v] = s /\ end'[v] = t /\ kind'[v] = what
      /\ \A u \in Region : u # v => /\ start'[u] = start[u] /\ end'[u] = e[u]
                                    /\ kind'[u] = kind[u]
  BY <1>1, <1>2, <1>3 DEF Kind, Mapping
<1>5. Listed' = Listed \cup {v}
  BY <1>1, <1>4 DEF Listed
<1>6. /\ list' \in Seq(Region) /\ Len(list') = n + 1
      /\ \A k \in 1 .. n + 1 :
           /\ k < at => list'[k] = list[k] /\ k \in 1 .. n
           /\ k = at => list'[k] = v
           /\ k > at => list'[k] = list[k - 1] /\ k - 1 \in 1 .. n
      /\ ToSet(list') = Listed \cup {v} /\ IsInjective(list')
  BY <1>1, <1>3, InsertedList
<1>7. \A k \in 1 .. n : list[k] # v /\ list[k] \in Region /\ list[k] \in Listed
  BY <1>1, ElementIs
<1>8. TypeOK'
  <2>1. VmrCount' = Len(list')
    BY <1>1, <1>3, <1>6
  <2>2. ToSet(list)' = {u \in Region : kind'[u] # "free"} /\ IsInjective(list)'
    BY <1>5, <1>6 DEF Listed
  <2>3. pages \subseteq Page
    BY <1>1 DEF PagesOf
  <2>4. written' \subseteq Page /\ pt' \in [Page -> {"none", "zero", "data"}]
    BY <1>1, <1>3, <2>3
  <2> QED  BY <1>1, <1>3, <1>4, <1>6, <2>1, <2>2, <2>4 DEF TypeOK
<1>9. BoundsInv'
  <2> SUFFICES ASSUME NEW u \in Listed \cup {v} PROVE Bounds(u)'
    BY <1>5 DEF BoundsInv
  <2>1. CASE u = v
    <3>1. Lowest <= t /\ s <= t /\ what # "kernel"
      BY <1>1, <1>2, Layout
    <3> QED  BY <1>2, <1>4, <2>1, <3>1 DEF Bounds
  <2>2. CASE u # v
    <3>1. u \in Listed /\ u \in Region
      BY <2>2 DEF Listed
    <3>2. Bounds(u) /\ Aligned(e[u]) /\ Lowest <= e[u] /\ start[u] <= e[u]
      BY <1>2, <1>3, <3>1 DEF BoundsInv, Cut
    <3> QED  BY <1>4, <2>2, <3>1, <3>2 DEF Bounds
  <2> QED  BY <2>1, <2>2
<1>10. HeapInv'
  <2>1. v # 2 /\ v # Heap /\ 2 \in Region
    BY <1>1, <1>3, Layout DEF HeapInv
  <2>2. \A u \in Region : kind'[u] = "heap" <=> u = Heap
    BY <1>1, <1>3, <1>4, <2>1 DEF HeapInv
  <2> QED  BY <1>1, <1>2, <1>3, <1>4, <2>1, <2>2 DEF HeapInv
<1>11. OrderInv'
  <2>1. ASSUME NEW k \in 1 .. n + 1
        PROVE  kind'[list'[k]] = "kernel" <=> k = n + 1
    <3>1. CASE k < at
      <4>1. list'[k] = list[k] /\ k \in 1 .. n /\ k # n + 1 /\ k # n
        BY <1>1, <1>3, <1>6, <3>1
      <4>2. kind'[list[k]] = kind[list[k]] /\ kind[list[k]] # "kernel"
        <5>1. kind'[list[k]] = kind[list[k]]
          BY <1>4, <1>7, <4>1
        <5>2. kind[list[k]] = "kernel" <=> k = n
          BY <1>3, <4>1 DEF OrderInv
        <5> QED  BY <4>1, <5>1, <5>2
      <4> QED  BY <4>1, <4>2
    <3>2. CASE k = at
      <4>1. list'[k] = v
        BY <1>6, <3>2
      <4>2. kind'[v] = what /\ what # "kernel"
        BY <1>1, <1>4
      <4>3. k # n + 1
        BY <1>1, <1>3, <3>2
      <4> QED  BY <4>1, <4>2, <4>3
    <3>3. CASE k > at
      <4>1. list'[k] = list[k - 1] /\ k - 1 \in 1 .. n
        BY <1>6, <3>3
      <4>2. kind[list[k - 1]] = "kernel" <=> k - 1 = n
        BY <1>3, <4>1 DEF OrderInv
      <4>3. kind'[list[k - 1]] = kind[list[k - 1]]
        BY <1>4, <1>7, <4>1
      <4> QED  BY <1>3, <4>1, <4>2, <4>3
    <3> QED  BY <1>1, <3>1, <3>2, <3>3
  \* the regions in front of the new one end where it begins
  <2>2. ASSUME NEW k \in 1 .. at - 1
        PROVE  k \in 1 .. n /\ start[list[k]] <= s /\ e[list[k]] <= s
    <3>1. k \in 1 .. n
      BY <1>1, <1>3
    <3>2. /\ start[list[k]] <= e[list[k]] /\ e[list[k]] \in Nat /\ start[list[k]] \in Nat
      BY <1>2, <1>3, <1>7, <3>1 DEF Cut
    <3> QED  BY <1>1, <1>2, <3>1, <3>2
  \* the ones behind it begin where it ends, or later
  <2>3. ASSUME NEW k \in at .. n
        PROVE  k \in 1 .. n /\ t <= start[list[k]] /\ s <= start[list[k]]
    <3>1. k \in 1 .. n
      BY <1>1, <1>3
    <3>2. start[list[k]] \in Nat /\ start[list[at]] \in Nat
      BY <1>1, <3>1, ElementIs
    <3>3. start[list[at]] <= start[list[k]]
      <4>1. CASE k = at
        BY <3>2, <4>1
      <4>2. CASE k # at
        BY <1>1, <3>1, <4>2, OrderIs
      <4> QED  BY <4>1, <4>2
    <3> QED  BY <1>1, <1>2, <3>1, <3>2, <3>3
  <2>4. ASSUME NEW j \in 1 .. n, NEW k \in 1 .. n, j < k
        PROVE  /\ start[list[j]] <= start[list[k]]
               /\ e[list[j]] <= start[list[k]] \/ (astray /\ list[j] = 2)
    <3>1. /\ start[list[j]] <= start[list[k]]
          /\ end[list[j]] <= start[list[k]] \/ (astray /\ list[j] = 2)
      BY <2>4, OrderIs
    <3>2. /\ e[list[j]] <= end[list[j]] /\ e[list[j]] \in Nat /\ end[list[j]] \in Nat
          /\ start[list[k]] \in Nat
      BY <1>2, <1>3, <1>7 DEF Cut
    <3> QED  BY <3>1, <3>2
  <2>5. /\ \A k \in 1 .. n : start'[list[k]] = start[list[k]] /\ end'[list[k]] = e[list[k]]
        /\ astray' = astray
    BY <1>1, <1>4, <1>7
  <2>6. ASSUME NEW j \in 1 .. n + 1, NEW k \in 1 .. n + 1, j < k
        PROVE  Before(list[j], list[k])'
    <3>1. at \in Int /\ j \in Int /\ k \in Int
      BY <1>1
    <3>2. CASE k < at
      <4>1. /\ list'[j] = list[j] /\ list'[k] = list[k] /\ j \in 1 .. n /\ k \in 1 .. n
        BY <1>6, <2>6, <3>1, <3>2
      <4> QED  BY <1>1, <1>4, <1>7, <2>4, <2>6, <4>1 DEF Before
    <3>3. CASE k = at
      <4>1. list'[j] = list[j] /\ list'[k] = v /\ j \in 1 .. n /\ j \in 1 .. at - 1
        BY <1>6, <2>6, <3>1, <3>3
      <4> QED  BY <1>4, <1>7, <2>2, <4>1 DEF Before
    <3>4. CASE k > at /\ j < at
      <4>1. /\ list'[j] = list[j] /\ list'[k] = list[k - 1] /\ j \in 1 .. n
            /\ k - 1 \in 1 .. n /\ j < k - 1
        BY <1>6, <3>1, <3>4
      <4>2. /\ start[list[j]] <= start[list[k - 1]]
            /\ e[list[j]] <= start[list[k - 1]] \/ (astray /\ list[j] = 2)
        BY <2>4, <4>1
      <4> QED  BY <2>5, <4>1, <4>2 DEF Before
    <3>5. CASE k > at /\ j = at
      <4>1. /\ list'[j] = v /\ list'[k] = list[k - 1] /\ k - 1 \in 1 .. n
            /\ k - 1 \in at .. n
        BY <1>6, <3>1, <3>5
      <4> QED  BY <1>4, <1>7, <2>3, <4>1 DEF Before
    <3>6. CASE j > at
      <4>1. /\ list'[j] = list[j - 1] /\ list'[k] = list[k - 1] /\ j - 1 \in 1 .. n
            /\ k - 1 \in 1 .. n /\ j - 1 < k - 1
        BY <1>6, <2>6, <3>1, <3>6
      <4>2. /\ start[list[j - 1]] <= start[list[k - 1]]
            /\ e[list[j - 1]] <= start[list[k - 1]] \/ (astray /\ list[j - 1] = 2)
        BY <2>4, <4>1
      <4> QED  BY <2>5, <4>1, <4>2 DEF Before
    <3> QED  BY <2>6, <3>1, <3>2, <3>3, <3>4, <3>5, <3>6
  <2>7. Len(list') > 0 /\ halted' # "overlap"
    BY <1>1, <1>3, <1>6
  <2> QED  BY <1>6, <2>1, <2>6, <2>7 DEF OrderInv
<1>12. CacheInv'
  BY <1>1, <1>5 DEF CacheInv
<1>13. NothingLost'
  <2>0. ToSet(list)' = Listed \cup {v}
    BY <1>6 DEF ToSet
  <2>1. ASSUME NEW q \in pages
        PROVE  q \in Page /\ In(v, q * PAGESIZE)' /\ (what = "file" => pt'[q] = "data")
    <3>1. q \in Page /\ s <= q * PAGESIZE /\ q * PAGESIZE < a + length
      BY <1>1 DEF PagesOf
    <3>2. q * PAGESIZE < t
      <4> DEFINE b == q * PAGESIZE
      <4>1. b \in Nat /\ b < a + length
        BY <3>1, PageIs
      <4> HIDE DEF b
      <4>2. b < t
        BY <1>2, <4>1
      <4> QED  BY <4>2 DEF b
    <3> QED  BY <1>1, <1>4, <3>1, <3>2 DEF In
  <2>2. ASSUME NEW q \in written, q \notin pages
        PROVE  pt'[q] = "data" /\ \E u \in Listed : In(u, q * PAGESIZE)'
    <3>1. pt[q] = "data" /\ q \in Page /\ q * PAGESIZE \in Nat
      BY <1>1, <1>2, StillThere
    <3>2. PICK u \in Listed : /\ start[u] <= q * PAGESIZE /\ q * PAGESIZE < end[u]
                              /\ q * PAGESIZE < e[u] \/ e[u] <= q * PAGESIZE
      BY <1>1, <1>2, StillThere
    <3>3. u \in Region /\ u # v
      BY <1>1, <3>2 DEF Listed
    <3>4. q * PAGESIZE < e[u]
      <4> DEFINE b == q * PAGESIZE
      <4> SUFFICES ASSUME ~(b < e[u]) PROVE FALSE
        OBVIOUS
      <4>1. b \in Nat /\ Aligned(b) /\ b < end[u] /\ e[u] <= b /\ e[u] \in Nat
            /\ end[u] \in Nat
        BY <1>2, <1>3, <3>1, <3>2, <3>3, PageIs
      <4>2. ~(s <= b /\ b < a + length)
        BY <1>1, <2>2, <3>1 DEF PagesOf
      <4> HIDE DEF b
      <4>3. e[u] # end[u]
        BY <4>1
      <4>4. hint # Nil /\ e[u] = RoundUp(hint) /\ end[u] <= RoundUp(hint + length)
        BY <1>2, <3>3, <4>3 DEF CutsOnly
      <4>5. s <= e[u] /\ end[u] <= t
        <5>1. e[u] = RoundUp(a) /\ end[u] <= t
          BY <1>2, <4>4
        <5>2. a <= RoundUp(a)
          BY <1>2, RoundUpIs
        <5> QED  BY <1>2, <4>1, <5>1, <5>2
      <4>6. a + length <= b
        BY <1>2, <4>1, <4>2, <4>5
      <4>7. t <= b
        <5>1. a + length \in Nat
          BY <1>2
        <5> QED  BY <1>2, <4>1, <4>6, <5>1, RoundUpLeast
      <4> QED  BY <1>2, <4>1, <4>5, <4>7
    <3>5. pt'[q] = "data"
      BY <1>1, <2>2, <3>1
    <3>6. In(u, q * PAGESIZE)'
      BY <1>4, <3>2, <3>3, <3>4 DEF In
    <3> QED  BY <3>2, <3>5, <3>6
  <2>3. ASSUME NEW q \in written'
        PROVE  pt'[q] = "data" /\ \E u \in ToSet(list)' : In(u, q * PAGESIZE)'
    <3>1. CASE q \in pages
      <4>1. what = "file"
        BY <1>1, <2>3, <3>1
      <4> QED  BY <2>0, <2>1, <3>1, <4>1
    <3>2. CASE q \notin pages
      <4>1. q \in written
        BY <1>1, <2>3, <3>2
      <4> QED  BY <2>0, <2>2, <3>2, <4>1
    <3> QED  BY <3>1, <3>2
  <2> QED  BY <2>3 DEF NothingLost
<1> QED  BY <1>8, <1>9, <1>10, <1>11, <1>12, <1>13 DEF VmInv

LEMMA MmapStep ==
  ASSUME VmInv, NEW hint \in Hints \cup {Nil}, NEW length \in Lengths,
         NEW fixed \in BOOLEAN, NEW what \in {"anon", "file"},
         Mmap(fixed, hint, length, what)
  PROVE  VmInv'
<1> DEFINE e == EndsAfterCut(fixed, hint, length)
           s == Room(fixed, hint, length)
           a == Given(fixed, hint, length)
           t == RoundUp(a + length)
           v == Min(Unused)
           n == Len(list)
           starts == [start EXCEPT ![v] = s]
           ends == [e EXCEPT ![v] = t]
           pages == PagesOf(s, a + length)
           cache == CacheAfterCut(fixed, hint)
<1>1. /\ halted = "no" /\ Unused # {}
      /\ UNCHANGED <<Heap, BreakPointLength, told, astray, forks>>
      /\ Asks(fixed, hint, length) /\ ~Refused(fixed, hint, length)
  BY DEF Mmap, Asks, heap
<1>2. Taken(e, hint, length, s, a, t)
  BY <1>1, RoomIs
<1>3. v \in Region /\ kind[v] = "free" /\ v \notin Listed
  <2>1. Unused \in SUBSET Nat
    BY Layout DEF Unused, Region
  <2>2. v \in Unused
    BY <1>1, <2>1, MinIs
  <2> HIDE DEF v
  <2> QED  BY <2>2 DEF Unused, Listed
<1>4. \/ /\ Overlaps(list, cache, starts, ends, v)
         /\ halted' = IF Aligned(hint) THEN "overlap" ELSE "unaligned"
         /\ UNCHANGED <<start, end, kind, list, VmrCount, VmrCache, pt, written>>
      \/ /\ ~Overlaps(list, cache, starts, ends, v)
         /\ start' = starts /\ end' = ends
         /\ kind' = [kind EXCEPT ![v] = what]
         /\ list' = InsertVMR(list, cache, starts, ends, v)
         /\ VmrCache' = v /\ VmrCount' = VmrCount + 1
         /\ pt' = [p \in Page |-> IF what = "file" /\ p \in pages THEN "data" ELSE pt[p]]
         /\ written' = IF what = "file" THEN written \cup pages ELSE written \ pages
         /\ halted' = halted
  BY DEF Mmap, regions
<1>5. /\ starts = [start EXCEPT ![v] = s] /\ ends = [e EXCEPT ![v] = t]
      /\ Prepares(starts, ends, e, v, s, t)
  BY DEF Prepares
<1> HIDE DEF e, s, a, t, v, cache, starts, ends
<1>6. Placed(cache, starts, ends, e, hint, v, s, t)
  BY <1>2, <1>3, <1>5, MmapPlace
<1>7. CASE Overlaps(list, cache, starts, ends, v)
  <2>1. /\ halted' \in {"overlap", "unaligned"} /\ (halted' = "overlap" => astray)
        /\ UNCHANGED <<start, end, kind, list, VmrCount, VmrCache, pt, written>>
    BY <1>4, <1>6, <1>7 DEF Placed
  <2>2. NothingLost'
    BY <2>1, VmParts DEF NothingLost
  <2>3. VmrCache' = Nil \/ VmrCache' \in Listed
    BY <2>1, VmParts DEF CacheInv
  <2> QED  BY <1>1, <2>1, <2>2, <2>3, VmParts, Types, SameRegions DEF HeapInv
<1>8. CASE ~Overlaps(list, cache, starts, ends, v)
  <2>1. /\ start' = starts /\ end' = ends /\ kind' = [kind EXCEPT ![v] = what]
        /\ VmrCache' = v /\ VmrCount' = VmrCount + 1 /\ halted' = "no"
        /\ pt' = [p \in Page |-> IF what = "file" /\ p \in pages THEN "data" ELSE pt[p]]
        /\ written' = IF what = "file" THEN written \cup pages ELSE written \ pages
    BY <1>1, <1>4, <1>8
  <2>2. PICK at \in 1 .. n : /\ list' = InsertAt(list, at, v) /\ t <= start[list[at]]
                             /\ \A k \in 1 .. at - 1 : e[list[k]] <= s
    BY <1>4, <1>6, <1>8 DEF Placed
  <2>3. UNCHANGED <<Heap, BreakPointLength, told, astray, forks>>
    BY <1>1
  <2>4. Inserts(e, hint, length, s, a, t, v, what, at, pages)
    BY <1>1, <1>2, <1>3, <1>5, <2>1, <2>2, <2>3 DEF Inserts
  <2> QED  BY <2>4, InsertStep
<1> QED  BY <1>7, <1>8

-----------------------------------------------------------------------------
LEMMA InitStep == Init => VmInv
<1> SUFFICES ASSUME Init PROVE VmInv
  OBVIOUS
<1> DEFINE first == <<ProgramStart, HeapStart, MmapStart, StackStart, KernelStart>>
           past  == <<HeapStart, HeapStart + PAGESIZE, MmapStart + PAGESIZE, StackEnd,
                      KernelEnd>>
           what  == <<"program", "heap", "program", "stack", "kernel">>
<1>1. /\ start = [v \in Region |-> IF v <= 5 THEN first[v] ELSE 0]
      /\ end   = [v \in Region |-> IF v <= 5 THEN past[v] ELSE 0]
      /\ kind  = [v \in Region |-> IF v <= 5 THEN what[v] ELSE "free"]
      /\ list = <<1, 2, 3, 4, 5>>
      /\ VmrCache = 3 /\ VmrCount = 5
      /\ Heap = 2 /\ BreakPointLength = PAGESIZE
      /\ pt = [p \in Page |-> "none"]
      /\ halted = "no" /\ written = {}
      /\ told = HeapStart + PAGESIZE /\ astray = FALSE /\ forks = 0
  BY DEF Init
<1>2. /\ PAGESIZE \in Nat /\ PAGESIZE > 0
      /\ \A a \in {Lowest, ProgramStart, HeapStart, MmapStart, MmapEnd, StackStart,
                   StackEnd, KernelStart, KernelEnd} : a \in Nat /\ Aligned(a)
      /\ 0 < Lowest /\ Lowest <= HeapStart
      /\ ProgramStart < HeapStart /\ HeapStart + PAGESIZE <= MmapStart
      /\ MmapStart + PAGESIZE <= MmapEnd /\ MmapEnd <= StackStart
      /\ StackStart < StackEnd /\ StackEnd <= KernelStart /\ KernelStart < KernelEnd
  BY LayoutAssumption
<1>3. /\ MaxRegions \in Nat /\ MaxRegions >= 5 /\ MaxForks \in Nat
      /\ \A k \in 1 .. 5 : k \in Region
  BY BoundAssumption DEF Region
<1>4. HeapStart + PAGESIZE \in Nat /\ Aligned(HeapStart + PAGESIZE)
      /\ MmapStart + PAGESIZE \in Nat /\ Aligned(MmapStart + PAGESIZE)
  BY <1>2, Layout, AlignedSum
<1>5. /\ start[1] = ProgramStart /\ start[2] = HeapStart /\ start[3] = MmapStart
      /\ start[4] = StackStart /\ start[5] = KernelStart
      /\ end[1] = HeapStart /\ end[2] = HeapStart + PAGESIZE
      /\ end[3] = MmapStart + PAGESIZE /\ end[4] = StackEnd /\ end[5] = KernelEnd
      /\ kind[1] = "program" /\ kind[2] = "heap" /\ kind[3] = "program"
      /\ kind[4] = "stack" /\ kind[5] = "kernel"
  BY <1>1, <1>3
<1>6. \A v \in Region : v \notin 1 .. 5 => start[v] = 0 /\ end[v] = 0 /\ kind[v] = "free"
  BY <1>1 DEF Region
<1>7. \A v \in Region : v \in 1 .. 5 <=> v \in {1, 2, 3, 4, 5}
  OBVIOUS
<1>8. start \in [Region -> Nat] /\ end \in [Region -> Nat] /\ kind \in [Region -> Kind]
  <2>1. /\ DOMAIN start = Region /\ start = [v \in Region |-> start[v]]
        /\ DOMAIN end = Region /\ end = [v \in Region |-> end[v]]
        /\ DOMAIN kind = Region /\ kind = [v \in Region |-> kind[v]]
    BY <1>1
  <2>2. \A v \in Region : start[v] \in Nat /\ end[v] \in Nat /\ kind[v] \in Kind
    BY <1>2, <1>4, <1>5, <1>6, <1>7 DEF Kind
  <2> QED  BY <2>1, <2>2
<1>9. /\ list \in Seq(Region) /\ Len(list) = 5
      /\ list[1] = 1 /\ list[2] = 2 /\ list[3] = 3 /\ list[4] = 4 /\ list[5] = 5
  BY <1>1, <1>3
<1>10. Listed = {1, 2, 3, 4, 5}
  BY <1>3, <1>5, <1>6, <1>7 DEF Listed
<1>11. \A k \in 1 .. 5 : list[k] = k
  BY <1>9
<1>12. ToSet(list) = {1, 2, 3, 4, 5} /\ IsInjective(list)
  <2> DEFINE l == list
             S == {1, 2, 3, 4, 5}
  <2>1. /\ \A k \in 1 .. 5 : l[k] \in S
        /\ \A v \in S : \E k \in 1 .. 5 : l[k] = v
        /\ \A j, k \in 1 .. 5 : l[j] = l[k] => j = k
    BY <1>9, <1>11
  <2>2. l \in Seq(Region) /\ Len(l) = 5
    BY <1>9
  <2> HIDE DEF l, S
  <2>3. /\ \A k \in 1 .. Len(l) : l[k] \in S
        /\ \A v \in S : \E k \in 1 .. Len(l) : l[k] = v
        /\ \A j, k \in 1 .. Len(l) : l[j] = l[k] => j = k
    BY <2>1, <2>2
  <2>4. ToSet(l) = S /\ IsInjective(l)
    BY <2>2, <2>3, ListNext
  <2> QED  BY <2>4 DEF l, S
<1>13. TypeOK
  <2>1. pt \in [Page -> {"none", "zero", "data"}]
    BY <1>1
  <2>2. forks \in 0 .. MaxForks /\ VmrCache \in Region /\ Heap \in Region
    BY <1>1, <1>3
  <2>3. /\ VmrCount = Len(list) /\ BreakPointLength \in Nat /\ told \in Nat
        /\ halted = "no" /\ written = {} /\ astray = FALSE
    BY <1>1, <1>2, <1>4, <1>9
  <2> QED  BY <1>8, <1>9, <1>10, <1>12, <2>1, <2>2, <2>3 DEF TypeOK, Listed
<1>14. BoundsInv
  <2>1. Bounds(1) /\ Bounds(2) /\ Bounds(3) /\ Bounds(4) /\ Bounds(5)
    BY <1>2, <1>4, <1>5 DEF Bounds, Mapping
  <2> QED  BY <1>10, <2>1 DEF BoundsInv
<1>15. HeapInv
  <2>1. \A v \in Region : kind[v] = "heap" <=> v = 2
    BY <1>5, <1>6, <1>7
  <2> QED  BY <1>1, <1>2, <1>4, <1>5, <2>1 DEF HeapInv
<1>16. OrderInv
  <2>1. \A k \in 1 .. 5 : kind[k] = "kernel" <=> k = 5
    BY <1>5
  <2>2. \A j, k \in 1 .. 5 : j < k => Before(j, k)
    BY <1>2, <1>4, <1>5 DEF Before
  <2> QED  BY <1>1, <1>9, <1>11, <2>1, <2>2 DEF OrderInv
<1>17. CacheInv /\ NothingLost
  BY <1>1, <1>10 DEF CacheInv, NothingLost
<1> QED  BY <1>13, <1>14, <1>15, <1>16, <1>17 DEF VmInv

LEMMA NextStep == VmInv /\ [Next]_vars => VmInv'
<1> SUFFICES ASSUME VmInv, [Next]_vars PROVE VmInv'
  OBVIOUS
<1>1. ASSUME NEW hint \in Hints \cup {Nil}, NEW length \in Lengths, NEW fixed \in BOOLEAN,
             NEW what \in {"anon", "file"}, Mmap(fixed, hint, length, what)
      PROVE  VmInv'
  BY <1>1, MmapStep
<1>2. ASSUME NEW hint \in Hints \cup {Nil}, NEW length \in Lengths, NEW fixed \in BOOLEAN,
             MmapRefused(fixed, hint, length)
      PROVE  VmInv'
  BY <1>2, MmapRefusedStep
<1>3. ASSUME NEW v \in Region, Munmap(start[v]) PROVE VmInv'
  <2>1. start[v] \in Nat
    BY VmParts, Types
  <2> QED  BY <1>3, <2>1, MunmapStep
<1>4. ASSUME NEW v \in Region, UseOfCopy(start[v]) PROVE VmInv'
  BY <1>4, UseOfCopyStep
<1>5. ASSUME NEW a \in Breaks, BrkGrows(a) \/ BrkCollides(a) \/ BrkShrinks(a) \/ BrkBelow(a)
      PROVE  VmInv'
  <2>1. a \in Nat
    BY RequestAssumption
  <2> QED  BY <1>5, <2>1, BrkGrowsStep, BrkCollidesStep, BrkShrinksStep, BrkBelowStep
<1>6. ASSUME NEW p \in Touched, NEW write \in BOOLEAN, Access(p, write) PROVE VmInv'
  <2>1. p \in Page
    BY RequestAssumption DEF Page
  <2> QED  BY <1>6, <2>1, AccessStep
<1>7. CASE Fork
  BY <1>7, ForkStep
<1>8. CASE UNCHANGED vars
  <2>1. /\ UNCHANGED <<start, end, kind, list, VmrCount, Heap, told, forks>>
        /\ UNCHANGED <<BreakPointLength, astray, VmrCache, pt, halted, written>>
    BY <1>8 DEF vars, regions, heap
  <2>2. VmrCache' = Nil \/ VmrCache' \in Listed
    BY <2>1, VmParts DEF CacheInv
  <2>3. TypeOK /\ (halted = "overlap" => astray)
    BY VmParts DEF OrderInv
  <2>4. NothingLost'
    BY <2>1, VmParts DEF NothingLost, In
  <2>5. Heap # Nil /\ ~astray' => start[2] + BreakPointLength' <= end[2]
    BY <2>1, VmParts DEF HeapInv
  <2>6. /\ halted' \in {"no", "overlap", "unaligned", "empty", "copy"} /\ astray' \in BOOLEAN
        /\ pt' \in [Page -> {"none", "zero", "data"}] /\ written' \subseteq Page
        /\ BreakPointLength' \in Nat
        /\ astray => astray'
        /\ halted' = "overlap" => astray'
    BY <2>1, <2>3, Types
  <2> QED  BY <2>1, <2>2, <2>4, <2>5, <2>6, SameRegions
<1> QED  BY <1>1, <1>2, <1>3, <1>4, <1>5, <1>6, <1>7, <1>8 DEF Next

LEMMA Invariant == Spec => []VmInv
<1> QED  BY InitStep, NextStep, PTL DEF Spec

(***************************************************************************)
(* Every region has its bounds, the list under vmrHead holds each region   *)
(* that is in use once, and VmrCount counts them.                          *)
(***************************************************************************)
THEOREM VmTyped == Spec => []TypeOK
<1>1. VmInv => TypeOK
  BY VmParts
<1> QED  BY <1>1, Invariant, PTL

(***************************************************************************)
(* InsertVMR keeps the list in the order of the addresses, and neither     *)
(* mmap nor brk nor fork makes two regions overlap, but for the heap after *)
(* a break that could not be; InsertVMR stops the kernel for an overlap    *)
(* only then or for a hint inside a page.                                  *)
(***************************************************************************)
THEOREM RegionsStayApart == Spec => []RegionsDisjoint
<1> QED  BY DisjointIs, Invariant, PTL

(***************************************************************************)
(* VmrCache names a region of the list, and FindVMR answers from it what   *)
(* the walk of the list would.                                             *)
(***************************************************************************)
THEOREM CacheTellsTheTruth == Spec => []CacheTransparent
<1> QED  BY CacheIsTrue, Invariant, PTL

(***************************************************************************)
(* GetUsableVMR returns the lowest address with room for the request, and  *)
(* 0 only when there is none.                                              *)
(***************************************************************************)
THEOREM RoomIsAlwaysFound == Spec => []RoomIsFound
<1> QED  BY RoomFoundIs, Invariant, PTL

(***************************************************************************)
(* No page fault, no mmap or munmap of other memory, no brk and no fork    *)
(* loses what the program wrote into a page it still has mapped.           *)
(***************************************************************************)
THEOREM WrittenPagesStay == Spec => []NothingLost
<1>1. VmInv => NothingLost
  BY VmParts
<1> QED  BY <1>1, Invariant, PTL

(***************************************************************************)
(* The break brk last granted lies in the heap's region, also after a      *)
(* refused growth has moved BreakPointLength.                              *)
(***************************************************************************)
THEOREM GrantedBreakIsCovered == Spec => []BreakIsCovered
<1>1. VmInv => BreakIsCovered
  BY VmParts DEF BreakIsCovered, HeapInv
<1> QED  BY <1>1, Invariant, PTL
=============================================================================
