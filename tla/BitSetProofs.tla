---------------------------- MODULE BitSetProofs ----------------------------
(***************************************************************************)
(* What the operators of BitSet do, for every size and every page width,   *)
(* and what every sequence of operations on a BitSet keeps true.           *)
(***************************************************************************)
EXTENDS BitSetObject, FiniteSetTheorems, WellFoundedInduction, TLAPS

-----------------------------------------------------------------------------
(***************************************************************************)
(* Division by the page width, the positions of a set, the complement.     *)
(***************************************************************************)

\* Division by a page width, as the quotient and the remainder.
LEMMA DivMod ==
  ASSUME NEW a \in Int, NEW p \in Nat \ {0}
  PROVE  /\ a \div p \in Int /\ a % p \in Int
         /\ a = p * (a \div p) + (a % p)
         /\ 0 <= a % p /\ a % p < p
OBVIOUS

\* The quotient is the only number that leaves a remainder below the width.
LEMMA DivUnique ==
  ASSUME NEW a \in Int, NEW p \in Nat \ {0}, NEW q \in Int, NEW r \in Int,
         a = p * q + r, 0 <= r, r < p
  PROVE  a \div p = q /\ a % p = r
OBVIOUS

\* A size is its full pages and what is left over; the page count is one more
\* than the full pages exactly when something is left over.
LEMMA PageCountValue ==
  ASSUME NEW q \in Int, NEW r \in Int,
         Size = PageBits * q + r, 0 <= r, r < PageBits
  PROVE  /\ r = 0 => PageCount = q
         /\ r # 0 => PageCount = q + 1
<1>1. CASE r = 0
  <2>1. Size + PageBits - 1 = PageBits * q + (PageBits - 1)
    BY <1>1, BitSetAssumption
  <2>2. QED
    BY <1>1, <2>1, DivUnique, BitSetAssumption DEF PageCount
<1>2. CASE r # 0
  <2>1. Size + PageBits - 1 = PageBits * (q + 1) + (r - 1)
    BY <1>2, BitSetAssumption
  <2>2. QED
    BY <1>2, <2>1, DivUnique, BitSetAssumption DEF PageCount
<1>3. QED
  BY <1>1, <1>2

\* The mask keeps exactly the positions of bits, when the last page is only
\* partly used.
LEMMA MaskKeepsBits ==
  ASSUME Size % PageBits # 0, NEW bits \in SUBSET Positions
  PROVE  MaskLastPage(bits) = bits \cap Bits
<1> DEFINE q == Size \div PageBits
           r == Size % PageBits
<1>1. /\ q \in Int /\ r \in Int
      /\ Size = PageBits * q + r /\ 0 <= r /\ r < PageBits
  BY DivMod, BitSetAssumption
<1>2. PageCount = q + 1
  <2> HIDE DEF q, r
  <2>1. r # 0
    BY DEF r
  <2>2. QED
    BY <1>1, <2>1, PageCountValue
<1>3. ASSUME NEW j \in bits
      PROVE  (j \div PageBits = PageCount - 1 => j % PageBits < r) <=> j \in Bits
  <2> DEFINE a == j \div PageBits
             b == j % PageBits
  <2>1. j \in Int /\ 0 <= j /\ j <= PageCount * PageBits - 1
    <3>1. PageCount * PageBits - 1 \in Int
      BY <1>1, <1>2, BitSetAssumption
    <3>2. QED
      BY <3>1 DEF Positions
  <2>2. /\ a \in Int /\ b \in Int
        /\ j = PageBits * a + b /\ 0 <= b /\ b < PageBits
    BY <2>1, DivMod, BitSetAssumption
  <2> HIDE DEF a, b, q, r
  <2>3. a <= q
    <3>1. PageBits * a < PageBits * (q + 1)
      BY <2>1, <2>2, <1>1, <1>2, BitSetAssumption
    <3>2. QED
      BY <3>1, <2>2, <1>1, BitSetAssumption
  <2>4. CASE a = q
    BY <2>4, <2>1, <2>2, <1>1, <1>2, BitSetAssumption DEF a, b, Bits
  <2>5. CASE a < q
    <3>1. PageBits * (a + 1) <= PageBits * q
      BY <2>5, <2>2, <1>1, BitSetAssumption
    <3>2. j < Size
      BY <3>1, <2>1, <2>2, <1>1, BitSetAssumption
    <3>3. QED
      BY <3>2, <2>5, <2>1, <2>2, <1>1, <1>2, BitSetAssumption DEF a, b, Bits
  <2>6. QED
    BY <2>3, <2>4, <2>5, <2>2, <1>1
<1>4. QED
  BY <1>3 DEF MaskLastPage

\* Masking never leaves a position of the padding, not even when the last page
\* is full (it loses that page then).
LEMMA MaskInBits ==
  ASSUME NEW bits \in SUBSET Positions
  PROVE  MaskLastPage(bits) \subseteq Bits
<1>1. CASE Size % PageBits # 0
  BY <1>1, MaskKeepsBits
<1>2. CASE Size % PageBits = 0
  <2> DEFINE q == Size \div PageBits
  <2>1. q \in Int /\ Size = PageBits * q
    BY <1>2, DivMod, BitSetAssumption
  <2> HIDE DEF q
  <2>2. PageCount = q
    BY <2>1, PageCountValue, BitSetAssumption
  <2>3. ASSUME NEW j \in MaskLastPage(bits)
        PROVE  j \in Bits
    <3> DEFINE a == j \div PageBits
    <3>1. j \in bits /\ (a = PageCount - 1 => j % PageBits < 0)
      BY <2>3, <1>2 DEF MaskLastPage
    <3>2. j \in Int /\ 0 <= j /\ j <= PageBits * q - 1
      <4>1. PageCount * PageBits - 1 \in Int /\ PageCount * PageBits = PageBits * q
        BY <2>1, <2>2, BitSetAssumption
      <4>2. QED
        BY <3>1, <4>1 DEF Positions
    <3>3. QED
      BY <3>2, <2>1, BitSetAssumption DEF Bits
  <2>4. QED
    BY <2>3
<1>3. QED
  BY <1>1, <1>2, DivMod, BitSetAssumption

\* The complement has no position of the padding.
LEMMA ComplementInBits ==
  ASSUME NEW bits
  PROVE  Complement(bits) \subseteq Bits \ bits
<1>1. MaskLastPage(Positions \ bits) \subseteq Positions \ bits
  BY DEF MaskLastPage
<1>2. QED
  BY <1>1, MaskInBits DEF Complement

\* The positions of the bits are positions of the pages.
LEMMA BitsArePositions == Bits \subseteq Positions
<1> DEFINE q == Size \div PageBits
           r == Size % PageBits
<1>1. /\ q \in Int /\ r \in Int
      /\ Size = PageBits * q + r /\ 0 <= r /\ r < PageBits
  BY DivMod, BitSetAssumption
<1> HIDE DEF q, r
<1>2. PageCount \in Int /\ Size <= PageCount * PageBits
  <2>1. CASE r = 0
    BY <2>1, <1>1, PageCountValue, BitSetAssumption
  <2>2. CASE r # 0
    <3>1. PageCount = q + 1
      BY <2>2, <1>1, PageCountValue
    <3>2. (q + 1) * PageBits = PageBits * q + PageBits
      BY <1>1, BitSetAssumption
    <3>3. QED
      BY <3>1, <3>2, <1>1, BitSetAssumption
  <2>3. QED
    BY <2>1, <2>2
<1>3. PageCount * PageBits \in Int
  BY <1>2, BitSetAssumption
<1>4. QED
  BY <1>2, <1>3, BitSetAssumption DEF Bits, Positions

\* operator~ is the complement, as BitSet.h:25 says, whenever the last page
\* is only partly used.
THEOREM ComplementExact ==
  ASSUME Size % PageBits # 0, NEW bits \in SUBSET Bits
  PROVE  Complement(bits) = Bits \ bits
<1>1. Complement(bits) = (Positions \ bits) \cap Bits
  BY MaskKeepsBits DEF Complement
<1>2. QED
  BY <1>1, BitsArePositions

\* set() sets every bit, under the same condition.
THEOREM AllOnesExact ==
  ASSUME Size % PageBits # 0
  PROVE  AllOnes = Bits
BY MaskKeepsBits, BitsArePositions DEF AllOnes

-----------------------------------------------------------------------------
(***************************************************************************)
(* The object: its cached count, and the random draw.                      *)
(***************************************************************************)
LEMMA BitsAreFinite ==
  /\ \A S \in SUBSET Bits : IsFiniteSet(S) /\ Cardinality(S) \in Nat
  /\ Cardinality(Bits) = Size
<1>1. 0 \in Int /\ Size - 1 \in Int /\ Size >= 1
  BY BitSetAssumption
<1>2. IsFiniteSet(Bits) /\ Cardinality(Bits) = Size
  <2>1. /\ IsFiniteSet(0 .. Size - 1)
        /\ Cardinality(0 .. Size - 1) = IF 0 > Size - 1 THEN 0 ELSE Size - 1 - 0 + 1
    BY <1>1, FS_Interval
  <2>2. (IF 0 > Size - 1 THEN 0 ELSE Size - 1 - 0 + 1) = Size
    BY <1>1, BitSetAssumption
  <2>3. QED
    BY <2>1, <2>2 DEF Bits
<1>3. QED
  BY <1>2, FS_Subset, FS_CardinalityType

LEMMA StepCounts ==
  ASSUME Size % PageBits # 0, CountIsOnes, [Next]_vars
  PROVE  CountIsOnes'
<1>1. IsFiniteSet(data) /\ data \subseteq Bits /\ count = Cardinality(data)
  BY BitsAreFinite DEF CountIsOnes
<1>2. CASE SetAll
  BY <1>2, AllOnesExact, BitsAreFinite DEF SetAll, CountIsOnes
<1>3. CASE ResetAll
  BY <1>3, FS_EmptySet DEF ResetAll, CountIsOnes
<1>4. ASSUME NEW i \in Bits, SetBit(i) PROVE CountIsOnes'
  <2>1. CASE i \in data
    BY <1>1, <1>4, <2>1 DEF SetBit, vars, CountIsOnes
  <2>2. CASE i \notin data
    <3>1. Cardinality(data \cup {i}) = Cardinality(data) + 1
      BY <1>1, <2>2, FS_AddElement
    <3>2. QED
      BY <1>1, <1>4, <2>2, <3>1 DEF SetBit, CountIsOnes
  <2>3. QED
    BY <2>1, <2>2
<1>5. ASSUME NEW i \in Bits, ResetBit(i) PROVE CountIsOnes'
  <2>1. CASE i \in data
    <3>1. Cardinality(data \ {i}) = Cardinality(data) - 1
      BY <1>1, <2>1, FS_RemoveElement
    <3>2. QED
      BY <1>1, <1>5, <2>1, <3>1 DEF ResetBit, CountIsOnes
  <2>2. CASE i \notin data
    BY <1>1, <1>5, <2>2 DEF ResetBit, vars, CountIsOnes
  <2>3. QED
    BY <2>1, <2>2
<1>6. ASSUME NEW bits \in SUBSET Bits, SetData(bits) PROVE CountIsOnes'
  BY <1>6 DEF SetData, Ones, CountIsOnes
<1>7. CASE UNCHANGED vars
  BY <1>1, <1>7 DEF vars, CountIsOnes
<1>8. QED
  BY <1>2, <1>3, <1>4, <1>5, <1>6, <1>7 DEF Next

\* The cached number of ones is exact after every sequence of operations, when
\* the last page is only partly used (BitSet::updateStatistics and the counting
\* of set and reset).
THEOREM CountExact ==
  ASSUME Size % PageBits # 0
  PROVE  Spec => []CountIsOnes
<1>1. Init => CountIsOnes
  BY FS_EmptySet DEF Init, CountIsOnes
<1>2. CountIsOnes /\ [Next]_vars => CountIsOnes'
  BY StepCounts
<1>3. QED
  BY <1>1, <1>2, PTL DEF Spec

\* operator~ gives the bits that are not set at any time (BitSet.h:25), under
\* the same condition.
THEOREM ComplementAlwaysExact ==
  ASSUME Size % PageBits # 0
  PROVE  Spec => []ComplementIsExact
<1>1. CountIsOnes => ComplementIsExact
  BY ComplementExact DEF CountIsOnes, ComplementIsExact
<1>2. QED
  BY <1>1, CountExact, PTL

-----------------------------------------------------------------------------
(***************************************************************************)
(* The draw of a set bit.                                                  *)
(***************************************************************************)
Below == {pair \in Nat \X Nat : pair[1] < pair[2]}

\* A set of natural numbers has a least one.
LEMMA LeastOf ==
  ASSUME NEW T, T \subseteq Nat, T # {}
  PROVE  \E x \in T : \A y \in T : x <= y
<1>1. IsWellFoundedOn(Below, Nat)
  <2>1. Below = OpToRel(<, Nat)
    BY DEF Below, OpToRel
  <2>2. QED
    BY <2>1, NatLessThanWellFounded
<1>2. PICK x \in T : \A y \in T : ~(<<y, x>> \in Below)
  BY <1>1, WFMin
<1>3. ASSUME NEW y \in T PROVE x <= y
  <2>1. x \in Nat /\ y \in Nat /\ <<y, x>> \in Nat \X Nat
        /\ <<y, x>>[1] = y /\ <<y, x>>[2] = x
    OBVIOUS
  <2>2. ~(y < x)
    BY <1>2, <2>1 DEF Below
  <2>3. QED
    BY <2>1, <2>2
<1>4. QED
  BY <1>3

\* The ones of S up to a bit, and what the next bit adds to them.
UpTo(S, i) == Cardinality(S \cap 0 .. i)

LEMMA UpToGrows ==
  ASSUME NEW S \in SUBSET Bits, NEW i \in Bits
  PROVE  /\ UpTo(S, i) \in Nat /\ UpTo(S, i) <= Cardinality(S)
         /\ i \in S => UpTo(S, i) >= 1
         /\ \A j \in Bits : j < i => /\ UpTo(S, j) <= UpTo(S, i)
                                     /\ i \in S => UpTo(S, j) < UpTo(S, i)
         /\ i = 0 => UpTo(S, i) <= 1
         /\ i # 0 => /\ i - 1 \in Bits
                     /\ UpTo(S, i) <= UpTo(S, i - 1) + 1
                     /\ i \notin S => UpTo(S, i) = UpTo(S, i - 1)
         /\ i = 0 /\ i \notin S => UpTo(S, i) = 0
<1> DEFINE low(j) == S \cap 0 .. j
<1>1. Bits \subseteq Nat /\ i \in Nat /\ BitSetAssumption
  BY BitSetAssumption DEF Bits
<1>2. \A j : low(j) \in SUBSET Bits /\ low(j) \in SUBSET S
  OBVIOUS
<1>3. \A j : IsFiniteSet(low(j)) /\ Cardinality(low(j)) \in Nat
  BY <1>2, BitsAreFinite
<1>4. IsFiniteSet(S) /\ Cardinality(S) \in Nat /\ Cardinality(low(i)) <= Cardinality(S)
  BY <1>2, BitsAreFinite, FS_Subset
<1>5. \A k : Cardinality(low(k)) = UpTo(S, k)
  BY DEF UpTo
<1>6. i \in S => UpTo(S, i) >= 1
  <2>1. i \in S => low(i) # {}
    BY <1>1
  <2>2. low(i) # {} => Cardinality(low(i)) # 0
    BY <1>3, FS_EmptySet
  <2>3. QED
    BY <1>3, <1>5, <2>1, <2>2
<1>7. ASSUME NEW j \in Bits, j < i
      PROVE  UpTo(S, j) <= UpTo(S, i) /\ (i \in S => UpTo(S, j) < UpTo(S, i))
  <2>1. low(j) \in SUBSET low(i) /\ i \notin low(j) /\ (i \in S => i \in low(i))
    BY <1>1, <1>7
  <2>2. /\ Cardinality(low(j)) <= Cardinality(low(i))
        /\ Cardinality(low(i)) = Cardinality(low(j)) => low(i) = low(j)
    BY <1>3, <2>1, FS_Subset
  <2> HIDE DEF low
  <2>3. QED
    BY <1>3, <1>5, <2>1, <2>2
<1>8. i = 0 => UpTo(S, i) <= 1 /\ (i \notin S => UpTo(S, i) = 0)
  <2>1. i = 0 => low(i) = {} \cup (IF i \in S THEN {0} ELSE {})
    BY <1>1
  <2>2. Cardinality({}) = 0 /\ Cardinality({0}) = 1
    BY FS_EmptySet, FS_Singleton
  <2>3. QED
    BY <1>5, <2>1, <2>2
<1>9. i # 0 => /\ i - 1 \in Bits
               /\ UpTo(S, i) <= UpTo(S, i - 1) + 1
               /\ i \notin S => UpTo(S, i) = UpTo(S, i - 1)
  <2> SUFFICES ASSUME i # 0
               PROVE  /\ i - 1 \in Bits
                      /\ UpTo(S, i) <= UpTo(S, i - 1) + 1
                      /\ i \notin S => UpTo(S, i) = UpTo(S, i - 1)
    OBVIOUS
  <2>1. i - 1 \in Bits
    BY <1>1 DEF Bits
  <2>2. low(i) = IF i \in S THEN low(i - 1) \cup {i} ELSE low(i - 1)
    BY <1>1
  <2> HIDE DEF low
  <2>3. Cardinality(low(i - 1) \cup {i}) <= Cardinality(low(i - 1)) + 1
    <3>1. IsFiniteSet(low(i - 1)) /\ Cardinality(low(i - 1)) \in Nat
      BY <1>3
    <3>2. Cardinality(low(i - 1) \cup {i}) = IF i \in low(i - 1) THEN Cardinality(low(i - 1))
                                             ELSE Cardinality(low(i - 1)) + 1
      BY <3>1, FS_AddElement
    <3>3. QED
      BY <3>1, <3>2
  <2>4. /\ UpTo(S, i) = Cardinality(low(i)) /\ UpTo(S, i - 1) = Cardinality(low(i - 1))
        /\ Cardinality(low(i)) \in Nat /\ Cardinality(low(i - 1)) \in Nat
    BY <1>3, <1>5
  <2>5. CASE i \in S
    BY <2>1, <2>2, <2>3, <2>4, <2>5
  <2>6. CASE i \notin S
    BY <2>1, <2>2, <2>4, <2>6
  <2>7. QED
    BY <2>5, <2>6
<1>10. QED
  BY <1>3, <1>4, <1>5, <1>6, <1>7, <1>8, <1>9

\* Of the numbers up to the number of ones, each is counted at some set bit.
LEMMA DrawHits ==
  ASSUME NEW S \in SUBSET Bits, NEW n \in 1 .. Cardinality(S)
  PROVE  \E i \in S : UpTo(S, i) = n
<1> DEFINE T == {i \in Bits : UpTo(S, i) >= n}
<1>1. BitSetAssumption /\ Bits \subseteq Nat /\ Size - 1 \in Bits
  BY BitSetAssumption DEF Bits
<1>2. Size - 1 \in T
  <2>1. S \cap 0 .. Size - 1 = S
    BY DEF Bits
  <2>2. QED
    BY <1>1, <2>1, BitsAreFinite DEF UpTo
<1>3. PICK i \in T : \A j \in T : i <= j
  BY <1>1, <1>2, LeastOf
<1>4. i \in Bits /\ UpTo(S, i) \in Nat /\ UpTo(S, i) >= n /\ n >= 1 /\ n \in Nat
  BY <1>3, UpToGrows, BitsAreFinite
<1>5. CASE i = 0
  <2>1. UpTo(S, i) <= 1 /\ (i \notin S => UpTo(S, i) = 0)
    BY <1>4, <1>5, UpToGrows
  <2>2. QED
    BY <1>4, <2>1
<1>6. CASE i # 0
  <2>1. /\ i - 1 \in Bits /\ UpTo(S, i) <= UpTo(S, i - 1) + 1
        /\ i \notin S => UpTo(S, i) = UpTo(S, i - 1)
    BY <1>4, <1>6, UpToGrows
  <2>2. UpTo(S, i - 1) \in Nat /\ i \in Nat
    BY <1>1, <1>4, <2>1, UpToGrows
  <2>3. ~(UpTo(S, i - 1) >= n)
    BY <1>3, <2>1, <2>2
  <2>4. QED
    BY <1>4, <2>1, <2>2, <2>3
<1>7. QED
  BY <1>5, <1>6

\* The number counted at a set bit is that of no bit before it, and asking for
\* it finds that bit.
LEMMA DrawFinds ==
  ASSUME NEW S \in SUBSET Bits, NEW i \in S
  PROVE  SetBitNumber(S, UpTo(S, i)) = i
<1> DEFINE n    == UpTo(S, i)
           hits == {j \in Bits : Cardinality(S \cap 0 .. j) = n}
<1>1. Bits \subseteq Nat
  BY BitSetAssumption DEF Bits
<1>2. i \in hits
  BY DEF UpTo
<1>3. ASSUME NEW j \in hits PROVE i <= j
  <2>1. j \in Bits /\ UpTo(S, j) = n
    BY DEF UpTo
  <2>2. ~(j < i)
    <3> HIDE DEF hits, n
    <3>1. i \in Bits /\ UpTo(S, j) \in Nat /\ UpTo(S, i) \in Nat
      BY <2>1, UpToGrows
    <3>2. j < i => UpTo(S, j) < UpTo(S, i)
      BY <2>1, <3>1, UpToGrows
    <3>3. QED
      BY <2>1, <3>1, <3>2 DEF n
  <2>3. QED
    BY <1>1, <2>1, <2>2
<1>4. \A k \in hits : (\A j \in hits : k <= j) => k = i
  BY <1>1, <1>2, <1>3
<1>5. (CHOOSE k \in hits : \A j \in hits : k <= j) = i
  BY <1>2, <1>3, <1>4
<1>6. QED
  BY <1>2, <1>5 DEF SetBitNumber

\* Drawing a number between 1 and the cached count and asking for that set bit
\* can give every set bit, and nothing else, at any time (BitSet::getSetedBit).
THEOREM DrawAlwaysCovers ==
  ASSUME Size % PageBits # 0
  PROVE  Spec => []DrawCoversTheSet
<1>1. CountIsOnes => DrawCoversTheSet
  <2> SUFFICES ASSUME CountIsOnes PROVE DrawCoversTheSet
    OBVIOUS
  <2>1. data \in SUBSET Bits /\ count = Cardinality(data) /\ count \in Nat
    BY BitsAreFinite DEF CountIsOnes
  <2>2. ASSUME NEW n \in 1 .. count PROVE SetBitNumber(data, n) \in data
    <3>1. PICK i \in data : UpTo(data, i) = n
      BY <2>1, DrawHits
    <3>2. QED
      BY <2>1, <3>1, DrawFinds
  <2>3. ASSUME NEW i \in data
        PROVE  \E n \in 1 .. count : SetBitNumber(data, n) = i
    <3>1. UpTo(data, i) \in 1 .. count
      BY <2>1, UpToGrows
    <3>2. QED
      BY <2>1, <3>1, DrawFinds
  <2>4. QED
    BY <2>2, <2>3 DEF DrawCoversTheSet
<1>2. QED
  BY <1>1, CountExact, PTL
=============================================================================
