------------------------------- MODULE BitSet -------------------------------
(***************************************************************************)
(* The values of the client's bit sets (Client/BitSet.cpp): which of the   *)
(* Size numbered bits are set, kept in pages of PageBits bits (a byte, so  *)
(* 8 in the program).  A value is the set of positions whose bit is one.   *)
(* When the last page is only partly used its remaining positions are      *)
(* padding.  This module holds the operators; BitSetObject holds the       *)
(* state machine of one object.                                            *)
(***************************************************************************)
EXTENDS Integers, FiniteSets

CONSTANTS
  Size,      \* number of bits the set is for (a torrent's number of pieces)
  PageBits   \* bits of one page

ASSUME BitSetAssumption == Size \in Nat \ {0} /\ PageBits \in Nat \ {0}

Bits == 0 .. Size - 1

\* ceil(Size / PageBits)
PageCount == (Size + PageBits - 1) \div PageBits

Positions == 0 .. PageCount * PageBits - 1

\* A mutation: one bit too many is kept.
MaskLastPageLong(data) ==
  {j \in data : j \div PageBits = PageCount - 1 => j % PageBits <= Size % PageBits}

\* The last page is cut down to its low Size % PageBits bits.
MaskLastPage(data) ==
  {j \in data : j \div PageBits = PageCount - 1 => j % PageBits < Size % PageBits}

\* operator~ : every bit of every page flipped, then the last page masked.
Complement(data) == MaskLastPage(Positions \ data)

\* operator& , page by page.
Intersection(a, b) == a \cap b

\* set() : every page all ones, then the last page replaced by its mask.
AllOnes == MaskLastPage(Positions)

\* updateStatistics() : the ones of all pages, padding included.
Ones(data) == Cardinality(data)

\* A mutation: counting stops one bit late.
SetBitNumberLate(data, n) ==
  LET hits == {i \in Bits : Cardinality(data \cap 0 .. i - 1) = n}
  IN  IF hits = {}
      THEN Cardinality(data \cap Bits)
      ELSE CHOOSE i \in hits : \A j \in hits : i <= j

\* getSetedBit(n) : the first bit at which n ones have been counted, and the
\* number of ones counted when there is no such bit.
SetBitNumber(data, n) ==
  LET hits == {i \in Bits : Cardinality(data \cap 0 .. i) = n}
  IN  IF hits = {}
      THEN Cardinality(data \cap Bits)
      ELSE CHOOSE i \in hits : \A j \in hits : i <= j
=============================================================================
