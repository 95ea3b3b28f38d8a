---------------------------- MODULE BitSetObject ----------------------------
(***************************************************************************)
(* One BitSet object: its pages and the cached number of ones, which every *)
(* operation keeps by hand instead of counting again.                      *)
(***************************************************************************)
EXTENDS BitSet

VARIABLES
  data,   \* positions whose bit is one
  count   \* the cached number of ones

vars == <<data, count>>

\* BitSet(size); BitSet(bits, size) is this followed by SetData(bits).
Init == data = {} /\ count = 0

SetAll == /\ data' = AllOnes
          /\ count' = Size

ResetAll == /\ data' = {}
            /\ count' = 0

\* A mutation: a bit that is set already is counted again.
SetBitAgain(i) == data' = data \cup {i} /\ count' = count + 1

SetBit(i) == IF i \in data
             THEN UNCHANGED vars
             ELSE data' = data \cup {i} /\ count' = count + 1

ResetBit(i) == IF i \in data
               THEN data' = data \ {i} /\ count' = count - 1
               ELSE UNCHANGED vars

\* Pages received from a peer or read from the torrent's configuration file.
SetData(bits) == /\ data' = bits
                 /\ count' = Ones(bits)

Next == \/ SetAll
        \/ ResetAll
        \/ \E i \in Bits : SetBit(i) \/ ResetBit(i)
        \/ \E bits \in SUBSET Bits : SetData(bits)

Spec == Init /\ [][Next]_vars

-----------------------------------------------------------------------------
(***************************************************************************)
(* Properties.                                                             *)
(***************************************************************************)

\* The pages hold no one in the padding, whatever operations were called, and the
\* cached count is the number of ones ("liczba jedynek w bitsecie", BitSet.h:14):
\* the download is complete when the count reaches the size.
CountIsOnes == data \subseteq Bits /\ count = Cardinality(data)

\* operator~ yields exactly the bits that are not set ("dopelnienie zbioru",
\* BitSet.h:25): the pieces to download are the complement of the owned ones.
ComplementIsExact == Complement(data) = Bits \ data

\* Drawing a number between 1 and the count and asking for that set bit can
\* return every set bit and nothing else: the random choice of a piece is a
\* choice among the interesting ones.
DrawCoversTheSet == {SetBitNumber(data, n) : n \in 1 .. count} = data
=============================================================================
