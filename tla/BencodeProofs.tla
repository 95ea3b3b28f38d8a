---------------------------- MODULE BencodeProofs ----------------------------
(***************************************************************************)
(* What reading does to what was written, for every message and every cut: *)
(* the UTF-8 decoder returns characters that were sent and leaves the      *)
(* bytes of those after them (Utf8Read); a call of the decoder that        *)
(* returns a value would return the same one if more text had arrived      *)
(* (DecodeStable); and a text that starts with the code of a message is    *)
(* decoded as that message, all of its code and no more (RoundTrip).       *)
(***************************************************************************)
EXTENDS Bencode, SequenceTheorems, WellFoundedInduction, TLAPS

-----------------------------------------------------------------------------
(***************************************************************************)
(* Induction over sets of natural numbers, and what is defined by it.      *)
(***************************************************************************)
Below == {pair \in Nat \X Nat : pair[1] < pair[2]}

LEMMA SetInduction ==
  ASSUME NEW S, 0 \in S, \A n \in Nat : n \in S => n + 1 \in S
  PROVE  Nat \subseteq S
<1> SUFFICES ASSUME Nat \ S # {} PROVE FALSE
  OBVIOUS
<1>1. IsWellFoundedOn(Below, Nat)
  <2>1. Below = OpToRel(<, Nat)
    BY DEF Below, OpToRel
  <2>2. QED
    BY <2>1, NatLessThanWellFounded
<1>2. PICK x \in Nat \ S : \A y \in Nat \ S : ~(<<y, x>> \in Below)
  BY <1>1, WFMin
<1>3. x # 0 /\ x - 1 \in Nat
  BY <1>2
<1>4. x - 1 \notin S
  BY <1>2, <1>3
<1>5. <<x - 1, x>> \in Below
  BY <1>3 DEF Below
<1>6. QED
  BY <1>2, <1>3, <1>4, <1>5

\* The same up to a bound.
LEMMA Upwards ==
  ASSUME NEW N \in Nat, NEW S, 0 \in S,
         \A n \in 0 .. N - 1 : n \in S => n + 1 \in S
  PROVE  0 .. N \subseteq S
<1> DEFINE T == {n \in Nat : n <= N => n \in S}
<1>1. 0 \in T
  OBVIOUS
<1>2. ASSUME NEW n \in Nat, n \in T PROVE n + 1 \in T
  <2>1. CASE n + 1 <= N
    <3>1. n \in 0 .. N - 1 /\ n \in S
      BY <1>2, <2>1
    <3>2. QED
      BY <3>1
  <2>2. QED
    BY <2>1
<1>3. Nat \subseteq T
  <2> HIDE DEF T
  <2>1. QED
    BY <1>1, <1>2, SetInduction
<1>4. QED
  BY <1>3

\* f[n] is what F makes of n and f[n - 1].
IsRecursion(f, N, a, F) ==
  f = [n \in 0 .. N |-> IF n = 0 THEN a ELSE F[<<n, f[n - 1]>>]]

LEMMA RecursionExists ==
  ASSUME NEW N \in Nat, NEW S, NEW a \in S, NEW F,
         \A n \in 1 .. N, x \in S : F[<<n, x>>] \in S
  PROVE  \E f \in [0 .. N -> S] : IsRecursion(f, N, a, F)
<1> DEFINE T == {m \in Nat : \E f \in [0 .. m -> S] : IsRecursion(f, m, a, F)}
<1>1. 0 \in T
  <2> DEFINE g == [k \in 0 .. 0 |-> a]
  <2>1. g \in [0 .. 0 -> S]
    OBVIOUS
  <2>2. \A k \in 0 .. 0 : k = 0
    OBVIOUS
  <2>3. IsRecursion(g, 0, a, F)
    BY <2>2 DEF IsRecursion
  <2>4. QED
    BY <2>1, <2>3
<1>2. ASSUME NEW m \in 0 .. N - 1, m \in T PROVE m + 1 \in T
  <2>1. PICK f \in [0 .. m -> S] : IsRecursion(f, m, a, F)
    BY <1>2
  <2> DEFINE g == [k \in 0 .. m + 1 |-> IF k = m + 1 THEN F[<<m + 1, f[m]>>] ELSE f[k]]
  <2>2. g \in [0 .. m + 1 -> S]
    <3>1. m + 1 \in 1 .. N /\ f[m] \in S
      BY <2>1
    <3>2. F[<<m + 1, f[m]>>] \in S
      BY <3>1
    <3>3. ASSUME NEW k \in 0 .. m + 1 PROVE g[k] \in S
      BY <2>1, <3>2
    <3>4. QED
      BY <3>3
  <2>3. IsRecursion(g, m + 1, a, F)
    <3>1. ASSUME NEW k \in 0 .. m + 1
          PROVE  g[k] = IF k = 0 THEN a ELSE F[<<k, g[k - 1]>>]
      <4>1. CASE k = m + 1
        BY <4>1
      <4>2. CASE k # m + 1
        <5>1. /\ k \in 0 .. m /\ g[k] = f[k]
              /\ k # 0 => k - 1 \in 0 .. m + 1 /\ k - 1 # m + 1
          BY <4>2
        <5>2. f[k] = IF k = 0 THEN a ELSE F[<<k, f[k - 1]>>]
          BY <2>1, <5>1 DEF IsRecursion
        <5>3. k # 0 => g[k - 1] = f[k - 1]
          BY <5>1
        <5> HIDE DEF g
        <5>4. QED
          BY <5>1, <5>2, <5>3
      <4>3. QED
        BY <4>1, <4>2
    <3>2. g = [k \in 0 .. m + 1 |-> g[k]]
      OBVIOUS
    <3> HIDE DEF g
    <3>3. QED
      BY <3>1, <3>2 DEF IsRecursion
  <2>4. QED
    BY <2>2, <2>3
<1>3. N \in T
  <2> HIDE DEF T
  <2>1. 0 .. N \subseteq T
    BY <1>1, <1>2, Upwards
  <2>2. QED
    BY <2>1
<1>4. QED
  BY <1>3

-----------------------------------------------------------------------------
(***************************************************************************)
(* Texts: concatenation and parts.                                         *)
(***************************************************************************)

Text == Seq(Nat)

LEMMA TextJoin == \A a, b \in Text : a \o b \in Text /\ Len(a \o b) = Len(a) + Len(b)
BY ConcatProperties DEF Text

LEMMA TextAssoc == \A a, b, c \in Text : (a \o b) \o c = a \o (b \o c)
BY ConcatAssociative DEF Text

LEMMA TextEmpty == <<>> \in Text /\ \A a \in Text : a \o <<>> = a /\ <<>> \o a = a
BY ConcatEmptySeq, EmptySeq DEF Text

LEMMA TextCancel == \A a, b, c \in Text : a \o b = a \o c => b = c
BY ConcatSimplifications DEF Text

LEMMA TextLen == \A a \in Text : Len(a) \in Nat /\ (Len(a) = 0 <=> a = <<>>)
BY LenProperties, EmptySeq DEF Text

\* A part of a text from place a on, and the text up to there.
LEMMA Split ==
  ASSUME NEW s \in Text, NEW n \in 0 .. Len(s)
  PROVE  /\ SubSeq(s, 1, n) \in Text /\ Len(SubSeq(s, 1, n)) = n
         /\ SubSeq(s, n + 1, Len(s)) \in Text
         /\ Len(SubSeq(s, n + 1, Len(s))) = Len(s) - n
         /\ s = SubSeq(s, 1, n) \o SubSeq(s, n + 1, Len(s))
<1>1. s \in Seq(Nat) /\ Len(s) \in Nat /\ \A i \in 1 .. Len(s) : s[i] \in Nat
  BY LenProperties, ElementOfSeq DEF Text
<1>2. /\ SubSeq(s, 1, n) \in Text /\ Len(SubSeq(s, 1, n)) = n
      /\ \A i \in 1 .. n : SubSeq(s, 1, n)[i] = s[i]
  BY <1>1 DEF Text
<1>3. /\ SubSeq(s, n + 1, Len(s)) \in Text
      /\ Len(SubSeq(s, n + 1, Len(s))) = Len(s) - n
      /\ \A i \in 1 .. Len(s) - n : SubSeq(s, n + 1, Len(s))[i] = s[n + i]
  BY <1>1 DEF Text
<1>4. s = SubSeq(s, 1, n) \o SubSeq(s, n + 1, Len(s))
  <2> DEFINE t == SubSeq(s, 1, n)
             u == SubSeq(s, n + 1, Len(s))
  <2> HIDE DEF t, u
  <2>0. /\ t \in Text /\ u \in Text
        /\ Len(t) = n /\ Len(u) = Len(s) - n /\ n + (Len(s) - n) = Len(s)
    BY <1>1, <1>2, <1>3 DEF t, u
  <2>1. /\ t \o u \in Text /\ Len(t \o u) = Len(s)
        /\ \A i \in 1 .. Len(s) : (t \o u)[i] = IF i <= n THEN t[i] ELSE u[i - n]
    BY <2>0, ConcatProperties DEF Text
  <2>2. ASSUME NEW i \in 1 .. Len(s) PROVE (t \o u)[i] = s[i]
    <3>1. CASE i <= n
      BY <1>1, <1>2, <2>1, <3>1 DEF t
    <3>2. CASE ~(i <= n)
      <4>1. i - n \in 1 .. Len(s) - n /\ n + (i - n) = i
        BY <1>1, <3>2
      <4>2. QED
        BY <1>1, <1>3, <2>1, <3>2, <4>1 DEF u
    <3>3. QED
      BY <3>1, <3>2
  <2>3. s = t \o u
    BY <1>1, <2>1, <2>2, SeqEqual DEF Text
  <2>4. QED
    BY <2>3 DEF t, u
<1>5. QED
  BY <1>2, <1>3, <1>4

\* The part of a concatenation that its first text takes, and the one it leaves.
LEMMA Unsplit ==
  ASSUME NEW s \in Text, NEW t \in Text
  PROVE  /\ SubSeq(s \o t, 1, Len(s)) = s
         /\ SubSeq(s \o t, Len(s) + 1, Len(s \o t)) = t
  BY DEF Text

\* The texts of seqs, one after the other: rem[k] is what follows the k-th.
IsRemainder(rem, seqs) ==
  /\ rem \in [0 .. Len(seqs) -> Text]
  /\ rem[Len(seqs)] = <<>>
  /\ \A k \in 1 .. Len(seqs) : rem[k - 1] = seqs[k] \o rem[k]

LEMMA FlattenRemainder ==
  ASSUME NEW seqs \in Seq(Text)
  PROVE  \E rem : IsRemainder(rem, seqs) /\ rem[0] = FlattenSeq(seqs)
<1> DEFINE N == Len(seqs)
<1>1. N \in Nat /\ N = Len(seqs) /\ \A k \in 1 .. N : seqs[k] \in Text
  BY LenProperties, ElementOfSeq
<1> HIDE DEF N
<1>2. CASE N = 0
  <2> DEFINE rem == [k \in 0 .. 0 |-> <<>>]
  <2>1. rem \in [0 .. 0 -> Text]
    BY TextEmpty
  <2>2. seqs = <<>>
    <3>1. Len(seqs) \notin Nat \ {0}
      BY <1>1, <1>2
    <3>2. QED
      BY <3>1, EmptySeq
  <2>3. IsRemainder(rem, seqs)
    BY <1>1, <1>2, <2>1 DEF IsRemainder
  <2>4. rem[0] = FlattenSeq(seqs)
    BY <1>1, <1>2, <2>2 DEF FlattenSeq
  <2>5. QED
    BY <2>3, <2>4
<1>3. CASE N # 0
  \* The function that FlattenSeq chooses.
  <2> DEFINE F == [x \in (1 .. N) \X Text |-> x[2] \o seqs[x[1] + 1]]
             IsFlatten(f) ==
               f = [i \in 1 .. N |-> IF i = 1 THEN seqs[i] ELSE f[i - 1] \o seqs[i]]
  <2>1. \E f : IsFlatten(f)
    <3>1. N - 1 \in Nat /\ seqs[1] \in Text
      BY <1>1, <1>3
    <3>2. ASSUME NEW n \in 1 .. N - 1, NEW x \in Text PROVE F[<<n, x>>] \in Text
      <4>1. n \in 1 .. N /\ n + 1 \in 1 .. N /\ seqs[n + 1] \in Text
        BY <1>1
      <4>2. F[<<n, x>>] = x \o seqs[n + 1]
        BY <4>1
      <4>3. QED
        BY <4>1, <4>2, TextJoin
    <3> HIDE DEF F
    <3>3. PICK g \in [0 .. N - 1 -> Text] : IsRecursion(g, N - 1, seqs[1], F)
      BY <3>1, <3>2, RecursionExists
    <3> DEFINE f == [i \in 1 .. N |-> g[i - 1]]
    <3>4. ASSUME NEW i \in 1 .. N
          PROVE  f[i] = IF i = 1 THEN seqs[i] ELSE f[i - 1] \o seqs[i]
      <4>1. i - 1 \in 0 .. N - 1 /\ f[i] = g[i - 1]
        BY <1>1
      <4>2. g[i - 1] = IF i - 1 = 0 THEN seqs[1] ELSE F[<<i - 1, g[(i - 1) - 1]>>]
        BY <3>3, <4>1 DEF IsRecursion
      <4>3. CASE i = 1
        BY <4>1, <4>2, <4>3
      <4>4. CASE i # 1
        <5>1. /\ i - 1 \in 1 .. N /\ i - 1 # 0 /\ (i - 1) - 1 \in 0 .. N - 1
              /\ (i - 1) + 1 = i /\ f[i - 1] = g[(i - 1) - 1]
          BY <1>1, <4>4
        <5>2. F[<<i - 1, g[(i - 1) - 1]>>] = g[(i - 1) - 1] \o seqs[i]
          BY <3>3, <5>1 DEF F
        <5>3. QED
          BY <4>1, <4>2, <4>4, <5>1, <5>2
      <4>5. QED
        BY <4>3, <4>4
    <3>5. f = [i \in 1 .. N |-> f[i]]
      OBVIOUS
    <3> HIDE DEF f
    <3>6. IsFlatten(f)
      BY <3>4, <3>5
    <3>7. QED
      BY <3>6
  <2> DEFINE flatten == CHOOSE f : IsFlatten(f)
  <2>2. IsFlatten(flatten)
    BY <2>1
  <2>3. FlattenSeq(seqs) = flatten[N]
    BY <1>1, <1>3 DEF FlattenSeq
  <2> HIDE DEF flatten
  <2>4. /\ flatten[1] = seqs[1]
        /\ \A i \in 1 .. N - 1 : flatten[i + 1] = flatten[i] \o seqs[i + 1]
    <3>1. \A i \in 1 .. N :
            flatten[i] = IF i = 1 THEN seqs[i] ELSE flatten[i - 1] \o seqs[i]
      BY <2>2
    <3>2. 1 \in 1 .. N
      BY <1>1, <1>3
    <3>3. ASSUME NEW i \in 1 .. N - 1 PROVE flatten[i + 1] = flatten[i] \o seqs[i + 1]
      <4>1. i + 1 \in 1 .. N /\ i + 1 # 1 /\ (i + 1) - 1 = i
        BY <1>1
      <4>2. QED
        BY <3>1, <4>1
    <3>4. QED
      BY <3>1, <3>2, <3>3
  \* What follows the k-th of the first n texts.
  <2> DEFINE Parts(r, n) ==
               /\ r \in [0 .. n -> Text]
               /\ r[n] = <<>>
               /\ \A k \in 1 .. n : r[k - 1] = seqs[k] \o r[k]
             T == {n \in 0 .. N - 1 : \E r : Parts(r, n + 1) /\ r[0] = flatten[n + 1]}
  <2>5. 0 \in T
    <3> DEFINE r == [k \in 0 .. 1 |-> IF k = 0 THEN seqs[1] ELSE <<>>]
    <3>1. seqs[1] \in Text /\ seqs[1] = seqs[1] \o <<>> /\ 0 \in 0 .. N - 1
      BY <1>1, <1>3
    <3>2. Parts(r, 0 + 1)
      <4>1. r \in [0 .. 1 -> Text] /\ r[1] = <<>> /\ r[0] = seqs[1]
        BY <3>1, TextEmpty
      <4>2. \A k \in 1 .. 1 : k = 1
        OBVIOUS
      <4> HIDE DEF r
      <4>3. ASSUME NEW k \in 1 .. 1 PROVE r[k - 1] = seqs[k] \o r[k]
        <5>1. k = 1 /\ k - 1 = 0
          BY <4>2
        <5>2. r[0] = seqs[1] \o r[1]
          BY <3>1, <4>1
        <5>3. QED
          BY <5>1, <5>2
      <4>4. 0 + 1 = 1
        OBVIOUS
      <4>5. QED
        BY <4>1, <4>3, <4>4
    <3>3. r[0] = flatten[0 + 1]
      BY <2>4
    <3> HIDE DEF r
    <3>4. QED
      BY <3>1, <3>2, <3>3
  <2>6. ASSUME NEW n \in 0 .. (N - 1) - 1, n \in T PROVE n + 1 \in T
    <3>1. PICK r : Parts(r, n + 1) /\ r[0] = flatten[n + 1]
      BY <2>6
    <3>0. /\ n + 1 \in 1 .. N - 1 /\ (n + 1) + 1 = n + 2 /\ n + 2 \in 1 .. N
          /\ n + 1 \in 0 .. N - 1
      BY <1>1
    <3>2. /\ seqs[n + 2] \in Text
          /\ flatten[n + 2] = flatten[n + 1] \o seqs[n + 2]
      BY <1>1, <2>4, <3>0
    <3> DEFINE q == [k \in 0 .. n + 2 |-> IF k = n + 2 THEN <<>> ELSE r[k] \o seqs[n + 2]]
    <3>3. q \in [0 .. n + 2 -> Text]
      BY <3>1, <3>2
    <3>4. q[n + 2] = <<>> /\ q[0] = flatten[n + 2]
      <4>1. 0 \in 0 .. n + 2 /\ n + 2 \in 0 .. n + 2 /\ 0 # n + 2
        BY <3>0
      <4>2. QED
        BY <3>1, <3>2, <4>1
    <3>5. ASSUME NEW k \in 1 .. n + 2 PROVE q[k - 1] = seqs[k] \o q[k]
      <4>1. CASE k = n + 2
        <5>1. /\ k - 1 = n + 1 /\ n + 1 \in 0 .. n + 2 /\ n + 1 # n + 2
              /\ k \in 0 .. n + 2 /\ r[n + 1] = <<>>
          BY <3>0, <3>1, <4>1
        <5>2. q[n + 1] = r[n + 1] \o seqs[n + 2] /\ q[n + 2] = <<>>
          BY <3>4, <5>1
        <5>3. /\ <<>> \o seqs[n + 2] = seqs[n + 2]
              /\ seqs[n + 2] \o <<>> = seqs[n + 2]
          BY <3>2, TextEmpty
        <5>4. QED
          BY <4>1, <5>1, <5>2, <5>3
      <4>2. CASE k # n + 2
        <5>1. /\ k \in 1 .. n + 1 /\ k - 1 \in 0 .. n + 2 /\ k - 1 # n + 2
              /\ k \in 1 .. N /\ k \in 0 .. n + 2 /\ k \in 0 .. n + 1
          BY <1>1, <3>0, <4>2
        <5>2. /\ r[k - 1] = seqs[k] \o r[k] /\ q[k - 1] = r[k - 1] \o seqs[n + 2]
              /\ q[k] = r[k] \o seqs[n + 2]
              /\ r[k] \in Text /\ seqs[k] \in Text
          BY <1>1, <3>1, <4>2, <5>1
        <5>3. (seqs[k] \o r[k]) \o seqs[n + 2] = seqs[k] \o (r[k] \o seqs[n + 2])
          BY <3>2, <5>2, TextAssoc
        <5>4. QED
          BY <5>2, <5>3
      <4>3. QED
        BY <4>1, <4>2
    <3> HIDE DEF q
    <3>6. Parts(q, n + 2) /\ q[0] = flatten[n + 2]
      BY <3>3, <3>4, <3>5
    <3>7. QED
      BY <3>0, <3>6
  <2>7. N - 1 \in T
    <3> HIDE DEF T
    <3>1. N - 1 \in Nat
      BY <1>1, <1>3
    <3>2. 0 .. N - 1 \subseteq T
      BY <2>5, <2>6, <3>1, Upwards
    <3>3. QED
      BY <3>1, <3>2
  <2>8. PICK r : Parts(r, N) /\ r[0] = flatten[N]
    <3>1. (N - 1) + 1 = N
      BY <1>1
    <3>2. QED
      BY <2>7, <3>1
  <2>9. QED
    BY <1>1, <2>3, <2>8 DEF IsRemainder
<1>4. QED
  BY <1>2, <1>3

-----------------------------------------------------------------------------
(***************************************************************************)
(* UTF-8: a character, byte by byte.                                       *)
(***************************************************************************)
LEMMA Tables ==
  /\ Greatest[1] = 127 /\ Greatest[2] = 2047 /\ Greatest[3] = 65535
  /\ Greatest[4] = 2097151 /\ Greatest[5] = 67108863 /\ Greatest[6] = 2147483647
  /\ Mask[1] = 0 /\ Mask[2] = 192 /\ Mask[3] = 224
  /\ Mask[4] = 240 /\ Mask[5] = 248 /\ Mask[6] = 252
  /\ Room[1] = 128 /\ Room[2] = 32 /\ Room[3] = 16
  /\ Room[4] = 8 /\ Room[5] = 4 /\ Room[6] = 2
  /\ Weight[1] = 1 /\ Weight[2] = 64 /\ Weight[3] = 4096
  /\ Weight[4] = 262144 /\ Weight[5] = 16777216 /\ Weight[6] = 1073741824
BY SMT DEF Greatest, Mask, Room, Weight

\* How many bytes a character has.
IsLength(n, c) == c <= Greatest[n] /\ \A m \in 1 .. n - 1 : c > Greatest[m]

LEMMA LengthExists == ASSUME NEW c \in Char PROVE \E n \in 1 .. 6 : IsLength(n, c)
<1>0. c \in Nat /\ c <= Greatest[6]
  <2>1. Greatest[6] \in Nat
    BY Tables, SMT
  <2>2. QED
    BY <2>1 DEF Char
<1>1. c <= Greatest[1] => IsLength(1, c)
  BY DEF IsLength
<1>2. c > Greatest[1] /\ c <= Greatest[2] => IsLength(2, c)
  <2> SUFFICES ASSUME c > Greatest[1], c <= Greatest[2], NEW m \in 1 .. 1
               PROVE  c > Greatest[m]
    BY DEF IsLength
  <2>1. m = 1
    OBVIOUS
  <2>2. QED
    BY <1>0, <2>1, Tables, SMT
<1>3. c > Greatest[2] /\ c <= Greatest[3] => IsLength(3, c)
  <2> SUFFICES ASSUME c > Greatest[2], c <= Greatest[3], NEW m \in 1 .. 2
               PROVE  c > Greatest[m]
    BY DEF IsLength
  <2>1. m = 1 \/ m = 2
    OBVIOUS
  <2>2. QED
    BY <1>0, <2>1, Tables, SMT
<1>4. c > Greatest[3] /\ c <= Greatest[4] => IsLength(4, c)
  <2> SUFFICES ASSUME c > Greatest[3], c <= Greatest[4], NEW m \in 1 .. 3
               PROVE  c > Greatest[m]
    BY DEF IsLength
  <2>1. m = 1 \/ m = 2 \/ m = 3
    OBVIOUS
  <2>2. QED
    BY <1>0, <2>1, Tables, SMT
<1>5. c > Greatest[4] /\ c <= Greatest[5] => IsLength(5, c)
  <2> SUFFICES ASSUME c > Greatest[4], c <= Greatest[5], NEW m \in 1 .. 4
               PROVE  c > Greatest[m]
    BY DEF IsLength
  <2>1. m = 1 \/ m = 2 \/ m = 3 \/ m = 4
    OBVIOUS
  <2>2. QED
    BY <1>0, <2>1, Tables, SMT
<1>6. c > Greatest[5] /\ c <= Greatest[6] => IsLength(6, c)
  <2> SUFFICES ASSUME c > Greatest[5], c <= Greatest[6], NEW m \in 1 .. 5
               PROVE  c > Greatest[m]
    BY DEF IsLength
  <2>1. m = 1 \/ m = 2 \/ m = 3 \/ m = 4 \/ m = 5
    OBVIOUS
  <2>2. QED
    BY <1>0, <2>1, Tables, SMT
<1>7. /\ Greatest[1] \in Nat /\ Greatest[2] \in Nat /\ Greatest[3] \in Nat
      /\ Greatest[4] \in Nat /\ Greatest[5] \in Nat /\ Greatest[6] \in Nat
  BY Tables, SMT
<1>8. IsLength(1, c) \/ IsLength(2, c) \/ IsLength(3, c) \/ IsLength(4, c)
        \/ IsLength(5, c) \/ IsLength(6, c)
  BY <1>0, <1>1, <1>2, <1>3, <1>4, <1>5, <1>6, <1>7
<1>9. QED
  BY <1>8

\* What remains of a character of n bytes for the bytes from the k-th on fits
\* what they hold.
LEMMA LengthFits ==
  ASSUME NEW c \in Char, NEW n \in 1 .. 6, IsLength(n, c)
  PROVE  /\ c \div Weight[n] \in 0 .. Room[n] - 1
         /\ \A j \in 1 .. n - 1 :
              /\ c \div Weight[j] \in Nat
              /\ c \div Weight[j] = (c \div Weight[j + 1]) * 64 + ((c \div Weight[j]) % 64)
<1>1. c <= Greatest[n] /\ c \in Nat
  BY SMT DEF IsLength, Char
<1>2. c \div Weight[n] \in 0 .. Room[n] - 1
  <2>1. n = 1 \/ n = 2 \/ n = 3 \/ n = 4 \/ n = 5 \/ n = 6
    OBVIOUS
  <2>2. QED
    BY <1>1, <2>1, Tables, SMT
<1>3. ASSUME NEW j \in 1 .. n - 1
      PROVE  /\ c \div Weight[j] \in Nat
             /\ c \div Weight[j] = (c \div Weight[j + 1]) * 64 + ((c \div Weight[j]) % 64)
  <2>1. j = 1 \/ j = 2 \/ j = 3 \/ j = 4 \/ j = 5
    OBVIOUS
  <2>2. CASE j = 1
    <3>1. Weight[j] = 1 /\ Weight[j + 1] = 64
      BY <2>2, Tables, SMT
    <3>2. /\ c \div 1 \in Nat
          /\ c \div 1 = (c \div 64) * 64 + ((c \div 1) % 64)
      BY <1>1, SMT
    <3>3. QED
      BY <3>1, <3>2, SMT
  <2>3. CASE j = 2
    <3>1. Weight[j] = 64 /\ Weight[j + 1] = 4096
      BY <2>3, Tables, SMT
    <3>2. /\ c \div 64 \in Nat
          /\ c \div 64 = (c \div 4096) * 64 + ((c \div 64) % 64)
      BY <1>1, SMT
    <3>3. QED
      BY <3>1, <3>2, SMT
  <2>4. CASE j = 3
    <3>1. Weight[j] = 4096 /\ Weight[j + 1] = 262144
      BY <2>4, Tables, SMT
    <3>2. /\ c \div 4096 \in Nat
          /\ c \div 4096 = (c \div 262144) * 64 + ((c \div 4096) % 64)
      BY <1>1, SMT
    <3>3. QED
      BY <3>1, <3>2, SMT
  <2>5. CASE j = 4
    <3>1. Weight[j] = 262144 /\ Weight[j + 1] = 16777216
      BY <2>5, Tables, SMT
    <3>2. /\ c \div 262144 \in Nat
          /\ c \div 262144 = (c \div 16777216) * 64 + ((c \div 262144) % 64)
      BY <1>1, SMT
    <3>3. QED
      BY <3>1, <3>2, SMT
  <2>6. CASE j = 5
    <3>1. Weight[j] = 16777216 /\ Weight[j + 1] = 1073741824
      BY <2>6, Tables, SMT
    <3>2. /\ c \div 16777216 \in Nat
          /\ c \div 16777216 = (c \div 1073741824) * 64 + ((c \div 16777216) % 64)
      BY <1>1, SMT
    <3>3. QED
      BY <3>1, <3>2, SMT
  <2>7. QED
    BY <2>1, <2>2, <2>3, <2>4, <2>5, <2>6
<1>4. QED
  BY <1>2, <1>3

\* The k-th of the n bytes of a character.
ByteOf(c, n, k) ==
  IF k = 1 THEN Mask[n] + c \div Weight[n]
           ELSE 128 + ((c \div Weight[n - k + 1]) % 64)

\* The bytes of a character.
LEMMA BytesOf ==
  ASSUME NEW c \in Char
  PROVE  \E n \in 1 .. 6 :
           /\ IsLength(n, c)
           /\ ToUtf8(c) \in Text /\ Len(ToUtf8(c)) = n
           /\ \A k \in 1 .. n : ToUtf8(c)[k] = ByteOf(c, n, k)
<1> DEFINE n == CHOOSE x \in 1 .. 6 : IsLength(x, c)
<1>1. n \in 1 .. 6 /\ IsLength(n, c)
  BY LengthExists
<1>2. ToUtf8(c) = [k \in 1 .. n |->
                     IF k = 1 THEN Mask[n] + c \div Weight[n]
                     ELSE 128 + ((c \div Weight[n - k + 1]) % 64)]
  BY DEF ToUtf8, IsLength
<1> HIDE DEF n
<1>3. Mask[n] \in Nat
  <2>1. n = 1 \/ n = 2 \/ n = 3 \/ n = 4 \/ n = 5 \/ n = 6
    BY <1>1
  <2>2. QED
    BY <2>1, Tables, SMT
<1>4. ASSUME NEW k \in 1 .. n PROVE ToUtf8(c)[k] \in Nat
  <2>1. CASE k = 1
    <3>1. ToUtf8(c)[k] = Mask[n] + c \div Weight[n]
      BY <1>2, <2>1
    <3>2. c \div Weight[n] \in Nat
      BY <1>1, LengthFits
    <3>3. QED
      BY <1>3, <3>1, <3>2
  <2>2. CASE k # 1
    <3>1. n - k + 1 \in 1 .. n - 1
      BY <1>1, <2>2
    <3>2. c \div Weight[n - k + 1] \in Nat
      BY <1>1, <3>1, LengthFits
    <3>3. ToUtf8(c)[k] = 128 + ((c \div Weight[n - k + 1]) % 64)
      BY <1>2, <2>2
    <3>4. PICK q \in Nat : q = c \div Weight[n - k + 1]
      BY <3>2
    <3>5. 128 + (q % 64) \in Nat
      OBVIOUS
    <3>6. QED
      BY <3>3, <3>4, <3>5
  <2>3. QED
    BY <2>1, <2>2
<1>5. ToUtf8(c) \in Text /\ Len(ToUtf8(c)) = n
  BY <1>1, <1>2, <1>4 DEF Text
<1>6. \A k \in 1 .. n : ToUtf8(c)[k] = ByteOf(c, n, k)
  BY <1>2 DEF ByteOf
<1>7. QED
  BY <1>1, <1>5, <1>6

\* What a byte that marks a length tells.
LEMMA LeadByte ==
  ASSUME NEW n \in 2 .. 6, NEW q \in 0 .. Room[n] - 1, NEW b, b = Mask[n] + q
  PROVE  /\ b \in Nat /\ b > 127 /\ b < Mask[n] + Room[n]
         /\ b % Room[n] = q
         /\ \A m \in 2 .. n - 1 : ~(b < Mask[m] + Room[m])
<1>2. CASE n = 2
  <2>1. q \in 0 .. 32 - 1 /\ b = 192 + q
    BY <1>2, Tables, SMT
  <2>2. /\ b \in Nat /\ b > 127 /\ b < 192 + 32 /\ b % 32 = q
    BY <2>1, SMT
  <2>3. 2 .. n - 1 = {}
    BY <1>2
  <2>4. QED
    BY <1>2, <2>2, <2>3, Tables, SMT
<1>3. CASE n = 3
  <2>1. q \in 0 .. 16 - 1 /\ b = 224 + q
    BY <1>3, Tables, SMT
  <2>2. /\ b \in Nat /\ b > 127 /\ b < 224 + 16 /\ b % 16 = q
    BY <2>1, SMT
  <2>3. ASSUME NEW m \in 2 .. n - 1 PROVE ~(b < Mask[m] + Room[m])
    <3>1. m = 2
      BY <1>3
    <3>2. QED
      BY <2>2, <3>1, Tables, SMT
  <2>4. QED
    BY <1>3, <2>2, <2>3, Tables, SMT
<1>4. CASE n = 4
  <2>1. q \in 0 .. 8 - 1 /\ b = 240 + q
    BY <1>4, Tables, SMT
  <2>2. /\ b \in Nat /\ b > 127 /\ b < 240 + 8 /\ b % 8 = q
    BY <2>1, SMT
  <2>3. ASSUME NEW m \in 2 .. n - 1 PROVE ~(b < Mask[m] + Room[m])
    <3>1. m = 2 \/ m = 3
      BY <1>4
    <3>2. QED
      BY <2>2, <3>1, Tables, SMT
  <2>4. QED
    BY <1>4, <2>2, <2>3, Tables, SMT
<1>5. CASE n = 5
  <2>1. q \in 0 .. 4 - 1 /\ b = 248 + q
    BY <1>5, Tables, SMT
  <2>2. /\ b \in Nat /\ b > 127 /\ b < 248 + 4 /\ b % 4 = q
    BY <2>1, SMT
  <2>3. ASSUME NEW m \in 2 .. n - 1 PROVE ~(b < Mask[m] + Room[m])
    <3>1. m = 2 \/ m = 3 \/ m = 4
      BY <1>5
    <3>2. QED
      BY <2>2, <3>1, Tables, SMT
  <2>4. QED
    BY <1>5, <2>2, <2>3, Tables, SMT
<1>6. CASE n = 6
  <2>1. q \in 0 .. 2 - 1 /\ b = 252 + q
    BY <1>6, Tables, SMT
  <2>2. /\ b \in Nat /\ b > 127 /\ b < 252 + 2 /\ b % 2 = q
    BY <2>1, SMT
  <2>3. ASSUME NEW m \in 2 .. n - 1 PROVE ~(b < Mask[m] + Room[m])
    <3>1. m = 2 \/ m = 3 \/ m = 4 \/ m = 5
      BY <1>6
    <3>2. QED
      BY <2>2, <3>1, Tables, SMT
  <2>4. QED
    BY <1>6, <2>2, <2>3, Tables, SMT
<1>7. QED
  BY <1>2, <1>3, <1>4, <1>5, <1>6

Acc == [result : Text, count : Nat, char : Nat, wrong : BOOLEAN]

\* A whole text has been decoded, and nothing else.
Between(acc, text) ==
  acc \in Acc /\ acc.result = text /\ acc.count = 0 /\ ~acc.wrong

\* After it, j bytes of character c, of n bytes.
Within(acc, text, c, n, j) ==
  /\ acc \in Acc /\ acc.result = text /\ ~acc.wrong
  /\ acc.count = n - j
  /\ acc.char = c \div Weight[n - j + 1]

LEMMA FirstByte ==
  ASSUME NEW c \in Char, NEW n \in 1 .. 6, IsLength(n, c), NEW b,
         b = ByteOf(c, n, 1),
         NEW acc, NEW text \in Text, Between(acc, text)
  PROVE  IF n = 1 THEN Between(NextByte(acc, b), Append(text, c))
                  ELSE Within(NextByte(acc, b), text, c, n, 1)
<1>0. b = Mask[n] + c \div Weight[n]
  BY DEF ByteOf
<1>1. NextByte(acc, b) = FirstChar(acc, b)
  BY DEF NextByte, Between
<1>2. CASE n = 1
  <2>1. b = c /\ c <= 127 /\ c \in Nat
    <3>1. Mask[1] = 0 /\ Weight[1] = 1 /\ Greatest[1] = 127
      BY Tables, SMT
    <3>2. c \in Nat /\ c <= 127
      <4>1. Greatest[6] \in Nat
        BY Tables, SMT
      <4>2. QED
        BY <1>2, <3>1, <4>1 DEF Char, IsLength
    <3>3. QED
      BY <1>0, <1>2, <3>1, <3>2
  <2>2. NextByte(acc, b) = [acc EXCEPT !.result = Append(@, c)]
    BY <1>1, <2>1 DEF FirstChar
  <2>3. Append(text, c) \in Text
    BY <2>1 DEF Text
  <2>4. QED
    BY <1>2, <2>2, <2>3 DEF Between, Acc
<1>3. CASE n # 1
  <2> DEFINE over == {m \in 2 .. 6 : b < Mask[m] + Room[m]}
             x == CHOOSE m \in over : \A y \in over : m <= y
  <2>1. n \in 2 .. 6 /\ c \div Weight[n] \in 0 .. Room[n] - 1
    BY <1>3, LengthFits
  <2>2. PICK q \in 0 .. Room[n] - 1 : q = c \div Weight[n]
    BY <2>1
  <2>3. /\ b \in Nat /\ b > 127 /\ b < Mask[n] + Room[n] /\ b % Room[n] = q
        /\ \A m \in 2 .. n - 1 : ~(b < Mask[m] + Room[m])
    BY <1>0, <2>1, <2>2, LeadByte
  <2>4. n \in over /\ \A y \in over : n <= y
    BY <2>1, <2>3
  <2>5. x = n
    <3> HIDE DEF over
    <3>1. x \in over /\ \A y \in over : x <= y
      BY <2>4
    <3>2. x \in 2 .. 6
      BY <3>1 DEF over
    <3>3. QED
      BY <2>4, <3>1, <3>2
  <2>6. FirstChar(acc, b) = [acc EXCEPT !.count = x - 1, !.char = b % Room[x]]
    BY <2>3, <2>4 DEF FirstChar
  <2>7. NextByte(acc, b) = [acc EXCEPT !.count = n - 1, !.char = q]
    BY <1>1, <2>3, <2>5, <2>6
  <2>8. q \in Nat /\ n - 1 \in Nat /\ n - 1 + 1 = n
    BY <2>1
  <2>9. QED
    BY <1>3, <2>2, <2>7, <2>8 DEF Between, Within, Acc
<1>4. QED
  BY <1>2, <1>3

LEMMA LaterByte ==
  ASSUME NEW c \in Char, NEW n \in 1 .. 6, IsLength(n, c), NEW j \in 1 .. n - 1, NEW b \in Nat,
         b = ByteOf(c, n, j + 1),
         NEW acc, NEW text \in Text, Within(acc, text, c, n, j)
  PROVE  IF j + 1 = n THEN Between(NextByte(acc, b), Append(text, c))
                      ELSE Within(NextByte(acc, b), text, c, n, j + 1)
<1>0. b = 128 + ((c \div Weight[n - (j + 1) + 1]) % 64)
  BY DEF ByteOf
<1> DEFINE i == n - j
<1>1. i \in 1 .. n - 1 /\ n - (j + 1) + 1 = i /\ n - j + 1 = i + 1
  OBVIOUS
<1>2. PICK v \in Nat, w \in Nat :
        v = c \div Weight[i] /\ w = c \div Weight[i + 1] /\ v = w * 64 + (v % 64)
  <2>1. c \div Weight[i] \in Nat
    BY <1>1, LengthFits
  <2>2. c \div Weight[i + 1] = acc.char /\ acc.char \in Nat
    BY <1>1 DEF Within, Acc
  <2>3. c \div Weight[i] = (c \div Weight[i + 1]) * 64 + ((c \div Weight[i]) % 64)
    BY <1>1, LengthFits
  <2> HIDE DEF i
  <2>4. QED
    BY <2>1, <2>2, <2>3
<1>3. /\ acc.char = w /\ acc.count = i /\ acc.count # 0 /\ ~acc.wrong
      /\ acc.result = text /\ acc \in Acc
  BY <1>1, <1>2 DEF Within
<1>4. b = 128 + (v % 64)
  BY <1>0, <1>1, <1>2
<1> HIDE DEF i
<1>5. b \in Nat /\ ~(b < 128) /\ b % 64 = v % 64
  BY <1>4
<1>6. acc.char * 64 + (b % 64) = v
  BY <1>2, <1>3, <1>5
<1>7. NextByte(acc, b) = IF acc.count > 1 THEN [acc EXCEPT !.count = @ - 1, !.char = v]
                         ELSE [acc EXCEPT !.count = 0, !.result = Append(@, v)]
  BY <1>3, <1>5, <1>6 DEF NextByte, OtherChar
<1>8. CASE j + 1 = n
  <2>1. i = 1 /\ v = c
    <3>1. i = 1 /\ Weight[1] = 1
      BY <1>8, Tables, SMT DEF i
    <3>2. c \in Nat
      <4>1. Greatest[6] \in Nat
        BY Tables, SMT
      <4>2. QED
        BY <4>1 DEF Char
    <3>3. QED
      BY <1>2, <3>1, <3>2
  <2>2. NextByte(acc, b) = [acc EXCEPT !.count = 0, !.result = Append(@, c)]
    BY <1>3, <1>7, <2>1
  <2>3. Append(text, c) \in Text
    BY <1>2, <2>1 DEF Text
  <2>4. Between([acc EXCEPT !.count = 0, !.result = Append(@, c)], Append(text, c))
    BY <1>3, <2>3 DEF Between, Acc
  <2>5. QED
    BY <1>8, <2>2, <2>4
<1>9. CASE j + 1 # n
  <2>1. i > 1 /\ i \in Nat /\ i - 1 \in Nat /\ i - 1 = n - (j + 1)
    BY <1>9 DEF i
  <2>2. NextByte(acc, b) = [acc EXCEPT !.count = i - 1, !.char = v]
    BY <1>3, <1>7, <2>1
  <2>3. PICK a \in Acc : a = NextByte(acc, b)
    BY <1>2, <1>3, <2>1, <2>2 DEF Acc
  <2>4. /\ a.result = text /\ ~a.wrong /\ a.count = i - 1 /\ a.char = v
    BY <1>3, <2>2, <2>3 DEF Acc
  <2>5. v = c \div Weight[n - (j + 1) + 1]
    BY <1>1, <1>2
  <2>6. QED
    BY <1>9, <2>1, <2>3, <2>4, <2>5 DEF Within
<1>10. QED
  BY <1>8, <1>9

LEMMA NextByteType ==
  ASSUME NEW acc \in Acc, NEW b \in Nat
  PROVE  NextByte(acc, b) \in Acc
<1>0. /\ acc.result \in Text /\ acc.count \in Nat /\ acc.char \in Nat
      /\ acc.wrong \in BOOLEAN
  BY DEF Acc
<1>1. FirstChar(acc, b) \in Acc
  <2> DEFINE over == {n \in 2 .. 6 : b < Mask[n] + Room[n]}
             x == CHOOSE m \in over : \A y \in over : m <= y
  <2>1. CASE b <= 127
    <3>1. Append(acc.result, b) \in Text
      BY <1>0 DEF Text
    <3>2. QED
      BY <2>1, <3>1 DEF FirstChar, Acc
  <2>2. CASE ~(b <= 127) /\ over = {}
    BY <2>2 DEF FirstChar, Acc
  <2>3. CASE ~(b <= 127) /\ over # {}
    <3>1. x \in over
      <4>1. PICK y \in over : TRUE
        BY <2>3
      <4>2. 2 \in over \/ 3 \in over \/ 4 \in over \/ 5 \in over \/ 6 \in over
        BY <4>1
      <4>3. over \subseteq 2 .. 6
        OBVIOUS
      <4> HIDE DEF over
      <4>4. \E m \in over : \A z \in over : m <= z
        BY <4>2, <4>3
      <4>5. QED
        BY <4>4
    <3>2. x \in 2 .. 6
      BY <3>1
    <3>3. Room[x] \in Nat \ {0}
      <4> HIDE DEF x
      <4>1. x = 2 \/ x = 3 \/ x = 4 \/ x = 5 \/ x = 6
        BY <3>2
      <4>2. QED
        BY <4>1, Tables, SMT
    <3>4. FirstChar(acc, b) = [acc EXCEPT !.count = x - 1, !.char = b % Room[x]]
      BY <2>3 DEF FirstChar
    <3> HIDE DEF x
    <3>5. PICK p \in Nat, q \in Nat : p = x - 1 /\ q = b % Room[x]
      <4>1. PICK r \in Nat \ {0} : r = Room[x]
        BY <3>3
      <4>2. b % r \in Nat
        BY <4>1
      <4>3. QED
        BY <3>2, <4>1, <4>2
    <3>6. QED
      BY <3>4, <3>5 DEF Acc
  <2>4. QED
    BY <2>1, <2>2, <2>3
<1>2. CASE acc.count # 0
  <2>1. PICK v \in Nat : v = acc.char * 64 + (b % 64)
    <3>1. b % 64 \in Nat
      OBVIOUS
    <3>2. PICK c \in Nat : c = acc.char
      BY <1>0
    <3>3. c * 64 + (b % 64) \in Nat
      BY <3>1, <3>2
    <3>4. QED
      BY <3>2, <3>3
  <2>2. Append(acc.result, v) \in Text /\ (acc.count > 1 => acc.count - 1 \in Nat)
    BY <1>0, <2>1 DEF Text
  <2>3. OtherChar(acc, b) =
          IF b < 128 THEN [acc EXCEPT !.wrong = TRUE]
          ELSE IF acc.count > 1 THEN [acc EXCEPT !.count = @ - 1, !.char = v]
          ELSE [acc EXCEPT !.count = 0, !.result = Append(@, v)]
    BY <2>1 DEF OtherChar
  <2>4. OtherChar(acc, b) \in Acc
    <3>1. CASE b < 128
      BY <2>3, <3>1 DEF Acc
    <3>2. CASE ~(b < 128) /\ acc.count > 1
      <4>1. PICK p \in Nat : p = acc.count - 1
        BY <2>2, <3>2
      <4>2. OtherChar(acc, b) = [acc EXCEPT !.count = p, !.char = v]
        BY <2>3, <3>2, <4>1
      <4>3. QED
        BY <2>1, <4>1, <4>2 DEF Acc
    <3>3. CASE ~(b < 128) /\ ~(acc.count > 1)
      <4>1. PICK r \in Text : r = Append(acc.result, v)
        BY <2>2
      <4>2. OtherChar(acc, b) = [acc EXCEPT !.count = 0, !.result = r]
        BY <2>3, <3>3, <4>1
      <4>3. [acc EXCEPT !.count = 0, !.result = r] \in Acc
        BY <4>1 DEF Acc
      <4>4. QED
        BY <4>2, <4>3
    <3>4. QED
      BY <3>1, <3>2, <3>3
  <2>5. QED
    BY <1>1, <1>2, <2>4 DEF NextByte
<1>3. QED
  BY <1>1, <1>2 DEF NextByte

\* FromUtf8 goes through the bytes one by one.
LEMMA FromUtf8Steps ==
  ASSUME NEW bytes \in Text
  PROVE  \E f \in [0 .. Len(bytes) -> Acc] :
           /\ f[0] = Nothing
           /\ \A n \in 1 .. Len(bytes) : f[n] = NextByte(f[n - 1], bytes[n])
           /\ FromUtf8(bytes) = f[Len(bytes)]
<1> DEFINE N == Len(bytes)
           F == [x \in (1 .. N) \X Acc |-> NextByte(x[2], bytes[x[1]])]
           IsAfter(f) ==
             f = [n \in 0 .. N |-> IF n = 0 THEN Nothing ELSE NextByte(f[n - 1], bytes[n])]
<1>1. N \in Nat /\ \A n \in 1 .. N : bytes[n] \in Nat
  BY LenProperties, ElementOfSeq DEF Text
<1>2. Nothing \in Acc
  BY TextEmpty DEF Nothing, Acc
<1> HIDE DEF N
<1>3. ASSUME NEW n \in 1 .. N, NEW x \in Acc
      PROVE  F[<<n, x>>] = NextByte(x, bytes[n]) /\ F[<<n, x>>] \in Acc
  <2>1. F[<<n, x>>] = NextByte(x, bytes[n])
    OBVIOUS
  <2>2. QED
    BY <1>1, <2>1, NextByteType
<1> HIDE DEF F
<1>4. PICK g \in [0 .. N -> Acc] : IsRecursion(g, N, Nothing, F)
  BY <1>1, <1>2, <1>3, RecursionExists
<1>5. ASSUME NEW n \in 0 .. N
      PROVE  g[n] = IF n = 0 THEN Nothing ELSE NextByte(g[n - 1], bytes[n])
  <2>1. g[n] = IF n = 0 THEN Nothing ELSE F[<<n, g[n - 1]>>]
    BY <1>4 DEF IsRecursion
  <2>2. CASE n # 0
    <3>1. n \in 1 .. N /\ g[n - 1] \in Acc
      BY <1>1, <1>4, <2>2
    <3>2. QED
      BY <1>3, <2>1, <2>2, <3>1
  <2>3. QED
    BY <2>1, <2>2
<1>6. IsAfter(g)
  <2>1. g = [n \in 0 .. N |-> g[n]]
    BY <1>4
  <2>2. QED
    BY <1>5, <2>1
<1> DEFINE f == CHOOSE h : IsAfter(h)
<1>7. IsAfter(f)
  BY <1>6
<1>8. FromUtf8(bytes) = f[N]
  BY DEF FromUtf8, N
<1> HIDE DEF f
<1>9. f[0] = Nothing
  <2>1. 0 \in 0 .. N
    BY <1>1
  <2>2. QED
    BY <1>7, <2>1
<1>10. ASSUME NEW n \in 1 .. N PROVE f[n] = NextByte(f[n - 1], bytes[n])
  <2>1. n \in 0 .. N /\ n # 0
    BY <1>1
  <2>2. QED
    BY <1>7, <2>1
<1>11. f \in [0 .. N -> Acc]
  <2> DEFINE T == {n \in 0 .. N : f[n] \in Acc}
  <2>1. 0 \in T
    BY <1>1, <1>2, <1>9
  <2>2. ASSUME NEW n \in 0 .. N - 1, n \in T PROVE n + 1 \in T
    <3>1. n + 1 \in 1 .. N /\ (n + 1) - 1 = n /\ n + 1 \in 0 .. N
      BY <1>1
    <3>2. f[n + 1] = NextByte(f[n], bytes[n + 1])
      BY <1>10, <3>1
    <3>3. f[n] \in Acc /\ bytes[n + 1] \in Nat
      BY <1>1, <2>2, <3>1
    <3>4. QED
      BY <3>1, <3>2, <3>3, NextByteType
  <2>3. 0 .. N \subseteq T
    <3> HIDE DEF T
    <3>1. QED
      BY <1>1, <2>1, <2>2, Upwards
  <2>4. QED
    BY <1>7, <2>3
<1>12. QED
  BY <1>8, <1>9, <1>10, <1>11 DEF N

\* What is left is all there is when nothing has been taken.
LEMMA RemainderIsAll ==
  ASSUME NEW seqs \in Seq(Text), NEW rem, IsRemainder(rem, seqs)
  PROVE  rem[0] = FlattenSeq(seqs) /\ FlattenSeq(seqs) \in Text
<1>1. PICK r : IsRemainder(r, seqs) /\ r[0] = FlattenSeq(seqs)
  BY FlattenRemainder
<1> DEFINE N == Len(seqs)
           T == {m \in 0 .. N : rem[N - m] = r[N - m]}
<1>2. N \in Nat /\ N = Len(seqs)
  BY LenProperties
<1> HIDE DEF N
<1>3. 0 \in T
  BY <1>1, <1>2 DEF IsRemainder
<1>4. ASSUME NEW m \in 0 .. N - 1, m \in T PROVE m + 1 \in T
  <2>1. PICK k \in 1 .. N : k = N - m
    BY <1>2
  <2>2. N - (m + 1) = k - 1 /\ m + 1 \in 0 .. N
    BY <1>2, <2>1
  <2>3. rem[k - 1] = seqs[k] \o rem[k] /\ r[k - 1] = seqs[k] \o r[k]
    BY <1>1, <1>2 DEF IsRemainder
  <2>4. rem[k] = r[k]
    BY <1>4, <2>1
  <2>5. QED
    BY <2>2, <2>3, <2>4
<1>5. N \in T
  <2> HIDE DEF T
  <2>1. 0 .. N \subseteq T
    BY <1>2, <1>3, <1>4, Upwards
  <2>2. QED
    BY <1>2, <2>1
<1>6. rem[0] = r[0]
  BY <1>2, <1>5
<1>7. r[0] \in Text
  BY <1>1, <1>2 DEF IsRemainder
<1>8. QED
  BY <1>1, <1>6, <1>7

LEMMA FlattenType == \A seqs \in Seq(Text) : FlattenSeq(seqs) \in Text
BY FlattenRemainder, RemainderIsAll

LEMMA FlattenEmpty == FlattenSeq(<<>>) = <<>>
<1>1. <<>> \in Seq(Text) /\ Len(<<>>) = 0
  OBVIOUS
<1>2. PICK r : IsRemainder(r, <<>>) /\ r[0] = FlattenSeq(<<>>)
  BY <1>1, FlattenRemainder
<1>3. QED
  BY <1>1, <1>2 DEF IsRemainder

LEMMA FlattenOne == ASSUME NEW t \in Text PROVE FlattenSeq(<<t>>) = t
<1>1. <<t>> \in Seq(Text) /\ Len(<<t>>) = 1 /\ <<t>>[1] = t
  OBVIOUS
<1>2. PICK r : IsRemainder(r, <<t>>) /\ r[0] = FlattenSeq(<<t>>)
  BY <1>1, FlattenRemainder
<1>3. r[1] = <<>> /\ r[1 - 1] = t \o r[1]
  BY <1>1, <1>2 DEF IsRemainder
<1>4. QED
  BY <1>2, <1>3, TextEmpty

LEMMA FlattenJoin ==
  ASSUME NEW a \in Seq(Text), NEW b \in Seq(Text)
  PROVE  FlattenSeq(a \o b) = FlattenSeq(a) \o FlattenSeq(b)
<1>1. PICK ra : IsRemainder(ra, a) /\ ra[0] = FlattenSeq(a)
  BY FlattenRemainder
<1>2. PICK rb : IsRemainder(rb, b) /\ rb[0] = FlattenSeq(b)
  BY FlattenRemainder
<1> DEFINE A == Len(a)
           B == Len(b)
<1>3. /\ A \in Nat /\ B \in Nat /\ A = Len(a) /\ B = Len(b)
      /\ a \o b \in Seq(Text) /\ Len(a \o b) = A + B
      /\ \A k \in 1 .. A : (a \o b)[k] = a[k] /\ a[k] \in Text
      /\ \A k \in A + 1 .. A + B : (a \o b)[k] = b[k - A]
  <2>1. A \in Nat /\ B \in Nat /\ \A k \in 1 .. A : a[k] \in Text
    BY LenProperties, ElementOfSeq
  <2>2. QED
    BY <2>1, ConcatProperties
<1> HIDE DEF A, B
<1>4. /\ ra \in [0 .. A -> Text] /\ ra[A] = <<>>
      /\ \A k \in 1 .. A : ra[k - 1] = a[k] \o ra[k]
      /\ rb \in [0 .. B -> Text] /\ rb[B] = <<>>
      /\ \A k \in 1 .. B : rb[k - 1] = b[k] \o rb[k]
  BY <1>1, <1>2, <1>3 DEF IsRemainder
<1>5. PICK u \in Text : u = rb[0]
  <2>1. 0 \in 0 .. B
    BY <1>3
  <2>2. QED
    BY <1>4, <2>1
<1> DEFINE r == [k \in 0 .. A + B |-> IF k <= A THEN ra[k] \o u ELSE rb[k - A]]
<1>6. r \in [0 .. A + B -> Text]
  <2>1. ASSUME NEW k \in 0 .. A + B PROVE r[k] \in Text
    <3>1. CASE k <= A
      <4>1. ra[k] \in Text
        BY <1>3, <1>4, <3>1
      <4>2. QED
        BY <1>5, <3>1, <4>1, TextJoin
    <3>2. CASE ~(k <= A)
      <4>1. k - A \in 0 .. B
        BY <1>3, <3>2
      <4>2. QED
        BY <1>4, <3>2, <4>1
    <3>3. QED
      BY <3>1, <3>2
  <2>2. QED
    BY <2>1
<1>7. r[A + B] = <<>>
  <2>1. CASE B = 0
    <3>1. r[A + B] = ra[A] \o u /\ u = <<>>
      BY <1>3, <1>4, <1>5, <2>1
    <3>2. QED
      BY <1>4, <3>1, TextEmpty
  <2>2. CASE B # 0
    <3>1. ~(A + B <= A) /\ (A + B) - A = B /\ A + B \in 0 .. A + B
      BY <1>3, <2>2
    <3>2. QED
      BY <1>4, <3>1
  <2>3. QED
    BY <2>1, <2>2
<1>8. ASSUME NEW k \in 1 .. A + B PROVE r[k - 1] = (a \o b)[k] \o r[k]
  <2>1. CASE k <= A
    <3>1. /\ k - 1 \in 0 .. A + B /\ k - 1 <= A /\ k \in 0 .. A + B /\ k \in 1 .. A
          /\ k \in 0 .. A
      BY <1>3, <2>1
    <3>2. r[k - 1] = ra[k - 1] \o u /\ r[k] = ra[k] \o u
      BY <2>1, <3>1
    <3>3. ra[k - 1] = a[k] \o ra[k] /\ a[k] \in Text /\ ra[k] \in Text
      BY <1>3, <1>4, <3>1
    <3>4. (a[k] \o ra[k]) \o u = a[k] \o (ra[k] \o u)
      BY <1>5, <3>3, TextAssoc
    <3>5. (a \o b)[k] = a[k]
      BY <1>3, <3>1
    <3>6. QED
      BY <3>2, <3>3, <3>4, <3>5
  <2>2. CASE k = A + 1
    <3>1. /\ k - 1 = A /\ A \in 0 .. A + B /\ A <= A /\ k \in 0 .. A + B /\ ~(k <= A)
          /\ k \in A + 1 .. A + B /\ k - A = 1 /\ 1 \in 1 .. B
      BY <1>3, <2>2
    <3>2. r[k - 1] = <<>> \o u /\ r[k] = rb[1] /\ (a \o b)[k] = b[1]
      BY <1>3, <1>4, <3>1
    <3>3. <<>> \o u = u
      BY <1>5, TextEmpty
    <3>4. rb[0] = b[1] \o rb[1]
      <4>1. PICK j \in 1 .. B : j = 1
        BY <3>1
      <4>2. rb[j - 1] = b[j] \o rb[j]
        BY <1>4
      <4>3. j - 1 = 0
        BY <4>1
      <4>4. QED
        BY <4>1, <4>2, <4>3
    <3> HIDE DEF r
    <3>5. QED
      BY <1>5, <3>2, <3>3, <3>4
  <2>3. CASE k > A + 1
    <3>0. PICK j \in 1 .. B : j = k - A
      BY <1>3, <2>3
    <3>1. /\ k - 1 \in 0 .. A + B /\ ~(k - 1 <= A) /\ k \in 0 .. A + B /\ ~(k <= A)
          /\ k \in A + 1 .. A + B /\ (k - 1) - A = j - 1
      BY <1>3, <2>3, <3>0
    <3>2. r[k - 1] = rb[j - 1] /\ r[k] = rb[j] /\ (a \o b)[k] = b[j]
      BY <1>3, <3>0, <3>1
    <3>3. rb[j - 1] = b[j] \o rb[j]
      BY <1>4, <3>0
    <3> HIDE DEF r
    <3>4. QED
      BY <3>2, <3>3
  <2>4. k <= A \/ k = A + 1 \/ k > A + 1
    BY <1>3
  <2>5. QED
    BY <2>1, <2>2, <2>3, <2>4
<1>9. r[0] = ra[0] \o u
  BY <1>3
<1> HIDE DEF r
<1>10. IsRemainder(r, a \o b)
  BY <1>3, <1>6, <1>7, <1>8 DEF IsRemainder
<1>11. r[0] = FlattenSeq(a \o b)
  BY <1>3, <1>10, RemainderIsAll
<1>12. QED
  BY <1>1, <1>2, <1>5, <1>9, <1>11

-----------------------------------------------------------------------------
(***************************************************************************)
(* Wide strings and the bytes of them.                                     *)
(***************************************************************************)
Wide == Seq(Char)

LEMMA CharNat == Char \subseteq Nat
<1>1. Greatest[6] \in Nat
  BY Tables, SMT
<1>2. QED
  BY <1>1 DEF Char

LEMMA WideText == Wide \subseteq Text
<1>1. ASSUME NEW u \in Wide PROVE u \in Text
  <2>1. u \in Seq(Nat)
    BY CharNat, SeqMonotonic DEF Wide
  <2>2. QED
    BY <2>1 DEF Text
<1>2. QED
  BY <1>1

LEMMA WideEmpty == <<>> \in Wide
BY DEF Wide

\* The text of one character.
One(c) == <<c>>

LEMMA WideOne == \A c \in Char : One(c) \in Wide
BY DEF Wide, One

LEMMA WideJoin == \A u, v \in Wide : u \o v \in Wide
BY ConcatProperties DEF Wide

\* The first character of a text and what follows it.
LEMMA WideFirst ==
  ASSUME NEW w \in Wide, w # <<>>
  PROVE  \E c \in Char, x \in Wide : w = One(c) \o x
<1>1. w[1] \in Char /\ Tail(w) \in Wide /\ w = <<w[1]>> \o Tail(w)
  <2>1. Len(w) \in Nat \ {0}
    BY LenProperties, EmptySeq DEF Wide
  <2>2. w[1] \in Char /\ Tail(w) \in Seq(Char) /\ w = <<Head(w)>> \o Tail(w)
    BY <2>1, HeadTailProperties, ElementOfSeq DEF Wide
  <2>3. QED
    BY <2>2 DEF Wide
<1>2. QED
  BY <1>1 DEF One

\* Two texts with a text between them.
LEMMA Middle ==
  ASSUME NEW a \in Text, NEW b \in Text, NEW c \in Text, NEW i \in 1 .. Len(b)
  PROVE  /\ (a \o (b \o c))[Len(a) + i] = b[i]
         /\ Len(a) + i <= Len(a \o (b \o c))
<1>1. /\ Len(a) \in Nat /\ Len(b) \in Nat /\ Len(c) \in Nat
      /\ b \o c \in Seq(Nat) /\ Len(b \o c) = Len(b) + Len(c)
      /\ (b \o c)[i] = b[i]
  BY ConcatProperties, LenProperties DEF Text
<1>2. PICK d \in Seq(Nat) : d = b \o c
  BY <1>1
<1>3. /\ Len(a \o d) = Len(a) + Len(d)
      /\ \A k \in 1 .. Len(a) + Len(d) : (a \o d)[k] = IF k <= Len(a) THEN a[k] ELSE d[k - Len(a)]
  BY ConcatProperties DEF Text
<1>4. PICK k \in 1 .. Len(a) + Len(d) : k = Len(a) + i
  <2>1. Len(a) + i \in 1 .. Len(a) + Len(d)
    BY <1>1, <1>2
  <2>2. QED
    BY <2>1
<1>5. ~(k <= Len(a)) /\ k - Len(a) = i
  BY <1>1, <1>4
<1>6. QED
  BY <1>1, <1>2, <1>3, <1>4, <1>5

Coded(u) == [k \in 1 .. Len(u) |-> ToUtf8(u[k])]

LEMMA CodedType ==
  ASSUME NEW u \in Wide
  PROVE  Coded(u) \in Seq(Text) /\ Len(Coded(u)) = Len(u)
<1>1. Len(u) \in Nat /\ \A k \in 1 .. Len(u) : u[k] \in Char
  BY LenProperties, ElementOfSeq DEF Wide
<1>2. ASSUME NEW k \in 1 .. Len(u) PROVE ToUtf8(u[k]) \in Text
  BY <1>1, BytesOf
<1>3. QED
  BY <1>1, <1>2 DEF Coded

LEMMA BytesType == ASSUME NEW u \in Wide PROVE Bytes(u) \in Text
BY CodedType, FlattenType DEF Bytes, Coded

LEMMA BytesEmpty == Bytes(<<>>) = <<>>
<1>1. Coded(<<>>) = <<>>
  BY DEF Coded
<1>2. QED
  BY <1>1, FlattenEmpty DEF Bytes, Coded

LEMMA BytesOne == ASSUME NEW c \in Char PROVE Bytes(One(c)) = ToUtf8(c)
<1>1. Coded(<<c>>) = <<ToUtf8(c)>>
  BY DEF Coded
<1>2. ToUtf8(c) \in Text
  BY BytesOf
<1>3. QED
  BY <1>1, <1>2, FlattenOne DEF Bytes, Coded, One

LEMMA BytesJoin ==
  ASSUME NEW u \in Wide, NEW v \in Wide
  PROVE  Bytes(u \o v) = Bytes(u) \o Bytes(v)
<1>1. Coded(u \o v) = Coded(u) \o Coded(v)
  <2>1. /\ Len(u) \in Nat /\ Len(v) \in Nat /\ Len(u \o v) = Len(u) + Len(v)
        /\ u \o v \in Wide
        /\ \A k \in 1 .. Len(u) + Len(v) :
              (u \o v)[k] = IF k <= Len(u) THEN u[k] ELSE v[k - Len(u)]
    BY ConcatProperties, LenProperties DEF Wide
  <2>2. /\ Coded(u) \in Seq(Text) /\ Coded(v) \in Seq(Text)
        /\ Len(Coded(u)) = Len(u) /\ Len(Coded(v)) = Len(v)
        /\ Coded(u \o v) \in Seq(Text) /\ Len(Coded(u \o v)) = Len(u) + Len(v)
    BY <2>1, CodedType
  <2>3. /\ Coded(u) \o Coded(v) \in Seq(Text)
        /\ Len(Coded(u) \o Coded(v)) = Len(u) + Len(v)
        /\ \A k \in 1 .. Len(u) + Len(v) :
              (Coded(u) \o Coded(v))[k] =
                IF k <= Len(u) THEN Coded(u)[k] ELSE Coded(v)[k - Len(u)]
    <3>1. PICK x \in Seq(Text), y \in Seq(Text) : x = Coded(u) /\ y = Coded(v)
      BY <2>2
    <3>2. /\ x \o y \in Seq(Text)
          /\ Len(x \o y) = Len(x) + Len(y)
          /\ \A k \in 1 .. Len(x) + Len(y) :
                (x \o y)[k] = IF k <= Len(x) THEN x[k] ELSE y[k - Len(x)]
      BY <3>1, ConcatProperties
    <3>3. QED
      BY <2>2, <3>1, <3>2
  <2>4. ASSUME NEW k \in 1 .. Len(u) + Len(v)
        PROVE  Coded(u \o v)[k] = (Coded(u) \o Coded(v))[k]
    <3>1. Coded(u \o v)[k] = ToUtf8((u \o v)[k])
      BY <2>1 DEF Coded
    <3>2. CASE k <= Len(u)
      <4>1. k \in 1 .. Len(u)
        BY <2>1, <3>2
      <4>2. Coded(u)[k] = ToUtf8(u[k])
        BY <4>1 DEF Coded
      <4>3. QED
        BY <2>1, <2>3, <3>1, <3>2, <4>2
    <3>3. CASE ~(k <= Len(u))
      <4>1. PICK j \in 1 .. Len(v) : j = k - Len(u)
        BY <2>1, <3>3
      <4>2. Coded(v)[j] = ToUtf8(v[j])
        BY <4>1 DEF Coded
      <4>3. QED
        BY <2>1, <2>3, <3>1, <3>3, <4>1, <4>2
    <3>4. QED
      BY <3>2, <3>3
  <2>5. PICK x \in Seq(Text) : x = Coded(u \o v)
    BY <2>2
  <2>6. PICK y \in Seq(Text) : y = Coded(u) \o Coded(v)
    BY <2>3
  <2>7. Len(x) = Len(y) /\ Len(x) = Len(u) + Len(v)
    BY <2>2, <2>3, <2>5, <2>6
  <2>8. \A k \in 1 .. Len(x) : x[k] = y[k]
    BY <2>4, <2>5, <2>6, <2>7
  <2>9. x = y
    BY <2>7, <2>8, SeqEqual
  <2>10. QED
    BY <2>5, <2>6, <2>9
<1>2. Coded(u) \in Seq(Text) /\ Coded(v) \in Seq(Text)
  BY CodedType
<1>3. FlattenSeq(Coded(u) \o Coded(v)) = FlattenSeq(Coded(u)) \o FlattenSeq(Coded(v))
  BY <1>2, FlattenJoin
<1>4. QED
  BY <1>1, <1>3 DEF Bytes, Coded

\* After m bytes of a text's: some of its characters are whole ...
Whole(u, m, acc) ==
  \E v, w \in Wide : u = v \o w /\ Between(acc, v) /\ Len(Bytes(v)) = m

\* ... or they are, and another one is under way.
Part(u, m, acc) ==
  \E v, w \in Wide, c \in Char : \E j \in 1 .. Len(ToUtf8(c)) - 1 :
    /\ u = v \o (One(c) \o w)
    /\ Within(acc, v, c, Len(ToUtf8(c)), j)
    /\ Len(Bytes(v)) + j = m

\* The bytes of u around a character of n bytes, after m of them.
Around(u, v, c, w, m, n) ==
  /\ \A i \in 1 .. n : Bytes(u)[m + i] = ToUtf8(c)[i]
  /\ v \in Text /\ Append(v, c) \in Wide
  /\ u = Append(v, c) \o w
  /\ Len(Bytes(Append(v, c))) = m + n

LEMMA AroundChar ==
  ASSUME NEW v \in Wide, NEW w \in Wide, NEW c \in Char, NEW u, u = v \o (One(c) \o w),
         NEW m \in Nat, m = Len(Bytes(v)), NEW n \in Nat, n = Len(ToUtf8(c))
  PROVE  Around(u, v, c, w, m, n)
<1>1. One(c) \in Wide /\ One(c) \o w \in Wide /\ v \o One(c) \in Wide
  BY WideOne, WideJoin
<1>2. Append(v, c) = v \o One(c)
  BY AppendIsConcat DEF Wide, One
<1>3. /\ Bytes(v) \in Text /\ Bytes(w) \in Text /\ ToUtf8(c) \in Text
      /\ Bytes(One(c)) = ToUtf8(c)
  BY BytesType, BytesOf, BytesOne
<1>4. Bytes(One(c) \o w) = ToUtf8(c) \o Bytes(w)
  BY <1>1, <1>3, BytesJoin
<1>5. Bytes(u) = Bytes(v) \o (ToUtf8(c) \o Bytes(w))
  <2>1. PICK x \in Wide : x = One(c) \o w
    BY <1>1
  <2>2. Bytes(v \o x) = Bytes(v) \o Bytes(x)
    BY BytesJoin
  <2>3. QED
    BY <1>4, <2>1, <2>2
<1>6. Bytes(v \o One(c)) = Bytes(v) \o ToUtf8(c)
  BY <1>1, <1>3, BytesJoin
<1>7. Len(Bytes(v \o One(c))) = Len(Bytes(v)) + Len(ToUtf8(c))
  BY <1>3, <1>6, TextJoin
<1>8. v \o (One(c) \o w) = (v \o One(c)) \o w
  <2>1. v \in Text /\ One(c) \in Text /\ w \in Text
    BY <1>1, WideText
  <2>2. QED
    BY <2>1, TextAssoc
<1>9. ASSUME NEW i \in 1 .. n PROVE Bytes(u)[m + i] = ToUtf8(c)[i]
  <2>1. PICK a \in Text, b \in Text, x \in Text :
          a = Bytes(v) /\ b = ToUtf8(c) /\ x = Bytes(w)
    BY <1>3
  <2>2. i \in 1 .. Len(b)
    BY <2>1
  <2>3. (a \o (b \o x))[Len(a) + i] = b[i]
    BY <2>2, Middle
  <2>4. QED
    BY <1>5, <2>1, <2>3
<1>10. v \in Text
  BY WideText
<1>11. QED
  BY <1>1, <1>2, <1>7, <1>8, <1>9, <1>10 DEF Around

LEMMA Utf8Step ==
  ASSUME NEW u \in Wide, NEW m \in Nat, m < Len(Bytes(u)), NEW acc,
         Whole(u, m, acc) \/ Part(u, m, acc)
  PROVE  LET next == NextByte(acc, Bytes(u)[m + 1])
         IN  Whole(u, m + 1, next) \/ Part(u, m + 1, next)
<1> DEFINE next == NextByte(acc, Bytes(u)[m + 1])
<1>1. CASE Whole(u, m, acc)
  <2>1. PICK v \in Wide, w \in Wide : u = v \o w /\ Between(acc, v) /\ Len(Bytes(v)) = m
    BY <1>1 DEF Whole
  <2>2. w # <<>>
    <3>1. SUFFICES ASSUME w = <<>> PROVE FALSE
      OBVIOUS
    <3>2. v \in Text /\ v \o <<>> = v
      BY WideText, TextEmpty
    <3>3. QED
      BY <2>1, <3>1, <3>2
  <2>3. PICK c \in Char, x \in Wide : w = One(c) \o x
    BY <2>2, WideFirst
  <2>4. PICK n \in 1 .. 6 :
           /\ IsLength(n, c) /\ Len(ToUtf8(c)) = n
           /\ ToUtf8(c)[1] = ByteOf(c, n, 1)
    BY BytesOf
  <2>5. /\ \A i \in 1 .. n : Bytes(u)[m + i] = ToUtf8(c)[i]
        /\ v \in Text /\ Append(v, c) \in Wide /\ u = Append(v, c) \o x
        /\ Len(Bytes(Append(v, c))) = m + n
    <3>1. u = v \o (One(c) \o x) /\ m = Len(Bytes(v)) /\ n = Len(ToUtf8(c))
      BY <2>1, <2>3, <2>4
    <3>2. n \in Nat
      BY <2>4
    <3>3. Around(u, v, c, x, m, n)
      BY <3>1, <3>2, AroundChar
    <3>4. QED
      BY <3>3 DEF Around
  <2>6. Bytes(u)[m + 1] = ToUtf8(c)[1]
    BY <2>4, <2>5
  <2>7. IF n = 1 THEN Between(next, Append(v, c)) ELSE Within(next, v, c, n, 1)
    BY <2>1, <2>4, <2>5, <2>6, FirstByte
  <2> HIDE DEF next
  <2>8. CASE n = 1
    BY <2>5, <2>7, <2>8 DEF Whole, next
  <2>9. CASE n # 1
    <3>1. 1 \in 1 .. n - 1
      BY <2>4, <2>9
    <3>2. Part(u, m + 1, next)
      BY <2>1, <2>3, <2>4, <2>7, <2>9, <3>1 DEF Part
    <3>3. QED
      BY <3>2 DEF next
  <2>10. QED
    BY <2>8, <2>9
<1>2. CASE Part(u, m, acc)
  <2>1. PICK v \in Wide, w \in Wide, c \in Char : \E j \in 1 .. Len(ToUtf8(c)) - 1 :
          /\ u = v \o (One(c) \o w)
          /\ Within(acc, v, c, Len(ToUtf8(c)), j)
          /\ Len(Bytes(v)) + j = m
    BY <1>2 DEF Part
  <2>2. PICK j \in 1 .. Len(ToUtf8(c)) - 1 :
          /\ u = v \o (One(c) \o w)
          /\ Within(acc, v, c, Len(ToUtf8(c)), j)
          /\ Len(Bytes(v)) + j = m
    BY <2>1
  <2>3. PICK n \in 1 .. 6 :
           /\ IsLength(n, c) /\ Len(ToUtf8(c)) = n /\ ToUtf8(c) \in Text
           /\ \A k \in 1 .. n : ToUtf8(c)[k] = ByteOf(c, n, k)
    BY BytesOf
  <2>0. PICK p \in Nat : p = Len(Bytes(v))
    BY BytesType, TextLen
  <2>4. /\ \A i \in 1 .. n : Bytes(u)[p + i] = ToUtf8(c)[i]
        /\ v \in Text /\ Append(v, c) \in Wide /\ u = Append(v, c) \o w
        /\ Len(Bytes(Append(v, c))) = p + n
    <3>1. u = v \o (One(c) \o w) /\ n = Len(ToUtf8(c))
      BY <2>2, <2>3
    <3>2. n \in Nat
      BY <2>3
    <3>3. Around(u, v, c, w, p, n)
      BY <2>0, <3>1, <3>2, AroundChar
    <3>4. QED
      BY <3>3 DEF Around
  <2>5. p + j = m /\ p = Len(Bytes(v))
    BY <2>0, <2>2, <2>4
  <2>6. PICK k \in 2 .. n : k = j + 1
    BY <2>2, <2>3
  <2>7. Bytes(u)[m + 1] = ToUtf8(c)[k]
    <3>1. k \in 1 .. n /\ p + k = m + 1
      BY <2>5, <2>6
    <3>2. Bytes(u)[p + k] = ToUtf8(c)[k]
      BY <2>4, <3>1
    <3>3. QED
      BY <3>1, <3>2
  <2>8. Bytes(u)[m + 1] = ByteOf(c, n, j + 1)
    BY <2>3, <2>6, <2>7
  <2>9. j \in 1 .. n - 1 /\ Within(acc, v, c, n, j)
    BY <2>2, <2>3
  <2>10. IF j + 1 = n THEN Between(next, Append(v, c)) ELSE Within(next, v, c, n, j + 1)
    <3>1. PICK b \in Nat : b = Bytes(u)[m + 1]
      <4>1. ToUtf8(c)[k] \in Nat
        BY <2>3, <2>6, ElementOfSeq DEF Text
      <4>2. QED
        BY <2>7, <4>1
    <3>2. b = ByteOf(c, n, j + 1)
      BY <2>8, <3>1
    <3>3. IF j + 1 = n THEN Between(NextByte(acc, b), Append(v, c))
                       ELSE Within(NextByte(acc, b), v, c, n, j + 1)
      BY <2>3, <2>4, <2>9, <3>2, LaterByte
    <3>4. QED
      BY <3>1, <3>3
  <2> HIDE DEF next
  <2>11. CASE j + 1 = n
    <3>1. Len(Bytes(Append(v, c))) = m + 1
      <4>1. p + n = m + 1
        BY <2>5, <2>11
      <4>2. QED
        BY <2>4, <4>1
    <3>2. Whole(u, m + 1, next)
      BY <2>4, <2>10, <2>11, <3>1 DEF Whole
    <3>3. QED
      BY <3>2 DEF next
  <2>12. CASE j + 1 # n
    <3>1. PICK i \in 1 .. n - 1 : i = j + 1
      BY <2>9, <2>12
    <3>2. p + i = m + 1
      BY <2>5, <3>1
    <3>3. Within(next, v, c, n, i)
      BY <2>10, <2>12, <3>1
    <3>4. Part(u, m + 1, next)
      <4>1. /\ i \in 1 .. Len(ToUtf8(c)) - 1 /\ Within(next, v, c, Len(ToUtf8(c)), i)
            /\ Len(Bytes(v)) + i = m + 1
        BY <2>3, <2>5, <3>1, <3>2, <3>3
      <4>2. QED
        BY <2>2, <4>1 DEF Part
    <3>5. QED
      BY <3>4 DEF next
  <2>13. QED
    BY <2>11, <2>12
<1>3. QED
  BY <1>1, <1>2

\* This text is the beginning of u, and what n bytes of u leave is the rest of it.
Leaves(u, n, text) ==
  \E w \in Wide : /\ text \in Wide /\ u = text \o w
                  /\ SubSeq(Bytes(u), n + 1, Len(Bytes(u))) = Bytes(w)

\* Bytes that decode without an exception are those of whole characters, and what
\* they decode to is those characters (Utf8Decoder::decode).
THEOREM Utf8Read ==
  ASSUME NEW u \in Wide, NEW n \in 0 .. Len(Bytes(u)), NEW d,
         d = FromUtf8(SubSeq(Bytes(u), 1, n)), ~Throws(d)
  PROVE  Leaves(u, n, d.result)
<1>1. PICK y \in Text : y = Bytes(u)
  BY BytesType
<1>2. Len(y) \in Nat /\ n \in 0 .. Len(y) /\ n \in Nat
  BY <1>1, TextLen
<1>3. PICK x \in Text : x = SubSeq(y, 1, n) /\ Len(x) = n
  BY <1>2, Split
<1>4. \A k \in 1 .. n : x[k] = y[k]
  BY <1>2, <1>3 DEF Text
<1>5. PICK f \in [0 .. n -> Acc] :
        /\ f[0] = Nothing
        /\ \A k \in 1 .. n : f[k] = NextByte(f[k - 1], x[k])
        /\ FromUtf8(x) = f[n]
  BY <1>3, FromUtf8Steps
<1> DEFINE T == {m \in 0 .. n : Whole(u, m, f[m]) \/ Part(u, m, f[m])}
<1>6. 0 \in T
  <2>1. u \in Text /\ <<>> \o u = u /\ <<>> \in Wide
    BY WideText, WideEmpty, TextEmpty
  <2>2. Len(Bytes(<<>>)) = 0
    BY BytesEmpty
  <2>3. Between(Nothing, <<>>)
    BY TextEmpty DEF Between, Nothing, Acc
  <2>4. Whole(u, 0, Nothing)
    BY <2>1, <2>2, <2>3 DEF Whole
  <2>5. QED
    BY <1>2, <1>5, <2>4
<1>7. ASSUME NEW m \in 0 .. n - 1, m \in T PROVE m + 1 \in T
  <2>1. m \in Nat /\ m < Len(Bytes(u)) /\ m + 1 \in 1 .. n /\ m + 1 - 1 = m
    BY <1>1, <1>2
  <2>2. f[m + 1] = NextByte(f[m], Bytes(u)[m + 1])
    BY <1>1, <1>4, <1>5, <2>1
  <2>3. Whole(u, m + 1, f[m + 1]) \/ Part(u, m + 1, f[m + 1])
    BY <1>7, <2>1, <2>2, Utf8Step
  <2>4. QED
    BY <2>1, <2>3
<1>8. Whole(u, n, d) \/ Part(u, n, d)
  <2> HIDE DEF T
  <2>1. 0 .. n \subseteq T
    BY <1>2, <1>6, <1>7, Upwards
  <2>2. n \in T /\ d = f[n]
    BY <1>1, <1>2, <1>3, <1>5, <2>1
  <2>3. QED
    BY <2>2 DEF T
<1>9. ~Part(u, n, d)
  <2>1. SUFFICES ASSUME NEW c \in Char, NEW j \in 1 .. Len(ToUtf8(c)) - 1, NEW v,
                        Within(d, v, c, Len(ToUtf8(c)), j)
                 PROVE  FALSE
    BY DEF Part
  <2>2. Len(ToUtf8(c)) \in Nat
    BY BytesOf
  <2>3. d.count > 0
    BY <2>1, <2>2 DEF Within
  <2>4. QED
    BY <2>3 DEF Throws
<1>10. PICK v \in Wide, w \in Wide : u = v \o w /\ Between(d, v) /\ Len(Bytes(v)) = n
  BY <1>8, <1>9 DEF Whole
<1>11. Bytes(u) = Bytes(v) \o Bytes(w) /\ Bytes(v) \in Text /\ Bytes(w) \in Text
  BY <1>10, BytesJoin, BytesType
<1>12. SubSeq(Bytes(u), n + 1, Len(Bytes(u))) = Bytes(w)
  BY <1>10, <1>11, Unsplit
<1>13. QED
  BY <1>10, <1>12 DEF Between, Leaves

-----------------------------------------------------------------------------
(***************************************************************************)
(* Numbers: the digits that Decimal prints, and what stoll makes of them.  *)
(***************************************************************************)

\* The digits of every number up to n.
IsDigits(d, n) ==
  d = [k \in 0 .. n |-> IF k < 10 THEN <<48 + k>> ELSE Append(d[k \div 10], 48 + (k % 10))]

LEMMA Tenth ==
  ASSUME NEW k \in Nat, ~(k < 10)
  PROVE  /\ k \div 10 \in Nat /\ k \div 10 < k /\ k % 10 \in 0 .. 9
         /\ k = 10 * (k \div 10) + (k % 10)
BY SMT

LEMMA DigitText ==
  /\ \A k \in 0 .. 9 : <<48 + k>> \in Text
  /\ \A t \in Text, k \in 0 .. 9 : Append(t, 48 + k) \in Text
BY DEF Text

LEMMA DigitsExist ==
  ASSUME NEW n \in Nat
  PROVE  \E d \in [0 .. n -> Text] : IsDigits(d, n)
<1> DEFINE T == {m \in Nat : \E d \in [0 .. m -> Text] : IsDigits(d, m)}
<1>1. 0 \in T
  <2> DEFINE d == [k \in 0 .. 0 |-> <<48 + k>>]
  <2>1. d \in [0 .. 0 -> Text]
    BY DigitText
  <2>2. \A k \in 0 .. 0 : k < 10
    OBVIOUS
  <2>3. IsDigits(d, 0)
    BY <2>2 DEF IsDigits
  <2>4. QED
    BY <2>1, <2>3
<1>2. ASSUME NEW m \in Nat, m \in T PROVE m + 1 \in T
  <2>1. PICK d \in [0 .. m -> Text] : IsDigits(d, m)
    BY <1>2
  <2> DEFINE x == IF m + 1 < 10 THEN <<48 + (m + 1)>>
                  ELSE Append(d[(m + 1) \div 10], 48 + ((m + 1) % 10))
             e == [k \in 0 .. m + 1 |-> IF k = m + 1 THEN x ELSE d[k]]
  <2>2. x \in Text
    <3>1. CASE m + 1 < 10
      <4>1. m + 1 \in 0 .. 9
        BY <3>1
      <4>2. QED
        BY <3>1, <4>1, DigitText
    <3>2. CASE ~(m + 1 < 10)
      <4>1. PICK q \in 0 .. m, r \in 0 .. 9 : q = (m + 1) \div 10 /\ r = (m + 1) % 10
        BY <3>2, Tenth
      <4>2. Append(d[q], 48 + r) \in Text
        BY <2>1, <4>1, DigitText
      <4>3. QED
        BY <3>2, <4>1, <4>2
    <3>3. QED
      BY <3>1, <3>2
  <2> HIDE DEF x
  <2>3. e \in [0 .. m + 1 -> Text]
    BY <2>1, <2>2
  <2>4. ASSUME NEW k \in 0 .. m + 1
        PROVE  e[k] = IF k < 10 THEN <<48 + k>> ELSE Append(e[k \div 10], 48 + (k % 10))
    <3>1. ~(k < 10) => k \div 10 \in 0 .. m /\ e[k \div 10] = d[k \div 10]
      <4>1. SUFFICES ASSUME ~(k < 10)
                     PROVE  k \div 10 \in 0 .. m /\ e[k \div 10] = d[k \div 10]
        OBVIOUS
      <4>2. PICK q \in 0 .. m : q = k \div 10
        BY <4>1, Tenth
      <4>3. q \in 0 .. m + 1 /\ q # m + 1
        BY <4>2
      <4>4. QED
        BY <4>2, <4>3
    <3>2. CASE k = m + 1
      <4>1. e[k] = x
        BY <3>2
      <4> HIDE DEF e
      <4>2. CASE k < 10
        BY <3>2, <4>1, <4>2 DEF x
      <4>3. CASE ~(k < 10)
        <5>1. x = Append(d[k \div 10], 48 + (k % 10))
          BY <3>2, <4>3 DEF x
        <5>2. QED
          BY <3>1, <4>1, <4>3, <5>1
      <4>4. QED
        BY <4>2, <4>3
    <3>3. CASE k # m + 1
      <4>1. k \in 0 .. m /\ e[k] = d[k]
        BY <3>3
      <4>2. d[k] = IF k < 10 THEN <<48 + k>> ELSE Append(d[k \div 10], 48 + (k % 10))
        BY <2>1, <4>1 DEF IsDigits
      <4> HIDE DEF e
      <4>3. CASE k < 10
        BY <4>1, <4>2, <4>3
      <4>4. CASE ~(k < 10)
        <5>1. d[k] = Append(d[k \div 10], 48 + (k % 10))
          BY <4>2, <4>4
        <5>2. QED
          BY <3>1, <4>1, <4>4, <5>1
      <4>5. QED
        BY <4>3, <4>4
    <3>4. QED
      BY <3>2, <3>3
  <2>5. e = [k \in 0 .. m + 1 |-> e[k]]
    OBVIOUS
  <2> HIDE DEF e
  <2>6. IsDigits(e, m + 1)
    BY <2>4, <2>5 DEF IsDigits
  <2>7. QED
    BY <2>3, <2>6
<1>3. Nat \subseteq T
  <2> HIDE DEF T
  <2>1. QED
    BY <1>1, <1>2, SetInduction
<1>4. QED
  BY <1>3

\* There is one such table.
LEMMA DigitsOne ==
  ASSUME NEW m \in Nat, NEW n \in Nat, NEW d, IsDigits(d, m), NEW e, IsDigits(e, n)
  PROVE  \A k \in Nat : k <= m /\ k <= n => d[k] = e[k]
<1> DEFINE T == {b \in Nat : \A k \in 0 .. b : k <= m /\ k <= n => d[k] = e[k]}
<1>1. 0 \in T
  <2>1. \A k \in 0 .. 0 : k < 10 /\ k \in 0 .. m /\ k \in 0 .. n
    OBVIOUS
  <2>2. \A k \in 0 .. 0 : d[k] = <<48 + k>> /\ e[k] = <<48 + k>>
    BY <2>1 DEF IsDigits
  <2>3. QED
    BY <2>2
<1>2. ASSUME NEW b \in Nat, b \in T PROVE b + 1 \in T
  <2>1. ASSUME NEW k \in 0 .. b + 1, k <= m, k <= n PROVE d[k] = e[k]
    <3>1. /\ d[k] = IF k < 10 THEN <<48 + k>> ELSE Append(d[k \div 10], 48 + (k % 10))
          /\ e[k] = IF k < 10 THEN <<48 + k>> ELSE Append(e[k \div 10], 48 + (k % 10))
      <4>1. k \in 0 .. m /\ k \in 0 .. n
        BY <2>1
      <4>2. d[k] = IF k < 10 THEN <<48 + k>> ELSE Append(d[k \div 10], 48 + (k % 10))
        BY <4>1 DEF IsDigits
      <4>3. e[k] = IF k < 10 THEN <<48 + k>> ELSE Append(e[k \div 10], 48 + (k % 10))
        BY <4>1 DEF IsDigits
      <4>4. QED
        BY <4>2, <4>3
    <3>2. CASE k < 10
      BY <3>1, <3>2
    <3>3. CASE ~(k < 10)
      <4>1. PICK q \in 0 .. b : q = k \div 10 /\ q <= m /\ q <= n
        BY <2>1, <3>3, Tenth
      <4>2. d[q] = e[q]
        BY <1>2, <4>1
      <4>3. QED
        BY <3>1, <3>3, <4>1, <4>2
    <3>4. QED
      BY <3>2, <3>3
  <2>2. QED
    BY <2>1
<1>3. Nat \subseteq T
  <2> HIDE DEF T
  <2>1. QED
    BY <1>1, <1>2, SetInduction
<1>4. QED
  BY <1>3

LEMMA DecimalIs ==
  ASSUME NEW n \in Nat
  PROVE  /\ Decimal(n) \in Text
         /\ n < 10 => Decimal(n) = <<48 + n>>
         /\ ~(n < 10) => Decimal(n) = Append(Decimal(n \div 10), 48 + (n % 10))
<1>1. \A m \in Nat : \E d \in [0 .. m -> Text] : IsDigits(d, m) /\ Decimal(m) = d[m]
  <2>1. ASSUME NEW m \in Nat
        PROVE  \E d \in [0 .. m -> Text] : IsDigits(d, m) /\ Decimal(m) = d[m]
    <3> DEFINE e == CHOOSE d : IsDigits(d, m)
    <3>1. Decimal(m) = e[m]
      BY DEF Decimal, IsDigits
    <3>2. PICK d \in [0 .. m -> Text] : IsDigits(d, m)
      BY DigitsExist
    <3>3. IsDigits(e, m)
      BY <3>2
    <3> HIDE DEF e
    <3>4. d[m] = e[m]
      BY <3>2, <3>3, DigitsOne
    <3>5. QED
      BY <3>1, <3>2, <3>4
  <2>2. QED
    BY <2>1
<1>2. PICK d \in [0 .. n -> Text] : IsDigits(d, n) /\ Decimal(n) = d[n]
  BY <1>1
<1>3. d[n] = IF n < 10 THEN <<48 + n>> ELSE Append(d[n \div 10], 48 + (n % 10))
  <2>1. n \in 0 .. n
    OBVIOUS
  <2>2. QED
    BY <1>2, <2>1 DEF IsDigits
<1>4. ~(n < 10) => Decimal(n) = Append(Decimal(n \div 10), 48 + (n % 10))
  <2>1. SUFFICES ASSUME ~(n < 10)
                 PROVE  Decimal(n) = Append(Decimal(n \div 10), 48 + (n % 10))
    OBVIOUS
  <2>2. PICK q \in Nat : q = n \div 10 /\ q <= n
    BY <2>1, Tenth
  <2>3. PICK e : IsDigits(e, q) /\ Decimal(q) = e[q]
    BY <1>1
  <2>4. d[q] = e[q]
    BY <1>2, <2>2, <2>3, DigitsOne
  <2>5. QED
    BY <1>2, <1>3, <2>1, <2>2, <2>3, <2>4
<1>5. Decimal(n) \in Text
  <2>1. n \in 0 .. n
    OBVIOUS
  <2>2. QED
    BY <1>2, <2>1
<1>6. n < 10 => Decimal(n) = <<48 + n>>
  BY <1>2, <1>3
<1>7. QED
  BY <1>4, <1>5, <1>6

\* A set of natural numbers that is not empty has a least one.
LEMMA LeastExists ==
  ASSUME NEW S \in SUBSET Nat, S # {}
  PROVE  Min(S) \in S /\ \A y \in S : Min(S) <= y
<1>1. \E x \in S : \A y \in S : x <= y
  <2> DEFINE T == {n \in Nat : \A m \in 0 .. n : m \notin S}
  <2>1. SUFFICES ASSUME \A x \in S : \E y \in S : ~(x <= y) PROVE FALSE
    OBVIOUS
  <2>2. 0 \in T
    <3>1. SUFFICES ASSUME 0 \in S PROVE FALSE
      OBVIOUS
    <3>2. PICK y \in S : ~(0 <= y)
      BY <2>1, <3>1
    <3>3. QED
      BY <3>2
  <2>3. ASSUME NEW n \in Nat, n \in T PROVE n + 1 \in T
    <3>1. n + 1 \notin S
      <4>1. SUFFICES ASSUME n + 1 \in S PROVE FALSE
        OBVIOUS
      <4>2. PICK y \in S : ~(n + 1 <= y)
        BY <2>1, <4>1
      <4>3. y \in 0 .. n
        BY <4>2
      <4>4. QED
        BY <2>3, <4>3
    <3>2. ASSUME NEW m \in 0 .. n + 1 PROVE m \notin S
      BY <2>3, <3>1
    <3>3. QED
      BY <3>2
  <2>4. Nat \subseteq T
    <3> HIDE DEF T
    <3>1. QED
      BY <2>2, <2>3, SetInduction
  <2>5. PICK x \in S : TRUE
    OBVIOUS
  <2>6. QED
    BY <2>4, <2>5
<1>2. QED
  BY <1>1 DEF Min

\* The value of the first digits of a text.
IsValue(f, text) ==
  f = [n \in 0 .. Len(text) |->
         IF n = 0 THEN 0
         ELSE IF f[n - 1] >= IntLimit THEN f[n - 1]
         ELSE 10 * f[n - 1] + text[n] - 48]

LEMMA ValueExists ==
  ASSUME NEW text \in Text
  PROVE  \E f \in [0 .. Len(text) -> Int] : IsValue(f, text)
<1> DEFINE N == Len(text)
           F == [x \in (1 .. N) \X Int |->
                   IF x[2] >= IntLimit THEN x[2] ELSE 10 * x[2] + text[x[1]] - 48]
<1>1. N \in Nat /\ \A n \in 1 .. N : text[n] \in Nat
  BY LenProperties, ElementOfSeq DEF Text
<1> HIDE DEF N
<1>2. ASSUME NEW n \in 1 .. N, NEW x \in Int
      PROVE  /\ F[<<n, x>>] = IF x >= IntLimit THEN x ELSE 10 * x + text[n] - 48
             /\ F[<<n, x>>] \in Int
  <2>1. F[<<n, x>>] = IF x >= IntLimit THEN x ELSE 10 * x + text[n] - 48
    OBVIOUS
  <2>2. 10 * x + text[n] - 48 \in Int
    BY <1>1
  <2>3. QED
    BY <2>1, <2>2
<1> HIDE DEF F
<1>3. PICK f \in [0 .. N -> Int] : IsRecursion(f, N, 0, F)
  <2>1. 0 \in Int /\ \A n \in 1 .. N, x \in Int : F[<<n, x>>] \in Int
    BY <1>2
  <2>2. QED
    BY <1>1, <2>1, RecursionExists
<1>4. ASSUME NEW n \in 0 .. N
      PROVE  f[n] = IF n = 0 THEN 0
                    ELSE IF f[n - 1] >= IntLimit THEN f[n - 1]
                    ELSE 10 * f[n - 1] + text[n] - 48
  <2>1. f[n] = IF n = 0 THEN 0 ELSE F[<<n, f[n - 1]>>]
    BY <1>3 DEF IsRecursion
  <2>2. CASE n # 0
    <3>1. PICK x \in Int : x = f[n - 1] /\ n \in 1 .. N
      BY <1>1, <1>3, <2>2
    <3>2. QED
      BY <1>2, <2>1, <2>2, <3>1
  <2>3. QED
    BY <2>1, <2>2
<1>5. f = [n \in 0 .. N |-> f[n]]
  BY <1>3
<1>6. IsValue(f, text)
  BY <1>4, <1>5 DEF IsValue, N
<1>7. QED
  BY <1>3, <1>6 DEF N

\* It depends on these digits alone.
LEMMA ValueOne ==
  ASSUME NEW s \in Text, NEW t \in Text, NEW f, IsValue(f, s), NEW g, IsValue(g, t),
         NEW N \in Nat, N <= Len(s), N <= Len(t), \A k \in 1 .. N : s[k] = t[k]
  PROVE  \A k \in 0 .. N : f[k] = g[k]
<1> DEFINE T == {k \in 0 .. N : f[k] = g[k]}
<1>0. Len(s) \in Nat /\ Len(t) \in Nat
  BY TextLen
<1>1. 0 \in T
  <2>1. 0 \in 0 .. Len(s) /\ 0 \in 0 .. Len(t)
    BY <1>0
  <2>2. f[0] = 0 /\ g[0] = 0
    BY <2>1 DEF IsValue
  <2>3. QED
    BY <2>2
<1>2. ASSUME NEW k \in 0 .. N - 1, k \in T PROVE k + 1 \in T
  <2>1. PICK j \in 1 .. N : j = k + 1 /\ j # 0 /\ j - 1 = k
    OBVIOUS
  <2>2. j \in 0 .. Len(s) /\ j \in 0 .. Len(t)
    BY <1>0
  <2>3. f[j] = IF f[j - 1] >= IntLimit THEN f[j - 1] ELSE 10 * f[j - 1] + s[j] - 48
    BY <2>1, <2>2 DEF IsValue
  <2>4. g[j] = IF g[j - 1] >= IntLimit THEN g[j - 1] ELSE 10 * g[j - 1] + t[j] - 48
    BY <2>1, <2>2 DEF IsValue
  <2>5. f[j - 1] = g[j - 1] /\ s[j] = t[j]
    BY <1>2, <2>1
  <2>6. f[j] = g[j]
    BY <2>3, <2>4, <2>5
  <2>7. QED
    BY <2>1, <2>6
<1>3. QED
  <2> HIDE DEF T
  <2>1. 0 .. N \subseteq T
    BY <1>1, <1>2, Upwards
  <2>2. QED
    BY <2>1 DEF T

\* What Number returns, of the length of the digits that a text starts with.
LEMMA NumberIs ==
  ASSUME NEW text \in Text
  PROVE  \E f \in [0 .. Len(text) -> Int] : \E size \in 0 .. Len(text) :
           /\ IsValue(f, text)
           /\ (\A k \in 1 .. Len(text) : text[k] \in Digit) => size = Len(text)
           /\ Number(text) = IF size = 0 \/ f[size] >= IntLimit THEN -1 ELSE f[size]
<1> DEFINE f == CHOOSE h : IsValue(h, text)
           I == {i \in 1 .. Len(text) : text[i] \notin Digit}
           stop == IF I # {} THEN Min(I) ELSE 0
           size == IF stop = 0 THEN Len(text) ELSE stop - 1
<1>1. Number(text) = IF size = 0 \/ f[size] >= IntLimit THEN -1 ELSE f[size]
  BY DEF Number, SelectInSeq, IsValue
<1>2. PICK h \in [0 .. Len(text) -> Int] : IsValue(h, text)
  BY ValueExists
<1>3. IsValue(f, text)
  BY <1>2
<1> HIDE DEF f
<1>4. Len(text) \in Nat
  BY TextLen
<1>5. \A k \in 0 .. Len(text) : h[k] = f[k]
  BY <1>2, <1>3, <1>4, ValueOne
<1>6. f \in [0 .. Len(text) -> Int]
  <2>1. f = [k \in 0 .. Len(text) |-> f[k]]
    BY <1>3 DEF IsValue
  <2>2. QED
    BY <1>2, <1>5, <2>1
<1>7. size \in 0 .. Len(text)
  <2>1. CASE I = {}
    BY <1>4, <2>1
  <2>2. CASE I # {}
    <3>1. Min(I) \in I
      <4>1. I \in SUBSET Nat
        BY <1>4
      <4> HIDE DEF I
      <4>2. QED
        BY <2>2, <4>1, LeastExists
    <3>2. Min(I) \in 1 .. Len(text)
      BY <3>1
    <3>3. PICK i \in 1 .. Len(text) : i = Min(I)
      BY <3>2
    <3> HIDE DEF I
    <3>4. size = i - 1
      BY <2>2, <3>3
    <3>5. QED
      BY <1>4, <3>3, <3>4
  <2>3. QED
    BY <2>1, <2>2
<1>8. ASSUME \A k \in 1 .. Len(text) : text[k] \in Digit PROVE size = Len(text)
  BY <1>8
<1> HIDE DEF size
<1>9. QED
  BY <1>1, <1>3, <1>6, <1>7, <1>8

LEMMA NumberType == ASSUME NEW text \in Text PROVE Number(text) \in Int
<1>1. PICK f \in [0 .. Len(text) -> Int], size \in 0 .. Len(text) :
        Number(text) = IF size = 0 \/ f[size] >= IntLimit THEN -1 ELSE f[size]
  BY NumberIs
<1>2. f[size] \in Int /\ -1 \in Int
  BY <1>1
<1>3. QED
  BY <1>1, <1>2

\* What Decimal prints are digits, and their value is the number, unless it is
\* too large.
Printed(n, t) ==
  /\ t \in Text /\ Len(t) > 0
  /\ \A k \in 1 .. Len(t) : t[k] \in Digit
  /\ \A f : IsValue(f, t) => f[Len(t)] = n \/ (f[Len(t)] >= IntLimit /\ n >= IntLimit)

LEMMA PrintedDigit ==
  ASSUME NEW n \in 0 .. 9
  PROVE  Printed(n, <<48 + n>>)
<1> DEFINE t == <<48 + n>>
<1>1. t \in Text /\ Len(t) = 1 /\ t[1] = 48 + n /\ 48 + n \in Digit
  BY DigitText DEF Digit
<1>2. ASSUME NEW k \in 1 .. Len(t) PROVE t[k] \in Digit
  <2>1. k = 1
    BY <1>1
  <2>2. QED
    BY <1>1, <2>1
<1>3. ASSUME NEW f, IsValue(f, t) PROVE f[1] = n
  <2>1. f[0] = 0
    BY <1>1, <1>3 DEF IsValue
  <2>2. f[1] = IF f[1 - 1] >= IntLimit THEN f[1 - 1] ELSE 10 * f[1 - 1] + t[1] - 48
    <3>1. 1 \in 0 .. Len(t) /\ 1 # 0
      BY <1>1
    <3> HIDE DEF t
    <3>2. QED
      BY <1>3, <3>1 DEF IsValue
  <2>3. ~(0 >= IntLimit)
    BY LimitAssumption
  <2>4. 1 - 1 = 0
    OBVIOUS
  <2>5. f[1] = 10 * 0 + (48 + n) - 48
    BY <1>1, <2>1, <2>2, <2>3, <2>4
  <2>6. QED
    BY <2>5
<1> HIDE DEF t
<1>4. Printed(n, t)
  BY <1>1, <1>2, <1>3 DEF Printed
<1>5. QED
  BY <1>4 DEF t

LEMMA PrintedAppend ==
  ASSUME NEW q \in Nat, NEW r \in 0 .. 9, NEW t, Printed(q, t)
  PROVE  Printed(10 * q + r, Append(t, 48 + r))
<1>1. t \in Text /\ Len(t) \in Nat /\ Len(t) > 0
  BY TextLen DEF Printed
<1>2. PICK u \in Text : u = Append(t, 48 + r)
  BY <1>1, DigitText
<1>3. /\ Len(u) = Len(t) + 1 /\ u[Len(t) + 1] = 48 + r
      /\ \A k \in 1 .. Len(t) : u[k] = t[k]
  BY <1>1, <1>2, AppendProperties DEF Text
<1>4. PICK N \in Nat : N = Len(t)
  BY <1>1
<1>5. ASSUME NEW k \in 1 .. Len(u) PROVE u[k] \in Digit
  <2>1. CASE k = N + 1
    BY <1>3, <1>4, <2>1 DEF Digit
  <2>2. CASE k # N + 1
    <3>1. k \in 1 .. N
      BY <1>3, <1>4, <2>2
    <3>2. QED
      BY <1>3, <1>4, <3>1 DEF Printed
  <2>3. QED
    BY <2>1, <2>2
<1>6. ASSUME NEW f, IsValue(f, u)
      PROVE  f[Len(u)] = 10 * q + r \/ (f[Len(u)] >= IntLimit /\ 10 * q + r >= IntLimit)
  <2>1. PICK g \in [0 .. Len(t) -> Int] : IsValue(g, t)
    BY <1>1, ValueExists
  <2>2. f[N] = g[N]
    <3>1. N <= Len(t) /\ N <= Len(u) /\ N \in 0 .. N /\ \A k \in 1 .. N : u[k] = t[k]
      BY <1>3, <1>4
    <3>2. \A k \in 0 .. N : f[k] = g[k]
      BY <1>1, <1>6, <2>1, <3>1, ValueOne
    <3>3. QED
      BY <3>1, <3>2
  <2>3. PICK x \in Int : x = f[N] /\ (x = q \/ (x >= IntLimit /\ q >= IntLimit))
    <3>1. g[N] = q \/ (g[N] >= IntLimit /\ q >= IntLimit)
      BY <1>4, <2>1 DEF Printed
    <3>2. g[N] \in Int
      BY <1>4, <2>1
    <3>3. QED
      BY <2>2, <3>1, <3>2
  <2>4. PICK m \in Nat : m = N + 1 /\ m = Len(u) /\ m # 0 /\ m - 1 = N
    BY <1>3, <1>4
  <2>5. m \in 0 .. Len(u)
    BY <2>4
  <2>6. f[m] = IF f[m - 1] >= IntLimit THEN f[m - 1] ELSE 10 * f[m - 1] + u[m] - 48
    BY <1>6, <2>4, <2>5 DEF IsValue
  <2>7. f[m] = IF x >= IntLimit THEN x ELSE 10 * x + (48 + r) - 48
    BY <1>3, <1>4, <2>3, <2>4, <2>6
  <2>8. CASE x >= IntLimit
    <3>1. q >= IntLimit /\ IntLimit \in Nat
      BY <2>3, <2>8, LimitAssumption
    <3>2. 10 * q + r >= IntLimit
      BY <3>1
    <3>3. QED
      BY <2>4, <2>7, <2>8, <3>2
  <2>9. CASE ~(x >= IntLimit)
    <3>1. x = q
      BY <2>3, <2>9
    <3>2. f[m] = 10 * q + r
      BY <2>7, <2>9, <3>1
    <3>3. QED
      BY <2>4, <3>2
  <2>10. QED
    BY <2>8, <2>9
<1>7. Printed(10 * q + r, u)
  BY <1>3, <1>1, <1>5, <1>6 DEF Printed
<1>8. QED
  BY <1>2, <1>7

LEMMA DecimalPrinted == ASSUME NEW n \in Nat PROVE Printed(n, Decimal(n))
<1> DEFINE T == {b \in Nat : \A k \in 0 .. b : Printed(k, Decimal(k))}
<1>1. 0 \in T
  <2>1. \A k \in 0 .. 0 : k \in 0 .. 9 /\ k < 10 /\ k \in Nat
    OBVIOUS
  <2>2. QED
    BY <2>1, DecimalIs, PrintedDigit
<1>2. ASSUME NEW b \in Nat, b \in T PROVE b + 1 \in T
  <2>1. ASSUME NEW k \in 0 .. b + 1 PROVE Printed(k, Decimal(k))
    <3>1. CASE k < 10
      <4>1. k \in 0 .. 9 /\ k \in Nat
        BY <3>1
      <4>2. Decimal(k) = <<48 + k>>
        BY <3>1, <4>1, DecimalIs
      <4>3. QED
        BY <4>1, <4>2, PrintedDigit
    <3>2. CASE ~(k < 10)
      <4>1. PICK q \in 0 .. b, r \in 0 .. 9 :
              q = k \div 10 /\ r = k % 10 /\ k = 10 * q + r
        <5>1. /\ k \div 10 \in Nat /\ k \div 10 < k /\ k % 10 \in 0 .. 9
              /\ k = 10 * (k \div 10) + (k % 10)
          BY <3>2, Tenth
        <5>2. k \div 10 \in 0 .. b
          BY <5>1
        <5>3. QED
          BY <5>1, <5>2
      <4>2. Printed(q, Decimal(q))
        BY <1>2
      <4>3. Decimal(k) = Append(Decimal(q), 48 + r)
        <5>1. Decimal(k) = Append(Decimal(k \div 10), 48 + (k % 10))
          <6>1. k \in Nat
            OBVIOUS
          <6>2. QED
            BY <3>2, <6>1, DecimalIs
        <5>2. QED
          BY <4>1, <5>1, Zenon
      <4>4. Printed(10 * q + r, Append(Decimal(q), 48 + r))
        <5>1. q \in Nat
          OBVIOUS
        <5>2. PICK x : x = Decimal(q)
          OBVIOUS
        <5>3. Printed(10 * q + r, Append(x, 48 + r))
          BY <4>2, <5>1, <5>2, PrintedAppend
        <5>4. QED
          BY <5>2, <5>3
      <4>5. QED
        BY <4>1, <4>3, <4>4
    <3>3. QED
      BY <3>1, <3>2
  <2>2. QED
    BY <2>1
<1>3. Nat \subseteq T
  <2> HIDE DEF T
  <2>1. QED
    BY <1>1, <1>2, SetInduction
<1>4. QED
  BY <1>3

LEMMA ReadBack ==
  ASSUME NEW n \in Nat
  PROVE  /\ Decimal(n) \in Text /\ Len(Decimal(n)) > 0
         /\ \A k \in 1 .. Len(Decimal(n)) : Decimal(n)[k] \in Digit
         /\ Number(Decimal(n)) = n \/ (Number(Decimal(n)) = -1 /\ n >= IntLimit)
<1>1. PICK t : t = Decimal(n)
  OBVIOUS
<1>2. Printed(n, t)
  BY <1>1, DecimalPrinted
<1>3. t \in Text /\ Len(t) > 0 /\ \A k \in 1 .. Len(t) : t[k] \in Digit
  BY <1>2 DEF Printed
<1>4. PICK f : IsValue(f, t) /\ Number(t) = IF Len(t) = 0 \/ f[Len(t)] >= IntLimit
                                            THEN -1 ELSE f[Len(t)]
  BY <1>3, NumberIs
<1>5. f[Len(t)] = n \/ (f[Len(t)] >= IntLimit /\ n >= IntLimit)
  BY <1>2, <1>4 DEF Printed
<1>6. Number(t) = n \/ (Number(t) = -1 /\ n >= IntLimit)
  BY <1>4, <1>5, <1>3
<1>7. QED
  BY <1>1, <1>3, <1>6

-----------------------------------------------------------------------------
(***************************************************************************)
(* The decoders of integers and strings.                                   *)
(***************************************************************************)

\* The text s has, at place pos, the text t.
Has(s, pos, t) ==
  /\ pos + Len(t) <= Len(s) + 1
  /\ \A i \in 1 .. Len(t) : s[pos + i - 1] = t[i]

IsFind(f, s, pos, char) ==
  /\ f \in pos .. Len(s) /\ s[f] = char
  /\ \A k \in pos .. f - 1 : s[k] # char

LEMMA FindIs ==
  ASSUME NEW s \in Text, NEW pos \in Nat \ {0}, NEW char
  PROVE  Find(s, pos, char) = 0 \/ IsFind(Find(s, pos, char), s, pos, char)
<1> DEFINE S == {k \in pos .. Len(s) : s[k] = char}
<1>1. CASE S = {}
  BY <1>1 DEF Find
<1>2. CASE S # {}
  <2>1. Len(s) \in Nat
    BY TextLen
  <2>2. S \in SUBSET Nat
    BY <2>1
  <2> HIDE DEF S
  <2>3. Min(S) \in S /\ \A y \in S : Min(S) <= y
    BY <1>2, <2>2, LeastExists
  <2>4. PICK m \in S : \A y \in S : m <= y
    BY <2>3
  <2>5. IsFind(m, s, pos, char)
    <3>1. m \in pos .. Len(s) /\ s[m] = char
      BY <2>4 DEF S
    <3>2. ASSUME NEW k \in pos .. m - 1 PROVE s[k] # char
      <4>1. k \in pos .. Len(s) /\ ~(m <= k)
        BY <2>1, <3>1
      <4>2. QED
        BY <2>4, <4>1 DEF S
    <3>3. QED
      BY <3>1, <3>2 DEF IsFind
  <2>6. Find(s, pos, char) =
          CHOOSE k \in pos .. Len(s) : s[k] = char /\ \A j \in pos .. k - 1 : s[j] # char
    <3>1. m \in pos .. Len(s) /\ s[m] = char
      BY <2>5 DEF IsFind
    <3>2. QED
      BY <3>1 DEF Find
  <2>7. IsFind(Find(s, pos, char), s, pos, char)
    BY <2>5, <2>6 DEF IsFind
  <2>8. QED
    BY <2>7
<1>3. QED
  BY <1>1, <1>2

\* What Find finds is the only such place.
LEMMA FindOne ==
  ASSUME NEW s \in Text, NEW pos \in Nat \ {0}, NEW char, NEW f,
         IsFind(f, s, pos, char)
  PROVE  Find(s, pos, char) = f
<1>0. Len(s) \in Nat
  BY TextLen
<1>1. f \in pos .. Len(s) /\ s[f] = char /\ f # 0
  BY <1>0 DEF IsFind
<1>2. Find(s, pos, char) =
        CHOOSE k \in pos .. Len(s) : s[k] = char /\ \A j \in pos .. k - 1 : s[j] # char
  BY <1>1 DEF Find
<1>3. PICK g : g = Find(s, pos, char)
  OBVIOUS
<1>4. IsFind(g, s, pos, char)
  BY <1>2, <1>3 DEF IsFind
<1>5. g = f
  <2>1. ~(g < f)
    BY <1>0, <1>4 DEF IsFind
  <2>2. ~(f < g)
    BY <1>0, <1>4 DEF IsFind
  <2>3. g \in Int /\ f \in Int
    BY <1>0, <1>4 DEF IsFind
  <2>4. QED
    BY <2>1, <2>2, <2>3
<1>6. QED
  BY <1>3, <1>5

LEMMA PartText ==
  ASSUME NEW s \in Text, NEW a \in Nat \ {0}, NEW b \in Nat, b <= Len(s), a <= b + 1
  PROVE  /\ SubSeq(s, a, b) \in Text /\ Len(SubSeq(s, a, b)) = b + 1 - a
         /\ \A i \in 1 .. b + 1 - a : SubSeq(s, a, b)[i] = s[a + i - 1]
<1>1. Len(s) \in Nat /\ \A i \in 1 .. Len(s) : s[i] \in Nat
  BY LenProperties, ElementOfSeq DEF Text
<1>2. QED
  BY <1>1 DEF Text

\* The part that is a text known.
LEMMA PartIs ==
  ASSUME NEW s \in Text, NEW a \in Nat \ {0}, NEW t \in Text, Has(s, a, t)
  PROVE  SubSeq(s, a, a + Len(t) - 1) = t
<1>1. Len(t) \in Nat /\ Len(s) \in Nat
  BY TextLen
<1>2. PICK b \in Nat : b = a + Len(t) - 1
  BY <1>1
<1>3. b <= Len(s) /\ a <= b + 1 /\ b + 1 - a = Len(t)
  BY <1>1, <1>2 DEF Has
<1>4. /\ SubSeq(s, a, b) \in Text /\ Len(SubSeq(s, a, b)) = Len(t)
      /\ \A i \in 1 .. Len(t) : SubSeq(s, a, b)[i] = s[a + i - 1]
  BY <1>3, PartText
<1>5. PICK u \in Text : u = SubSeq(s, a, b)
  BY <1>4
<1>6. Len(u) = Len(t) /\ \A i \in 1 .. Len(u) : u[i] = t[i]
  BY <1>4, <1>5 DEF Has
<1>7. u = t
  BY <1>6, SeqEqual DEF Text
<1>8. QED
  BY <1>2, <1>5, <1>7

\* What a call returns lies after where it starts.
CallRange(o, s, pos) == o.kind = "value" => o.pos \in pos + 1 .. Len(s) + 1

LEMMA IntRange ==
  ASSUME NEW s \in Text, NEW pos \in Nat \ {0}
  PROVE  CallRange(IntDecoder(s, pos), s, pos)
<1> DEFINE end == Find(s, pos, CharE)
           n == Number(SubSeq(s, pos, end - 1))
<1>0. Len(s) \in Nat
  BY TextLen
<1>1. end = 0 \/ end \in pos .. Len(s)
  BY FindIs DEF IsFind
<1> HIDE DEF end
<1>2. IntDecoder(s, pos) = CASE end = 0 -> Fails("eof")
                             [] end > 0 /\ n < 0 -> Fails("wrong")
                             [] OTHER -> Ok([int |-> n], end + 1)
  BY DEF IntDecoder, end
<1> HIDE DEF n
<1>3. CASE end = 0
  BY <1>2, <1>3 DEF Fails, CallRange
<1>4. CASE end # 0 /\ n < 0
  <2>1. end > 0
    BY <1>1, <1>4
  <2>2. IntDecoder(s, pos) = Fails("wrong")
    BY <1>2, <1>4, <2>1
  <2>3. QED
    BY <2>2 DEF Fails, CallRange
<1>5. CASE end # 0 /\ ~(n < 0)
  <2>1. end + 1 \in pos + 1 .. Len(s) + 1
    BY <1>0, <1>1, <1>5
  <2>2. IntDecoder(s, pos) = Ok([int |-> n], end + 1)
    BY <1>2, <1>5
  <2>3. QED
    BY <2>1, <2>2 DEF Ok, CallRange
<1>6. QED
  BY <1>3, <1>4, <1>5

LEMMA StringRange ==
  ASSUME NEW s \in Text, NEW pos \in Nat \ {0}
  PROVE  /\ CallRange(StringDecoder(s, pos), s, pos)
         /\ StringDecoder(s, pos).kind = "value" =>
              LET colon == Find(s, pos, Colon)
                  size == Number(SubSeq(s, pos, colon - 1))
              IN  /\ colon \in pos .. Len(s) /\ size \in 0 .. Len(s) - colon
                  /\ StringDecoder(s, pos) =
                       Ok([str |-> SubSeq(s, colon + 1, colon + size)], colon + size + 1)
<1> DEFINE colon == Find(s, pos, Colon)
           size == Number(SubSeq(s, pos, colon - 1))
<1>0. Len(s) \in Nat
  BY TextLen
<1>1. colon = 0 \/ colon \in pos .. Len(s)
  BY FindIs DEF IsFind
<1>2. colon # 0 => size \in Int
  <2>1. SUFFICES ASSUME colon # 0 PROVE size \in Int
    OBVIOUS
  <2>2. PICK f \in pos .. Len(s) : f = colon
    BY <1>1, <2>1
  <2>3. f - 1 \in Nat /\ f - 1 <= Len(s) /\ pos <= (f - 1) + 1
    BY <1>0
  <2>4. PICK b \in Nat : b = f - 1
    BY <2>3
  <2>5. SubSeq(s, pos, b) \in Text
    BY <2>3, <2>4, PartText
  <2>6. Number(SubSeq(s, pos, b)) \in Int
    BY <2>5, NumberType
  <2>7. QED
    BY <2>2, <2>4, <2>6
<1>3. StringDecoder(s, pos) =
        CASE colon = 0 -> Fails("eof")
          [] colon > 0 /\ size < 0 -> Fails("wrong")
          [] colon > 0 /\ size > Len(s) - colon -> Fails("eof")
          [] OTHER -> Ok([str |-> SubSeq(s, colon + 1, colon + size)], colon + size + 1)
  BY DEF StringDecoder
<1>4. StringDecoder(s, pos).kind = "value" => colon # 0 /\ size \in 0 .. Len(s) - colon
  <2> HIDE DEF colon, size
  <2>1. CASE colon = 0
    BY <1>3, <2>1 DEF Fails
  <2>2. CASE colon # 0 /\ size < 0
    <3>1. colon > 0
      BY <1>1, <2>2
    <3>2. StringDecoder(s, pos) = Fails("wrong") \/ StringDecoder(s, pos) = Fails("eof")
      BY <1>3, <2>2, <3>1
    <3>3. QED
      BY <3>2 DEF Fails
  <2>3. CASE colon # 0 /\ ~(size < 0) /\ size > Len(s) - colon
    <3>1. colon > 0
      BY <1>1, <2>3
    <3>2. StringDecoder(s, pos) = Fails("eof")
      BY <1>3, <2>3, <3>1
    <3>3. QED
      BY <3>2 DEF Fails
  <2>4. CASE colon # 0 /\ ~(size < 0) /\ ~(size > Len(s) - colon)
    BY <1>0, <1>1, <1>2, <2>4
  <2>5. QED
    BY <2>1, <2>2, <2>3, <2>4
<1>5. ASSUME StringDecoder(s, pos).kind = "value"
      PROVE  /\ colon \in pos .. Len(s) /\ size \in 0 .. Len(s) - colon
             /\ StringDecoder(s, pos) =
                  Ok([str |-> SubSeq(s, colon + 1, colon + size)], colon + size + 1)
  <2>1. colon \in pos .. Len(s) /\ size \in 0 .. Len(s) - colon
    BY <1>1, <1>4, <1>5
  <2>2. QED
    <3> HIDE DEF colon, size
    <3>1. QED
      BY <1>0, <1>3, <2>1
<1>6. CallRange(StringDecoder(s, pos), s, pos)
  <2>1. SUFFICES ASSUME StringDecoder(s, pos).kind = "value"
                 PROVE  StringDecoder(s, pos).pos \in pos + 1 .. Len(s) + 1
    BY DEF CallRange
  <2> HIDE DEF colon, size
  <2>2. colon + size + 1 \in pos + 1 .. Len(s) + 1
    BY <1>0, <1>5, <2>1
  <2>3. StringDecoder(s, pos).pos = colon + size + 1
    BY <1>5, <2>1 DEF Ok
  <2>4. QED
    BY <2>2, <2>3
<1>7. QED
  BY <1>5, <1>6

-----------------------------------------------------------------------------
(***************************************************************************)
(* The three decoders: they refer to each other only further on, so that   *)
(* what each returns is determined.                                        *)
(***************************************************************************)

CoreRange(o, s, pos) ==
  o.kind = "value" => o.pos \in pos .. Len(s) + 1 /\ (o.value # None => o.pos # pos)

InRange(d, s, p) ==
  \A k \in p .. Len(s) + 1 :
    /\ CoreRange(d[<<"core", k>>], s, k)
    /\ CallRange(d[<<"list", k>>], s, k)
    /\ CallRange(d[<<"dict", k>>], s, k)

\* d says what each call from place p on returns.
Known(d, s, p) ==
  \A k \in p .. Len(s) + 1 :
    /\ d[<<"core", k>>] = CoreDecoder(d, s, k)
    /\ d[<<"list", k>>] = ListDecoder(d, s, k)
    /\ d[<<"dict", k>>] = DictDecoder(d, s, k)

Same(d, e, s, p) ==
  \A k \in p .. Len(s) + 1 :
    /\ d[<<"core", k>>] = e[<<"core", k>>]
    /\ d[<<"list", k>>] = e[<<"list", k>>]
    /\ d[<<"dict", k>>] = e[<<"dict", k>>]

\* The type that is read there, if any.
LEMMA TypeRead ==
  ASSUME NEW s \in Text, NEW k \in Nat \ {0}, NEW d
  PROVE  /\ At(s, k) = CharI => CoreDecoder(d, s, k) = IntDecoder(s, k + 1)
         /\ At(s, k) = CharL => CoreDecoder(d, s, k) = d[<<"list", k + 1>>]
         /\ At(s, k) = CharD => CoreDecoder(d, s, k) = d[<<"dict", k + 1>>]
         /\ At(s, k) = CharE => CoreDecoder(d, s, k) = Ok(None, k)
         /\ At(s, k) \in Digit => CoreDecoder(d, s, k) = StringDecoder(s, k)
         /\ At(s, k) \notin {CharI, CharL, CharD, CharE} \cup Digit =>
              CoreDecoder(d, s, k) = Fails("wrong")
         /\ At(s, k) \in {CharI, CharL, CharD, CharE} \cup Digit => k <= Len(s)
<1>1. \A x \in {CharI, CharL, CharD, CharE} \cup Digit : x # 0
  BY DEF CharI, CharL, CharD, CharE, Digit
<1>2. At(s, k) \in {CharI, CharL, CharD, CharE} \cup Digit => k <= Len(s)
  BY <1>1 DEF At
<1>3. /\ At(s, k) = CharI => CoreDecoder(d, s, k) = IntDecoder(s, k + 1)
      /\ At(s, k) = CharL => CoreDecoder(d, s, k) = d[<<"list", k + 1>>]
      /\ At(s, k) = CharD => CoreDecoder(d, s, k) = d[<<"dict", k + 1>>]
      /\ At(s, k) = CharE => CoreDecoder(d, s, k) = Ok(None, k)
      /\ At(s, k) \in Digit => CoreDecoder(d, s, k) = StringDecoder(s, k)
      /\ At(s, k) \notin {CharI, CharL, CharD, CharE} \cup Digit =>
           CoreDecoder(d, s, k) = Fails("wrong")
  BY DEF CoreDecoder, CharI, CharL, CharD, CharE, Digit
<1>4. QED
  BY <1>2, <1>3

LEMMA CoreInRange ==
  ASSUME NEW s \in Text, NEW p \in Nat \ {0}, NEW d, InRange(d, s, p + 1)
  PROVE  CoreRange(CoreDecoder(d, s, p), s, p)
<1>0. Len(s) \in Nat
  BY TextLen
<1>1. ASSUME NEW o, \/ o = IntDecoder(s, p + 1) \/ o = d[<<"list", p + 1>>]
                    \/ o = d[<<"dict", p + 1>>],
             p <= Len(s)
      PROVE  CoreRange(o, s, p)
  <2>1. p + 1 \in p + 1 .. Len(s) + 1 /\ p + 1 \in Nat \ {0}
    BY <1>0, <1>1
  <2>2. CallRange(IntDecoder(s, p + 1), s, p + 1)
    BY <2>1, IntRange
  <2>3. CallRange(o, s, p + 1)
    BY <1>1, <2>1, <2>2 DEF InRange
  <2>4. QED
    BY <1>0, <2>3 DEF CallRange, CoreRange
<1>2. CoreRange(StringDecoder(s, p), s, p)
  <2>1. CallRange(StringDecoder(s, p), s, p)
    BY StringRange
  <2>2. QED
    BY <1>0, <2>1 DEF CallRange, CoreRange
<1>3. p <= Len(s) => CoreRange(Ok(None, p), s, p)
  BY <1>0 DEF Ok, CoreRange
<1>4. CoreRange(Fails("wrong"), s, p)
  BY DEF Fails, CoreRange
<1>5. CASE At(s, p) \in {CharI, CharL, CharD}
  BY <1>1, <1>5, TypeRead
<1>6. CASE At(s, p) = CharE
  BY <1>3, <1>6, TypeRead
<1>7. CASE At(s, p) \in Digit
  BY <1>2, <1>7, TypeRead
<1>8. CASE At(s, p) \notin {CharI, CharL, CharD, CharE} \cup Digit
  BY <1>4, <1>8, TypeRead
<1>9. QED
  BY <1>5, <1>6, <1>7, <1>8

LEMMA ListInRange ==
  ASSUME NEW s \in Text, NEW p \in Nat \ {0}, p <= Len(s) + 1, NEW d,
         InRange(d, s, p + 1), CoreRange(d[<<"core", p>>], s, p),
         d[<<"core", p>>].kind = "value" /\ d[<<"core", p>>].value = None => p <= Len(s)
  PROVE  CallRange(ListDecoder(d, s, p), s, p)
<1>0. Len(s) \in Nat
  BY TextLen
<1>1. PICK item : item = d[<<"core", p>>]
  OBVIOUS
<1>2. PICK rest : rest = d[<<"list", item.pos>>]
  OBVIOUS
<1>3. ListDecoder(d, s, p) =
        IF item.kind # "value" THEN item
        ELSE IF item.value = None THEN Ok([list |-> <<>>], p + 1)
        ELSE IF rest.kind # "value" THEN rest
        ELSE Ok([list |-> <<item.value>> \o rest.value.list], rest.pos)
  BY <1>1, <1>2 DEF ListDecoder
<1>4. CASE item.kind # "value"
  BY <1>3, <1>4 DEF CallRange
<1>5. CASE item.kind = "value" /\ item.value = None
  <2>1. ListDecoder(d, s, p) = Ok([list |-> <<>>], p + 1)
    BY <1>3, <1>5
  <2>2. p <= Len(s)
    BY <1>1, <1>5
  <2>3. QED
    BY <1>0, <2>1, <2>2 DEF Ok, CallRange
<1>6. CASE item.kind = "value" /\ item.value # None
  <2>1. PICK q \in p + 1 .. Len(s) + 1 : q = item.pos
    <3>1. item.pos \in p .. Len(s) + 1 /\ item.pos # p
      BY <1>1, <1>6 DEF CoreRange
    <3>2. QED
      BY <1>0, <3>1
  <2>2. CallRange(rest, s, q)
    BY <1>2, <2>1 DEF InRange
  <2>3. CASE rest.kind # "value"
    <3>1. ListDecoder(d, s, p) = rest
      BY <1>3, <1>6, <2>3
    <3>2. QED
      BY <2>3, <3>1 DEF CallRange
  <2>4. CASE rest.kind = "value"
    <3>1. ListDecoder(d, s, p) = Ok([list |-> <<item.value>> \o rest.value.list], rest.pos)
      BY <1>3, <1>6, <2>4
    <3>2. rest.pos \in p + 1 .. Len(s) + 1
      BY <1>0, <2>1, <2>2, <2>4 DEF CallRange
    <3>3. QED
      BY <3>1, <3>2 DEF Ok, CallRange
  <2>5. QED
    BY <2>3, <2>4
<1>7. QED
  BY <1>4, <1>5, <1>6

\* What a dictionary returns, by what its first pair and the rest of it do.
DictFrom(s, p, key, value, rest) ==
  IF At(s, p) = CharE THEN Ok([dict |-> <<>>], p + 1)
  ELSE IF At(s, p) \notin Digit THEN Fails("wrong")
  ELSE IF key.kind # "value" THEN key
  ELSE IF value.kind # "value" THEN value
  ELSE IF rest.kind # "value" THEN rest
  ELSE Ok([dict |-> <<<<key.value.str, value.value>>>> \o rest.value.dict], rest.pos)

LEMMA DictInRange ==
  ASSUME NEW s \in Text, NEW p \in Nat \ {0}, p <= Len(s) + 1, NEW d,
         InRange(d, s, p + 1)
  PROVE  CallRange(DictDecoder(d, s, p), s, p)
<1>0. Len(s) \in Nat
  BY TextLen
<1>1. PICK key : key = StringDecoder(s, p)
  OBVIOUS
<1>2. PICK value : value = d[<<"core", key.pos>>]
  OBVIOUS
<1>3. PICK rest : rest = d[<<"dict", value.pos>>]
  OBVIOUS
<1>4. DictDecoder(d, s, p) = DictFrom(s, p, key, value, rest)
  BY <1>1, <1>2, <1>3 DEF DictDecoder, DictFrom
<1>5. CASE At(s, p) = CharE
  <2>1. p <= Len(s)
    BY <1>5, TypeRead
  <2>2. DictDecoder(d, s, p) = Ok([dict |-> <<>>], p + 1)
    BY <1>4, <1>5 DEF DictFrom
  <2>3. QED
    BY <1>0, <2>1, <2>2 DEF Ok, CallRange
<1>6. CASE At(s, p) # CharE /\ At(s, p) \notin Digit
  BY <1>4, <1>6 DEF DictFrom, Fails, CallRange
<1>7. CASE At(s, p) # CharE /\ At(s, p) \in Digit /\ key.kind # "value"
  BY <1>4, <1>7 DEF DictFrom, CallRange
<1>8. CASE At(s, p) # CharE /\ At(s, p) \in Digit /\ key.kind = "value"
  <2>1. PICK q \in p + 1 .. Len(s) + 1 : q = key.pos
    BY <1>1, <1>8, StringRange DEF CallRange
  <2>2. CoreRange(value, s, q)
    BY <1>2, <2>1 DEF InRange
  <2>3. CASE value.kind # "value"
    BY <1>4, <1>8, <2>3 DEF DictFrom, CallRange
  <2>4. CASE value.kind = "value"
    <3>1. PICK r \in p + 1 .. Len(s) + 1 : r = value.pos
      BY <1>0, <2>1, <2>2, <2>4 DEF CoreRange
    <3>2. CallRange(rest, s, r)
      BY <1>3, <3>1 DEF InRange
    <3>3. CASE rest.kind # "value"
      BY <1>4, <1>8, <2>4, <3>3 DEF DictFrom, CallRange
    <3>4. CASE rest.kind = "value"
      <4>1. DictDecoder(d, s, p) =
              Ok([dict |-> <<<<key.value.str, value.value>>>> \o rest.value.dict], rest.pos)
        BY <1>4, <1>8, <2>4, <3>4 DEF DictFrom
      <4>2. rest.pos \in p + 1 .. Len(s) + 1
        BY <1>0, <3>1, <3>2, <3>4 DEF CallRange
      <4>3. QED
        BY <4>1, <4>2 DEF Ok, CallRange
    <3>5. QED
      BY <3>3, <3>4
  <2>5. QED
    BY <2>3, <2>4
<1>9. QED
  BY <1>5, <1>6, <1>7, <1>8

LEMMA CoreValue ==
  ASSUME NEW s \in Text, NEW p \in Nat \ {0}, NEW d,
         CoreDecoder(d, s, p).kind = "value"
  PROVE  At(s, p) \in {CharI, CharL, CharD, CharE} \cup Digit /\ p <= Len(s)
<1>1. Fails("wrong").kind # "value"
  BY DEF Fails
<1>2. QED
  BY <1>1, TypeRead

\* From any place on, what the calls return lies further on.
LEMMA Ranges ==
  ASSUME NEW s \in Text, NEW p \in 1 .. Len(s) + 2, NEW d, Known(d, s, p)
  PROVE  InRange(d, s, p)
<1> DEFINE N == Len(s) + 2 - p
           T == {m \in 0 .. N : InRange(d, s, Len(s) + 2 - m)}
<1>0. Len(s) \in Nat /\ N \in Nat
  BY TextLen
<1>1. 0 \in T
  BY <1>0 DEF InRange
<1>2. ASSUME NEW m \in 0 .. N - 1, m \in T PROVE m + 1 \in T
  <2>1. PICK k \in Nat \ {0} : /\ k + 1 = Len(s) + 2 - m /\ k = Len(s) + 2 - (m + 1)
                               /\ k \in p .. Len(s) + 1
    <3>1. Len(s) + 2 - (m + 1) \in p .. Len(s) + 1
      BY <1>0
    <3>2. (Len(s) + 2 - (m + 1)) + 1 = Len(s) + 2 - m
      BY <1>0
    <3>3. PICK k \in p .. Len(s) + 1 : k = Len(s) + 2 - (m + 1)
      BY <3>1
    <3>4. k \in Nat \ {0} /\ k + 1 = Len(s) + 2 - m
      BY <1>0, <3>2, <3>3
    <3>5. QED
      BY <3>3, <3>4
  <2>2. InRange(d, s, k + 1)
    BY <1>2, <2>1
  <2>3. /\ d[<<"core", k>>] = CoreDecoder(d, s, k)
        /\ d[<<"list", k>>] = ListDecoder(d, s, k)
        /\ d[<<"dict", k>>] = DictDecoder(d, s, k)
    BY <2>1 DEF Known
  <2>4. CoreRange(d[<<"core", k>>], s, k)
    BY <2>2, <2>3, CoreInRange
  <2>5. CallRange(d[<<"list", k>>], s, k)
    <3>1. d[<<"core", k>>].kind = "value" => k <= Len(s)
      BY <2>3, CoreValue
    <3>2. k <= Len(s) + 1
      BY <2>1
    <3>3. CallRange(ListDecoder(d, s, k), s, k)
      BY <2>2, <2>4, <3>1, <3>2, ListInRange
    <3>4. QED
      BY <2>3, <3>3
  <2>6. CallRange(d[<<"dict", k>>], s, k)
    <3>1. k <= Len(s) + 1
      BY <2>1
    <3>2. CallRange(DictDecoder(d, s, k), s, k)
      BY <2>2, <3>1, DictInRange
    <3>3. QED
      BY <2>3, <3>2
  <2>7. InRange(d, s, k)
    <3>1. ASSUME NEW j \in k .. Len(s) + 1
          PROVE  /\ CoreRange(d[<<"core", j>>], s, j)
                 /\ CallRange(d[<<"list", j>>], s, j)
                 /\ CallRange(d[<<"dict", j>>], s, j)
      <4>1. CASE j = k
        BY <2>4, <2>5, <2>6, <4>1
      <4>2. CASE j # k
        <5>1. j \in k + 1 .. Len(s) + 1
          BY <1>0, <2>1, <4>2
        <5>2. QED
          BY <2>2, <5>1 DEF InRange
      <4>3. QED
        BY <4>1, <4>2
    <3>2. QED
      BY <3>1 DEF InRange
  <2>8. m + 1 \in 0 .. N
    BY <1>0
  <2> HIDE DEF N
  <2>9. QED
    BY <2>1, <2>7, <2>8
<1>3. N \in T
  <2> HIDE DEF T, N
  <2>1. 0 .. N \subseteq T
    BY <1>0, <1>1, <1>2, Upwards
  <2>2. QED
    BY <1>0, <2>1
<1>4. Len(s) + 2 - N = p
  BY <1>0
<1> HIDE DEF N
<1>5. QED
  BY <1>3, <1>4

\* The decoders use what is further on, a list also its first item.
LEMMA LocalCore ==
  ASSUME NEW s \in Text, NEW p \in Nat \ {0}, NEW d, NEW e, Same(d, e, s, p + 1)
  PROVE  CoreDecoder(d, s, p) = CoreDecoder(e, s, p)
<1>0. Len(s) \in Nat
  BY TextLen
<1>1. p <= Len(s) => /\ d[<<"list", p + 1>>] = e[<<"list", p + 1>>]
                     /\ d[<<"dict", p + 1>>] = e[<<"dict", p + 1>>]
  <2>1. p <= Len(s) => p + 1 \in p + 1 .. Len(s) + 1
    BY <1>0
  <2>2. QED
    BY <2>1 DEF Same
<1>2. CASE At(s, p) = CharL
  BY <1>1, <1>2, TypeRead
<1>3. CASE At(s, p) = CharD
  BY <1>1, <1>3, TypeRead
<1>4. CASE At(s, p) \notin {CharL, CharD}
  <2>1. CASE At(s, p) = CharI
    BY <2>1, TypeRead
  <2>2. CASE At(s, p) = CharE
    BY <2>2, TypeRead
  <2>3. CASE At(s, p) \in Digit
    BY <2>3, TypeRead
  <2>4. CASE At(s, p) \notin {CharI, CharL, CharD, CharE} \cup Digit
    BY <2>4, TypeRead
  <2>5. QED
    BY <1>4, <2>1, <2>2, <2>3, <2>4
<1>5. QED
  BY <1>2, <1>3, <1>4

LEMMA LocalList ==
  ASSUME NEW s \in Text, NEW p \in Nat \ {0}, NEW d, NEW e, Same(d, e, s, p + 1),
         d[<<"core", p>>] = e[<<"core", p>>], CoreRange(d[<<"core", p>>], s, p)
  PROVE  ListDecoder(d, s, p) = ListDecoder(e, s, p)
<1>0. Len(s) \in Nat
  BY TextLen
<1>1. PICK item : item = d[<<"core", p>>] /\ item = e[<<"core", p>>]
  OBVIOUS
<1>2. CASE item.kind # "value" \/ item.value = None
  BY <1>1, <1>2 DEF ListDecoder
<1>3. CASE item.kind = "value" /\ item.value # None
  <2>1. PICK q \in p + 1 .. Len(s) + 1 : q = item.pos
    <3>1. item.pos \in p .. Len(s) + 1 /\ item.pos # p
      BY <1>1, <1>3 DEF CoreRange
    <3>2. QED
      BY <1>0, <3>1
  <2>2. d[<<"list", q>>] = e[<<"list", q>>]
    BY DEF Same
  <2>3. QED
    BY <1>1, <2>1, <2>2 DEF ListDecoder
<1>4. QED
  BY <1>2, <1>3

LEMMA LocalDict ==
  ASSUME NEW s \in Text, NEW p \in Nat \ {0}, NEW d, NEW e, Same(d, e, s, p + 1),
         InRange(d, s, p + 1)
  PROVE  DictDecoder(d, s, p) = DictDecoder(e, s, p)
<1>0. Len(s) \in Nat
  BY TextLen
<1>1. PICK key : key = StringDecoder(s, p)
  OBVIOUS
<1>2. PICK value : value = d[<<"core", key.pos>>]
  OBVIOUS
<1>3. PICK rest : rest = d[<<"dict", value.pos>>]
  OBVIOUS
<1>4. PICK value2 : value2 = e[<<"core", key.pos>>]
  OBVIOUS
<1>5. PICK rest2 : rest2 = e[<<"dict", value2.pos>>]
  OBVIOUS
<1>6. /\ DictDecoder(d, s, p) = DictFrom(s, p, key, value, rest)
      /\ DictDecoder(e, s, p) = DictFrom(s, p, key, value2, rest2)
  BY <1>1, <1>2, <1>3, <1>4, <1>5 DEF DictDecoder, DictFrom
<1>7. CASE key.kind # "value"
  BY <1>6, <1>7 DEF DictFrom
<1>8. CASE key.kind = "value"
  <2>1. PICK q \in p + 1 .. Len(s) + 1 : q = key.pos
    BY <1>1, <1>8, StringRange DEF CallRange
  <2>2. value = value2
    BY <1>2, <1>4, <2>1 DEF Same
  <2>3. CASE value.kind # "value"
    BY <1>6, <2>2, <2>3 DEF DictFrom
  <2>4. CASE value.kind = "value"
    <3>1. CoreRange(value, s, q)
      BY <1>2, <2>1 DEF InRange
    <3>2. PICK r \in p + 1 .. Len(s) + 1 : r = value.pos
      BY <1>0, <2>1, <3>1, <2>4 DEF CoreRange
    <3>3. rest = rest2
      BY <1>3, <1>5, <2>2, <3>2 DEF Same
    <3>4. QED
      BY <1>6, <2>2, <3>3
  <2>5. QED
    BY <2>3, <2>4
<1>9. QED
  BY <1>7, <1>8

IsDecode(d, s) ==
  d = [call \in Calls(s) |->
         CASE call[1] = "core" -> CoreDecoder(d, s, call[2])
           [] call[1] = "list" -> ListDecoder(d, s, call[2])
           [] call[1] = "dict" -> DictDecoder(d, s, call[2])]

LEMMA CallsAre ==
  ASSUME NEW s \in Text
  PROVE  /\ \A k \in 1 .. Len(s) + 1 : <<"core", k>> \in Calls(s)
                                       /\ <<"list", k>> \in Calls(s)
                                       /\ <<"dict", k>> \in Calls(s)
         /\ \A call \in Calls(s) : \E k \in 1 .. Len(s) + 1 :
              call = <<"core", k>> \/ call = <<"list", k>> \/ call = <<"dict", k>>
BY DEF Calls

LEMMA KnownAll ==
  ASSUME NEW s \in Text, NEW d
  PROVE  IsDecode(d, s) <=> Known(d, s, 1) /\ d = [call \in Calls(s) |-> d[call]]
<1>1. ASSUME IsDecode(d, s)
      PROVE  Known(d, s, 1) /\ d = [call \in Calls(s) |-> d[call]]
  <2>1. ASSUME NEW k \in 1 .. Len(s) + 1
        PROVE  /\ d[<<"core", k>>] = CoreDecoder(d, s, k)
               /\ d[<<"list", k>>] = ListDecoder(d, s, k)
               /\ d[<<"dict", k>>] = DictDecoder(d, s, k)
    <3>1. /\ <<"core", k>> \in Calls(s) /\ <<"list", k>> \in Calls(s)
          /\ <<"dict", k>> \in Calls(s)
      BY CallsAre
    <3>2. d[<<"core", k>>] = CoreDecoder(d, s, k)
      BY <1>1, <3>1 DEF IsDecode
    <3>3. d[<<"list", k>>] = ListDecoder(d, s, k)
      BY <1>1, <3>1 DEF IsDecode
    <3>4. d[<<"dict", k>>] = DictDecoder(d, s, k)
      BY <1>1, <3>1 DEF IsDecode
    <3>5. QED
      BY <3>2, <3>3, <3>4
  <2>2. d = [call \in Calls(s) |-> d[call]]
    BY <1>1 DEF IsDecode
  <2>3. QED
    BY <2>1, <2>2 DEF Known
<1>2. ASSUME Known(d, s, 1), d = [call \in Calls(s) |-> d[call]]
      PROVE  IsDecode(d, s)
  <2>1. ASSUME NEW call \in Calls(s)
        PROVE  d[call] = CASE call[1] = "core" -> CoreDecoder(d, s, call[2])
                           [] call[1] = "list" -> ListDecoder(d, s, call[2])
                           [] call[1] = "dict" -> DictDecoder(d, s, call[2])
    <3>1. PICK k \in 1 .. Len(s) + 1 :
            call = <<"core", k>> \/ call = <<"list", k>> \/ call = <<"dict", k>>
      BY CallsAre
    <3>2. CASE call = <<"core", k>>
      <4>1. d[call] = CoreDecoder(d, s, call[2]) /\ call[1] = "core"
        BY <1>2, <3>2 DEF Known
      <4>2. QED
        BY <4>1
    <3>3. CASE call = <<"list", k>>
      <4>1. d[call] = ListDecoder(d, s, call[2]) /\ call[1] = "list"
        BY <1>2, <3>3 DEF Known
      <4>2. QED
        BY <4>1
    <3>4. CASE call = <<"dict", k>>
      <4>1. d[call] = DictDecoder(d, s, call[2]) /\ call[1] = "dict"
        BY <1>2, <3>4 DEF Known
      <4>2. QED
        BY <4>1
    <3>5. QED
      BY <3>1, <3>2, <3>3, <3>4
  <2>2. QED
    BY <1>2, <2>1 DEF IsDecode
<1>3. QED
  BY <1>1, <1>2

\* What is known from place p + 1 on tells what the calls at p return.
LEMMA KnownMore ==
  ASSUME NEW s \in Text, NEW p \in 1 .. Len(s) + 1, NEW d, Known(d, s, p + 1)
  PROVE  \E e : Known(e, s, p) /\ e = [call \in Calls(s) |-> e[call]]
<1> DEFINE core == CoreDecoder(d, s, p)
           f == [call \in Calls(s) |-> IF call = <<"core", p>> THEN core ELSE d[call]]
           list == ListDecoder(f, s, p)
           dict == DictDecoder(d, s, p)
           e == [call \in Calls(s) |->
                   IF call = <<"list", p>> THEN list
                   ELSE IF call = <<"dict", p>> THEN dict ELSE f[call]]
<1>0. Len(s) \in Nat /\ p \in Nat \ {0} /\ p + 1 \in 1 .. Len(s) + 2
  BY TextLen
<1>1. Same(d, f, s, p + 1)
  <2>1. ASSUME NEW k \in p + 1 .. Len(s) + 1
        PROVE  /\ d[<<"core", k>>] = f[<<"core", k>>]
               /\ d[<<"list", k>>] = f[<<"list", k>>]
               /\ d[<<"dict", k>>] = f[<<"dict", k>>]
    <3>1. k \in 1 .. Len(s) + 1 /\ k # p
      BY <1>0
    <3>2. /\ <<"core", k>> \in Calls(s) /\ <<"list", k>> \in Calls(s)
          /\ <<"dict", k>> \in Calls(s)
      BY <3>1, CallsAre
    <3>3. <<"core", k>> # <<"core", p>> /\ <<"list", k>> # <<"core", p>>
          /\ <<"dict", k>> # <<"core", p>>
      BY <3>1
    <3>4. QED
      BY <3>2, <3>3
  <2>2. QED
    BY <2>1 DEF Same
<1>2. f[<<"core", p>>] = core
  BY CallsAre
<1> HIDE DEF core, f, list, dict
<1>3. Same(f, e, s, p + 1)
  <2>1. ASSUME NEW k \in p + 1 .. Len(s) + 1
        PROVE  /\ f[<<"core", k>>] = e[<<"core", k>>]
               /\ f[<<"list", k>>] = e[<<"list", k>>]
               /\ f[<<"dict", k>>] = e[<<"dict", k>>]
    <3>1. k \in 1 .. Len(s) + 1 /\ k # p
      BY <1>0
    <3>2. /\ <<"core", k>> \in Calls(s) /\ <<"list", k>> \in Calls(s)
          /\ <<"dict", k>> \in Calls(s)
      BY <3>1, CallsAre
    <3>3. /\ <<"core", k>> # <<"list", p>> /\ <<"list", k>> # <<"list", p>>
          /\ <<"dict", k>> # <<"list", p>> /\ <<"core", k>> # <<"dict", p>>
          /\ <<"list", k>> # <<"dict", p>> /\ <<"dict", k>> # <<"dict", p>>
      BY <3>1
    <3>4. QED
      BY <3>2, <3>3
  <2>2. QED
    BY <2>1 DEF Same
<1>4. e[<<"core", p>>] = core /\ e[<<"list", p>>] = list /\ e[<<"dict", p>>] = dict
  <2>1. /\ <<"core", p>> \in Calls(s) /\ <<"list", p>> \in Calls(s)
        /\ <<"dict", p>> \in Calls(s)
    BY CallsAre
  <2>2. /\ <<"core", p>> # <<"list", p>> /\ <<"core", p>> # <<"dict", p>>
        /\ <<"dict", p>> # <<"list", p>>
    OBVIOUS
  <2>3. QED
    BY <1>2, <2>1, <2>2
<1>5. e = [call \in Calls(s) |-> e[call]]
  OBVIOUS
<1> HIDE DEF e
<1>6. Same(d, e, s, p + 1)
  BY <1>1, <1>3 DEF Same
<1>7. InRange(d, s, p + 1)
  BY <1>0, Ranges
<1>8. CoreDecoder(d, s, p) = CoreDecoder(e, s, p)
  BY <1>0, <1>6, LocalCore
<1>9. ListDecoder(f, s, p) = ListDecoder(e, s, p)
  <2>1. CoreRange(core, s, p)
    BY <1>0, <1>7, CoreInRange DEF core
  <2>2. f[<<"core", p>>] = e[<<"core", p>>] /\ CoreRange(f[<<"core", p>>], s, p)
    BY <1>2, <1>4, <2>1
  <2>3. QED
    BY <1>0, <1>3, <2>2, LocalList
<1>10. DictDecoder(d, s, p) = DictDecoder(e, s, p)
  BY <1>0, <1>6, <1>7, LocalDict
<1>11. ASSUME NEW k \in p .. Len(s) + 1
       PROVE  /\ e[<<"core", k>>] = CoreDecoder(e, s, k)
              /\ e[<<"list", k>>] = ListDecoder(e, s, k)
              /\ e[<<"dict", k>>] = DictDecoder(e, s, k)
  <2>1. CASE k = p
    BY <1>4, <1>8, <1>9, <1>10, <2>1 DEF core, list, dict
  <2>2. CASE k # p
    <3>1. k \in p + 1 .. Len(s) + 1 /\ k \in Nat \ {0}
      BY <1>0, <2>2
    <3>2. /\ e[<<"core", k>>] = CoreDecoder(d, s, k)
          /\ e[<<"list", k>>] = ListDecoder(d, s, k)
          /\ e[<<"dict", k>>] = DictDecoder(d, s, k)
          /\ d[<<"core", k>>] = e[<<"core", k>>]
      BY <1>6, <3>1 DEF Same, Known
    <3>3. Same(d, e, s, k + 1)
      <4>1. \A j \in k + 1 .. Len(s) + 1 : j \in p + 1 .. Len(s) + 1
        BY <1>0, <3>1
      <4>2. QED
        BY <1>6, <4>1 DEF Same
    <3>4. InRange(d, s, k + 1) /\ CoreRange(d[<<"core", k>>], s, k)
      <4>1. \A j \in k + 1 .. Len(s) + 1 : j \in p + 1 .. Len(s) + 1
        BY <1>0, <3>1
      <4>2. QED
        BY <1>7, <3>1, <4>1 DEF InRange
    <3>5. CoreDecoder(d, s, k) = CoreDecoder(e, s, k)
      BY <3>1, <3>3, LocalCore
    <3>6. ListDecoder(d, s, k) = ListDecoder(e, s, k)
      BY <3>1, <3>2, <3>3, <3>4, LocalList
    <3>7. DictDecoder(d, s, k) = DictDecoder(e, s, k)
      BY <3>1, <3>3, <3>4, LocalDict
    <3>8. QED
      BY <3>2, <3>5, <3>6, <3>7
  <2>3. QED
    BY <2>1, <2>2
<1>12. QED
  BY <1>5, <1>11 DEF Known

LEMMA DecodeExists ==
  ASSUME NEW s \in Text
  PROVE  \E d : IsDecode(d, s) /\ Decode(s) = d[<<"core", 1>>]
<1> DEFINE N == Len(s) + 1
           T == {m \in 0 .. N : \E d : Known(d, s, Len(s) + 2 - m)
                                       /\ d = [call \in Calls(s) |-> d[call]]}
<1>0. Len(s) \in Nat /\ N \in Nat
  BY TextLen
<1>1. 0 \in T
  <2> DEFINE d == [call \in Calls(s) |-> 0]
  <2>1. Known(d, s, Len(s) + 2)
    BY <1>0 DEF Known
  <2>2. d = [call \in Calls(s) |-> d[call]] /\ 0 \in 0 .. N /\ Len(s) + 2 - 0 = Len(s) + 2
    BY <1>0
  <2> HIDE DEF d, N
  <2>3. QED
    BY <2>1, <2>2
<1>2. ASSUME NEW m \in 0 .. N - 1, m \in T PROVE m + 1 \in T
  <2>1. PICK p \in 1 .. Len(s) + 1 : p = Len(s) + 2 - (m + 1) /\ p + 1 = Len(s) + 2 - m
    <3>1. Len(s) + 2 - (m + 1) \in 1 .. Len(s) + 1
      BY <1>0
    <3>2. (Len(s) + 2 - (m + 1)) + 1 = Len(s) + 2 - m
      BY <1>0
    <3>3. PICK p \in 1 .. Len(s) + 1 : p = Len(s) + 2 - (m + 1)
      BY <3>1
    <3>4. QED
      BY <3>2, <3>3
  <2>2. PICK d : Known(d, s, p + 1)
    BY <1>2, <2>1
  <2>3. PICK e : Known(e, s, p) /\ e = [call \in Calls(s) |-> e[call]]
    BY <2>2, KnownMore
  <2>4. m + 1 \in 0 .. N
    BY <1>0
  <2> HIDE DEF N
  <2>5. QED
    BY <2>1, <2>3, <2>4
<1>3. N \in T
  <2> HIDE DEF T, N
  <2>1. 0 .. N \subseteq T
    BY <1>0, <1>1, <1>2, Upwards
  <2>2. QED
    BY <1>0, <2>1
<1>4. Len(s) + 2 - N = 1
  BY <1>0
<1> HIDE DEF N
<1>5. PICK d : Known(d, s, 1) /\ d = [call \in Calls(s) |-> d[call]]
  BY <1>3, <1>4
<1>6. IsDecode(d, s)
  BY <1>5, KnownAll
<1> DEFINE c == CHOOSE x : IsDecode(x, s)
<1>7. IsDecode(c, s)
  BY <1>6
<1>8. Decode(s) = c[<<"core", 1>>]
  BY DEF Decode, IsDecode
<1>9. QED
  BY <1>7, <1>8

\* Decoding, in short: a function of the calls, which is known and in range.
LEMMA DecodeIs ==
  ASSUME NEW s \in Text
  PROVE  \E d : Known(d, s, 1) /\ InRange(d, s, 1) /\ Decode(s) = d[<<"core", 1>>]
<1>1. PICK d : IsDecode(d, s) /\ Decode(s) = d[<<"core", 1>>]
  BY DecodeExists
<1>2. Known(d, s, 1)
  BY <1>1, KnownAll
<1>3. 1 \in 1 .. Len(s) + 2
  BY TextLen
<1>4. InRange(d, s, 1)
  BY <1>2, <1>3, Ranges
<1>5. QED
  BY <1>1, <1>2, <1>4

-----------------------------------------------------------------------------
(***************************************************************************)
(* What is decoded from a text is decoded from every longer one.           *)
(***************************************************************************)
Longer(s, t) == Len(s) <= Len(t) /\ \A k \in 1 .. Len(s) : t[k] = s[k]

LEMMA PartSame ==
  ASSUME NEW s \in Text, NEW t \in Text, Longer(s, t),
         NEW a \in Nat \ {0}, NEW b \in Nat, b <= Len(s), a <= b + 1
  PROVE  SubSeq(t, a, b) = SubSeq(s, a, b)
<1>0. Len(s) \in Nat /\ Len(t) \in Nat /\ b <= Len(t)
  BY TextLen DEF Longer
<1>1. PICK x \in Text : /\ x = SubSeq(s, a, b) /\ Len(x) = b + 1 - a
                        /\ \A i \in 1 .. b + 1 - a : x[i] = s[a + i - 1]
  BY PartText
<1>2. PICK y \in Text : /\ y = SubSeq(t, a, b) /\ Len(y) = b + 1 - a
                        /\ \A i \in 1 .. b + 1 - a : y[i] = t[a + i - 1]
  <2>1. b <= Len(t)
    BY <1>0
  <2>2. /\ SubSeq(t, a, b) \in Text /\ Len(SubSeq(t, a, b)) = b + 1 - a
        /\ \A i \in 1 .. b + 1 - a : SubSeq(t, a, b)[i] = t[a + i - 1]
    BY <2>1, PartText
  <2>3. QED
    BY <2>2
<1>3. ASSUME NEW i \in 1 .. Len(x) PROVE x[i] = y[i]
  <2>1. PICK j \in 1 .. Len(s) : j = a + i - 1
    BY <1>0, <1>1
  <2>2. s[j] = t[j]
    BY DEF Longer
  <2>3. QED
    BY <1>1, <1>2, <2>1, <2>2
<1>4. x = y
  BY <1>1, <1>2, <1>3, SeqEqual DEF Text
<1>5. QED
  BY <1>1, <1>2, <1>4

LEMMA FindSame ==
  ASSUME NEW s \in Text, NEW t \in Text, Longer(s, t), NEW pos \in Nat \ {0}, NEW char,
         Find(s, pos, char) # 0
  PROVE  /\ Find(t, pos, char) = Find(s, pos, char)
         /\ Find(s, pos, char) \in pos .. Len(s)
<1>0. Len(s) \in Nat /\ Len(t) \in Nat /\ Len(s) <= Len(t)
  BY TextLen DEF Longer
<1>1. PICK f : f = Find(s, pos, char)
  OBVIOUS
<1>2. IsFind(f, s, pos, char)
  BY <1>1, FindIs
<1>3. f \in pos .. Len(s)
  BY <1>2 DEF IsFind
<1>4. IsFind(f, t, pos, char)
  <2>1. f \in pos .. Len(t) /\ f \in 1 .. Len(s) /\ \A k \in pos .. f - 1 : k \in 1 .. Len(s)
    BY <1>0, <1>3
  <2>2. QED
    BY <1>2, <2>1 DEF IsFind, Longer
<1>5. Find(t, pos, char) = f
  BY <1>4, FindOne
<1>6. QED
  BY <1>1, <1>3, <1>5

LEMMA IntStable ==
  ASSUME NEW s \in Text, NEW t \in Text, Longer(s, t), NEW pos \in Nat \ {0},
         IntDecoder(s, pos).kind = "value"
  PROVE  IntDecoder(t, pos) = IntDecoder(s, pos)
<1>0. Len(s) \in Nat
  BY TextLen
<1>1. PICK f : f = Find(s, pos, CharE)
  OBVIOUS
<1>2. f # 0
  <2>1. f = 0 => IntDecoder(s, pos) = Fails("eof")
    BY <1>1 DEF IntDecoder
  <2>2. QED
    BY <2>1 DEF Fails
<1>3. Find(t, pos, CharE) = f /\ f \in pos .. Len(s)
  BY <1>1, <1>2, FindSame
<1>4. SubSeq(t, pos, f - 1) = SubSeq(s, pos, f - 1)
  <2>1. PICK b \in Nat : b = f - 1
    BY <1>3
  <2>2. b <= Len(s) /\ pos <= b + 1
    BY <1>0, <1>3, <2>1
  <2>3. QED
    BY <2>1, <2>2, PartSame
<1>5. QED
  BY <1>1, <1>3, <1>4 DEF IntDecoder

LEMMA StringStable ==
  ASSUME NEW s \in Text, NEW t \in Text, Longer(s, t), NEW pos \in Nat \ {0},
         StringDecoder(s, pos).kind = "value"
  PROVE  StringDecoder(t, pos) = StringDecoder(s, pos)
<1>0. Len(s) \in Nat /\ Len(t) \in Nat /\ Len(s) <= Len(t)
  BY TextLen DEF Longer
<1>1. PICK f, n : f = Find(s, pos, Colon) /\ n = Number(SubSeq(s, pos, f - 1))
  OBVIOUS
<1>2. /\ f \in pos .. Len(s) /\ n \in 0 .. Len(s) - f
      /\ StringDecoder(s, pos) = Ok([str |-> SubSeq(s, f + 1, f + n)], f + n + 1)
  BY <1>1, StringRange
<1>3. Find(t, pos, Colon) = f
  <2>1. f # 0
    BY <1>2
  <2>2. QED
    BY <1>1, <2>1, FindSame
<1>4. SubSeq(t, pos, f - 1) = SubSeq(s, pos, f - 1)
  <2>1. PICK b \in Nat : b = f - 1
    BY <1>2
  <2>2. b <= Len(s) /\ pos <= b + 1
    BY <1>0, <1>2, <2>1
  <2>3. QED
    BY <2>1, <2>2, PartSame
<1>5. SubSeq(t, f + 1, f + n) = SubSeq(s, f + 1, f + n)
  <2>1. PICK a \in Nat \ {0}, b \in Nat : a = f + 1 /\ b = f + n
    BY <1>2
  <2>2. b <= Len(s) /\ a <= b + 1
    BY <1>0, <1>2, <2>1
  <2>3. QED
    BY <2>1, <2>2, PartSame
<1>6. StringDecoder(t, pos) =
        CASE f = 0 -> Fails("eof")
          [] f > 0 /\ n < 0 -> Fails("wrong")
          [] f > 0 /\ n > Len(t) - f -> Fails("eof")
          [] OTHER -> Ok([str |-> SubSeq(s, f + 1, f + n)], f + n + 1)
  BY <1>1, <1>3, <1>4, <1>5 DEF StringDecoder
<1>7. ~(f = 0) /\ ~(n < 0) /\ ~(n > Len(t) - f)
  BY <1>0, <1>2
<1>8. QED
  BY <1>2, <1>6, <1>7

\* If the one is a value, so is the other.
Kept(o, other) == o.kind = "value" => other = o

Keeps(d, e, s, p) ==
  \A k \in p .. Len(s) + 1 : \A name \in {"core", "list", "dict"} :
    d[<<name, k>>].kind = "value" => e[<<name, k>>] = d[<<name, k>>]

LEMMA KeepsCore ==
  ASSUME NEW s \in Text, NEW t \in Text, Longer(s, t), NEW p \in Nat \ {0},
         NEW d, NEW e, Keeps(d, e, s, p + 1), CoreDecoder(d, s, p).kind = "value"
  PROVE  CoreDecoder(e, t, p) = CoreDecoder(d, s, p)
<1>0. Len(s) \in Nat /\ Len(t) \in Nat /\ Len(s) <= Len(t)
  BY TextLen DEF Longer
<1>1. p <= Len(s) /\ At(s, p) \in {CharI, CharL, CharD, CharE} \cup Digit
  BY CoreValue
<1>2. At(t, p) = At(s, p)
  <2>1. t[p] = s[p]
    BY <1>0, <1>1 DEF Longer
  <2>2. QED
    BY <1>0, <1>1, <2>1 DEF At
<1>3. p + 1 \in p + 1 .. Len(s) + 1 /\ p + 1 \in Nat \ {0}
  BY <1>0, <1>1
<1>4. CASE At(s, p) = CharI
  <2>1. CoreDecoder(d, s, p) = IntDecoder(s, p + 1) /\ CoreDecoder(e, t, p) = IntDecoder(t, p + 1)
    BY <1>2, <1>4, TypeRead
  <2>2. QED
    BY <1>3, <2>1, IntStable
<1>5. CASE At(s, p) = CharL
  <2>1. CoreDecoder(d, s, p) = d[<<"list", p + 1>>] /\ CoreDecoder(e, t, p) = e[<<"list", p + 1>>]
    BY <1>2, <1>5, TypeRead
  <2>2. QED
    BY <1>3, <2>1 DEF Keeps
<1>6. CASE At(s, p) = CharD
  <2>1. CoreDecoder(d, s, p) = d[<<"dict", p + 1>>] /\ CoreDecoder(e, t, p) = e[<<"dict", p + 1>>]
    BY <1>2, <1>6, TypeRead
  <2>2. QED
    BY <1>3, <2>1 DEF Keeps
<1>7. CASE At(s, p) = CharE
  BY <1>2, <1>7, TypeRead
<1>8. CASE At(s, p) \in Digit
  <2>1. CoreDecoder(d, s, p) = StringDecoder(s, p) /\ CoreDecoder(e, t, p) = StringDecoder(t, p)
    BY <1>2, <1>8, TypeRead
  <2>2. QED
    BY <2>1, StringStable
<1>9. QED
  BY <1>1, <1>4, <1>5, <1>6, <1>7, <1>8

LEMMA KeepsList ==
  ASSUME NEW s \in Text, NEW t, NEW p \in Nat \ {0},
         NEW d, NEW e, Keeps(d, e, s, p + 1), InRange(d, s, p), p <= Len(s) + 1,
         Kept(d[<<"core", p>>], e[<<"core", p>>])
  PROVE  Kept(ListDecoder(d, s, p), ListDecoder(e, t, p))
<1> SUFFICES ASSUME ListDecoder(d, s, p).kind = "value"
             PROVE  ListDecoder(e, t, p) = ListDecoder(d, s, p)
  BY DEF Kept
<1>0. Len(s) \in Nat /\ p \in p .. Len(s) + 1
  BY TextLen
<1>1. PICK item : item = d[<<"core", p>>]
  OBVIOUS
<1>2. PICK rest : rest = d[<<"list", item.pos>>]
  OBVIOUS
<1>3. ListDecoder(d, s, p) =
        IF item.kind # "value" THEN item
        ELSE IF item.value = None THEN Ok([list |-> <<>>], p + 1)
        ELSE IF rest.kind # "value" THEN rest
        ELSE Ok([list |-> <<item.value>> \o rest.value.list], rest.pos)
  BY <1>1, <1>2 DEF ListDecoder
<1>4. item.kind = "value"
  BY <1>3
<1>5. item = e[<<"core", p>>]
  BY <1>1, <1>4 DEF Kept
<1>6. CASE item.value = None
  BY <1>1, <1>4, <1>5, <1>6 DEF ListDecoder
<1>7. CASE item.value # None
  <2>1. rest.kind = "value"
    BY <1>3, <1>4, <1>7
  <2>2. item.pos \in p + 1 .. Len(s) + 1
    <3>1. item.pos \in p .. Len(s) + 1 /\ item.pos # p
      BY <1>0, <1>1, <1>4, <1>7 DEF InRange, CoreRange
    <3>2. QED
      BY <1>0, <3>1
  <2>3. rest = e[<<"list", item.pos>>]
    BY <1>2, <2>1, <2>2 DEF Keeps
  <2>4. QED
    BY <1>1, <1>2, <1>5, <2>3 DEF ListDecoder
<1>8. QED
  BY <1>6, <1>7

LEMMA KeepsDict ==
  ASSUME NEW s \in Text, NEW t \in Text, Longer(s, t), NEW p \in Nat \ {0},
         NEW d, NEW e, Keeps(d, e, s, p + 1), InRange(d, s, p + 1), p <= Len(s) + 1,
         DictDecoder(d, s, p).kind = "value"
  PROVE  DictDecoder(e, t, p) = DictDecoder(d, s, p)
<1>0. Len(s) \in Nat /\ Len(t) \in Nat /\ Len(s) <= Len(t)
  BY TextLen DEF Longer
<1>1. PICK key : key = StringDecoder(s, p)
  OBVIOUS
<1>2. PICK value : value = d[<<"core", key.pos>>]
  OBVIOUS
<1>3. PICK rest : rest = d[<<"dict", value.pos>>]
  OBVIOUS
<1>4. PICK key2 : key2 = StringDecoder(t, p)
  OBVIOUS
<1>5. PICK value2 : value2 = e[<<"core", key2.pos>>]
  OBVIOUS
<1>6. PICK rest2 : rest2 = e[<<"dict", value2.pos>>]
  OBVIOUS
<1>7. /\ DictDecoder(d, s, p) = DictFrom(s, p, key, value, rest)
      /\ DictDecoder(e, t, p) = DictFrom(t, p, key2, value2, rest2)
  BY <1>1, <1>2, <1>3, <1>4, <1>5, <1>6 DEF DictDecoder, DictFrom
<1>8. At(s, p) = CharE \/ At(s, p) \in Digit
  <2>1. SUFFICES ASSUME At(s, p) # CharE, At(s, p) \notin Digit PROVE FALSE
    OBVIOUS
  <2>2. DictFrom(s, p, key, value, rest) = Fails("wrong")
    BY <2>1 DEF DictFrom
  <2>3. QED
    BY <1>7, <2>2 DEF Fails
<1>9. At(t, p) = At(s, p)
  <2>1. p <= Len(s)
    BY <1>8, TypeRead
  <2>2. t[p] = s[p]
    BY <1>0, <2>1 DEF Longer
  <2>3. QED
    BY <1>0, <2>1, <2>2 DEF At
<1>10. CASE At(s, p) = CharE
  BY <1>7, <1>9, <1>10 DEF DictFrom
<1>11. CASE At(s, p) # CharE
  <2>1. At(s, p) \in Digit
    BY <1>8, <1>11
  <2>2. key.kind = "value" /\ value.kind = "value" /\ rest.kind = "value"
    BY <1>7, <1>11, <2>1 DEF DictFrom
  <2>3. key2 = key
    BY <1>1, <1>4, <2>2, StringStable
  <2>4. PICK q \in p + 1 .. Len(s) + 1 : q = key.pos
    BY <1>1, <2>2, StringRange DEF CallRange
  <2>5. value2 = value
    BY <1>2, <1>5, <2>2, <2>3, <2>4 DEF Keeps
  <2>6. PICK r \in p + 1 .. Len(s) + 1 : r = value.pos
    <3>1. CoreRange(value, s, q)
      BY <1>2, <2>4 DEF InRange
    <3>2. QED
      BY <1>0, <2>2, <2>4, <3>1 DEF CoreRange
  <2>7. rest2 = rest
    BY <1>3, <1>6, <2>2, <2>5, <2>6 DEF Keeps
  <2>8. QED
    BY <1>7, <1>9, <2>3, <2>5, <2>7 DEF DictFrom
<1>12. QED
  BY <1>10, <1>11

\* A call that returned a value returns it again, and as much of the text, when more has
\* arrived behind what it read; it takes nothing past the end (Decoder::decode).
THEOREM DecodeStable ==
  ASSUME NEW s \in Text, NEW t \in Text, Longer(s, t), Decode(s).kind = "value"
  PROVE  Decode(t) = Decode(s) /\ Decode(s).pos \in 1 .. Len(s) + 1
<1>1. PICK d : Known(d, s, 1) /\ InRange(d, s, 1) /\ Decode(s) = d[<<"core", 1>>]
  BY DecodeIs
<1>2. PICK e : Known(e, t, 1) /\ Decode(t) = e[<<"core", 1>>]
  BY DecodeIs
<1> DEFINE N == Len(s) + 1
           T == {m \in 0 .. N : Keeps(d, e, s, Len(s) + 2 - m)}
<1>0. Len(s) \in Nat /\ Len(t) \in Nat /\ Len(s) <= Len(t) /\ N \in Nat
  BY TextLen DEF Longer
<1>3. 0 \in T
  BY <1>0 DEF Keeps
<1>4. ASSUME NEW m \in 0 .. N - 1, m \in T PROVE m + 1 \in T
  <2>1. PICK p \in 1 .. Len(s) + 1 : p = Len(s) + 2 - (m + 1) /\ p + 1 = Len(s) + 2 - m
    <3>1. Len(s) + 2 - (m + 1) \in 1 .. Len(s) + 1
      BY <1>0
    <3>2. (Len(s) + 2 - (m + 1)) + 1 = Len(s) + 2 - m
      BY <1>0
    <3>3. PICK p \in 1 .. Len(s) + 1 : p = Len(s) + 2 - (m + 1)
      BY <3>1
    <3>4. QED
      BY <3>2, <3>3
  <2>2. Keeps(d, e, s, p + 1)
    BY <1>4, <2>1
  <2>3. /\ d[<<"core", p>>] = CoreDecoder(d, s, p) /\ e[<<"core", p>>] = CoreDecoder(e, t, p)
        /\ d[<<"list", p>>] = ListDecoder(d, s, p) /\ e[<<"list", p>>] = ListDecoder(e, t, p)
        /\ d[<<"dict", p>>] = DictDecoder(d, s, p) /\ e[<<"dict", p>>] = DictDecoder(e, t, p)
    <3>1. p \in 1 .. Len(t) + 1
      BY <1>0
    <3>2. QED
      BY <1>1, <1>2, <3>1 DEF Known
  <2>4. p \in Nat \ {0} /\ p <= Len(s) + 1
    BY <1>0
  <2>5. InRange(d, s, p) /\ InRange(d, s, p + 1)
    <3>1. \A k \in p .. Len(s) + 1 : k \in 1 .. Len(s) + 1
      BY <1>0
    <3>2. \A k \in p + 1 .. Len(s) + 1 : k \in 1 .. Len(s) + 1
      BY <1>0
    <3>3. InRange(d, s, p)
      BY <1>1, <3>1 DEF InRange
    <3>4. InRange(d, s, p + 1)
      BY <1>1, <3>2 DEF InRange
    <3>5. QED
      BY <3>3, <3>4
  <2>6. d[<<"core", p>>].kind = "value" => e[<<"core", p>>] = d[<<"core", p>>]
    BY <2>2, <2>3, <2>4, KeepsCore
  <2>7. d[<<"dict", p>>].kind = "value" => e[<<"dict", p>>] = d[<<"dict", p>>]
    BY <2>2, <2>3, <2>4, <2>5, KeepsDict
  <2>8. ASSUME d[<<"list", p>>].kind = "value" PROVE e[<<"list", p>>] = d[<<"list", p>>]
    <3>1. Kept(d[<<"core", p>>], e[<<"core", p>>])
      BY <2>6 DEF Kept
    <3>2. Kept(ListDecoder(d, s, p), ListDecoder(e, t, p))
      BY <2>2, <2>4, <2>5, <3>1, KeepsList
    <3>3. QED
      BY <2>3, <2>8, <3>2 DEF Kept
  <2>9. Keeps(d, e, s, p)
    <3>1. ASSUME NEW k \in p .. Len(s) + 1, NEW name \in {"core", "list", "dict"},
                 d[<<name, k>>].kind = "value"
          PROVE  e[<<name, k>>] = d[<<name, k>>]
      <4>1. CASE k = p
        <5>1. name = "core" \/ name = "list" \/ name = "dict"
          OBVIOUS
        <5>2. QED
          BY <2>6, <2>7, <2>8, <3>1, <4>1, <5>1
      <4>2. CASE k # p
        <5>1. k \in p + 1 .. Len(s) + 1
          BY <1>0, <4>2
        <5>2. QED
          BY <2>2, <3>1, <5>1 DEF Keeps
      <4>3. QED
        BY <4>1, <4>2
    <3>2. QED
      BY <3>1 DEF Keeps
  <2>10. m + 1 \in 0 .. N
    BY <1>0
  <2> HIDE DEF N
  <2>11. QED
    BY <2>1, <2>9, <2>10
<1>5. N \in T
  <2> HIDE DEF T, N
  <2>1. 0 .. N \subseteq T
    BY <1>0, <1>3, <1>4, Upwards
  <2>2. QED
    BY <1>0, <2>1
<1>6. Len(s) + 2 - N = 1
  BY <1>0
<1> HIDE DEF N
<1>7. Keeps(d, e, s, 1)
  BY <1>5, <1>6
<1>8. 1 \in 1 .. Len(s) + 1
  BY <1>0
<1>9. Decode(t) = Decode(s)
  BY <1>1, <1>2, <1>7, <1>8 DEF Keeps
<1>10. Decode(s).pos \in 1 .. Len(s) + 1
  BY <1>1, <1>8 DEF InRange, CoreRange
<1>11. QED
  BY <1>9, <1>10

-----------------------------------------------------------------------------
(***************************************************************************)
(* The code of a value is decoded as that value.  A number of IntLimit or  *)
(* more is refused, so this is said of values without one (easy), and of   *)
(* the others if they are decoded at all.                                  *)
(***************************************************************************)
Gives(easy, o, other) == (easy \/ o.kind = "value") => o = other


LEMMA HasJoin ==
  ASSUME NEW s \in Text, NEW k \in Nat \ {0}, NEW a \in Text, NEW b \in Text,
         Has(s, k, a \o b)
  PROVE  Has(s, k, a) /\ Has(s, k + Len(a), b)
<1>1. /\ Len(a) \in Nat /\ Len(b) \in Nat /\ Len(s) \in Nat
      /\ Len(a \o b) = Len(a) + Len(b)
      /\ \A i \in 1 .. Len(a) + Len(b) : (a \o b)[i] = IF i <= Len(a) THEN a[i] ELSE b[i - Len(a)]
  BY TextLen, ConcatProperties DEF Text
<1>2. PICK n \in Nat, m \in Nat : n = Len(a) /\ m = Len(b)
  BY <1>1
<1>3. k + (n + m) <= Len(s) + 1 /\ \A i \in 1 .. n + m : s[k + i - 1] = (a \o b)[i]
  BY <1>1, <1>2 DEF Has
<1>4. Has(s, k, a)
  <2>1. k + n <= Len(s) + 1
    BY <1>1, <1>2, <1>3
  <2>2. ASSUME NEW i \in 1 .. n PROVE s[k + i - 1] = a[i]
    <3>1. i \in 1 .. n + m /\ i <= n
      BY <1>1, <1>2
    <3>2. QED
      BY <1>1, <1>2, <1>3, <3>1
  <2>3. QED
    BY <1>2, <2>1, <2>2 DEF Has
<1>5. Has(s, k + n, b)
  <2>1. (k + n) + m <= Len(s) + 1
    BY <1>1, <1>2, <1>3
  <2>2. ASSUME NEW i \in 1 .. m PROVE s[(k + n) + i - 1] = b[i]
    <3>1. PICK j \in 1 .. n + m : j = n + i
      BY <1>1, <1>2
    <3>2. ~(j <= n) /\ j - n = i /\ k + j - 1 = (k + n) + i - 1
      BY <1>2, <3>1
    <3>3. (a \o b)[j] = b[i]
      BY <1>1, <1>2, <3>1, <3>2
    <3>4. s[k + j - 1] = (a \o b)[j]
      BY <1>3
    <3>5. QED
      BY <3>2, <3>3, <3>4
  <2>3. QED
    BY <1>2, <2>1, <2>2 DEF Has
<1>6. QED
  BY <1>2, <1>4, <1>5

\* The same of three texts.
LEMMA HasThree ==
  ASSUME NEW a \in Text, NEW b \in Text, NEW c \in Text
  PROVE  /\ (a \o b) \o c \in Text
         /\ Len((a \o b) \o c) = Len(a) + Len(b) + Len(c)
         /\ \A s \in Text, k \in Nat \ {0} : Has(s, k, (a \o b) \o c) =>
              Has(s, k, a) /\ Has(s, k + Len(a), b) /\ Has(s, k + Len(a) + Len(b), c)
<1>1. PICK x \in Text : x = a \o b
  BY TextJoin
<1>2. Len(x) = Len(a) + Len(b)
  BY <1>1, TextJoin
<1>4. x \o c \in Text /\ Len(x \o c) = Len(x) + Len(c)
  BY TextJoin
<1>5. Len(x \o c) = Len(a) + Len(b) + Len(c)
  BY <1>2, <1>4
<1>6. ASSUME NEW s \in Text, NEW k \in Nat \ {0}, Has(s, k, x \o c)
      PROVE  Has(s, k, a) /\ Has(s, k + Len(a), b) /\ Has(s, k + Len(a) + Len(b), c)
  <2>1. Has(s, k, x) /\ Has(s, k + Len(x), c)
    BY <1>6, HasJoin
  <2>2. Has(s, k, a \o b)
    BY <1>1, <2>1
  <2>3. Has(s, k, a) /\ Has(s, k + Len(a), b)
    BY <2>2, HasJoin
  <2>4. k + Len(x) = k + Len(a) + Len(b)
    BY <1>2, TextLen
  <2>5. QED
    BY <2>1, <2>3, <2>4
<1>7. QED
  BY <1>1, <1>4, <1>5, <1>6

LEMMA OneIs == \A c \in Nat : One(c) \in Text /\ Len(One(c)) = 1 /\ One(c)[1] = c
BY DEF One, Text

LEMMA HasOne ==
  ASSUME NEW s \in Text, NEW k \in Nat \ {0}, NEW c \in Nat, Has(s, k, One(c))
  PROVE  k \in 1 .. Len(s) /\ s[k] = c /\ At(s, k) = c % 256
<1>1. Len(s) \in Nat /\ Len(One(c)) = 1 /\ One(c)[1] = c
  BY TextLen, OneIs
<1>2. k \in 1 .. Len(s)
  BY <1>1 DEF Has
<1>3. s[k] = c
  <2>1. 1 \in 1 .. Len(One(c)) /\ k + 1 - 1 = k
    BY <1>1
  <2>2. s[k + 1 - 1] = One(c)[1]
    BY <2>1 DEF Has
  <2>3. QED
    BY <1>1, <2>1, <2>2
<1>4. QED
  BY <1>2, <1>3 DEF At

\* The text up to a character that it does not hold.
LEMMA FindAfter ==
  ASSUME NEW s \in Text, NEW k \in Nat \ {0}, NEW t \in Text, NEW c \in Nat,
         Has(s, k, t), Has(s, k + Len(t), One(c)), \A i \in 1 .. Len(t) : t[i] # c
  PROVE  /\ Find(s, k, c) = k + Len(t)
         /\ SubSeq(s, k, k + Len(t) - 1) = t
<1>1. PICK n \in Nat : n = Len(t)
  BY TextLen
<1>2. k + n \in 1 .. Len(s) /\ s[k + n] = c /\ Len(s) \in Nat
  <2>1. PICK p \in Nat \ {0} : p = k + n
    OBVIOUS
  <2>2. Has(s, p, One(c))
    BY <1>1, <2>1
  <2>3. p \in 1 .. Len(s) /\ s[p] = c
    BY <2>2, HasOne
  <2>4. QED
    BY <2>1, <2>3, TextLen
<1>3. ASSUME NEW j \in k .. k + n - 1 PROVE s[j] # c
  <2>1. PICK i \in 1 .. n : i = j - k + 1
    OBVIOUS
  <2>2. k + i - 1 = j
    BY <2>1
  <2>3. s[k + i - 1] = t[i] /\ t[i] # c
    BY <1>1 DEF Has
  <2>4. QED
    BY <2>2, <2>3
<1>4. IsFind(k + n, s, k, c)
  BY <1>2, <1>3 DEF IsFind
<1>5. Find(s, k, c) = k + n
  BY <1>4, FindOne
<1>6. SubSeq(s, k, k + Len(t) - 1) = t
  BY PartIs
<1>7. QED
  BY <1>1, <1>5, <1>6

LEMMA DigitsAre == \A c \in Digit : c # CharE /\ c # Colon /\ c \in Nat /\ c % 256 = c
BY DEF Digit, CharE, Colon

LEMMA CharsAre ==
  /\ CharI \in Nat /\ CharL \in Nat /\ CharD \in Nat /\ CharE \in Nat /\ Colon \in Nat
  /\ CharI % 256 = CharI /\ CharL % 256 = CharL /\ CharD % 256 = CharD
  /\ CharE % 256 = CharE
BY DEF CharI, CharL, CharD, CharE, Colon

LEMMA OkIs ==
  \A v, pos : Ok(v, pos).kind = "value" /\ Ok(v, pos).value = v /\ Ok(v, pos).pos = pos
BY DEF Ok

LEMMA IntReads ==
  ASSUME NEW s \in Text, NEW d, NEW k \in Nat \ {0}, NEW n \in Nat,
         NEW code, code = Flat([int |-> n]), Has(s, k, code),
         NEW easy, easy => n < IntLimit
  PROVE  /\ code \in Text
         /\ Gives(easy, CoreDecoder(d, s, k), Ok([int |-> n], k + Len(code)))
<1>1. PICK t \in Text : /\ t = Decimal(n)
                        /\ \A i \in 1 .. Len(t) : t[i] \in Digit
                        /\ Number(t) = n \/ (Number(t) = -1 /\ n >= IntLimit)
  BY ReadBack
<1>2. code = (One(CharI) \o t) \o One(CharE)
  <2>1. DOMAIN [int |-> n] = {"int"}
    OBVIOUS
  <2>2. QED
    BY <1>1, <2>1 DEF Flat, CodeOf, One
<1>3. PICK a \in Text, e \in Text : a = One(CharI) /\ e = One(CharE) /\ Len(a) = 1 /\ Len(e) = 1
  BY CharsAre, OneIs
<1>4. PICK m \in Nat : m = Len(t)
  BY TextLen
<1>5. PICK L \in Nat : L = Len(code) /\ L = 1 + m + 1 /\ code \in Text
  <2>1. code = (a \o t) \o e
    BY <1>2, <1>3
  <2>2. (a \o t) \o e \in Text /\ Len((a \o t) \o e) = Len(a) + Len(t) + Len(e)
    BY HasThree
  <2>3. code \in Text /\ Len(code) = Len(a) + Len(t) + Len(e)
    BY <2>1, <2>2
  <2>4. Len(code) = 1 + m + 1
    BY <1>3, <1>4, <2>3
  <2>5. QED
    BY <2>3, <2>4
<1>7. Has(s, k, a) /\ Has(s, k + 1, t) /\ Has(s, k + 1 + m, e)
  <2>1. Has(s, k, (a \o t) \o e)
    BY <1>2, <1>3
  <2>2. Has(s, k, a) /\ Has(s, k + Len(a), t) /\ Has(s, k + Len(a) + Len(t), e)
    BY <2>1, HasThree
  <2>3. QED
    BY <1>3, <1>4, <2>2
<1>9. CoreDecoder(d, s, k) = IntDecoder(s, k + 1)
  <2>1. Has(s, k, One(CharI))
    BY <1>3, <1>7
  <2>2. At(s, k) = CharI % 256
    BY <2>1, CharsAre, HasOne
  <2>3. At(s, k) = CharI
    BY <2>2, CharsAre
  <2>4. QED
    BY <2>3, TypeRead
<1>10. PICK p \in Nat \ {0} : p = k + 1
  OBVIOUS
<1>11. Find(s, p, CharE) = p + m /\ SubSeq(s, p, p + m - 1) = t
  <2>1. Has(s, p, t) /\ p + Len(t) = k + 1 + m
    BY <1>4, <1>7, <1>10
  <2>2. Has(s, p + Len(t), One(CharE))
    BY <1>3, <1>7, <2>1
  <2>3. \A i \in 1 .. Len(t) : t[i] # CharE
    BY <1>1, DigitsAre
  <2>4. CharE \in Nat
    BY CharsAre
  <2>5. Find(s, p, CharE) = p + Len(t) /\ SubSeq(s, p, p + Len(t) - 1) = t
    BY <2>1, <2>2, <2>3, <2>4, FindAfter
  <2>6. QED
    BY <1>4, <2>5
<1>12. ASSUME easy \/ IntDecoder(s, p).kind = "value"
       PROVE  IntDecoder(s, p) = Ok([int |-> n], k + Len(code))
  <2>1. PICK f \in Nat, x \in Int : f = p + m /\ x = Number(t) /\ f > 0
    BY NumberType
  <2>2. IntDecoder(s, p) = CASE f = 0 -> Fails("eof")
                             [] f > 0 /\ x < 0 -> Fails("wrong")
                             [] OTHER -> Ok([int |-> x], f + 1)
    <3>1. Find(s, p, CharE) = f /\ SubSeq(s, p, f - 1) = t
      BY <1>11, <2>1
    <3>2. QED
      BY <2>1, <3>1 DEF IntDecoder
  <2>3. ~(Number(t) < 0)
    <3>1. SUFFICES ASSUME Number(t) < 0 PROVE FALSE
      OBVIOUS
    <3>2. IntDecoder(s, p) = Fails("wrong")
      BY <2>1, <2>2, <3>1
    <3>3. easy
      BY <1>12, <3>2 DEF Fails
    <3>4. n < IntLimit /\ n >= IntLimit /\ IntLimit \in Nat
      BY <1>1, <3>1, <3>3, LimitAssumption
    <3>5. QED
      BY <3>4
  <2>4. IntDecoder(s, p) = Ok([int |-> Number(t)], p + m + 1)
    <3>1. ~(x < 0) /\ ~(f = 0)
      BY <2>1, <2>3
    <3>2. IntDecoder(s, p) = Ok([int |-> x], f + 1)
      BY <2>2, <3>1
    <3>3. QED
      BY <2>1, <3>2
  <2>5. Number(t) = n
    BY <1>1, <2>3
  <2>6. p + m + 1 = k + Len(code)
    BY <1>5, <1>10
  <2>7. QED
    BY <2>4, <2>5, <2>6
<1>13. QED
  BY <1>5, <1>9, <1>10, <1>12 DEF Gives

LEMMA StringReads ==
  ASSUME NEW s \in Text, NEW d, NEW k \in Nat \ {0}, NEW x \in Text,
         NEW code, code = StringCode(x), Has(s, k, code),
         NEW easy, easy => Len(x) < IntLimit
  PROVE  /\ code \in Text /\ At(s, k) \in Digit
         /\ Gives(easy, StringDecoder(s, k), Ok([str |-> x], k + Len(code)))
<1>0. PICK n \in Nat : n = Len(x)
  BY TextLen
<1>1. PICK t \in Text : /\ t = Decimal(n) /\ Len(t) > 0
                        /\ \A i \in 1 .. Len(t) : t[i] \in Digit
                        /\ Number(t) = n \/ (Number(t) = -1 /\ n >= IntLimit)
  BY ReadBack
<1>2. code = (t \o One(Colon)) \o x
  BY <1>0, <1>1 DEF StringCode, One
<1>3. PICK e \in Text : e = One(Colon) /\ Len(e) = 1
  BY CharsAre, OneIs
<1>4. PICK m \in Nat : m = Len(t)
  BY TextLen
<1>5. PICK L \in Nat : L = Len(code) /\ L = m + 1 + n /\ code \in Text
  <2>1. code = (t \o e) \o x
    BY <1>2, <1>3
  <2>2. (t \o e) \o x \in Text /\ Len((t \o e) \o x) = Len(t) + Len(e) + Len(x)
    BY HasThree
  <2>3. QED
    BY <1>0, <1>3, <1>4, <2>1, <2>2
<1>8. Has(s, k, t) /\ Has(s, k + m, e) /\ Has(s, k + m + 1, x)
  <2>1. Has(s, k, (t \o e) \o x)
    BY <1>2, <1>3
  <2>2. Has(s, k, t) /\ Has(s, k + Len(t), e) /\ Has(s, k + Len(t) + Len(e), x)
    BY <2>1, HasThree
  <2>3. QED
    BY <1>3, <1>4, <2>2
<1>9. At(s, k) \in Digit
  <2>1. 1 \in 1 .. Len(t) /\ k + 1 - 1 = k /\ k <= Len(s) /\ Len(s) \in Nat
    BY <1>1, <1>4, <1>8, TextLen DEF Has
  <2>2. s[k + 1 - 1] = t[1]
    BY <1>8, <2>1 DEF Has
  <2>3. s[k] \in Digit
    BY <1>1, <2>1, <2>2
  <2>4. QED
    BY <2>1, <2>3, DigitsAre DEF At
<1>10. Find(s, k, Colon) = k + m /\ SubSeq(s, k, k + m - 1) = t
  <2>1. Has(s, k, t) /\ Has(s, k + Len(t), One(Colon))
    BY <1>3, <1>4, <1>8
  <2>2. \A i \in 1 .. Len(t) : t[i] # Colon
    BY <1>1, DigitsAre
  <2>3. QED
    BY <1>4, <2>1, <2>2, CharsAre, FindAfter
<1>11. ASSUME easy \/ StringDecoder(s, k).kind = "value"
       PROVE  StringDecoder(s, k) = Ok([str |-> x], k + Len(code))
  <2>0. StringDecoder(s, k).kind = "value"
    <3>1. CASE easy
      <4>1. Number(t) = n
        BY <1>0, <1>1, <3>1, LimitAssumption
      <4>2. PICK f \in Nat : f = k + m /\ f > 0
        OBVIOUS
      <4>3. Find(s, k, Colon) = f /\ SubSeq(s, k, f - 1) = t
        BY <1>10, <4>2
      <4>4. k + m + 1 + n <= Len(s) + 1 /\ Len(s) \in Nat
        BY <1>0, <1>8, TextLen DEF Has
      <4>5. ~(n < 0) /\ ~(n > Len(s) - f) /\ ~(f = 0)
        BY <4>2, <4>4
      <4>6. StringDecoder(s, k) = Ok([str |-> SubSeq(s, f + 1, f + n)], f + n + 1)
        BY <4>1, <4>3, <4>5 DEF StringDecoder
      <4>7. QED
        BY <4>6, OkIs
    <3>2. QED
      BY <1>11, <3>1
  <2>1. /\ Number(t) \in 0 .. Len(s) - (k + m)
        /\ StringDecoder(s, k) =
             Ok([str |-> SubSeq(s, k + m + 1, k + m + Number(t))], k + m + Number(t) + 1)
    <3>1. PICK f \in Nat, y \in Int : f = k + m /\ y = Number(t)
      <4>1. k + m \in Nat
        OBVIOUS
      <4>2. Number(t) \in Int
        BY NumberType
      <4>3. QED
        BY <4>1, <4>2
    <3>2. Find(s, k, Colon) = f /\ SubSeq(s, k, f - 1) = t
      BY <1>10, <3>1
    <3>3. /\ y \in 0 .. Len(s) - f
          /\ StringDecoder(s, k) = Ok([str |-> SubSeq(s, f + 1, f + y)], f + y + 1)
      BY <2>0, <3>1, <3>2, StringRange
    <3>4. QED
      BY <3>1, <3>3
  <2>2. Number(t) = n
    BY <1>1, <2>1
  <2>3. SubSeq(s, k + m + 1, k + m + n) = x
    <3>1. PICK p \in Nat \ {0} : p = k + m + 1
      OBVIOUS
    <3>2. SubSeq(s, p, p + Len(x) - 1) = x
      BY <1>8, <3>1, PartIs
    <3>3. p = k + m + 1 /\ p + Len(x) - 1 = k + m + n
      BY <1>0, <3>1
    <3>4. QED
      BY <3>2, <3>3
  <2>4. k + m + n + 1 = k + Len(code)
    BY <1>5
  <2>5. QED
    BY <2>1, <2>2, <2>3, <2>4
<1>12. QED
  BY <1>5, <1>9, <1>11 DEF Gives

\* What holds of no text and stays true when the text before it is added holds
\* of them all.
LEMMA FlattenInduction ==
  ASSUME NEW codes \in Seq(Text), NEW N \in Nat, N = Len(codes), NEW S,
         <<N, <<>> >> \in S,
         \A k \in 1 .. N, t \in Text : <<k, t>> \in S => <<k - 1, codes[k] \o t>> \in S
  PROVE  <<0, FlattenSeq(codes)>> \in S
<1>1. PICK rem : IsRemainder(rem, codes) /\ rem[0] = FlattenSeq(codes)
  BY FlattenRemainder
<1> DEFINE T == {m \in 0 .. N : <<N - m, rem[N - m]>> \in S}
<1>2. 0 \in T
  <2>1. rem[N - 0] = <<>> /\ N - 0 = N /\ 0 \in 0 .. N
    BY <1>1 DEF IsRemainder
  <2>2. QED
    BY <2>1
<1>3. ASSUME NEW m \in 0 .. N - 1, m \in T PROVE m + 1 \in T
  <2>1. PICK k \in 1 .. N : k = N - m
    <3>1. N - m \in 1 .. N
      OBVIOUS
    <3>2. QED
      BY <3>1
  <2>2. N - (m + 1) = k - 1 /\ m + 1 \in 0 .. N /\ k \in 0 .. N
    BY <2>1
  <2>3. rem[k - 1] = codes[k] \o rem[k] /\ rem[k] \in Text
    BY <1>1, <2>2 DEF IsRemainder
  <2>4. <<k, rem[k]>> \in S
    BY <1>3, <2>1
  <2>5. <<k - 1, codes[k] \o rem[k]>> \in S
    BY <2>3, <2>4
  <2>6. <<N - (m + 1), rem[N - (m + 1)]>> \in S
    BY <2>2, <2>3, <2>5
  <2>7. QED
    BY <2>2, <2>6
<1>4. N \in T
  <2> HIDE DEF T
  <2>1. 0 .. N \subseteq T
    BY <1>2, <1>3, Upwards
  <2>2. QED
    BY <2>1
<1>5. <<N - N, rem[N - N]>> \in S /\ N - N = 0
  BY <1>4
<1>6. QED
  BY <1>1, <1>5

LEMMA FlattenWide ==
  ASSUME NEW codes \in Seq(Text), \A k \in 1 .. Len(codes) : codes[k] \in Wide
  PROVE  FlattenSeq(codes) \in Wide
<1>1. PICK N \in Nat : N = Len(codes)
  BY LenProperties
<1> DEFINE S == Int \X Wide
<1>2. <<N, <<>> >> \in S
  BY WideEmpty
<1>3. ASSUME NEW k \in 1 .. N, NEW t \in Text, <<k, t>> \in S
      PROVE  <<k - 1, codes[k] \o t>> \in S
  <2>1. t \in Wide /\ codes[k] \in Wide
    BY <1>1, <1>3
  <2>2. codes[k] \o t \in Wide /\ k - 1 \in Int
    BY <2>1, WideJoin
  <2>3. QED
    BY <2>2
<1>4. <<0, FlattenSeq(codes)>> \in S
  <2> HIDE DEF S
  <2>1. QED
    BY <1>1, <1>2, <1>3, FlattenInduction
<1>5. QED
  BY <1>4

-----------------------------------------------------------------------------
(***************************************************************************)
(* What the decoders read at the code of a value, and at the rest of a     *)
(* list or of a dictionary.                                                *)
(***************************************************************************)
ReadsAs(d, s, easy, code, v) ==
  \A p \in Nat \ {0} : Has(s, p, code) => Gives(easy, d[<<"core", p>>], Ok(v, p + Len(code)))

Made(name, items) == IF name = "list" THEN [list |-> items] ELSE [dict |-> items]

Ends(d, s, easy, name, text, items) ==
  \A p \in Nat \ {0} : Has(s, p, text \o One(CharE)) =>
    Gives(easy, d[<<name, p>>], Ok(Made(name, items), p + Len(text) + 1))

LEMMA EndsAll ==
  ASSUME NEW s, NEW d, NEW easy, NEW name, NEW V, NEW items \in Seq(V), NEW codes \in Seq(Text),
         Len(codes) = Len(items), Ends(d, s, easy, name, <<>>, <<>>),
         \A k \in 1 .. Len(items), t \in Text, rest \in Seq(V) :
           Ends(d, s, easy, name, t, rest)
             => Ends(d, s, easy, name, codes[k] \o t, <<items[k]>> \o rest)
  PROVE  Ends(d, s, easy, name, FlattenSeq(codes), items)
<1>1. PICK N \in Nat : N = Len(items)
  BY LenProperties
<1> DEFINE After(k) == SubSeq(items, k + 1, N)
           S == {x \in (0 .. N) \X Text : Ends(d, s, easy, name, x[2], After(x[1]))}
<1>2. <<N, <<>> >> \in S
  <2>1. After(N) = <<>>
    BY SubSeqEmpty
  <2>2. <<>> \in Text /\ N \in 0 .. N
    BY TextEmpty
  <2> HIDE DEF After
  <2>3. QED
    BY <2>1, <2>2
<1>3. ASSUME NEW k \in 1 .. N, NEW t \in Text, <<k, t>> \in S
      PROVE  <<k - 1, codes[k] \o t>> \in S
  <2>1. PICK rest \in Seq(V) : rest = After(k)
    <3>1. k + 1 \in Int /\ N \in Int /\ \A i \in k + 1 .. N : items[i] \in V
      BY <1>1
    <3>2. After(k) \in Seq(V)
      BY <3>1, SubSeqProperties
    <3>3. QED
      BY <3>2
  <2>2. Ends(d, s, easy, name, t, rest)
    BY <1>3, <2>1
  <2>3. Ends(d, s, easy, name, codes[k] \o t, <<items[k]>> \o rest)
    BY <1>1, <2>2
  <2>4. After(k - 1) = <<items[k]>> \o rest
    <3>1. SubSeq(items, k, N) = <<items[k]>> \o SubSeq(items, k + 1, N)
      BY <1>1, SubSeqRecursiveFirst
    <3>2. k - 1 + 1 = k
      OBVIOUS
    <3>3. QED
      BY <2>1, <3>1, <3>2
  <2>5. codes[k] \o t \in Text
    <3>1. codes[k] \in Text
      BY <1>1
    <3>2. QED
      BY <3>1, TextJoin
  <2>6. k - 1 \in 0 .. N
    OBVIOUS
  <2> HIDE DEF After
  <2>7. QED
    BY <2>3, <2>4, <2>5, <2>6
<1>4. <<0, FlattenSeq(codes)>> \in S
  <2> HIDE DEF S
  <2>1. QED
    BY <1>1, <1>2, <1>3, FlattenInduction
<1>5. After(0) = items
  BY <1>1, SubSeqFull
<1>6. QED
  BY <1>4, <1>5

\* A list, and a dictionary, ends where CharE stands.
LEMMA EndReads ==
  ASSUME NEW s \in Text, NEW d, Known(d, s, 1), NEW easy
  PROVE  Ends(d, s, easy, "list", <<>>, <<>>) /\ Ends(d, s, easy, "dict", <<>>, <<>>)
<1> SUFFICES ASSUME NEW p \in Nat \ {0}, Has(s, p, <<>> \o One(CharE))
             PROVE  /\ d[<<"list", p>>] = Ok([list |-> <<>>], p + 1)
                    /\ d[<<"dict", p>>] = Ok([dict |-> <<>>], p + 1)
  <2>1. Len(<<>>) = 0 /\ \A p \in Nat : p + 0 + 1 = p + 1
    OBVIOUS
  <2>2. QED
    BY <2>1 DEF Ends, Gives, Made
<1>1. One(CharE) \in Text /\ <<>> \o One(CharE) = One(CharE)
  BY CharsAre, OneIs, TextEmpty
<1>2. p \in 1 .. Len(s) /\ At(s, p) = CharE /\ Len(s) \in Nat
  <2>1. Has(s, p, One(CharE))
    BY <1>1
  <2>2. p \in 1 .. Len(s) /\ At(s, p) = CharE % 256
    BY <2>1, CharsAre, HasOne
  <2>3. QED
    BY <2>2, CharsAre, TextLen
<1>3. p \in 1 .. Len(s) + 1
  BY <1>2
<1>4. d[<<"core", p>>] = Ok(None, p)
  BY <1>2, <1>3, TypeRead DEF Known
<1>5. d[<<"list", p>>] = Ok([list |-> <<>>], p + 1)
  <2>1. d[<<"list", p>>] = ListDecoder(d, s, p)
    BY <1>3 DEF Known
  <2>2. QED
    BY <1>4, <2>1 DEF ListDecoder, Ok
<1>6. d[<<"dict", p>>] = Ok([dict |-> <<>>], p + 1)
  <2>1. d[<<"dict", p>>] = DictDecoder(d, s, p)
    BY <1>3 DEF Known
  <2>2. QED
    BY <1>2, <2>1 DEF DictDecoder
<1>7. QED
  BY <1>5, <1>6

\* Where a text stands, its parts stand.
LEMMA HasBoth ==
  ASSUME NEW s \in Text, NEW p \in Nat \ {0}, NEW a \in Text, NEW b \in Text, NEW e \in Text,
         Has(s, p, (a \o b) \o e)
  PROVE  /\ p \in 1 .. Len(s) + 1 /\ Has(s, p, a)
         /\ p + Len(a) \in Nat \ {0} /\ Has(s, p + Len(a), b \o e)
<1>1. PICK t \in Text : t = b \o e
  BY TextJoin
<1>2. Has(s, p, a \o t)
  BY <1>1, TextAssoc
<1>3. Has(s, p, a) /\ Has(s, p + Len(a), t)
  BY <1>2, HasJoin
<1>4. Len(a) \in Nat /\ Len(s) \in Nat
  BY TextLen
<1>5. p \in 1 .. Len(s) + 1
  BY <1>3, <1>4 DEF Has
<1>6. p + Len(a) \in Nat \ {0}
  BY <1>4
<1>7. QED
  BY <1>1, <1>3, <1>5, <1>6

LEMMA ListMore ==
  ASSUME NEW s \in Text, NEW d, Known(d, s, 1), NEW easy,
         NEW code \in Text, NEW item, item # None, ReadsAs(d, s, easy, code, item),
         NEW t \in Text, NEW rest, Ends(d, s, easy, "list", t, rest)
  PROVE  Ends(d, s, easy, "list", code \o t, <<item>> \o rest)
<1>1. PICK e \in Text : e = One(CharE)
  BY CharsAre, OneIs
<1>2. SUFFICES ASSUME NEW p \in Nat \ {0}, Has(s, p, (code \o t) \o e),
                      easy \/ d[<<"list", p>>].kind = "value"
               PROVE  d[<<"list", p>>] = Ok([list |-> <<item>> \o rest], p + Len(code \o t) + 1)
  BY <1>1 DEF Ends, Gives, Made
<1>3. p \in 1 .. Len(s) + 1 /\ Has(s, p, code)
  BY <1>2, HasBoth
<1>4. PICK q \in Nat \ {0} : q = p + Len(code) /\ Has(s, q, t \o e)
  BY <1>2, HasBoth
<1>5. Gives(easy, d[<<"core", p>>], Ok(item, q))
  BY <1>3, <1>4 DEF ReadsAs
<1>6. Gives(easy, d[<<"list", q>>], Ok([list |-> rest], q + Len(t) + 1))
  BY <1>1, <1>4 DEF Ends, Made
<1>7. d[<<"list", p>>] = ListDecoder(d, s, p)
  BY <1>3 DEF Known
<1>8. easy \/ d[<<"core", p>>].kind = "value"
  BY <1>2, <1>7 DEF ListDecoder
<1>9. d[<<"core", p>>] = Ok(item, q)
  BY <1>5, <1>8 DEF Gives
<1>10. /\ d[<<"core", p>>].kind = "value"
       /\ d[<<"core", p>>].value = item /\ d[<<"core", p>>].pos = q
  BY <1>9, OkIs
<1>11. ListDecoder(d, s, p) = IF d[<<"list", q>>].kind # "value" THEN d[<<"list", q>>]
            ELSE Ok([list |-> <<item>> \o d[<<"list", q>>].value.list], d[<<"list", q>>].pos)
  BY <1>10 DEF ListDecoder
<1>12. easy \/ d[<<"list", q>>].kind = "value"
  BY <1>2, <1>7, <1>11
<1>13. d[<<"list", q>>] = Ok([list |-> rest], q + Len(t) + 1)
  BY <1>6, <1>12 DEF Gives
<1>14. /\ d[<<"list", q>>].kind = "value"
       /\ d[<<"list", q>>].value.list = rest /\ d[<<"list", q>>].pos = q + Len(t) + 1
  BY <1>13, OkIs
<1>15. ListDecoder(d, s, p) = Ok([list |-> <<item>> \o rest], q + Len(t) + 1)
  BY <1>11, <1>14
<1>16. q + Len(t) + 1 = p + Len(code \o t) + 1
  <2>1. Len(code \o t) = Len(code) + Len(t) /\ Len(code) \in Nat /\ Len(t) \in Nat
    BY TextJoin, TextLen
  <2>2. QED
    BY <1>4, <2>1
<1>17. QED
  BY <1>7, <1>15, <1>16

LEMMA DictMore ==
  ASSUME NEW s \in Text, NEW d, Known(d, s, 1), NEW key \in Text,
         NEW easy, easy => Len(key) < IntLimit,
         NEW code \in Text, NEW item, ReadsAs(d, s, easy, code, item),
         NEW t \in Text, NEW rest, Ends(d, s, easy, "dict", t, rest),
         NEW pair, pair = StringCode(key) \o code
  PROVE  /\ pair \in Text
         /\ Ends(d, s, easy, "dict", pair \o t, << <<key, item>> >> \o rest)
<1>0. PICK e \in Text, c \in Text : e = One(CharE) /\ c = StringCode(key)
  <2>1. One(CharE) \in Text
    BY CharsAre, OneIs
  <2>2. StringCode(key) \in Text
    <3>1. PICK x \in Text : x = Decimal(Len(key))
      BY TextLen, ReadBack
    <3>2. PICK y \in Text : y = One(Colon)
      BY CharsAre, OneIs
    <3>3. (x \o y) \o key \in Text
      BY HasThree
    <3>4. QED
      BY <3>1, <3>2, <3>3 DEF StringCode, One
  <2>3. QED
    BY <2>1, <2>2
<1>1. pair = c \o code /\ pair \in Text
  BY <1>0, TextJoin
<1>2. SUFFICES ASSUME NEW p \in Nat \ {0}, Has(s, p, (pair \o t) \o e),
                      easy \/ d[<<"dict", p>>].kind = "value"
               PROVE  d[<<"dict", p>>] =
                        Ok([dict |-> << <<key, item>> >> \o rest], p + Len(pair \o t) + 1)
  BY <1>0, <1>1 DEF Ends, Gives, Made
<1>3. p \in 1 .. Len(s) + 1 /\ Has(s, p, pair)
  BY <1>1, <1>2, HasBoth
<1>4. PICK r \in Nat \ {0} : r = p + Len(pair) /\ Has(s, r, t \o e)
  BY <1>1, <1>2, HasBoth
<1>5. Has(s, p, c) /\ Has(s, p + Len(c), code)
  BY <1>1, <1>3, HasJoin
<1>6. PICK q \in Nat \ {0} : q = p + Len(c)
  BY TextLen
<1>7. r = q + Len(code)
  <2>1. Len(pair) = Len(c) + Len(code) /\ Len(c) \in Nat /\ Len(code) \in Nat
    BY <1>1, TextJoin, TextLen
  <2>2. QED
    BY <1>4, <1>6, <2>1
<1>8. At(s, p) \in Digit /\ Gives(easy, StringDecoder(s, p), Ok([str |-> key], q))
  BY <1>0, <1>5, <1>6, StringReads
<1>9. Gives(easy, d[<<"core", q>>], Ok(item, r))
  BY <1>5, <1>6, <1>7 DEF ReadsAs
<1>10. Gives(easy, d[<<"dict", r>>], Ok([dict |-> rest], r + Len(t) + 1))
  BY <1>0, <1>4 DEF Ends, Made
<1>11. d[<<"dict", p>>] = DictDecoder(d, s, p) /\ At(s, p) # CharE
  BY <1>3, <1>8, DigitsAre DEF Known
<1>12. PICK k, v, o : /\ k = StringDecoder(s, p)
                      /\ v = d[<<"core", k.pos>>]
                      /\ o = d[<<"dict", v.pos>>]
  OBVIOUS
<1>13. DictDecoder(d, s, p) = DictFrom(s, p, k, v, o)
  BY <1>12 DEF DictDecoder, DictFrom
<1>14. easy \/ k.kind = "value"
  BY <1>2, <1>8, <1>11, <1>13 DEF DictFrom
<1>15. k = Ok([str |-> key], q) /\ k.kind = "value" /\ k.pos = q /\ k.value.str = key
  BY <1>8, <1>12, <1>14, OkIs DEF Gives
<1>16. easy \/ v.kind = "value"
  BY <1>2, <1>8, <1>11, <1>13, <1>15 DEF DictFrom
<1>17. v = Ok(item, r) /\ v.kind = "value" /\ v.pos = r /\ v.value = item
  <2>1. v = d[<<"core", q>>]
    BY <1>12, <1>15
  <2>2. v = Ok(item, r)
    BY <1>9, <1>16, <2>1 DEF Gives
  <2>3. QED
    BY <2>2, OkIs
<1>18. easy \/ o.kind = "value"
  BY <1>2, <1>8, <1>11, <1>13, <1>15, <1>17 DEF DictFrom
<1>19. /\ o = Ok([dict |-> rest], r + Len(t) + 1) /\ o.kind = "value"
       /\ o.pos = r + Len(t) + 1 /\ o.value.dict = rest
  BY <1>10, <1>12, <1>17, <1>18, OkIs DEF Gives
<1>20. DictFrom(s, p, k, v, o) = Ok([dict |-> << <<key, item>> >> \o rest], r + Len(t) + 1)
  BY <1>8, <1>11, <1>15, <1>17, <1>19 DEF DictFrom
<1>21. r + Len(t) + 1 = p + Len(pair \o t) + 1
  <2>1. Len(pair \o t) = Len(pair) + Len(t) /\ Len(pair) \in Nat /\ Len(t) \in Nat
    BY <1>1, TextJoin, TextLen
  <2>2. QED
    BY <1>4, <2>1
<1>22. QED
  BY <1>1, <1>11, <1>13, <1>20, <1>21

\* A list or a dictionary stands where it is opened and its rest follows.
LEMMA OpensAs ==
  ASSUME NEW s \in Text, NEW d, Known(d, s, 1), NEW easy, NEW name, NEW open,
         (name = "list" /\ open = CharL) \/ (name = "dict" /\ open = CharD),
         NEW t \in Text, NEW items, Ends(d, s, easy, name, t, items),
         NEW code, code = (One(open) \o t) \o One(CharE)
  PROVE  code \in Text /\ ReadsAs(d, s, easy, code, Made(name, items))
<1>1. PICK a \in Text, e \in Text : a = One(open) /\ e = One(CharE) /\ Len(a) = 1 /\ Len(e) = 1
  <2>1. open \in Nat /\ CharE \in Nat
    BY CharsAre
  <2>2. QED
    BY <2>1, OneIs
<1>2. code = (a \o t) \o e
  BY <1>1
<1>3. code \in Text /\ Len(code) = Len(a) + Len(t) + Len(e)
  BY <1>2, HasThree
<1>4. ASSUME NEW p \in Nat \ {0}, Has(s, p, code)
      PROVE  Gives(easy, d[<<"core", p>>], Ok(Made(name, items), p + Len(code)))
  <2>1. p \in 1 .. Len(s) + 1 /\ Has(s, p, a)
    BY <1>2, <1>4, HasBoth
  <2>2. PICK q \in Nat \ {0} : q = p + 1 /\ Has(s, q, t \o e)
    <3>1. p + Len(a) \in Nat \ {0} /\ Has(s, p + Len(a), t \o e)
      BY <1>2, <1>4, HasBoth
    <3>2. QED
      BY <1>1, <3>1
  <2>3. At(s, p) = open
    <3>1. open \in Nat /\ open % 256 = open
      BY CharsAre
    <3>2. QED
      BY <1>1, <2>1, <3>1, HasOne
  <2>4. CoreDecoder(d, s, p) = d[<<name, q>>]
    <3>1. CASE name = "list" /\ open = CharL
      <4>0. At(s, p) = CharL
        BY <2>3, <3>1
      <4>1. CoreDecoder(d, s, p) = d[<<"list", p + 1>>]
        BY <4>0, TypeRead
      <4>2. QED
        BY <2>2, <3>1, <4>1
    <3>2. CASE name = "dict" /\ open = CharD
      <4>0. At(s, p) = CharD
        BY <2>3, <3>2
      <4>1. CoreDecoder(d, s, p) = d[<<"dict", p + 1>>]
        BY <4>0, TypeRead
      <4>2. QED
        BY <2>2, <3>2, <4>1
    <3>3. QED
      BY <3>1, <3>2
  <2>5. d[<<"core", p>>] = d[<<name, q>>]
    BY <2>1, <2>4 DEF Known
  <2>6. Gives(easy, d[<<name, q>>], Ok(Made(name, items), q + Len(t) + 1))
    BY <1>1, <2>2 DEF Ends
  <2>7. q + Len(t) + 1 = p + Len(code)
    <3>1. Len(code) = 1 + Len(t) + 1 /\ Len(t) \in Nat
      BY <1>1, <1>3, TextLen
    <3>2. QED
      BY <2>2, <3>1
  <2>8. QED
    BY <2>5, <2>6, <2>7
<1>5. QED
  BY <1>3, <1>4 DEF ReadsAs

-----------------------------------------------------------------------------
(***************************************************************************)
(* The codes of values.                                                    *)
(***************************************************************************)
LEMMA WideChars ==
  /\ One(CharI) \in Wide /\ One(CharL) \in Wide /\ One(CharD) \in Wide
  /\ One(CharE) \in Wide /\ One(Colon) \in Wide /\ Digit \subseteq Char
<1>1. \A c \in 0 .. 127 : c \in Char
  <2>1. Greatest[6] \in Nat /\ 127 <= Greatest[6]
    BY SMT DEF Greatest
  <2>2. QED
    BY <2>1 DEF Char
<1>2. /\ CharI \in Char /\ CharL \in Char /\ CharD \in Char /\ CharE \in Char
      /\ Colon \in Char /\ Digit \subseteq Char
  BY <1>1 DEF CharI, CharL, CharD, CharE, Colon, Digit
<1>3. QED
  BY <1>2, WideOne

LEMMA DecimalWide == ASSUME NEW n \in Nat PROVE Decimal(n) \in Wide
<1>1. PICK t \in Text : t = Decimal(n) /\ \A i \in 1 .. Len(t) : t[i] \in Digit
  BY ReadBack
<1>2. \A i \in 1 .. Len(t) : t[i] \in Char
  BY <1>1, WideChars
<1>3. t \in Seq(Char)
  BY <1>2 DEF Text
<1>4. QED
  BY <1>1, <1>3 DEF Wide

LEMMA StringCodeWide == ASSUME NEW x \in Wide PROVE StringCode(x) \in Wide
<1>1. PICK t \in Wide : t = Decimal(Len(x))
  <2>1. Len(x) \in Nat
    BY WideText, TextLen
  <2>2. QED
    BY <2>1, DecimalWide
<1>2. PICK e \in Wide : e = One(Colon)
  BY WideChars
<1>3. (t \o e) \o x \in Wide
  BY WideJoin
<1>4. QED
  BY <1>1, <1>2, <1>3 DEF StringCode, One

LEMMA FlatReads ==
  ASSUME NEW s \in Text, NEW d, Known(d, s, 1), NEW v \in Simple,
         NEW easy, easy => FlatFits(v)
  PROVE  /\ Flat(v) \in Wide /\ Item(v) = Flat(v) /\ v # None
         /\ ReadsAs(d, s, easy, Flat(v), v)
<1>1. CASE v \in [int : Nat]
  <2>1. PICK n \in Nat : v = [int |-> n] /\ DOMAIN v = {"int"}
    BY <1>1
  <2>2. PICK t \in Wide, a \in Wide, e \in Wide :
          t = Decimal(n) /\ a = One(CharI) /\ e = One(CharE)
    BY DecimalWide, WideChars
  <2>3. Flat(v) = (a \o t) \o e /\ Item(v) = (a \o t) \o e
    BY <2>1, <2>2 DEF Flat, Item, CodeOf, One
  <2>4. (a \o t) \o e \in Wide
    BY WideJoin
  <2>5. v # None
    <3>1. DOMAIN None = {"none"}
      BY DEF None
    <3>2. QED
      BY <2>1, <3>1
  <2>6. ASSUME NEW p \in Nat \ {0}, Has(s, p, Flat(v))
        PROVE  Gives(easy, d[<<"core", p>>], Ok(v, p + Len(Flat(v))))
    <3>1. PICK code \in Text : code = Flat(v)
      BY <2>3, <2>4, WideText
    <3>2. code = Flat([int |-> n])
      BY <2>1, <3>1
    <3>0. easy => n < IntLimit
      BY <2>1 DEF FlatFits
    <3>3. Gives(easy, CoreDecoder(d, s, p), Ok([int |-> n], p + Len(code)))
      BY <2>6, <3>0, <3>1, <3>2, IntReads
    <3>4. p \in 1 .. Len(s) + 1
      BY <2>6, <3>1, TextLen DEF Has
    <3>5. QED
      BY <2>1, <3>1, <3>3, <3>4 DEF Known
  <2>7. QED
    BY <2>3, <2>4, <2>5, <2>6 DEF ReadsAs
<1>2. CASE v \in [str : Seq(Char)]
  <2>1. PICK x \in Wide : v = [str |-> x] /\ DOMAIN v = {"str"}
    BY <1>2 DEF Wide
  <2>2. PICK code \in Wide : code = StringCode(x)
    BY StringCodeWide
  <2>3. Flat(v) = code /\ Item(v) = code
    BY <2>1, <2>2 DEF Flat, Item, CodeOf
  <2>5. v # None
    <3>1. DOMAIN None = {"none"}
      BY DEF None
    <3>2. QED
      BY <2>1, <3>1
  <2>6. ASSUME NEW p \in Nat \ {0}, Has(s, p, code)
        PROVE  Gives(easy, d[<<"core", p>>], Ok(v, p + Len(code)))
    <3>1. x \in Text /\ code \in Text
      BY WideText
    <3>2. At(s, p) \in Digit /\ Gives(easy, StringDecoder(s, p), Ok([str |-> x], p + Len(code)))
      <4>1. easy => Len(x) < IntLimit
        BY <2>1 DEF FlatFits
      <4>2. QED
        BY <2>2, <2>6, <3>1, <4>1, StringReads
    <3>3. CoreDecoder(d, s, p) = StringDecoder(s, p)
      BY <3>2, TypeRead
    <3>4. p \in 1 .. Len(s) + 1
      BY <2>6, <3>1, TextLen DEF Has
    <3>5. QED
      BY <2>1, <3>2, <3>3, <3>4 DEF Known
  <2>7. QED
    BY <2>3, <2>5, <2>6 DEF ReadsAs
<1>3. QED
  BY <1>1, <1>2 DEF Simple

LEMMA ItemReads ==
  ASSUME NEW s \in Text, NEW d, Known(d, s, 1), NEW v \in Simple \cup [list : Seq(Simple)],
         NEW easy, easy => ItemFits(v)
  PROVE  Item(v) \in Wide /\ ReadsAs(d, s, easy, Item(v), v)
<1>1. CASE v \in Simple
  <2>1. "list" \notin DOMAIN v
    BY <1>1 DEF Simple
  <2>2. easy => FlatFits(v)
    BY <2>1 DEF ItemFits
  <2>3. QED
    BY <1>1, <2>2, FlatReads
<1>2. CASE v \in [list : Seq(Simple)]
  <2>1. PICK l \in Seq(Simple) : v = [list |-> l] /\ DOMAIN v = {"list"}
    BY <1>2
  <2>2. PICK N \in Nat : N = Len(l) /\ \A k \in 1 .. N : l[k] \in Simple
    BY <2>1
  <2> DEFINE codes == [k \in 1 .. N |-> Flat(l[k])]
  <2>0. \A k \in 1 .. N : easy => FlatFits(l[k])
    <3>1. DOMAIN v.list = 1 .. N /\ v.list = l
      BY <2>1, <2>2
    <3>2. QED
      BY <2>1, <3>1 DEF ItemFits
  <2>3. \A k \in 1 .. N : codes[k] = Flat(l[k]) /\ codes[k] \in Wide /\ codes[k] \in Text
    BY <2>0, <2>2, FlatReads, WideText
  <2>4. codes \in Seq(Text) /\ Len(codes) = N
    BY <2>3
  <2>5. Item(v) = (One(CharL) \o FlattenSeq(codes)) \o One(CharE)
    BY <2>1, <2>2 DEF Item, CodeOf, One
  <2> HIDE DEF codes
  <2>6. Ends(d, s, easy, "list", <<>>, <<>>)
    BY EndReads
  <2>7. ASSUME NEW k \in 1 .. N, NEW t \in Text, NEW rest \in Seq(Simple),
               Ends(d, s, easy, "list", t, rest)
        PROVE  Ends(d, s, easy, "list", codes[k] \o t, <<l[k]>> \o rest)
    <3>1. PICK code \in Text, item \in Simple : code = codes[k] /\ item = l[k]
      BY <2>2, <2>3
    <3>2. item # None /\ ReadsAs(d, s, easy, code, item)
      BY <2>0, <2>3, <3>1, FlatReads
    <3>3. Ends(d, s, easy, "list", code \o t, <<item>> \o rest)
      BY <2>7, <3>2, ListMore
    <3>4. QED
      BY <3>1, <3>3
  <2>8. Ends(d, s, easy, "list", FlattenSeq(codes), l)
    BY <2>2, <2>4, <2>6, <2>7, EndsAll
  <2>9. PICK t \in Wide : t = FlattenSeq(codes)
    BY <2>3, <2>4, FlattenWide
  <2>10. ReadsAs(d, s, easy, Item(v), Made("list", l))
    <3>1. Item(v) = (One(CharL) \o t) \o One(CharE) /\ Ends(d, s, easy, "list", t, l) /\ t \in Text
      BY <2>5, <2>8, <2>9, WideText
    <3>2. QED
      BY <3>1, OpensAs
  <2>11. Item(v) \in Wide
    <3>1. One(CharL) \o t \in Wide
      BY WideChars, WideJoin
    <3>2. (One(CharL) \o t) \o One(CharE) \in Wide
      BY <3>1, WideChars, WideJoin
    <3>3. QED
      BY <2>5, <2>9, <3>2
  <2>12. QED
    BY <2>1, <2>10, <2>11 DEF Made
<1>3. QED
  BY <1>1, <1>2

LEMMA CodeReads ==
  ASSUME NEW s \in Text, NEW d, Known(d, s, 1), NEW m \in Message,
         NEW easy, easy => Fits(m)
  PROVE  /\ Code(m) \in Wide /\ Len(Code(m)) > 0
         /\ ReadsAs(d, s, easy, Code(m), m)
<1> DEFINE Value == Simple \cup [list : Seq(Simple)]
           Pair == Wide \X Value
<1>1. PICK l \in Seq(Pair) : m = [dict |-> l] /\ DOMAIN m = {"dict"}
  BY DEF Message, Wide
<1>2. PICK N \in Nat : N = Len(l) /\ \A k \in 1 .. N : l[k] \in Pair
  BY <1>1
<1> DEFINE codes == [k \in 1 .. N |-> StringCode(l[k][1]) \o Item(l[k][2])]
<1>3. ASSUME NEW k \in 1 .. N
      PROVE  /\ codes[k] \in Wide /\ codes[k] \in Text
             /\ \A t \in Text, rest \in Seq(Pair) : Ends(d, s, easy, "dict", t, rest)
                  => Ends(d, s, easy, "dict", codes[k] \o t, <<l[k]>> \o rest)
  <2>1. PICK key \in Wide, item \in Value : l[k] = <<key, item>>
    BY <1>2
  <2>0. easy => Len(key) < IntLimit /\ ItemFits(item)
    <3>1. DOMAIN m.dict = 1 .. N /\ m.dict = l
      BY <1>1, <1>2
    <3>2. l[k][1] = key /\ l[k][2] = item
      BY <2>1
    <3>3. QED
      BY <3>1, <3>2 DEF Fits
  <2>2. PICK code \in Wide : code = Item(item) /\ ReadsAs(d, s, easy, code, item)
    BY <2>0, ItemReads
  <2>3. codes[k] = StringCode(key) \o code
    <3>1. codes[k] = StringCode(l[k][1]) \o Item(l[k][2])
      OBVIOUS
    <3>2. l[k][1] = key /\ l[k][2] = item
      BY <2>1
    <3> HIDE DEF codes
    <3>3. QED
      BY <2>2, <3>1, <3>2
  <2>4. codes[k] \in Wide
    BY <2>3, StringCodeWide, WideJoin
  <2> HIDE DEF codes, Pair, Value
  <2>5. codes[k] \in Text /\ key \in Text /\ code \in Text
    BY <2>4, WideText
  <2>6. ASSUME NEW t \in Text, NEW rest \in Seq(Pair), Ends(d, s, easy, "dict", t, rest)
        PROVE  Ends(d, s, easy, "dict", codes[k] \o t, <<l[k]>> \o rest)
    <3>1. Ends(d, s, easy, "dict", codes[k] \o t, << <<key, item>> >> \o rest)
      BY <2>0, <2>2, <2>3, <2>5, <2>6, DictMore
    <3>2. QED
      BY <2>1, <3>1
  <2>7. QED
    BY <2>4, <2>5, <2>6
<1>4. codes \in Seq(Text) /\ Len(codes) = N
  <2>1. \A k \in 1 .. N : codes[k] \in Text
    BY <1>3
  <2>2. QED
    BY <2>1
<1>5. Code(m) = (One(CharD) \o FlattenSeq(codes)) \o One(CharE)
  BY <1>1, <1>2 DEF Code, CodeOf, One
<1> HIDE DEF codes, Pair, Value
<1>6. Ends(d, s, easy, "dict", <<>>, <<>>)
  BY EndReads
<1>7. Ends(d, s, easy, "dict", FlattenSeq(codes), l)
  BY <1>2, <1>3, <1>4, <1>6, EndsAll
<1>8. PICK t \in Wide : t = FlattenSeq(codes)
  BY <1>3, <1>4, FlattenWide
<1>9. ReadsAs(d, s, easy, Code(m), Made("dict", l))
  <2>1. Code(m) = (One(CharD) \o t) \o One(CharE) /\ Ends(d, s, easy, "dict", t, l) /\ t \in Text
    BY <1>5, <1>7, <1>8, WideText
  <2>2. QED
    BY <2>1, OpensAs
<1>10. Code(m) \in Wide
  <2>1. One(CharD) \o t \in Wide
    BY WideChars, WideJoin
  <2>2. (One(CharD) \o t) \o One(CharE) \in Wide
    BY <2>1, WideChars, WideJoin
  <2>3. QED
    BY <1>5, <1>8, <2>2
<1>11. Len(Code(m)) > 0
  <2>1. PICK a \in Text, x \in Text, e \in Text :
          /\ a = One(CharD) /\ x = t /\ e = One(CharE) /\ Len(a) = 1
    BY <1>8, CharsAre, OneIs, WideText
  <2>2. Len((a \o x) \o e) = Len(a) + Len(x) + Len(e)
    BY HasThree
  <2>3. Len(x) \in Nat /\ Len(e) \in Nat
    BY TextLen
  <2>4. Code(m) = (a \o x) \o e
    BY <1>5, <1>8, <2>1
  <2>5. QED
    BY <2>1, <2>2, <2>3, <2>4
<1>12. QED
  BY <1>1, <1>9, <1>10, <1>11 DEF Made

\* A text that starts with the code of a message is decoded as that message, and the place
\* after it is where its code ends, if every number in it is one that std::stoll reads;
\* otherwise it is not decoded, or as that message as well (Decoder::decode of what
\* Dictionary::code writes).
THEOREM RoundTrip ==
  ASSUME NEW m \in Message, NEW q \in Wide, NEW s, s = Code(m) \o q,
         Fits(m) \/ Decode(s).kind = "value"
  PROVE  Code(m) \in Wide /\ Decode(s) = Ok(m, Len(Code(m)) + 1)
<1>1. Code(m) \in Wide
  <2>1. PICK d : Known(d, <<>>, 1)
    BY TextEmpty, DecodeIs
  <2>2. Fits(m) => Fits(m)
    OBVIOUS
  <2>3. QED
    BY <2>1, <2>2, TextEmpty, CodeReads
<1>2. PICK c \in Wide : c = Code(m)
  BY <1>1
<1>3. s \in Text /\ c \in Text /\ q \in Text
  BY <1>2, WideJoin, WideText
<1>4. PICK d : Known(d, s, 1) /\ Decode(s) = d[<<"core", 1>>]
  BY <1>3, DecodeIs
<1>5. Has(s, 1, c)
  <2>1. /\ Len(s) = Len(c) + Len(q) /\ Len(c) \in Nat /\ Len(q) \in Nat
        /\ \A i \in 1 .. Len(c) : s[i] = c[i]
    BY <1>2, <1>3, ConcatProperties, TextLen DEF Text
  <2>2. \A i \in Nat : 1 + i - 1 = i
    OBVIOUS
  <2>3. QED
    BY <2>1, <2>2 DEF Has
<1>6. ReadsAs(d, s, Fits(m), c, m)
  BY <1>2, <1>3, <1>4, CodeReads
<1>7. Gives(Fits(m), d[<<"core", 1>>], Ok(m, 1 + Len(c)))
  BY <1>5, <1>6 DEF ReadsAs
<1>8. Decode(s) = Ok(m, 1 + Len(c))
  BY <1>4, <1>7 DEF Gives
<1>9. 1 + Len(c) = Len(c) + 1
  BY <1>3, TextLen
<1>10. QED
  BY <1>2, <1>8, <1>9
=============================================================================
