------------------------ MODULE MessageStreamProofs ------------------------
(***************************************************************************)
(* However the two streams are cut and whatever was answered too early,    *)
(* what has not been handled yet is what the buffer and the bytes under    *)
(* way hold, no more and no less: from this follow the order and the       *)
(* wholeness of what each side takes, and that neither waits in vain.      *)
(***************************************************************************)
EXTENDS MessageStream, BencodeProofs

-----------------------------------------------------------------------------
(***************************************************************************)
(* The codes of several messages.                                          *)
(***************************************************************************)
Codes(todo) == [k \in 1 .. Len(todo) |-> Code(todo[k])]
CodeAll(todo) == FlattenSeq(Codes(todo))
Messages == Seq(Message)
Single(m) == <<m>>

LEMMA CodeWide == \A m \in Message : Code(m) \in Wide
<1>1. PICK d : Known(d, <<>>, 1)
  BY TextEmpty, DecodeIs
<1>2. \A m \in Message : Fits(m) => Fits(m)
  OBVIOUS
<1>3. QED
  BY <1>1, <1>2, TextEmpty, CodeReads

LEMMA CodesType ==
  ASSUME NEW todo \in Messages
  PROVE  Codes(todo) \in Seq(Text) /\ CodeAll(todo) \in Wide
<1>1. PICK N \in Nat : N = Len(todo) /\ \A k \in 1 .. N : todo[k] \in Message
  BY DEF Messages
<1>2. \A k \in 1 .. N : Code(todo[k]) \in Wide /\ Code(todo[k]) \in Text
  BY <1>1, CodeWide, WideText
<1>3. /\ Codes(todo) \in Seq(Text) /\ Len(Codes(todo)) = N
      /\ \A k \in 1 .. N : Codes(todo)[k] \in Wide
  BY <1>1, <1>2 DEF Codes
<1>4. QED
  BY <1>3, FlattenWide DEF CodeAll

LEMMA CodeAllEmpty == CodeAll(<<>>) = <<>>
<1>1. Codes(<<>>) = <<>>
  BY DEF Codes
<1>2. QED
  BY <1>1, FlattenEmpty DEF CodeAll

LEMMA CodeAllOne == \A m \in Message : CodeAll(Single(m)) = Code(m)
<1> SUFFICES ASSUME NEW m \in Message PROVE CodeAll(Single(m)) = Code(m)
  OBVIOUS
<1>1. Codes(Single(m)) = <<Code(m)>>
  BY DEF Codes, Single
<1>2. Code(m) \in Text
  BY CodeWide, WideText
<1>3. QED
  BY <1>1, <1>2, FlattenOne DEF CodeAll

LEMMA CodeAllJoin ==
  ASSUME NEW a \in Messages, NEW b \in Messages
  PROVE  a \o b \in Messages /\ CodeAll(a \o b) = CodeAll(a) \o CodeAll(b)
<1>1. /\ Len(a) \in Nat /\ Len(b) \in Nat
      /\ a \o b \in Seq(Message) /\ Len(a \o b) = Len(a) + Len(b)
      /\ \A k \in 1 .. Len(a) + Len(b) :
           (a \o b)[k] = IF k <= Len(a) THEN a[k] ELSE b[k - Len(a)]
  BY ConcatProperties, LenProperties DEF Messages
<1>2. PICK ab \in Messages : ab = a \o b
  BY <1>1 DEF Messages
<1>3. PICK A \in Nat, N \in Nat : A = Len(a) /\ N = Len(b) /\ Len(ab) = A + N
  BY <1>1, <1>2
<1>4. \A k \in 1 .. A + N : ab[k] = IF k <= A THEN a[k] ELSE b[k - A]
  BY <1>1, <1>2, <1>3
<1>5. PICK ca \in Seq(Text), cb \in Seq(Text) :
        /\ ca = Codes(a) /\ cb = Codes(b) /\ Len(ca) = A /\ Len(cb) = N
        /\ \A k \in 1 .. A : ca[k] = Code(a[k])
        /\ \A k \in 1 .. N : cb[k] = Code(b[k])
  <2>1. Codes(a) \in Seq(Text) /\ Codes(b) \in Seq(Text)
    BY CodesType
  <2>2. /\ Len(Codes(a)) = A /\ Len(Codes(b)) = N
        /\ \A k \in 1 .. A : Codes(a)[k] = Code(a[k])
        /\ \A k \in 1 .. N : Codes(b)[k] = Code(b[k])
    BY <1>3 DEF Codes
  <2>3. QED
    BY <2>1, <2>2
<1>6. PICK cab \in Seq(Text) : /\ cab = Codes(ab) /\ Len(cab) = A + N
                               /\ \A k \in 1 .. A + N : cab[k] = Code(ab[k])
  <2>1. Codes(ab) \in Seq(Text)
    BY CodesType
  <2>2. Len(Codes(ab)) = A + N /\ \A k \in 1 .. A + N : Codes(ab)[k] = Code(ab[k])
    BY <1>3 DEF Codes
  <2>3. QED
    BY <2>1, <2>2
<1>7. /\ ca \o cb \in Seq(Text) /\ Len(ca \o cb) = A + N
      /\ \A k \in 1 .. A + N : (ca \o cb)[k] = IF k <= A THEN ca[k] ELSE cb[k - A]
  <2>1. ca \o cb \in Seq(Text) /\ Len(ca \o cb) = Len(ca) + Len(cb)
    BY ConcatProperties
  <2>2. \A k \in 1 .. Len(ca) + Len(cb) :
          (ca \o cb)[k] = IF k <= Len(ca) THEN ca[k] ELSE cb[k - Len(ca)]
    BY ConcatProperties
  <2>3. QED
    BY <1>5, <2>1, <2>2
<1>8. ASSUME NEW k \in 1 .. A + N PROVE cab[k] = (ca \o cb)[k]
  <2>1. CASE k <= A
    <3>1. k \in 1 .. A
      BY <2>1
    <3>2. cab[k] = Code(a[k]) /\ (ca \o cb)[k] = ca[k]
      BY <1>4, <1>6, <1>7, <2>1
    <3>3. QED
      BY <1>5, <3>1, <3>2
  <2>2. CASE ~(k <= A)
    <3>1. k - A \in 1 .. N
      BY <2>2
    <3>2. cab[k] = Code(b[k - A]) /\ (ca \o cb)[k] = cb[k - A]
      BY <1>4, <1>6, <1>7, <2>2
    <3>3. QED
      BY <1>5, <3>1, <3>2
  <2>3. QED
    BY <2>1, <2>2
<1>9. cab = ca \o cb
  <2>1. Len(cab) = Len(ca \o cb) /\ \A k \in 1 .. Len(cab) : cab[k] = (ca \o cb)[k]
    BY <1>6, <1>7, <1>8
  <2>2. QED
    BY <1>7, <2>1, SeqEqual
<1>10. FlattenSeq(cab) = FlattenSeq(ca) \o FlattenSeq(cb)
  BY <1>9, FlattenJoin
<1>11. QED
  BY <1>2, <1>5, <1>6, <1>10 DEF CodeAll

\* The first message and those after it.
LEMMA FirstMessage ==
  ASSUME NEW todo \in Messages, todo # <<>>
  PROVE  \E m \in Message, rest \in Messages :
           todo = Single(m) \o rest /\ CodeAll(todo) = Code(m) \o CodeAll(rest)
<1>1. PICK m \in Message, rest \in Messages : todo = Single(m) \o rest
  <2>1. Len(todo) \in Nat \ {0}
    BY LenProperties, EmptySeq DEF Messages
  <2>2. todo[1] \in Message /\ Tail(todo) \in Seq(Message) /\ todo = <<Head(todo)>> \o Tail(todo)
    BY <2>1, HeadTailProperties, ElementOfSeq DEF Messages
  <2>3. Head(todo) = todo[1]
    BY DEF Head
  <2>4. QED
    BY <2>2, <2>3 DEF Messages, Single
<1>2. Single(m) \in Messages
  BY DEF Single, Messages
<1>3. CodeAll(todo) = CodeAll(Single(m)) \o CodeAll(rest)
  BY <1>1, <1>2, CodeAllJoin
<1>4. QED
  BY <1>1, <1>3, CodeAllOne

-----------------------------------------------------------------------------
(***************************************************************************)
(* One read.                                                               *)
(***************************************************************************)
\* What the buffer and the bytes under way hold is the code of these messages.
Holds(buf, bytes, todo) ==
  \E u \in Wide : buf \in Wide /\ bytes = Bytes(u) /\ buf \o u = CodeAll(todo)

LEMMA NothingDecoded == Decode(<<>>).kind # "value"
<1>1. PICK s \in Text : s = <<>> /\ Len(s) = 0
  BY TextEmpty
<1>2. PICK d : Known(d, s, 1) /\ Decode(s) = d[<<"core", 1>>]
  BY DecodeIs
<1>3. Decode(s) = CoreDecoder(d, s, 1)
  <2>1. 1 \in 1 .. Len(s) + 1
    BY <1>1
  <2>2. QED
    BY <1>2, <2>1 DEF Known
<1>4. CoreDecoder(d, s, 1).kind = "value" => 1 <= Len(s)
  BY CoreValue
<1>5. QED
  BY <1>1, <1>3, <1>4

IsFirst(todo, b, o, w) ==
  \E m \in Message, rest \in Messages :
    /\ todo = Single(m) \o rest /\ o.value = m
    /\ Rest(b, o) \in Wide /\ Rest(b, o) \o w = CodeAll(rest)

\* A message is whole in what has arrived if one is decoded from it; it is then
\* the first of those that are still to be handled.
LEMMA DecodedIsFirst ==
  ASSUME NEW todo \in Messages, NEW b \in Wide, NEW w \in Wide, b \o w = CodeAll(todo),
         Decode(b).kind = "value"
  PROVE  IsFirst(todo, b, Decode(b), w)
<1>1. PICK s \in Text : s = b \o w
  BY WideJoin, WideText
<1>2. b \in Text /\ w \in Text
  BY WideText
<1>3. /\ Len(s) = Len(b) + Len(w) /\ Len(b) \in Nat /\ Len(w) \in Nat
      /\ \A k \in 1 .. Len(b) : s[k] = b[k]
  BY <1>1, <1>2, ConcatProperties, TextLen DEF Text
<1>4. Longer(b, s)
  BY <1>3 DEF Longer
<1>5. Decode(s) = Decode(b) /\ Decode(b).pos \in 1 .. Len(b) + 1
  BY <1>2, <1>4, DecodeStable
<1>6. todo # <<>>
  <2>1. SUFFICES ASSUME todo = <<>> PROVE FALSE
    OBVIOUS
  <2>2. s = <<>>
    BY <1>1, <2>1, CodeAllEmpty
  <2>3. QED
    BY <1>5, <2>2, NothingDecoded
<1>7. PICK m \in Message, rest \in Messages :
        todo = Single(m) \o rest /\ CodeAll(todo) = Code(m) \o CodeAll(rest)
  BY <1>6, FirstMessage
<1>8. PICK c \in Wide, q \in Wide : c = Code(m) /\ q = CodeAll(rest)
  BY <1>7, CodeWide, CodesType
<1>9. s = c \o q /\ c \in Text /\ q \in Text
  BY <1>1, <1>7, <1>8, WideText
<1>10. Decode(s) = Ok(m, Len(c) + 1)
  <2>1. s = Code(m) \o q /\ Decode(s).kind = "value"
    BY <1>5, <1>8, <1>9
  <2>2. QED
    BY <1>8, <2>1, RoundTrip
<1>11. PICK n \in Nat : n = Len(c) /\ n <= Len(b)
  <2>1. Len(c) \in Nat
    BY <1>9, TextLen
  <2>2. Decode(b).pos = Len(c) + 1
    BY <1>5, <1>10, OkIs
  <2>3. QED
    BY <1>3, <1>5, <2>1, <2>2
<1>12. Rest(b, Decode(b)) = SubSeq(b, n + 1, Len(b))
  <2>1. Decode(b) = Ok(m, n + 1)
    BY <1>5, <1>10, <1>11
  <2>2. Decode(b).pos = n + 1 /\ Decode(b).kind = "value"
    BY <2>1, OkIs
  <2>3. QED
    BY <2>2 DEF Rest
<1>13. PICK x \in Wide, r \in Wide : /\ x = SubSeq(b, 1, n) /\ r = SubSeq(b, n + 1, Len(b))
                                     /\ b = x \o r /\ Len(x) = n
  <2>1. SubSeq(b, 1, n) \in Wide /\ SubSeq(b, n + 1, Len(b)) \in Wide
    BY <1>3, <1>11 DEF Wide
  <2>2. n \in 0 .. Len(b)
    BY <1>3, <1>11
  <2>3. b = SubSeq(b, 1, n) \o SubSeq(b, n + 1, Len(b)) /\ Len(SubSeq(b, 1, n)) = n
    BY <1>2, <2>2, Split
  <2>4. QED
    BY <2>1, <2>3
<1>14. x \in Text /\ r \in Text
  BY <1>13, WideText
<1>15. s = x \o (r \o w) /\ r \o w \in Text
  <2>0. r \o w \in Text
    BY <1>2, <1>14, TextJoin
  <2>1. (x \o r) \o w = x \o (r \o w) /\ r \o w \in Text
    BY <1>2, <1>14, <2>0, TextAssoc
  <2>2. s = (x \o r) \o w
    BY <1>1, <1>13
  <2>3. QED
    BY <2>1, <2>2
<1>16. x = c
  <2>1. SubSeq(x \o (r \o w), 1, Len(x)) = x
    BY <1>14, <1>15, Unsplit
  <2>2. SubSeq(c \o q, 1, Len(c)) = c
    BY <1>9, Unsplit
  <2>3. QED
    BY <1>9, <1>11, <1>13, <1>15, <2>1, <2>2
<1>17. r \o w = q
  BY <1>9, <1>15, <1>16, TextCancel
<1>18. Decode(b).value = m
  BY <1>5, <1>10, OkIs
<1>19. QED
  BY <1>7, <1>8, <1>12, <1>13, <1>17, <1>18 DEF IsFirst

\* A message is taken, the first of those that were held, or none is and they all
\* still are.
AfterRead(todo, o, buf, bytes) ==
  \E rest \in Messages :
    /\ Holds(buf, bytes, rest)
    /\ \/ /\ Taken(o) /\ o.kind = "value" /\ o.value \in Message
          /\ todo = Single(o.value) \o rest
       \/ ~Taken(o) /\ todo = rest /\ o.kind # "value"

\* A read of any size, if it does not throw.
LEMMA ReadStep ==
  ASSUME NEW todo \in Messages, NEW buf, NEW bytes, Holds(buf, bytes, todo),
         NEW size \in 1 .. Len(bytes),
         NEW decoded, decoded = FromUtf8(SubSeq(bytes, 1, size)), ~Throws(decoded),
         NEW b, b = buf \o decoded.result, NEW o, o = Decode(b)
  PROVE  AfterRead(todo, o, Rest(b, o), SubSeq(bytes, size + 1, Len(bytes)))
<1>1. PICK u \in Wide : buf \in Wide /\ bytes = Bytes(u) /\ buf \o u = CodeAll(todo)
  BY DEF Holds
<1>2. PICK n \in 0 .. Len(Bytes(u)) : n = size
  <2>1. Len(Bytes(u)) \in Nat
    BY BytesType, TextLen
  <2>2. size \in 0 .. Len(Bytes(u))
    BY <1>1, <2>1
  <2>3. QED
    BY <2>2
<1>3. PICK v \in Wide, w \in Wide :
        /\ decoded.result = v /\ u = v \o w
        /\ SubSeq(bytes, size + 1, Len(bytes)) = Bytes(w)
  <2>1. decoded = FromUtf8(SubSeq(Bytes(u), 1, n))
    BY <1>1, <1>2
  <2>2. Leaves(u, n, decoded.result)
    BY <2>1, Utf8Read
  <2>3. PICK w \in Wide : /\ decoded.result \in Wide /\ u = decoded.result \o w
                          /\ SubSeq(Bytes(u), n + 1, Len(Bytes(u))) = Bytes(w)
    BY <2>2 DEF Leaves
  <2>4. QED
    BY <1>1, <1>2, <2>3
<1>4. b \in Wide /\ b \o w = CodeAll(todo)
  <2>1. b = buf \o v
    BY <1>3
  <2>2. b \in Wide
    BY <1>1, <2>1, WideJoin
  <2>3. (buf \o v) \o w = buf \o (v \o w)
    BY <1>1, WideText, TextAssoc
  <2>4. QED
    BY <1>1, <1>3, <2>1, <2>2, <2>3
<1>5. CASE o.kind = "value"
  <2>1. PICK m \in Message, rest \in Messages :
          /\ todo = Single(m) \o rest /\ o.value = m
          /\ Rest(b, o) \in Wide /\ Rest(b, o) \o w = CodeAll(rest)
    <3>1. Decode(b).kind = "value"
      BY <1>5
    <3>2. IsFirst(todo, b, Decode(b), w)
      BY <1>4, <3>1, DecodedIsFirst
    <3>3. IsFirst(todo, b, o, w)
      BY <3>2
    <3>4. QED
      BY <3>3 DEF IsFirst
  <2>2. "dict" \in DOMAIN m
    BY DEF Message
  <2>3. Taken(o)
    BY <1>5, <2>1, <2>2 DEF Taken
  <2>4. Holds(Rest(b, o), SubSeq(bytes, size + 1, Len(bytes)), rest)
    BY <1>3, <2>1 DEF Holds
  <2>5. QED
    BY <1>5, <2>1, <2>3, <2>4 DEF AfterRead
<1>6. CASE o.kind # "value"
  <2>1. Rest(b, o) = b
    BY <1>6 DEF Rest
  <2>2. ~Taken(o)
    BY <1>6 DEF Taken
  <2>3. Holds(Rest(b, o), SubSeq(bytes, size + 1, Len(bytes)), todo)
    BY <1>3, <1>4, <2>1 DEF Holds
  <2>4. QED
    BY <1>6, <2>2, <2>3 DEF AfterRead
<1>7. QED
  BY <1>5, <1>6

\* What is sent comes after what is under way.
LEMMA SendStep ==
  ASSUME NEW todo \in Messages, NEW m \in Message, NEW buf, NEW bytes,
         Holds(buf, bytes, todo)
  PROVE  todo \o Single(m) \in Messages /\ Holds(buf, bytes \o Sends(m), todo \o Single(m))
<1>1. PICK u \in Wide : buf \in Wide /\ bytes = Bytes(u) /\ buf \o u = CodeAll(todo)
  BY DEF Holds
<1>2. PICK c \in Wide : c = Code(m)
  BY CodeWide
<1>3. u \o c \in Wide
  BY WideJoin
<1>4. bytes \o Sends(m) = Bytes(u \o c)
  BY <1>1, <1>2, BytesJoin DEF Sends
<1>5. Single(m) \in Messages
  BY DEF Single, Messages
<1>6. /\ todo \o Single(m) \in Messages
      /\ CodeAll(todo \o Single(m)) = CodeAll(todo) \o c
  BY <1>2, <1>5, CodeAllJoin, CodeAllOne
<1>7. buf \o (u \o c) = CodeAll(todo \o Single(m))
  <2>1. (buf \o u) \o c = buf \o (u \o c)
    BY <1>1, WideText, TextAssoc
  <2>2. QED
    BY <1>1, <1>6, <2>1
<1>8. QED
  BY <1>1, <1>3, <1>4, <1>6, <1>7 DEF Holds

LEMMA NothingHeld == Holds(<<>>, <<>>, <<>>) /\ <<>> \in Messages
<1>1. <<>> \o <<>> = <<>>
  BY TextEmpty
<1>2. QED
  BY <1>1, WideEmpty, BytesEmpty, CodeAllEmpty DEF Holds, Messages

-----------------------------------------------------------------------------
(***************************************************************************)
(* The inductive invariant.                                                *)
(***************************************************************************)
Histories ==
  /\ sent \in Messages /\ handled \in Messages /\ answers \in Messages
  /\ awaiting \in BOOLEAN /\ hasty \in BOOLEAN /\ stale \in BOOLEAN

\* The requests that are not handled yet are those the tracker's side holds,
\* until it ends.
TrackerHolds ==
  \E todo \in Messages : /\ sent = handled \o todo
                         /\ "tracker" \notin dead => Holds(trackerBuf, up, todo)

\* The answers that are not taken yet are those the client's side holds, unless
\* it holds part of another one.
ClientHolds ==
  ~stale => /\ seen \in Messages
            /\ \E todo \in Messages :
                 /\ answers = seen \o todo
                 /\ "client" \notin dead => Holds(clientBuf, down, todo)

\* One answer for each request that was handled, and for each that was sent one
\* that was taken, but for the one that is awaited.
Counts ==
  ~hasty => /\ Len(answers) = Len(handled)
            /\ ~stale => Len(sent) = Len(seen) + IF awaiting THEN 1 ELSE 0

IInv == Histories /\ TrackerHolds /\ ClientHolds /\ Counts

\* Sequences of messages.
LEMMA MessagesJoin ==
  /\ \A a, b \in Messages : a \o b \in Messages /\ Len(a \o b) = Len(a) + Len(b)
  /\ \A a, b, c \in Messages : (a \o b) \o c = a \o (b \o c)
  /\ \A a \in Messages : a \o <<>> = a /\ Len(a) \in Nat
BY ConcatProperties, ConcatAssociative, ConcatEmptySeq, LenProperties DEF Messages

LEMMA MessagesAppend ==
  ASSUME NEW a \in Messages, NEW m \in Message
  PROVE  /\ Append(a, m) = a \o Single(m) /\ Single(m) \in Messages
         /\ Append(a, m) \in Messages /\ Len(Append(a, m)) = Len(a) + 1
<1>1. Append(a, m) = a \o Single(m)
  BY AppendIsConcat DEF Messages, Single
<1>2. Single(m) \in Messages /\ Len(Single(m)) = 1
  BY DEF Single, Messages
<1>3. Append(a, m) \in Messages /\ Len(Append(a, m)) = Len(a) + 1
  BY AppendProperties DEF Messages
<1>4. QED
  BY <1>1, <1>2, <1>3

LEMMA PrefixOfJoin ==
  ASSUME NEW a \in Messages, NEW b \in Messages
  PROVE  IsPrefix(a, a \o b)
<1>1. /\ Len(a) \in Nat /\ Len(b) \in Nat /\ Len(a \o b) = Len(a) + Len(b)
  BY ConcatProperties, LenProperties DEF Messages
<1>2. SubSeq(a \o b, 1, Len(a)) = a /\ SubSeq(a, 1, Len(a)) = a
  BY <1>1, SubSeqFull DEF Messages
<1>3. QED
  BY <1>1, <1>2 DEF IsPrefix

\* Every answer is a message.
LEMMA Listed ==
  ASSUME NEW S, NEW a \in S, NEW b \in S
  PROVE  <<>> \in Seq(S) /\ <<a>> \in Seq(S) /\ <<a, b>> \in Seq(S)
OBVIOUS

LEMMA AnswerIsMessage ==
  ASSUME NEW number \in Nat, NEW complete \in Nat, NEW failure \in BOOLEAN
  PROVE  Answer(number, complete, failure) \in Message
<1> DEFINE Pair == Seq(Char) \X (Simple \cup [list : Seq(Simple)])
<1>1. \A c \in 0 .. 127 : c \in Char /\ Key(c) \in Seq(Char)
  <2>1. Greatest[6] \in Nat /\ 127 <= Greatest[6]
    BY SMT DEF Greatest
  <2>2. QED
    BY <2>1 DEF Char, Key
<1>2. /\ Key(Complete) \in Seq(Char) /\ Key(Failure) \in Seq(Char)
      /\ Key(Interval) \in Seq(Char) /\ Key(Peers) \in Seq(Char) /\ <<119>> \in Seq(Char)
  BY <1>1 DEF Complete, Failure, Interval, Peers, Key
<1>3. /\ IntOf(complete) \in Simple /\ IntOf(number) \in Simple
      /\ StrOf(<<119>>) \in Simple /\ StrOf(PeerId) \in Simple
  BY <1>2, RequestAssumption DEF IntOf, StrOf, Simple
<1>4. [list |-> IF failure THEN <<>> ELSE <<StrOf(PeerId)>>] \in [list : Seq(Simple)]
  BY <1>3
<1>5. PICK p \in Pair, q \in Pair, r \in Pair, s \in Pair :
        /\ p = <<Key(Complete), IntOf(complete)>>
        /\ q = <<Key(Failure), StrOf(<<119>>)>>
        /\ r = <<Key(Interval), IntOf(number)>>
        /\ s = <<Key(Peers), [list |-> IF failure THEN <<>> ELSE <<StrOf(PeerId)>>]>>
  BY <1>2, <1>3, <1>4
<1> HIDE DEF Pair
<1>6. PICK a \in Seq(Pair), c \in Seq(Pair) : a = <<p>> /\ c = <<r, s>>
  BY Listed
<1>7. PICK b \in Seq(Pair) : b = IF failure THEN <<q>> ELSE <<>>
  <2>1. <<q>> \in Seq(Pair) /\ <<>> \in Seq(Pair)
    BY Listed
  <2>2. (IF failure THEN <<q>> ELSE <<>>) \in Seq(Pair)
    BY <2>1
  <2>3. QED
    BY <2>2
<1>8. (a \o b) \o c \in Seq(Pair)
  <2>1. a \o b \in Seq(Pair)
    BY ConcatProperties
  <2>2. QED
    BY <2>1, ConcatProperties
<1>9. Answer(number, complete, failure) = [dict |-> (a \o b) \o c]
  BY <1>5, <1>6, <1>7 DEF Answer
<1>10. QED
  BY <1>8, <1>9 DEF Message, Pair

LEMMA InitHolds == ASSUME Init PROVE IInv
<1>1. <<>> \in Messages /\ <<>> \o <<>> = <<>> /\ Len(<<>>) = 0
  BY NothingHeld, MessagesJoin
<1>2. Histories
  BY <1>1 DEF Init, Histories
<1>3. TrackerHolds
  BY <1>1, NothingHeld DEF Init, TrackerHolds
<1>4. ClientHolds
  BY <1>1, NothingHeld DEF Init, ClientHolds
<1>5. Counts
  BY <1>1 DEF Init, Counts
<1>6. QED
  BY <1>2, <1>3, <1>4, <1>5 DEF IInv

LEMMA SendKeeps ==
  ASSUME IInv, NEW request \in Request, SendRequest(request)
  PROVE  IInv'
<1>1. PICK m \in Message : m = request
  BY RequestAssumption
<1>2. /\ ~awaiting /\ up' = up \o Sends(m) /\ sent' = Append(sent, m) /\ awaiting' = TRUE
      /\ UNCHANGED <<down, trackerBuf, clientBuf, dead, handled, answers, seen, hasty, stale>>
  BY <1>1 DEF SendRequest
<1>3. sent' = sent \o Single(m) /\ sent' \in Messages /\ Len(sent') = Len(sent) + 1
      /\ Single(m) \in Messages
  BY <1>2, MessagesAppend DEF IInv, Histories
<1>4. Histories'
  BY <1>2, <1>3 DEF IInv, Histories
<1>5. TrackerHolds'
  <2>1. PICK todo \in Messages : /\ sent = handled \o todo
                                 /\ "tracker" \notin dead => Holds(trackerBuf, up, todo)
    BY DEF IInv, TrackerHolds
  <2>2. PICK more \in Messages : more = todo \o Single(m)
    BY <1>3, MessagesJoin
  <2>3. sent' = handled \o more
    <3>1. handled \in Messages
      BY DEF IInv, Histories
    <3>2. (handled \o todo) \o Single(m) = handled \o (todo \o Single(m))
      BY <1>3, <3>1, MessagesJoin
    <3>3. QED
      BY <1>3, <2>1, <2>2, <3>2
  <2>4. "tracker" \notin dead => Holds(trackerBuf, up \o Sends(m), more)
    BY <2>1, <2>2, SendStep
  <2>5. QED
    BY <1>2, <2>3, <2>4 DEF TrackerHolds
<1>6. ClientHolds'
  BY <1>2 DEF IInv, ClientHolds
<1>7. Counts'
  <2>1. ASSUME ~hasty PROVE Len(answers) = Len(handled)
    BY <2>1 DEF IInv, Counts
  <2>2. ASSUME ~hasty, ~stale PROVE Len(sent') = Len(seen) + 1
    <3>1. Len(sent) = Len(seen) + 0
      BY <1>2, <2>2 DEF IInv, Counts
    <3>2. Len(seen) \in Nat
      BY <2>2, MessagesJoin DEF IInv, ClientHolds
    <3>3. QED
      BY <1>3, <3>1, <3>2
  <2>3. QED
    BY <1>2, <2>1, <2>2 DEF Counts
<1>8. QED
  BY <1>4, <1>5, <1>6, <1>7 DEF IInv

LEMMA ReconnectKeeps == ASSUME IInv, Reconnect PROVE IInv'
<1>1. /\ up' = <<>> /\ down' = <<>> /\ trackerBuf' = <<>> /\ awaiting' = FALSE
      /\ sent' = <<>> /\ handled' = <<>> /\ answers' = <<>> /\ seen' = <<>>
      /\ stale' = (stale \/ clientBuf # <<>>)
      /\ UNCHANGED <<clientBuf, dead, hasty>>
  BY DEF Reconnect
<1>2. <<>> \in Messages /\ <<>> \o <<>> = <<>> /\ Len(<<>>) = 0
  BY NothingHeld, MessagesJoin
<1>3. Histories'
  BY <1>1, <1>2 DEF IInv, Histories
<1>4. TrackerHolds'
  BY <1>1, <1>2, NothingHeld DEF TrackerHolds
<1>5. ClientHolds'
  <2>1. ~stale' => clientBuf' = <<>>
    BY <1>1
  <2>2. QED
    BY <1>1, <1>2, <2>1, NothingHeld DEF ClientHolds
<1>6. Counts'
  BY <1>1, <1>2 DEF Counts
<1>7. QED
  BY <1>3, <1>4, <1>5, <1>6 DEF IInv

\* What is handled, or taken, is the first of what was held.
LEMMA TakeFirst ==
  \A past, rest \in Messages, m \in Message :
    past \o (Single(m) \o rest) = Append(past, m) \o rest
<1> SUFFICES ASSUME NEW past \in Messages, NEW rest \in Messages, NEW m \in Message
             PROVE  past \o (Single(m) \o rest) = Append(past, m) \o rest
  OBVIOUS
<1>1. Append(past, m) = past \o Single(m) /\ Single(m) \in Messages
  BY MessagesAppend
<1>2. (past \o Single(m)) \o rest = past \o (Single(m) \o rest)
  BY <1>1, MessagesJoin
<1>3. QED
  BY <1>1, <1>2

LEMMA TrackerKeeps ==
  ASSUME IInv, NEW size \in 1 .. Len(up), NEW complete \in {0, WrappedInt},
         TrackerReads(size, complete)
  PROVE  IInv'
<1> DEFINE decoded == FromUtf8(SubSeq(up, 1, size))
           buf     == trackerBuf \o decoded.result
           outcome == Decode(buf)
           answer  == Answer(Len(answers) + 1, complete, outcome.kind = "wrong")
<1>1. /\ "tracker" \notin dead /\ up' = SubSeq(up, size + 1, Len(up))
      /\ UNCHANGED <<clientBuf, awaiting, sent, seen, stale>>
  BY DEF TrackerReads
<1>2. CASE Throws(decoded)
  <2>1. /\ dead' = dead \cup {"tracker"}
        /\ UNCHANGED <<down, trackerBuf, handled, answers, hasty>>
    BY <1>2 DEF TrackerReads
  <2>2. Histories'
    BY <1>1, <2>1 DEF IInv, Histories
  <2>3. TrackerHolds'
    BY <1>1, <2>1 DEF IInv, TrackerHolds
  <2>4. ClientHolds'
    BY <1>1, <2>1 DEF IInv, ClientHolds
  <2>5. Counts'
    BY <1>1, <2>1 DEF IInv, Counts
  <2>6. QED
    BY <2>2, <2>3, <2>4, <2>5 DEF IInv
<1>3. CASE ~Throws(decoded)
  <2>1. /\ trackerBuf' = Rest(buf, outcome) /\ UNCHANGED dead
        /\ handled' = IF Taken(outcome) THEN Append(handled, outcome.value) ELSE handled
        /\ hasty' = (hasty \/ outcome.kind = "wrong")
        /\ IF Taken(outcome) \/ outcome.kind = "wrong"
           THEN answers' = Append(answers, answer) /\ down' = down \o Sends(answer)
           ELSE UNCHANGED <<down, answers>>
    BY <1>3 DEF TrackerReads
  <2>2. PICK todo \in Messages : sent = handled \o todo /\ Holds(trackerBuf, up, todo)
    BY <1>1 DEF IInv, TrackerHolds
  <2>3. PICK rest \in Messages :
          /\ Holds(Rest(buf, outcome), SubSeq(up, size + 1, Len(up)), rest)
          /\ \/ /\ Taken(outcome) /\ outcome.kind = "value" /\ outcome.value \in Message
                /\ todo = Single(outcome.value) \o rest
             \/ ~Taken(outcome) /\ todo = rest /\ outcome.kind # "value"
    <3>1. AfterRead(todo, outcome, Rest(buf, outcome), SubSeq(up, size + 1, Len(up)))
      BY <1>3, <2>2, ReadStep
    <3> HIDE DEF decoded, buf, outcome
    <3>2. QED
      BY <3>1 DEF AfterRead
  <2>4. answer \in Message
    <3>1. complete \in Nat /\ Len(answers) + 1 \in Nat
      BY RequestAssumption, MessagesJoin DEF IInv, Histories
    <3>2. (outcome.kind = "wrong") \in BOOLEAN
      OBVIOUS
    <3>3. QED
      BY <3>1, <3>2, AnswerIsMessage
  <2> HIDE DEF decoded, buf, outcome, answer
  <2>5. /\ sent \in Messages /\ handled \in Messages /\ answers \in Messages
        /\ Len(handled) \in Nat /\ Len(answers) \in Nat
    BY MessagesJoin DEF IInv, Histories
  <2>6. handled' \in Messages /\ sent' = handled' \o rest
    <3>1. CASE Taken(outcome)
      <4>1. PICK m \in Message : m = outcome.value /\ todo = Single(m) \o rest
        BY <2>3, <3>1
      <4>2. handled' = Append(handled, m)
        BY <2>1, <3>1, <4>1
      <4>3. Append(handled, m) \in Messages
        BY <2>5, MessagesAppend
      <4>4. handled \o todo = Append(handled, m) \o rest
        BY <2>5, <4>1, TakeFirst
      <4>5. QED
        BY <1>1, <2>2, <4>2, <4>3, <4>4
    <3>2. CASE ~Taken(outcome)
      BY <1>1, <2>1, <2>2, <2>3, <2>5, <3>2
    <3>3. QED
      BY <3>1, <3>2
  <2>7. answers' \in Messages
    BY <2>1, <2>4, <2>5, MessagesAppend
  <2>8. Histories'
    BY <1>1, <2>1, <2>6, <2>7 DEF IInv, Histories
  <2>9. TrackerHolds'
    BY <1>1, <2>1, <2>3, <2>6 DEF TrackerHolds
  <2>10. ClientHolds'
    <3>1. CASE Taken(outcome) \/ outcome.kind = "wrong"
      <4>1. SUFFICES ASSUME ~stale
                     PROVE  /\ seen \in Messages
                            /\ \E all \in Messages :
                                 /\ Append(answers, answer) = seen \o all
                                 /\ "client" \notin dead =>
                                      Holds(clientBuf, down \o Sends(answer), all)
        BY <1>1, <2>1, <3>1 DEF ClientHolds
      <4>2. PICK held \in Messages :
              /\ seen \in Messages /\ answers = seen \o held
              /\ "client" \notin dead => Holds(clientBuf, down, held)
        BY <4>1 DEF IInv, ClientHolds
      <4>3. PICK all \in Messages : all = held \o Single(answer)
        BY <2>4, SendStep, MessagesAppend, MessagesJoin
      <4>4. Append(answers, answer) = seen \o all
        <5>1. Append(answers, answer) = answers \o Single(answer) /\ Single(answer) \in Messages
          BY <2>4, <2>5, MessagesAppend
        <5>2. (seen \o held) \o Single(answer) = seen \o (held \o Single(answer))
          BY <4>2, <5>1, MessagesJoin
        <5>3. QED
          BY <4>2, <4>3, <5>1, <5>2
      <4>5. "client" \notin dead => Holds(clientBuf, down \o Sends(answer), all)
        BY <2>4, <4>2, <4>3, SendStep
      <4>6. QED
        BY <4>2, <4>4, <4>5
    <3>2. CASE ~(Taken(outcome) \/ outcome.kind = "wrong")
      BY <1>1, <2>1, <3>2 DEF IInv, ClientHolds
    <3>3. QED
      BY <3>1, <3>2
  <2>11. Counts'
    <3>1. ASSUME ~hasty' PROVE Len(answers') = Len(handled')
      <4>1. ~hasty /\ outcome.kind # "wrong" /\ Len(answers) = Len(handled)
        BY <2>1, <3>1 DEF IInv, Histories, Counts
      <4>2. CASE Taken(outcome)
        <5>1. Len(answers') = Len(answers) + 1
          BY <2>1, <2>4, <2>5, <4>2, MessagesAppend
        <5>2. Len(handled') = Len(handled) + 1
          BY <2>1, <2>3, <2>5, <4>2, MessagesAppend
        <5>3. QED
          BY <4>1, <5>1, <5>2
      <4>3. CASE ~Taken(outcome)
        BY <2>1, <4>1, <4>3
      <4>4. QED
        BY <4>2, <4>3
    <3>2. ASSUME ~hasty', ~stale' PROVE Len(sent') = Len(seen') + IF awaiting' THEN 1 ELSE 0
      <4>1. ~hasty /\ ~stale
        BY <1>1, <2>1, <3>2
      <4>2. QED
        BY <1>1, <4>1 DEF IInv, Counts
    <3>3. QED
      BY <3>1, <3>2 DEF Counts
  <2>12. QED
    BY <2>8, <2>9, <2>10, <2>11 DEF IInv
<1>4. QED
  BY <1>2, <1>3

LEMMA ClientKeeps ==
  ASSUME IInv, NEW size \in 1 .. Len(down), ClientReads(size)
  PROVE  IInv'
<1> DEFINE decoded == FromUtf8(SubSeq(down, 1, size))
           buf     == clientBuf \o decoded.result
           outcome == Decode(buf)
<1>1. /\ "client" \notin dead /\ down' = SubSeq(down, size + 1, Len(down))
      /\ UNCHANGED <<up, trackerBuf, sent, handled, answers, hasty, stale>>
  BY DEF ClientReads
<1>2. CASE Throws(decoded)
  <2>1. /\ dead' = dead \cup {"client"}
        /\ UNCHANGED <<clientBuf, seen, awaiting>>
    BY <1>2 DEF ClientReads
  <2>2. Histories'
    BY <1>1, <2>1 DEF IInv, Histories
  <2>3. TrackerHolds'
    BY <1>1, <2>1 DEF IInv, TrackerHolds
  <2>4. ClientHolds'
    BY <1>1, <2>1 DEF IInv, ClientHolds
  <2>5. Counts'
    BY <1>1, <2>1 DEF IInv, Counts
  <2>6. QED
    BY <2>2, <2>3, <2>4, <2>5 DEF IInv
<1>3. CASE ~Throws(decoded)
  <2>1. /\ clientBuf' = Rest(buf, outcome) /\ UNCHANGED dead
        /\ IF Taken(outcome)
           THEN seen' = Append(seen, outcome.value) /\ awaiting' = FALSE
           ELSE UNCHANGED <<seen, awaiting>>
    BY <1>3 DEF ClientReads
  <2>2. Histories'
    BY <1>1, <2>1 DEF IInv, Histories
  <2>3. TrackerHolds'
    BY <1>1, <2>1 DEF IInv, TrackerHolds
  <2>4. ASSUME ~stale
        PROVE  /\ ClientHolds' /\ seen' \in Messages
               /\ Len(seen') <= Len(answers)
               /\ Taken(outcome) => Len(seen') = Len(seen) + 1
    <3>1. PICK todo \in Messages :
            seen \in Messages /\ answers = seen \o todo /\ Holds(clientBuf, down, todo)
      BY <1>1, <2>4 DEF IInv, ClientHolds
    <3>2. PICK rest \in Messages :
            /\ Holds(Rest(buf, outcome), SubSeq(down, size + 1, Len(down)), rest)
            /\ \/ /\ Taken(outcome) /\ outcome.kind = "value" /\ outcome.value \in Message
                  /\ todo = Single(outcome.value) \o rest
               \/ ~Taken(outcome) /\ todo = rest /\ outcome.kind # "value"
      <4>1. AfterRead(todo, outcome, Rest(buf, outcome), SubSeq(down, size + 1, Len(down)))
        BY <1>3, <3>1, ReadStep
      <4> HIDE DEF decoded, buf, outcome
      <4>2. QED
        BY <4>1 DEF AfterRead
    <3> HIDE DEF decoded, buf, outcome
    <3>3. seen' \in Messages /\ answers = seen' \o rest
      <4>1. CASE Taken(outcome)
        <5>1. PICK m \in Message : m = outcome.value /\ todo = Single(m) \o rest
          BY <3>2, <4>1
        <5>2. seen' = Append(seen, m)
          BY <2>1, <4>1, <5>1
        <5>3. Append(seen, m) \in Messages
          BY <3>1, MessagesAppend
        <5>4. seen \o todo = Append(seen, m) \o rest
          BY <3>1, <5>1, TakeFirst
        <5>5. QED
          BY <3>1, <5>2, <5>3, <5>4
      <4>2. CASE ~Taken(outcome)
        BY <2>1, <3>1, <3>2, <4>2
      <4>3. QED
        BY <4>1, <4>2
    <3>4. ClientHolds'
      BY <1>1, <2>1, <3>2, <3>3 DEF ClientHolds
    <3>5. Len(seen') <= Len(answers)
      <4>1. Len(answers) = Len(seen') + Len(rest) /\ Len(seen') \in Nat /\ Len(rest) \in Nat
        BY <3>3, MessagesJoin
      <4>2. QED
        BY <4>1
    <3>6. Taken(outcome) => Len(seen') = Len(seen) + 1
      BY <2>1, <3>1, <3>2, MessagesAppend
    <3>7. QED
      BY <3>3, <3>4, <3>5, <3>6
  <2> HIDE DEF decoded, buf, outcome
  <2>5. ClientHolds'
    <3>1. CASE stale
      BY <1>1, <3>1 DEF ClientHolds
    <3>2. QED
      BY <2>4, <3>1
  <2>6. Counts'
    <3>1. ASSUME ~hasty PROVE Len(answers) = Len(handled)
      BY <3>1 DEF IInv, Counts
    <3>2. ASSUME ~hasty, ~stale PROVE Len(sent) = Len(seen') + IF awaiting' THEN 1 ELSE 0
      <4>1. Len(sent) = Len(seen) + IF awaiting THEN 1 ELSE 0
        BY <3>2 DEF IInv, Counts
      <4>2. CASE Taken(outcome)
        <5>1. PICK todo \in Messages : sent = handled \o todo
          BY DEF IInv, TrackerHolds
        <5>2. Len(sent) = Len(handled) + Len(todo) /\ Len(handled) \in Nat /\ Len(todo) \in Nat
          BY <5>1, MessagesJoin DEF IInv, Histories
        <5>3. Len(seen') <= Len(handled) /\ Len(seen') = Len(seen) + 1
          <6>1. Len(seen') <= Len(answers) /\ Len(seen') = Len(seen) + 1
            BY <2>4, <3>2, <4>2
          <6>2. QED
            BY <3>1, <3>2, <6>1
        <5>4. Len(seen) \in Nat
          BY <3>2, MessagesJoin DEF IInv, ClientHolds
        <5>5. awaiting
          BY <4>1, <5>2, <5>3, <5>4
        <5>6. awaiting' = FALSE
          BY <2>1, <4>2
        <5>7. QED
          BY <4>1, <5>3, <5>4, <5>5, <5>6
      <4>3. CASE ~Taken(outcome)
        BY <2>1, <4>1, <4>3
      <4>4. QED
        BY <4>2, <4>3
    <3>3. QED
      BY <1>1, <3>1, <3>2 DEF Counts
  <2>7. QED
    BY <2>2, <2>3, <2>5, <2>6 DEF IInv
<1>4. QED
  BY <1>2, <1>3

LEMMA StreamInductive == Spec => []IInv
<1>1. IInv /\ UNCHANGED vars => IInv'
  BY DEF vars, IInv, Histories, TrackerHolds, ClientHolds, Counts
<1>2. IInv /\ Next => IInv'
  BY SendKeeps, TrackerKeeps, ClientKeeps, ReconnectKeeps DEF Next
<1>3. QED
  BY <1>1, <1>2, InitHolds, PTL DEF Spec

-----------------------------------------------------------------------------
(***************************************************************************)
(* What follows from it.                                                   *)
(***************************************************************************)
\* What was taken so far begins what was given, on both sides.
THEOREM TakenInOrder ==
  Spec => [](IsPrefix(handled, sent) /\ (~stale => IsPrefix(seen, answers)))
<1>1. IInv => IsPrefix(handled, sent)
  BY PrefixOfJoin DEF IInv, Histories, TrackerHolds
<1>2. IInv => (~stale => IsPrefix(seen, answers))
  BY PrefixOfJoin DEF IInv, ClientHolds
<1>3. QED
  BY <1>1, <1>2, StreamInductive, PTL

\* What is appended is the next of what was given, if the result still begins it.
LEMMA TakenIsNext ==
  ASSUME NEW past \in Messages, NEW todo \in Messages, NEW m, NEW next \in Messages,
         next = Append(past, m), NEW all, all = next \o todo
  PROVE  Len(past) < Len(all) /\ all[Len(past) + 1] = m
<1>1. Len(past) \in Nat /\ Len(todo) \in Nat
  BY MessagesJoin
<1>2. Len(next) = Len(past) + 1 /\ next[Len(past) + 1] = m
  BY <1>1 DEF Messages
<1>3. /\ Len(all) = Len(next) + Len(todo)
      /\ \A k \in 1 .. Len(next) : all[k] = next[k]
  BY <1>1, <1>2, ConcatProperties DEF Messages
<1>4. Len(past) + 1 \in 1 .. Len(next)
  BY <1>1, <1>2
<1>5. QED
  BY <1>1, <1>2, <1>3, <1>4

LEMMA GivenIsLast ==
  ASSUME NEW past \in Messages, NEW m, NEW next, next = Append(past, m)
  PROVE  m \in Range(next)
<1>1. Len(past) + 1 \in DOMAIN next /\ next[Len(past) + 1] = m
  BY LenProperties DEF Messages
<1>2. QED
  BY <1>1 DEF Range

\* The tracker handles the requests that were sent, in their order, whole and once,
\* however the stream is cut and however many of them overlap.
THEOREM RequestChannel == Spec => RequestsDelivered
<1>1. Init => Requests!Init
  BY DEF Init, Requests!Init
<1>2. ASSUME IInv, IInv', Next PROVE [Requests!Next]_(Requests!vars)
  <2>1. ASSUME NEW request \in Request, SendRequest(request) PROVE Requests!Give
    <3>1. sent' = Append(sent, request) /\ UNCHANGED handled
      BY <2>1 DEF SendRequest
    <3>2. request \in Range(sent')
      BY <1>2, <3>1, GivenIsLast DEF IInv, Histories
    <3>3. request \in Requests!Range(sent')
      BY <3>2 DEF Range, Requests!Range
    <3>4. \E message \in Requests!Range(sent') : sent' = Append(sent, message)
      BY <3>1, <3>3
    <3>5. QED
      BY <3>1, <3>4 DEF Requests!Give
  <2>2. ASSUME NEW size \in 1 .. Len(up), NEW complete \in {0, WrappedInt},
               TrackerReads(size, complete)
        PROVE  Requests!Take \/ UNCHANGED <<sent, handled>>
    <3>1. UNCHANGED sent /\ (UNCHANGED handled \/ \E m : handled' = Append(handled, m))
      BY <2>2 DEF TrackerReads
    <3>2. ASSUME NEW m, handled' = Append(handled, m) PROVE Requests!Take
      <4>1. PICK todo \in Messages : sent = handled' \o todo
        BY <1>2, <3>1 DEF IInv, TrackerHolds
      <4>2. handled \in Messages /\ handled' \in Messages
        BY <1>2 DEF IInv, Histories
      <4>3. Len(handled) < Len(sent) /\ sent[Len(handled) + 1] = m
        BY <3>2, <4>1, <4>2, TakenIsNext
      <4>4. QED
        BY <3>1, <3>2, <4>3 DEF Requests!Take
    <3>3. QED
      BY <3>1, <3>2
  <2>3. ASSUME NEW size \in 1 .. Len(down), ClientReads(size) PROVE UNCHANGED <<sent, handled>>
    BY <2>3 DEF ClientReads
  <2>4. ASSUME Reconnect PROVE Requests!Renew
    BY <2>4 DEF Reconnect, Requests!Renew
  <2>5. QED
    BY <1>2, <2>1, <2>2, <2>3, <2>4 DEF Next, Requests!Next, Requests!vars
<1>3. UNCHANGED vars => UNCHANGED Requests!vars
  BY DEF vars, Requests!vars
<1>4. IInv /\ IInv' /\ [Next]_vars => [Requests!Next]_(Requests!vars)
  BY <1>2, <1>3
<1>5. QED
  BY <1>1, <1>4, StreamInductive, PTL DEF Spec, RequestsDelivered, Requests!Spec

\* The client takes the answers that were sent, in their order, whole and once, until
\* a connection is lost while one is under way and part of it stays behind.
THEOREM AnswerChannel == Spec => AnswersDelivered
<1>1. Init => Answers!Init
  BY DEF Init, Answers!Init
<1>2. ASSUME IInv, IInv', Next PROVE [Answers!Next]_(Answers!vars)
  <2>1. ASSUME NEW request \in Request, SendRequest(request)
        PROVE  UNCHANGED <<answers, seen, stale>>
    BY <2>1 DEF SendRequest
  <2>2. ASSUME NEW size \in 1 .. Len(up), NEW complete \in {0, WrappedInt},
               TrackerReads(size, complete)
        PROVE  Answers!Give \/ UNCHANGED <<answers, seen, stale>>
    <3>1. /\ UNCHANGED <<seen, stale>>
          /\ UNCHANGED answers \/ \E m : answers' = Append(answers, m)
      BY <2>2 DEF TrackerReads
    <3>2. ASSUME NEW m, answers' = Append(answers, m) PROVE Answers!Give
      <4>1. m \in Range(answers')
        BY <1>2, <3>2, GivenIsLast DEF IInv, Histories
      <4>2. m \in Answers!Range(answers')
        BY <4>1 DEF Range, Answers!Range
      <4>3. \E message \in Answers!Range(answers') : answers' = Append(answers, message)
        BY <3>2, <4>2
      <4>4. QED
        BY <3>1, <4>3 DEF Answers!Give
    <3>3. QED
      BY <3>1, <3>2
  <2>3. ASSUME NEW size \in 1 .. Len(down), ClientReads(size)
        PROVE  Answers!Take \/ Answers!TakeBroken \/ UNCHANGED <<answers, seen, stale>>
    <3>1. /\ UNCHANGED <<answers, stale>>
          /\ UNCHANGED seen \/ \E m : seen' = Append(seen, m)
      BY <2>3 DEF ClientReads
    <3>2. CASE stale
      BY <3>1, <3>2 DEF Answers!TakeBroken
    <3>3. ASSUME ~stale, NEW m, seen' = Append(seen, m) PROVE Answers!Take
      <4>1. PICK todo \in Messages : answers = seen' \o todo
        BY <1>2, <3>1, <3>3 DEF IInv, ClientHolds
      <4>2. seen \in Messages /\ seen' \in Messages
        BY <1>2, <3>1, <3>3 DEF IInv, ClientHolds
      <4>3. Len(seen) < Len(answers) /\ answers[Len(seen) + 1] = m
        BY <3>3, <4>1, <4>2, TakenIsNext
      <4>4. QED
        BY <3>1, <3>3, <4>3 DEF Answers!Take
    <3>4. QED
      BY <3>1, <3>2, <3>3
  <2>4. ASSUME Reconnect PROVE Answers!Renew
    <3>1. /\ answers' = <<>> /\ seen' = <<>> /\ "client" \notin dead
          /\ stale' = (stale \/ clientBuf # <<>>)
      BY <2>4 DEF Reconnect
    <3>2. ASSUME ~stale, seen = answers PROVE clientBuf = <<>>
      <4>1. PICK todo \in Messages : /\ seen \in Messages /\ answers = seen \o todo
                                     /\ Holds(clientBuf, down, todo)
        BY <1>2, <3>1, <3>2 DEF IInv, ClientHolds
      <4>2. todo = <<>>
        <5>1. Len(answers) = Len(seen) + Len(todo) /\ Len(seen) \in Nat /\ Len(todo) \in Nat
          BY <4>1, MessagesJoin
        <5>2. Len(todo) = 0
          BY <3>2, <5>1
        <5>3. QED
          BY <5>2, EmptySeq DEF Messages
      <4>3. PICK u \in Wide : clientBuf \in Wide /\ clientBuf \o u = <<>>
        BY <4>1, <4>2, CodeAllEmpty DEF Holds
      <4>4. clientBuf \in Text /\ u \in Text /\ Len(clientBuf \o u) = 0
        BY <4>3, WideText
      <4>5. Len(clientBuf \o u) = Len(clientBuf) + Len(u) /\ Len(clientBuf) \in Nat /\ Len(u) \in Nat
        BY <4>4, TextJoin, TextLen
      <4>6. Len(clientBuf) = 0
        BY <4>4, <4>5
      <4>7. QED
        BY <4>4, <4>6, TextLen
    <3>3. stale' \in {stale, stale \/ seen # answers}
      <4>1. stale \in BOOLEAN
        BY <1>2 DEF IInv, Histories
      <4>2. QED
        BY <3>1, <3>2, <4>1
    <3>4. QED
      BY <3>1, <3>3 DEF Answers!Renew
  <2>5. QED
    BY <1>2, <2>1, <2>2, <2>3, <2>4 DEF Next, Answers!Next, Answers!vars
<1>3. UNCHANGED vars => UNCHANGED Answers!vars
  BY DEF vars, Answers!vars
<1>4. IInv /\ IInv' /\ [Next]_vars => [Answers!Next]_(Answers!vars)
  BY <1>2, <1>3
<1>5. QED
  BY <1>1, <1>4, StreamInductive, PTL DEF Spec, AnswersDelivered, Answers!Spec

\* A client that waits for nothing has been answered all it asked and has read every
\* answer, unless one was given before the request was whole.
THEOREM IdleIsUpToDate == Spec => []UpToDate
<1>1. ASSUME IInv, ~awaiting, ~hasty, ~stale
      PROVE  handled = sent /\ Len(answers) = Len(sent) /\ seen = answers
  <2>1. PICK unhandled \in Messages, unseen \in Messages :
          sent = handled \o unhandled /\ answers = seen \o unseen
    BY <1>1 DEF IInv, TrackerHolds, ClientHolds
  <2>2. seen \in Messages /\ handled \in Messages
    BY <1>1 DEF IInv, Histories, ClientHolds
  <2>3. Len(answers) = Len(handled) /\ Len(sent) = Len(seen)
    <3>1. Len(sent) = Len(seen) + 0 /\ Len(seen) \in Nat
      BY <1>1, <2>2, MessagesJoin DEF IInv, Counts
    <3>2. QED
      BY <1>1, <3>1 DEF IInv, Counts
  <2>4. /\ Len(sent) = Len(handled) + Len(unhandled)
        /\ Len(answers) = Len(seen) + Len(unseen)
        /\ Len(handled) \in Nat /\ Len(unhandled) \in Nat
        /\ Len(seen) \in Nat /\ Len(unseen) \in Nat
    BY <2>1, <2>2, MessagesJoin
  <2>5. Len(unhandled) = 0 /\ Len(unseen) = 0 /\ Len(answers) = Len(sent)
    BY <2>3, <2>4
  <2>6. unhandled = <<>> /\ unseen = <<>>
    BY <2>5, EmptySeq DEF Messages
  <2>7. QED
    BY <2>1, <2>2, <2>5, <2>6, MessagesJoin
<1>2. IInv => UpToDate
  BY <1>1 DEF UpToDate
<1>3. QED
  BY <1>2, StreamInductive, PTL

-----------------------------------------------------------------------------
(***************************************************************************)
(* Nobody waits for what is not under way.                                 *)
(***************************************************************************)

\* What has characters has bytes.
LEMMA BytesNotEmpty ==
  ASSUME NEW u \in Wide, u # <<>>
  PROVE  Bytes(u) \in Text /\ Len(Bytes(u)) > 0
<1>1. PICK c \in Char, x \in Wide : u = One(c) \o x
  BY WideFirst
<1>2. PICK o \in Wide : o = One(c)
  BY WideOne
<1>3. PICK a \in Text : a = ToUtf8(c) /\ Len(a) > 0
  BY BytesOf
<1>4. PICK b \in Text : b = Bytes(x)
  BY BytesType
<1>5. Bytes(u) = a \o b
  BY <1>1, <1>2, <1>3, <1>4, BytesJoin, BytesOne
<1>6. Len(a \o b) = Len(a) + Len(b) /\ Len(a) \in Nat /\ Len(b) \in Nat
  BY TextJoin, TextLen
<1>7. QED
  BY <1>3, <1>5, <1>6, TextJoin

LEMMA SendsSomething ==
  ASSUME NEW m \in Message, NEW buf, NEW bytes, NEW todo, Holds(buf, bytes, todo)
  PROVE  bytes \o Sends(m) # <<>>
<1>1. PICK c \in Wide : c = Code(m) /\ Len(c) > 0
  <2>1. PICK d : Known(d, <<>>, 1)
    BY TextEmpty, DecodeIs
  <2>2. Fits(m) => Fits(m)
    OBVIOUS
  <2>3. QED
    BY <2>1, <2>2, TextEmpty, CodeReads
<1>2. PICK b \in Text : b = Sends(m) /\ Len(b) > 0
  <2>1. c # <<>>
    BY <1>1, WideText, TextLen
  <2>2. QED
    BY <1>1, <2>1, BytesNotEmpty DEF Sends
<1>3. PICK a \in Text : a = bytes
  BY BytesType DEF Holds
<1>4. Len(a \o b) = Len(a) + Len(b) /\ Len(a) \in Nat /\ a \o b \in Text
  BY TextJoin, TextLen
<1>5. Len(a \o b) > 0
  BY <1>2, <1>4
<1>6. a \o b # <<>>
  BY <1>4, <1>5, TextLen
<1>7. QED
  BY <1>2, <1>3, <1>6

\* Bytes under way are those of messages that were not taken.
LEMMA UnderWay ==
  ASSUME NEW buf, NEW bytes, NEW todo \in Messages, Holds(buf, bytes, todo), bytes # <<>>
  PROVE  todo # <<>>
<1>1. PICK u \in Wide : buf \in Wide /\ bytes = Bytes(u) /\ buf \o u = CodeAll(todo)
  BY DEF Holds
<1>2. u # <<>>
  BY <1>1, BytesEmpty
<1>3. Len(buf \o u) = Len(buf) + Len(u) /\ Len(buf) \in Nat /\ Len(u) \in Nat /\ Len(u) # 0
  BY <1>1, <1>2, WideText, TextJoin, TextLen
<1>4. Len(buf \o u) # 0
  BY <1>3
<1>5. SUFFICES ASSUME todo = <<>> PROVE FALSE
  OBVIOUS
<1>6. buf \o u = <<>> /\ Len(<<>>) = 0
  BY <1>1, <1>5, CodeAllEmpty, TextEmpty, TextLen
<1>7. QED
  BY <1>4, <1>6

\* Once all its bytes have been read, a message that can be read is taken.
LEMMA LastRead ==
  ASSUME NEW todo \in Messages, todo # <<>>, \A k \in 1 .. Len(todo) : Fits(todo[k]),
         NEW b, Holds(b, <<>>, todo)
  PROVE  Decode(b).kind = "value"
<1>1. PICK u \in Wide : b \in Wide /\ <<>> = Bytes(u) /\ b \o u = CodeAll(todo)
  BY DEF Holds
<1>2. u = <<>>
  <2>1. SUFFICES ASSUME u # <<>> PROVE FALSE
    OBVIOUS
  <2>2. Bytes(u) \in Text /\ Len(Bytes(u)) > 0
    BY <2>1, BytesNotEmpty
  <2>3. Len(Bytes(u)) = 0
    BY <1>1, TextEmpty, TextLen
  <2>4. QED
    BY <2>2, <2>3
<1>3. b = CodeAll(todo)
  BY <1>1, <1>2, WideText, TextEmpty
<1>4. PICK m \in Message, rest \in Messages :
        todo = Single(m) \o rest /\ CodeAll(todo) = Code(m) \o CodeAll(rest)
  BY FirstMessage
<1>5. Fits(m)
  <2>1. /\ Len(todo) = Len(Single(m)) + Len(rest) /\ Len(rest) \in Nat
        /\ todo[1] = Single(m)[1] /\ Len(Single(m)) = 1 /\ Single(m)[1] = m
    <3>1. Single(m) \in Seq(Message) /\ Len(Single(m)) = 1 /\ Single(m)[1] = m
      BY DEF Single
    <3>2. rest \in Seq(Message) /\ Len(rest) \in Nat
      BY MessagesJoin DEF Messages
    <3>3. PICK x \in Seq(Message) : x = Single(m)
      BY <3>1
    <3>4. Len(x \o rest) = Len(x) + Len(rest) /\ (x \o rest)[1] = x[1]
      <4>1. 1 \in 1 .. Len(x) + Len(rest) /\ 1 <= Len(x)
        <5>1. Len(x) = 1 /\ Len(rest) \in Nat
          BY <3>1, <3>2, <3>3
        <5>2. QED
          BY <5>1
      <4>2. QED
        BY <3>2, <4>1, ConcatProperties
    <3>5. QED
      BY <1>4, <3>1, <3>2, <3>3, <3>4
  <2>2. 1 \in 1 .. Len(todo) /\ todo[1] = m
    BY <2>1
  <2>3. QED
    BY <2>2
<1>6. PICK q \in Wide : q = CodeAll(rest)
  BY <1>4, CodesType
<1>7. b = Code(m) \o q
  BY <1>3, <1>4, <1>6
<1>8. Decode(b) = Ok(m, Len(Code(m)) + 1)
  BY <1>5, <1>7, RoundTrip
<1>9. QED
  BY <1>8, OkIs

\* The messages that are still to be taken can be read, if all can.
LEMMA TodoFits ==
  ASSUME NEW past \in Messages, NEW todo \in Messages, NEW all, all = past \o todo,
         \A m \in Range(all) : Fits(m)
  PROVE  \A k \in 1 .. Len(todo) : Fits(todo[k])
<1>1. /\ Len(past) \in Nat /\ Len(todo) \in Nat /\ all \in Seq(Message)
      /\ Len(all) = Len(past) + Len(todo)
      /\ \A i \in 1 .. Len(past) + Len(todo) :
            all[i] = IF i <= Len(past) THEN past[i] ELSE todo[i - Len(past)]
  BY ConcatProperties, LenProperties DEF Messages
<1>2. ASSUME NEW k \in 1 .. Len(todo) PROVE Fits(todo[k])
  <2>1. PICK i \in 1 .. Len(past) + Len(todo) : i = Len(past) + k
    BY <1>1
  <2>2. ~(i <= Len(past)) /\ i - Len(past) = k
    BY <1>1, <2>1
  <2>3. all[i] = todo[k]
    BY <1>1, <2>2
  <2>4. i \in DOMAIN all
    BY <1>1
  <2>5. all[i] \in Range(all)
    BY <2>4 DEF Range
  <2>6. QED
    BY <2>3, <2>5
<1>3. QED
  BY <1>2

\* The read that takes the last bytes takes a message.
LEMMA LastIsTaken ==
  ASSUME NEW past \in Messages, NEW todo \in Messages, NEW all, all = past \o todo,
         \A m \in Range(all) : Fits(m),
         NEW buf, NEW bytes, Holds(buf, bytes, todo), NEW size \in 1 .. Len(bytes),
         SubSeq(bytes, size + 1, Len(bytes)) = <<>>,
         NEW decoded, decoded = FromUtf8(SubSeq(bytes, 1, size)), ~Throws(decoded),
         NEW b, b = buf \o decoded.result, NEW o, o = Decode(b)
  PROVE  Taken(o)
<1>1. SUFFICES ASSUME ~Taken(o) PROVE FALSE
  OBVIOUS
<1>2. AfterRead(todo, o, Rest(b, o), <<>>)
  <2>1. AfterRead(todo, o, Rest(b, o), SubSeq(bytes, size + 1, Len(bytes)))
    BY ReadStep
  <2>2. QED
    BY <2>1
<1>3. Holds(Rest(b, o), <<>>, todo) /\ o.kind # "value"
  BY <1>1, <1>2 DEF AfterRead
<1>4. Rest(b, o) = b
  BY <1>3 DEF Rest
<1>5. todo # <<>>
  <2>1. bytes \in Text
    BY BytesType DEF Holds
  <2>2. bytes # <<>>
    <3>1. Len(bytes) \in Nat /\ Len(bytes) # 0
      BY <2>1, TextLen
    <3>2. QED
      BY <2>1, <3>1, TextLen
  <2>3. QED
    BY <2>2, UnderWay
<1>6. \A k \in 1 .. Len(todo) : Fits(todo[k])
  BY TodoFits
<1>7. Decode(b).kind = "value"
  BY <1>3, <1>4, <1>5, <1>6, LastRead
<1>8. QED
  BY <1>3, <1>7

\* While the client waits for an answer, something is under way: the read that takes
\* the last bytes of a request answers it, and the one that takes the last bytes of an
\* answer ends the waiting.
THEOREM AlwaysUnderWay == Spec => []NothingStuck
<1>1. Init => NothingStuck
  BY DEF Init, NothingStuck
<1>2. ASSUME IInv, Next,
             awaiting', ~stale', dead' = {}, ~Unreadable', up' = <<>>, down' = <<>>
      PROVE  FALSE
  <2>1. \A m \in Range(sent') : Fits(m)
    BY <1>2 DEF Unreadable
  <2>2. \A m \in Range(answers') : Fits(m)
    BY <1>2 DEF Unreadable
  <2>3. PICK todo \in Messages, all \in Messages :
          /\ handled \in Messages /\ sent = handled \o todo
          /\ "tracker" \notin dead => Holds(trackerBuf, up, todo)
          /\ ~stale => /\ seen \in Messages /\ answers = seen \o all
                       /\ "client" \notin dead => Holds(clientBuf, down, all)
    BY <1>2 DEF IInv, Histories, TrackerHolds, ClientHolds
  <2>4. ASSUME NEW request \in Request, SendRequest(request) PROVE FALSE
    <3>1. up' = up \o Sends(request) /\ UNCHANGED dead
      BY <2>4 DEF SendRequest
    <3>2. Holds(trackerBuf, up, todo) /\ request \in Message
      BY <1>2, <2>3, <3>1, RequestAssumption
    <3>3. up \o Sends(request) # <<>>
      BY <3>2, SendsSomething
    <3>4. QED
      BY <1>2, <3>1, <3>3
  <2>5. ASSUME NEW size \in 1 .. Len(up), NEW complete \in {0, WrappedInt},
               TrackerReads(size, complete)
        PROVE  FALSE
    <3> DEFINE decoded == FromUtf8(SubSeq(up, 1, size))
               buf     == trackerBuf \o decoded.result
               outcome == Decode(buf)
               answer  == Answer(Len(answers) + 1, complete, outcome.kind = "wrong")
    <3>1. /\ UNCHANGED <<sent, stale>> /\ "tracker" \notin dead
          /\ up' = SubSeq(up, size + 1, Len(up))
      BY <2>5 DEF TrackerReads
    <3>2. ~Throws(decoded)
      <4>1. SUFFICES ASSUME Throws(decoded) PROVE FALSE
        OBVIOUS
      <4>2. dead' = dead \cup {"tracker"}
        BY <2>5, <4>1 DEF TrackerReads
      <4>3. QED
        BY <1>2, <4>2
    <3>3. Taken(outcome)
      <4>1. /\ Holds(trackerBuf, up, todo) /\ sent = handled \o todo /\ handled \in Messages
            /\ \A m \in Range(sent) : Fits(m)
        BY <2>1, <2>3, <3>1
      <4>2. SubSeq(up, size + 1, Len(up)) = <<>>
        BY <1>2, <3>1
      <4>3. QED
        BY <3>2, <4>1, <4>2, LastIsTaken
    <3>4. down' = down \o Sends(answer) /\ UNCHANGED dead
      BY <2>5, <3>2, <3>3 DEF TrackerReads
    <3>5. answer \in Message
      <4>1. complete \in Nat /\ Len(answers) + 1 \in Nat
        BY <1>2, RequestAssumption, MessagesJoin DEF IInv, Histories
      <4>2. (outcome.kind = "wrong") \in BOOLEAN
        OBVIOUS
      <4>3. QED
        BY <4>1, <4>2, AnswerIsMessage
    <3> HIDE DEF decoded, buf, outcome, answer
    <3>6. Holds(clientBuf, down, all)
      BY <1>2, <2>3, <3>1, <3>4
    <3>7. down \o Sends(answer) # <<>>
      BY <3>5, <3>6, SendsSomething
    <3>8. QED
      BY <1>2, <3>4, <3>7
  <2>6. ASSUME NEW size \in 1 .. Len(down), ClientReads(size) PROVE FALSE
    <3> DEFINE decoded == FromUtf8(SubSeq(down, 1, size))
               buf     == clientBuf \o decoded.result
               outcome == Decode(buf)
    <3>1. /\ UNCHANGED <<answers, stale>> /\ "client" \notin dead
          /\ down' = SubSeq(down, size + 1, Len(down))
      BY <2>6 DEF ClientReads
    <3>2. ~Throws(decoded)
      <4>1. SUFFICES ASSUME Throws(decoded) PROVE FALSE
        OBVIOUS
      <4>2. dead' = dead \cup {"client"}
        BY <2>6, <4>1 DEF ClientReads
      <4>3. QED
        BY <1>2, <4>2
    <3>3. Taken(outcome)
      <4>1. /\ Holds(clientBuf, down, all) /\ answers = seen \o all /\ seen \in Messages
            /\ \A m \in Range(answers) : Fits(m)
        BY <1>2, <2>2, <2>3, <3>1
      <4>2. SubSeq(down, size + 1, Len(down)) = <<>>
        BY <1>2, <3>1
      <4>3. QED
        BY <3>2, <4>1, <4>2, LastIsTaken
    <3>4. awaiting' = FALSE
      BY <2>6, <3>2, <3>3 DEF ClientReads
    <3>5. QED
      BY <1>2, <3>4
  <2>7. ASSUME Reconnect PROVE FALSE
    BY <1>2, <2>7 DEF Reconnect
  <2>8. QED
    BY <1>2, <2>4, <2>5, <2>6, <2>7 DEF Next
<1>3. IInv /\ Next => NothingStuck'
  BY <1>2 DEF NothingStuck
<1>4. NothingStuck /\ UNCHANGED vars => NothingStuck'
  BY DEF vars, NothingStuck, Unreadable
<1>5. QED
  BY <1>1, <1>3, <1>4, StreamInductive, PTL DEF Spec
=============================================================================
