------------------------------- MODULE Bencode -------------------------------
(***************************************************************************)
(* The encoding of what clients and trackers tell each other: values are   *)
(* coded as a wide string (Bencode/Types), which travels as UTF-8, and are *)
(* decoded from whatever part of it has arrived (Bencode/Coders).          *)
(* Characters and bytes are numbers.                                       *)
(*                                                                         *)
(* A value is a record whose field is its type: int, str, list or dict; a  *)
(* dictionary is a sequence of pairs, in the order of its keys.            *)
(***************************************************************************)
EXTENDS Integers, Sequences, SequencesExt

CONSTANT IntLimit   \* the least number that std::stoll refuses, 2^63 in the program

ASSUME LimitAssumption == IntLimit \in Nat \ {0}

CharI == 105
CharL == 108
CharD == 100
CharE == 101
Colon == 58
Digit == 48 .. 57

-----------------------------------------------------------------------------
\* UTF-8: per length, the greatest character, what marks its first byte, how many
\* values of a character that byte tells apart, and the weight of a byte by the
\* number of bytes that follow it.
Greatest == <<127, 2047, 65535, 2097151, 67108863, 2147483647>>
Mask     == <<0, 192, 224, 240, 248, 252>>
Room     == <<128, 32, 16, 8, 4, 2>>
Weight   == <<1, 64, 4096, 262144, 16777216, 1073741824>>

\* The characters that have a code, and what a message is: a dictionary of simple
\* values and of lists of them.  A std::map has each key once and in order, so the
\* program sends some of these.
Char    == 0 .. Greatest[6]
Simple  == [int : Nat] \cup [str : Seq(Char)]
Message == [dict : Seq(Seq(Char) \X (Simple \cup [list : Seq(Simple)]))]

\* (String::to_utf8)
ToUtf8(c) ==
    LET count == CHOOSE n \in 1 .. 6 : /\ c <= Greatest[n]
                                       /\ \A m \in 1 .. n - 1 : c > Greatest[m]
    IN  [k \in 1 .. count |->
           IF k = 1 THEN Mask[count] + c \div Weight[count]
                    ELSE 128 + ((c \div Weight[count - k + 1]) % 64)]

Bytes(string) == FlattenSeq([k \in 1 .. Len(string) |-> ToUtf8(string[k])])

\* One byte more: result so far, character under way and bytes it still lacks.
\* A first byte above 127 is taken for the mark of the shortest length it fits.
FirstChar(acc, byte) ==
    LET over == {n \in 2 .. 6 : byte < Mask[n] + Room[n]}
        n    == CHOOSE x \in over : \A y \in over : x <= y
    IN  IF byte <= 127 THEN [acc EXCEPT !.result = Append(@, byte)]
        ELSE IF over = {} THEN [acc EXCEPT !.wrong = TRUE]
        ELSE [acc EXCEPT !.count = n - 1, !.char = byte % Room[n]]

OtherChar(acc, byte) ==
    LET char == acc.char * 64 + (byte % 64)
    IN  IF byte < 128 THEN [acc EXCEPT !.wrong = TRUE]
        ELSE IF acc.count > 1 THEN [acc EXCEPT !.count = @ - 1, !.char = char]
        ELSE [acc EXCEPT !.count = 0, !.result = Append(@, char)]

\* What Utf8Decoder::decode returns for these bytes; it throws, and returns
\* nothing, unless they end with a whole character.
Nothing == [result |-> <<>>, count |-> 0, char |-> 0, wrong |-> FALSE]
NextByte(acc, byte) ==
    IF acc.wrong THEN acc
    ELSE IF acc.count = 0 THEN FirstChar(acc, byte)
    ELSE OtherChar(acc, byte)
FromUtf8(bytes) ==
    LET after[n \in 0 .. Len(bytes)] ==
          IF n = 0 THEN Nothing ELSE NextByte(after[n - 1], bytes[n])
    IN  after[Len(bytes)]
Throws(decoded) == decoded.wrong \/ decoded.count > 0

-----------------------------------------------------------------------------
\* Coding of a value (code() of each type).
Decimal(n) ==
    LET digits[k \in 0 .. n] ==
          IF k < 10 THEN <<48 + k>> ELSE Append(digits[k \div 10], 48 + (k % 10))
    IN  digits[n]

\* A mutation: the length of a string counts its bytes.
StringCodeInBytes(s) == Decimal(Len(Bytes(s))) \o <<Colon>> \o s

\* The length of a string counts its characters, not its bytes.
StringCode(s) == Decimal(Len(s)) \o <<Colon>> \o s

\* The code of a value, given that of the values in it.
CodeOf(v, Inner(_)) ==
    CASE "int"  \in DOMAIN v -> <<CharI>> \o Decimal(v.int) \o <<CharE>>
      [] "str"  \in DOMAIN v -> StringCode(v.str)
      [] "list" \in DOMAIN v ->
           <<CharL>> \o FlattenSeq([k \in 1 .. Len(v.list) |-> Inner(v.list[k])]) \o <<CharE>>
      [] "dict" \in DOMAIN v ->
           <<CharD>> \o FlattenSeq([k \in 1 .. Len(v.dict) |->
                           StringCode(v.dict[k][1]) \o Inner(v.dict[k][2])]) \o <<CharE>>

\* The code of a simple value, of one in a message, of a message.
Flat(v) == CodeOf(v, LAMBDA w : <<>>)
Item(v) == CodeOf(v, Flat)
Code(v) == CodeOf(v, Item)

\* No number in the code of a message is one that std::stoll refuses.
FlatFits(v) == /\ "int" \in DOMAIN v => v.int < IntLimit
               /\ "str" \in DOMAIN v => Len(v.str) < IntLimit
ItemFits(v) == IF "list" \in DOMAIN v THEN \A k \in DOMAIN v.list : FlatFits(v.list[k])
                                      ELSE FlatFits(v)
Fits(m) == \A k \in DOMAIN m.dict : /\ Len(m.dict[k][1]) < IntLimit
                                    /\ ItemFits(m.dict[k][2])

-----------------------------------------------------------------------------
\* Decoding (Coders/Decoder).  The outcome of a call is a value, with the place
\* after it, or an exception: "eof" when the text may go on, "wrong" otherwise.
None    == [none |-> TRUE]
Ok(v, pos)   == [kind |-> "value", value |-> v, pos |-> pos]
Fails(kind)  == [kind |-> kind, value |-> None, pos |-> 0]

\* What the type at a place is told by: the low byte of the character there; the
\* end of a wide string reads as a NUL.
At(s, pos) == IF pos <= Len(s) THEN s[pos] % 256 ELSE 0

\* getline: the next place of a character, 0 if it is not there.
Find(s, pos, char) ==
    IF \E k \in pos .. Len(s) : s[k] = char
    THEN CHOOSE k \in pos .. Len(s) : s[k] = char /\ \A j \in pos .. k - 1 : s[j] # char
    ELSE 0

\* std::stoll on the digits that a text starts with; -1 when it throws.
Number(text) ==
    LET value[n \in 0 .. Len(text)] ==
          IF n = 0 THEN 0
          ELSE IF value[n - 1] >= IntLimit THEN value[n - 1]
          ELSE 10 * value[n - 1] + text[n] - 48
        stop == SelectInSeq(text, LAMBDA c : c \notin Digit)
        size == IF stop = 0 THEN Len(text) ELSE stop - 1
    IN  IF size = 0 \/ value[size] >= IntLimit THEN -1 ELSE value[size]

IntDecoder(s, pos) ==
    LET end == Find(s, pos, CharE)
        n   == Number(SubSeq(s, pos, end - 1))
    IN  CASE end = 0 -> Fails("eof")
          [] end > 0 /\ n < 0 -> Fails("wrong")
          [] OTHER -> Ok([int |-> n], end + 1)

StringDecoder(s, pos) ==
    LET colon == Find(s, pos, Colon)
        size  == Number(SubSeq(s, pos, colon - 1))
    IN  CASE colon = 0 -> Fails("eof")
          [] colon > 0 /\ size < 0 -> Fails("wrong")
          [] colon > 0 /\ size > Len(s) - colon -> Fails("eof")
          [] OTHER -> Ok([str |-> SubSeq(s, colon + 1, colon + size)], colon + size + 1)

\* What the three decoders return at pos, from what they do further on.  None
\* where a list, or what stands at the top, ends.
CoreDecoder(decode, s, pos) ==
    CASE At(s, pos) = CharI -> IntDecoder(s, pos + 1)
      [] At(s, pos) = CharL -> decode[<<"list", pos + 1>>]
      [] At(s, pos) = CharD -> decode[<<"dict", pos + 1>>]
      [] At(s, pos) = CharE -> Ok(None, pos)
      [] At(s, pos) \in Digit -> StringDecoder(s, pos)
      [] OTHER -> Fails("wrong")

ListDecoder(decode, s, pos) ==
    LET item == decode[<<"core", pos>>]
        rest == decode[<<"list", item.pos>>]
    IN  IF item.kind # "value" THEN item
        ELSE IF item.value = None THEN Ok([list |-> <<>>], pos + 1)
        ELSE IF rest.kind # "value" THEN rest
        ELSE Ok([list |-> <<item.value>> \o rest.value.list], rest.pos)

\* A mutation: a dictionary may end with the text.
DictDecoderToEnd(decode, s, pos) ==
    LET key   == StringDecoder(s, pos)
        value == decode[<<"core", key.pos>>]
        rest  == decode[<<"dict", value.pos>>]
    IN  IF pos > Len(s) \/ At(s, pos) = CharE THEN Ok([dict |-> <<>>], pos + 1)
        ELSE IF At(s, pos) \notin Digit THEN Fails("wrong")
        ELSE IF key.kind # "value" THEN key
        ELSE IF value.kind # "value" THEN value
        ELSE IF rest.kind # "value" THEN rest
        ELSE Ok([dict |-> <<<<key.value.str, value.value>>>> \o rest.value.dict], rest.pos)

\* At the end of the text there is no key: the dictionary is wrong, not cut.
DictDecoder(decode, s, pos) ==
    LET key   == StringDecoder(s, pos)
        value == decode[<<"core", key.pos>>]
        rest  == decode[<<"dict", value.pos>>]
    IN  IF At(s, pos) = CharE THEN Ok([dict |-> <<>>], pos + 1)
        ELSE IF At(s, pos) \notin Digit THEN Fails("wrong")
        ELSE IF key.kind # "value" THEN key
        ELSE IF value.kind # "value" THEN value
        ELSE IF rest.kind # "value" THEN rest
        ELSE Ok([dict |-> <<<<key.value.str, value.value>>>> \o rest.value.dict], rest.pos)

Calls(s) == {"core", "list", "dict"} \X (1 .. Len(s) + 1)

Decode(s) ==
    LET decode[call \in Calls(s)] ==
          CASE call[1] = "core" -> CoreDecoder(decode, s, call[2])
            [] call[1] = "list" -> ListDecoder(decode, s, call[2])
            [] call[1] = "dict" -> DictDecoder(decode, s, call[2])
    IN  decode[<<"core", 1>>]

\* A mutation: what follows the message is dropped.
RestLost(s, outcome) == IF outcome.kind = "value" THEN <<>> ELSE s

\* What is left of the text after a successful call; a failed one leaves it all.
Rest(s, outcome) ==
    IF outcome.kind = "value" THEN SubSeq(s, outcome.pos, Len(s)) ELSE s
=============================================================================
