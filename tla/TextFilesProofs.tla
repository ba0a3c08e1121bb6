-------------------------- MODULE TextFilesProofs --------------------------
(* Theorems about the codec, the readers and the encoder, for every file,     *)
(* every list of code points, every choice of failing calls and every change  *)
(* of the file.  The codec comes first: what a character is, that the encoder *)
(* and the decoder agree on it, and how the two recursions that define a      *)
(* well-formed text read it.  Then the steps: what each call may change, what *)
(* the decoder has passed and what the encoder has written.                   *)
EXTENDS TextFiles, SequenceTheorems, Loops

-------------------------------------------------------------------------
(* The codec.                                                              *)

\* An element of a sequence.
LEMMA Element ==
  ASSUME NEW S, NEW s \in Seq(S), NEW k \in 1 .. Len(s)
  PROVE  s[k] \in S
OBVIOUS

\* A payload is what six bits hold, or an error.
LEMMA PayloadBounded ==
  ASSUME NEW inp, NEW idx
  PROVE  _utf8_cont_6(inp, idx) \in {UTF8_ERR} \cup 0 .. 63
<1>1. ASSUME NEW c \in 128 .. 191 PROVE c % 64 \in 0 .. 63
  OBVIOUS
<1> QED BY <1>1 DEF _utf8_cont_6

\* What is accepted is a scalar value.
LEMMA AcceptedScalar ==
  ASSUME NEW n, NEW r \in Int, Accepts(n, r)
  PROVE  r \in Nat /\ IsScalar(r)
BY DEF Accepts, IsScalar

\* A sum of payloads is a number, whatever the first byte.
LEMMA DecodedScalar ==
  ASSUME NEW inp, NEW idx, _utf8_cont_8(inp, idx) \in Int
  PROVE  \/ Decoded(inp, idx) = UTF8_ERR
         \/ Decoded(inp, idx) \in Nat /\ IsScalar(Decoded(inp, idx))
<1> DEFINE c == _utf8_cont_8(inp, idx)
<1> DEFINE n == Announced(c)
<1> DEFINE payload == [k \in 1 .. 3 |-> _utf8_cont_6(inp, idx + k)]
<1> DEFINE r == CASE n = 0 -> c
             [] n = 1 -> (c % 32) * 64 + payload[1]
             [] n = 2 -> (c % 16) * 4096 + payload[1] * 64 + payload[2]
             [] n = 3 -> (c % 8) * 262144 + payload[1] * 4096 + payload[2] * 64 + payload[3]
<1> DEFINE all == \A k \in 1 .. n : payload[k] >= 0
<1>1. Decoded(inp, idx) = IF Accepts(n, r) /\ all THEN r ELSE UTF8_ERR
  BY DEF Decoded
<1>2. c \in Int /\ payload[1] \in Int /\ payload[2] \in Int /\ payload[3] \in Int
  BY PayloadBounded DEF UTF8_ERR
<1>3. n \in {0, 1, 2, 3}
  BY DEF Announced
<1> HIDE DEF c, payload, n
<1>4. r \in Int
  BY <1>2, <1>3
<1> HIDE DEF r, all
<1> QED BY <1>1, <1>4, AcceptedScalar

\* What SubSeq returns of a prefix.
LEMMA Prefix ==
  ASSUME NEW S, NEW s \in Seq(S), NEW n \in 1 .. Len(s)
  PROVE  SubSeq(s, 1, n) \in Seq(S) /\ Len(SubSeq(s, 1, n)) = n
OBVIOUS

\* An int never holds more than the length it was given.
LEMMA AsIntBelow ==
  ASSUME NEW n \in Nat
  PROVE  AsInt(n) \in Int /\ AsInt(n) <= n
<1>1. CASE n <= IntMax
  BY <1>1 DEF AsInt
<1>2. CASE n > IntMax
  <2> DEFINE m == 2 * IntMax + 2
             k == n + IntMax + 1
  <2>1. IntMax \in Nat /\ m \in Nat /\ m > 0 /\ k \in Nat
    BY IntAssumption
  <2>2. AsInt(n) = (k % m) - (IntMax + 1)
    BY <1>2, <2>1 DEF AsInt
  <2>3. m = 2 * IntMax + 2
    OBVIOUS
  <2> HIDE DEF m, k
  <2>4. k % m \in 0 .. m - 1
    BY ONLY <2>1
  <2>5. \A q \in 0 .. m - 1 : q - (IntMax + 1) \in Int /\ q - (IntMax + 1) <= IntMax
    BY ONLY <2>1, <2>3
  <2> DEFINE q == k % m
  <2>6. q - (IntMax + 1) \in Int /\ q - (IntMax + 1) <= IntMax
    BY ONLY <2>4, <2>5
  <2>7. AsInt(n) = q - (IntMax + 1)
    BY ONLY <2>2
  <2> HIDE DEF q
  <2> DEFINE a == q - (IntMax + 1)
  <2>8. a \in Int /\ a <= IntMax /\ AsInt(n) = a
    BY ONLY <2>6, <2>7
  <2> HIDE DEF a
  <2> QED BY ONLY <1>2, <2>1, <2>8
<1> QED BY <1>1, <1>2, IntAssumption

\* A character that is read is a scalar value or an error, and the decoder moves on.
LEMMA CharacterStep ==
  ASSUME NEW inp \in Seq(Byte), NEW idx \in Nat, idx < Len(inp)
  PROVE  /\ \/ Decoded(inp, idx) = UTF8_ERR
            \/ Decoded(inp, idx) \in Nat /\ IsScalar(Decoded(inp, idx))
         /\ Tried(inp, idx, Announced(inp[idx + 1])) \in idx + 1 .. Len(inp)
<1> Len(inp) \in Nat
  OBVIOUS
<1>1. ASSUME NEW c PROVE Announced(c) \in Nat
  BY DEF Announced
<1>2. ASSUME NEW n \in Nat
      PROVE  Tried(inp, idx, n) \in idx + 1 .. Len(inp)
  BY <1>2 DEF Tried
<1>3. Tried(inp, idx, Announced(inp[idx + 1])) \in idx + 1 .. Len(inp)
  <2>2. Announced(inp[idx + 1]) \in Nat
    BY <1>1
  <2> QED BY ONLY <1>2, <2>2
<1>4. inp[idx + 1] \in Int
  <2> DEFINE k == idx + 1
  <2>1. k \in 1 .. Len(inp)
    OBVIOUS
  <2> HIDE DEF k
  <2>2. inp[k] \in Byte
    BY <2>1, Element
  <2>3. \A b \in Byte : b \in Int
    BY DEF Byte
  <2> QED BY <2>2, <2>3 DEF k
<1>5. _utf8_cont_8(inp, idx) \in Int
  BY <1>4 DEF _utf8_cont_8
<1> QED BY <1>3, <1>5, DecodedScalar

\* A step of the decoder stays in the text, and moves on unless it stands at the end it was
\* told, or behind it.
LEMMA DecodeStep ==
  ASSUME NEW inp \in Seq(Byte),
         NEW state \in [idx : 0 .. Len(inp), len : Int, chr : Nat, byte : Nat],
         state.len <= Len(inp)
  PROVE  LET next == utf8_decodeNext(inp, state)
         IN  /\ next.chr = UTF8_END => state.idx = state.len
             /\ \/ next.chr \in {UTF8_END, UTF8_ERR} /\ next.state = state
                \/ /\ next.chr = UTF8_ERR \/ (next.chr \in Nat /\ IsScalar(next.chr))
                   /\ next.state.idx \in state.idx + 1 .. Len(inp)
                   /\ next.state = [idx |-> next.state.idx, len |-> state.len,
                                    chr |-> state.chr + 1, byte |-> state.idx]
<1> DEFINE next == utf8_decodeNext(inp, state)
<1>1. Len(inp) \in Nat /\ state.idx \in Nat /\ state.len \in Int
  OBVIOUS
<1>2. CASE state.idx >= state.len
  <2>1. next = [chr |-> IF state.idx = state.len THEN UTF8_END ELSE UTF8_ERR, state |-> state]
    BY <1>2 DEF utf8_decodeNext
  <2> HIDE DEF next
  <2> QED BY ONLY <2>1 DEF next, UTF8_END, UTF8_ERR
<1>3. CASE state.idx < state.len
  <2> DEFINE text == SubSeq(inp, 1, state.len)
             d == Decoded(text, state.idx)
             tried == Tried(text, state.idx, Announced(text[state.idx + 1]))
  <2>1. ~(state.idx >= state.len) /\ state.len \in 1 .. Len(inp)
    BY <1>1, <1>3
  <2>2. text \in Seq(Byte) /\ Len(text) = state.len
    BY <2>1, Prefix
  <2>3. next = [chr |-> d,
                state |-> [idx |-> tried, len |-> state.len, chr |-> state.chr + 1, byte |-> state.idx]]
    BY <2>1 DEF utf8_decodeNext
  <2> HIDE DEF text
  <2>4. /\ d = UTF8_ERR \/ (d \in Nat /\ IsScalar(d))
        /\ tried \in state.idx + 1 .. Len(text)
    BY <1>1, <1>3, <2>2, CharacterStep
  <2> HIDE DEF d, tried, next
  <2>5. tried \in state.idx + 1 .. Len(inp)
    BY ONLY <1>1, <2>1, <2>2, <2>4
  <2>6. next.chr = d /\ next.state.idx = tried
        /\ next.state = [idx |-> next.state.idx, len |-> state.len,
                         chr |-> state.chr + 1, byte |-> state.idx]
    BY ONLY <2>3
  <2>7. d # UTF8_END
    BY ONLY <2>4 DEF UTF8_END, UTF8_ERR
  <2> QED BY ONLY <2>4, <2>5, <2>6, <2>7, Zenon DEF next
<1> QED BY <1>1, <1>2, <1>3

\* The encoder tells five ranges apart (utf8.h:134-155); ASCII is one byte.
LEMMA OneByte ==
  ASSUME NEW n \in Int, 0 <= n /\ n <= 127
  PROVE  utf8_encode_codepoint(n) =
           <<n>>
<1> DEFINE two == <<192 + (n \div 64), Continuation(n)>>
           three == <<224 + (n \div 4096), Continuation(n \div 64), Continuation(n)>>
           four == <<240 + (n \div 262144), Continuation(n \div 4096),
                     Continuation(n \div 64), Continuation(n)>>
<1>1. utf8_encode_codepoint(n) =
        CASE 0 <= n /\ n <= 127 -> <<n>>
          [] 128 <= n /\ n <= 2047 -> two
          [] 2048 <= n /\ n <= 65535 -> three
          [] 65536 <= n /\ n <= 1114111 -> four
          [] OTHER -> <<>>
  BY DEF utf8_encode_codepoint
<1> HIDE DEF two, three, four
<1> QED BY <1>1

\* Up to 11 bits take two bytes.
LEMMA TwoBytes ==
  ASSUME NEW n \in Int, 128 <= n /\ n <= 2047
  PROVE  utf8_encode_codepoint(n) =
           <<192 + (n \div 64), Continuation(n)>>
<1> DEFINE two == <<192 + (n \div 64), Continuation(n)>>
           three == <<224 + (n \div 4096), Continuation(n \div 64), Continuation(n)>>
           four == <<240 + (n \div 262144), Continuation(n \div 4096),
                     Continuation(n \div 64), Continuation(n)>>
<1>1. utf8_encode_codepoint(n) =
        CASE 0 <= n /\ n <= 127 -> <<n>>
          [] 128 <= n /\ n <= 2047 -> two
          [] 2048 <= n /\ n <= 65535 -> three
          [] 65536 <= n /\ n <= 1114111 -> four
          [] OTHER -> <<>>
  BY DEF utf8_encode_codepoint
<1> HIDE DEF two, three, four
<1> QED BY <1>1 DEF two

\* Up to 16 bits take three bytes.
LEMMA ThreeBytes ==
  ASSUME NEW n \in Int, 2048 <= n /\ n <= 65535
  PROVE  utf8_encode_codepoint(n) =
           <<224 + (n \div 4096), Continuation(n \div 64), Continuation(n)>>
<1> DEFINE two == <<192 + (n \div 64), Continuation(n)>>
           three == <<224 + (n \div 4096), Continuation(n \div 64), Continuation(n)>>
           four == <<240 + (n \div 262144), Continuation(n \div 4096),
                     Continuation(n \div 64), Continuation(n)>>
<1>1. utf8_encode_codepoint(n) =
        CASE 0 <= n /\ n <= 127 -> <<n>>
          [] 128 <= n /\ n <= 2047 -> two
          [] 2048 <= n /\ n <= 65535 -> three
          [] 65536 <= n /\ n <= 1114111 -> four
          [] OTHER -> <<>>
  BY DEF utf8_encode_codepoint
<1> HIDE DEF two, three, four
<1> QED BY <1>1 DEF three

\* The other code points take four bytes.
LEMMA FourBytes ==
  ASSUME NEW n \in Int, 65536 <= n /\ n <= 1114111
  PROVE  utf8_encode_codepoint(n) =
           <<240 + (n \div 262144), Continuation(n \div 4096), Continuation(n \div 64),
             Continuation(n)>>
<1> DEFINE two == <<192 + (n \div 64), Continuation(n)>>
           three == <<224 + (n \div 4096), Continuation(n \div 64), Continuation(n)>>
           four == <<240 + (n \div 262144), Continuation(n \div 4096),
                     Continuation(n \div 64), Continuation(n)>>
<1>1. utf8_encode_codepoint(n) =
        CASE 0 <= n /\ n <= 127 -> <<n>>
          [] 128 <= n /\ n <= 2047 -> two
          [] 2048 <= n /\ n <= 65535 -> three
          [] 65536 <= n /\ n <= 1114111 -> four
          [] OTHER -> <<>>
  BY DEF utf8_encode_codepoint
<1> HIDE DEF two, three, four
<1> QED BY <1>1 DEF four

\* What is no code point is not encoded.
LEMMA NoBytes ==
  ASSUME NEW n \in Int, ~(0 <= n /\ n <= 1114111)
  PROVE  utf8_encode_codepoint(n) =
           <<>>
<1> DEFINE two == <<192 + (n \div 64), Continuation(n)>>
           three == <<224 + (n \div 4096), Continuation(n \div 64), Continuation(n)>>
           four == <<240 + (n \div 262144), Continuation(n \div 4096),
                     Continuation(n \div 64), Continuation(n)>>
<1>1. utf8_encode_codepoint(n) =
        CASE 0 <= n /\ n <= 127 -> <<n>>
          [] 128 <= n /\ n <= 2047 -> two
          [] 2048 <= n /\ n <= 65535 -> three
          [] 65536 <= n /\ n <= 1114111 -> four
          [] OTHER -> <<>>
  BY DEF utf8_encode_codepoint
<1> HIDE DEF two, three, four
<1> QED BY <1>1

\* A code point takes up to four bytes; only what is none takes no byte.
LEMMA EncodedBytes ==
  ASSUME NEW n \in Int
  PROVE  /\ utf8_encode_codepoint(n) \in Seq(Byte)
         /\ Len(utf8_encode_codepoint(n)) <= 4
         /\ utf8_encode_codepoint(n) = <<>> <=> ~(0 <= n /\ n <= 1114111)
<1> DEFINE e == utf8_encode_codepoint(n)
           Good == e \in Seq(Byte) /\ Len(e) <= 4 /\ (e = <<>> <=> ~(0 <= n /\ n <= 1114111))
<1>1. ASSUME NEW bits \in Int PROVE Continuation(bits) \in Byte
  BY DEF Continuation, Byte
<1>2. ASSUME 0 <= n /\ n <= 127 PROVE Good
  <2>1. utf8_encode_codepoint(n) = <<n>> BY <1>2, OneByte
  <2> QED BY <1>2, <2>1 DEF Byte
<1>3. ASSUME 128 <= n /\ n <= 2047 PROVE Good
  <2>1. utf8_encode_codepoint(n) = <<192 + (n \div 64), Continuation(n)>>
    BY <1>3, TwoBytes
  <2>2. 192 + (n \div 64) \in Byte BY <1>3 DEF Byte
  <2> QED BY <1>1, <1>3, <2>1, <2>2
<1>4. ASSUME 2048 <= n /\ n <= 65535 PROVE Good
  <2>1. utf8_encode_codepoint(n) =
          <<224 + (n \div 4096), Continuation(n \div 64), Continuation(n)>>
    BY <1>4, ThreeBytes
  <2>2. 224 + (n \div 4096) \in Byte /\ n \div 64 \in Int BY <1>4 DEF Byte
  <2> QED BY <1>1, <1>4, <2>1, <2>2
<1>5. ASSUME 65536 <= n /\ n <= 1114111 PROVE Good
  <2>1. utf8_encode_codepoint(n) =
          <<240 + (n \div 262144), Continuation(n \div 4096),
            Continuation(n \div 64), Continuation(n)>>
    BY <1>5, FourBytes
  <2>2. 240 + (n \div 262144) \in Byte /\ n \div 4096 \in Int /\ n \div 64 \in Int
    BY <1>5 DEF Byte
  <2> QED BY <1>1, <1>5, <2>1, <2>2
<1>6. ASSUME ~(0 <= n /\ n <= 1114111) PROVE Good
  <2>1. e = <<>>
    BY ONLY <1>6, NoBytes
  <2>2. <<>> \in Seq(Byte) /\ Len(<<>>) = 0
    OBVIOUS
  <2> HIDE DEF e
  <2> QED BY ONLY <1>6, <2>1, <2>2
<1> HIDE DEF Good
<1>7. \/ 0 <= n /\ n <= 127
      \/ 128 <= n /\ n <= 2047
      \/ 2048 <= n /\ n <= 65535
      \/ 65536 <= n /\ n <= 1114111
      \/ ~(0 <= n /\ n <= 1114111)
  OBVIOUS
<1>8. Good
  BY ONLY <1>2, <1>3, <1>4, <1>5, <1>6, <1>7
<1> QED BY <1>8 DEF Good

\* What is decoded from a first byte c and what follows it.
LEMMA DecodedFrom ==
  ASSUME NEW inp, NEW idx, NEW c \in Int, _utf8_cont_8(inp, idx) = c
  PROVE  LET Result(n, r, ok) == IF Accepts(n, r) /\ ok THEN r ELSE UTF8_ERR
             p1 == _utf8_cont_6(inp, idx + 1)
             p2 == _utf8_cont_6(inp, idx + 2)
             p3 == _utf8_cont_6(inp, idx + 3)
         IN  /\ Announced(c) = 0 => Decoded(inp, idx) = Result(0, c, TRUE)
             /\ Announced(c) = 1 =>
                  Decoded(inp, idx) = Result(1, (c % 32) * 64 + p1, p1 >= 0)
             /\ Announced(c) = 2 =>
                  Decoded(inp, idx) = Result(2, (c % 16) * 4096 + p1 * 64 + p2, p1 >= 0 /\ p2 >= 0)
             /\ Announced(c) = 3 =>
                  Decoded(inp, idx) = Result(3, (c % 8) * 262144 + p1 * 4096 + p2 * 64 + p3,
                                             p1 >= 0 /\ p2 >= 0 /\ p3 >= 0)
<1> DEFINE p1 == _utf8_cont_6(inp, idx + 1)
<1> DEFINE p2 == _utf8_cont_6(inp, idx + 2)
<1> DEFINE p3 == _utf8_cont_6(inp, idx + 3)
<1>0. p1 \in Int /\ p2 \in Int /\ p3 \in Int
  BY PayloadBounded DEF UTF8_ERR
<1> DEFINE n == Announced(c)
<1> DEFINE payload == [k \in 1 .. 3 |-> _utf8_cont_6(inp, idx + k)]
<1> DEFINE r == CASE n = 0 -> c
             [] n = 1 -> (c % 32) * 64 + payload[1]
             [] n = 2 -> (c % 16) * 4096 + payload[1] * 64 + payload[2]
             [] n = 3 -> (c % 8) * 262144 + payload[1] * 4096 + payload[2] * 64 + payload[3]
<1> DEFINE all == \A k \in 1 .. n : payload[k] >= 0
<1>1. Decoded(inp, idx) = IF Accepts(n, r) /\ all THEN r ELSE UTF8_ERR
  BY DEF Decoded
<1>2. payload[1] = p1 /\ payload[2] = p2 /\ payload[3] = p3
  OBVIOUS
<1> HIDE DEF n, payload, p1, p2, p3
<1>3. CASE n = 0
  <2>1. r = c /\ all BY <1>3
  <2> HIDE DEF r, all
  <2> QED BY <1>1, <1>3, <2>1 DEF n
<1>4. CASE n = 1
  <2>1. r = (c % 32) * 64 + p1 /\ (all <=> p1 >= 0) BY <1>0, <1>2, <1>4
  <2> HIDE DEF r, all
  <2> QED BY <1>1, <1>4, <2>1 DEF n, p1, p2
<1>5. CASE n = 2
  <2>1. r = (c % 16) * 4096 + p1 * 64 + p2 /\ (all <=> p1 >= 0 /\ p2 >= 0) BY <1>0, <1>2, <1>5
  <2> HIDE DEF r, all
  <2> QED BY <1>1, <1>5, <2>1 DEF n, p1, p2
<1>6. CASE n = 3
  <2>1. r = (c % 8) * 262144 + p1 * 4096 + p2 * 64 + p3 BY <1>0, <1>2, <1>6
  <2>2. all <=> p1 >= 0 /\ p2 >= 0 /\ p3 >= 0 BY <1>0, <1>2, <1>6
  <2> HIDE DEF r, all
  <2> QED BY <1>1, <1>6, <2>1, <2>2 DEF n, p1, p2, p3
<1>7. n \in {0, 1, 2, 3}
  BY DEF Announced, n
<1> QED BY <1>3, <1>4, <1>5, <1>6, <1>7

\* What a continuation byte holds.
LEMMA ContinuationHolds ==
  ASSUME NEW inp, NEW idx \in Nat, NEW bits \in Nat,
         Len(inp) \in Nat, idx < Len(inp), inp[idx + 1] = Continuation(bits)
  PROVE  _utf8_cont_6(inp, idx) = bits % 64
<1> DEFINE c == 128 + (bits % 64)
<1>1. _utf8_cont_8(inp, idx) = c
  BY DEF _utf8_cont_8, Continuation
<1>2. c \in 128 .. 191 /\ c % 64 = bits % 64
  OBVIOUS
<1> HIDE DEF c
<1> QED BY <1>1, <1>2 DEF _utf8_cont_6

\* The decoder gives back what was encoded (utf8.h:78-155), for every code point that is
\* no surrogate: no first byte, shift or mask of the one disagrees with the other.
THEOREM EncodedDecodes ==
  ASSUME NEW n \in Int, IsScalar(n)
  PROVE  Decoded(utf8_encode_codepoint(n), 0) = n
<1> DEFINE inp == utf8_encode_codepoint(n)
<1>1. CASE n <= 127
  <2>1. inp = <<n>> BY <1>1, OneByte DEF IsScalar
  <2> HIDE DEF inp
  <2>2. _utf8_cont_8(inp, 0) = n BY <2>1 DEF _utf8_cont_8
  <2>3. Announced(n) = 0 BY <1>1 DEF IsScalar, Announced
  <2>4. Accepts(0, n) BY <1>1 DEF IsScalar, Accepts
  <2> QED BY <2>2, <2>3, <2>4, DecodedFrom DEF inp
<1>2. CASE 128 <= n /\ n <= 2047
  <2> DEFINE c == 192 + (n \div 64)
  <2>1. inp = <<c, Continuation(n)>> BY <1>2, TwoBytes
  <2> HIDE DEF inp
  <2>2. _utf8_cont_8(inp, 0) = c BY <2>1 DEF _utf8_cont_8
  <2>3. _utf8_cont_6(inp, 0 + 1) = n % 64 BY <1>2, <2>1, ContinuationHolds
  <2>4. c \in Int /\ Announced(c) = 1 BY <1>2 DEF Announced
  <2>5. (c % 32) * 64 + (n % 64) = n /\ n % 64 >= 0 BY <1>2
  <2>6. Accepts(1, n) BY <1>2 DEF Accepts
  <2> HIDE DEF c
  <2> QED BY <2>2, <2>3, <2>4, <2>5, <2>6, DecodedFrom DEF inp
<1>3. CASE 2048 <= n /\ n <= 65535
  <2> DEFINE c == 224 + (n \div 4096)
  <2>1. inp = <<c, Continuation(n \div 64), Continuation(n)>> BY <1>3, ThreeBytes
  <2> HIDE DEF inp
  <2>2. _utf8_cont_8(inp, 0) = c BY <2>1 DEF _utf8_cont_8
  <2>3. _utf8_cont_6(inp, 0 + 1) = (n \div 64) % 64
    <3>1. Len(inp) = 3 /\ inp[1 + 1] = Continuation(n \div 64) /\ n \div 64 \in Nat
      BY <1>3, <2>1
    <3> QED BY <3>1, ContinuationHolds
  <2>7. _utf8_cont_6(inp, 0 + 2) = n % 64
    BY <1>3, <2>1, ContinuationHolds
  <2>4. c \in Int /\ Announced(c) = 2 BY <1>3 DEF Announced
  <2>5. /\ (c % 16) * 4096 + ((n \div 64) % 64) * 64 + (n % 64) = n
        /\ n % 64 >= 0 /\ (n \div 64) % 64 >= 0
    BY <1>3
  <2>6. Accepts(2, n) BY <1>3 DEF Accepts, IsScalar
  <2> HIDE DEF c
  <2> QED BY <2>2, <2>3, <2>4, <2>5, <2>6, <2>7, DecodedFrom DEF inp
<1>4. CASE 65536 <= n
  <2> DEFINE c == 240 + (n \div 262144)
  <2>1. inp = <<c, Continuation(n \div 4096), Continuation(n \div 64), Continuation(n)>>
    BY <1>4, FourBytes DEF IsScalar
  <2> HIDE DEF inp
  <2>2. _utf8_cont_8(inp, 0) = c BY <2>1 DEF _utf8_cont_8
  <2>3. /\ _utf8_cont_6(inp, 0 + 1) = (n \div 4096) % 64
        /\ _utf8_cont_6(inp, 0 + 2) = (n \div 64) % 64
        /\ _utf8_cont_6(inp, 0 + 3) = n % 64
    <3>1. /\ Len(inp) = 4
          /\ inp[1 + 1] = Continuation(n \div 4096)
          /\ inp[2 + 1] = Continuation(n \div 64)
          /\ inp[3 + 1] = Continuation(n)
      BY <2>1
    <3>2. n \div 4096 \in Nat /\ n \div 64 \in Nat /\ n \in Nat
      BY <1>4
    <3>3. _utf8_cont_6(inp, 1) = (n \div 4096) % 64
      BY ONLY <3>1, <3>2, ContinuationHolds
    <3>4. _utf8_cont_6(inp, 2) = (n \div 64) % 64
      BY ONLY <3>1, <3>2, ContinuationHolds
    <3>5. _utf8_cont_6(inp, 3) = n % 64
      BY ONLY <3>1, <3>2, ContinuationHolds
    <3> QED BY <3>3, <3>4, <3>5
  <2>4. c \in Int /\ Announced(c) = 3 BY <1>4 DEF Announced, IsScalar
  <2>5. /\ (c % 8) * 262144 + ((n \div 4096) % 64) * 4096 + ((n \div 64) % 64) * 64 + (n % 64) = n
        /\ n % 64 >= 0 /\ (n \div 64) % 64 >= 0 /\ (n \div 4096) % 64 >= 0
    BY <1>4 DEF IsScalar
  <2>6. Accepts(3, n) BY <1>4 DEF Accepts, IsScalar
  <2> HIDE DEF c
  <2> QED BY <2>2, <2>3, <2>4, <2>5, <2>6, DecodedFrom DEF inp
<1> QED BY <1>1, <1>2, <1>3, <1>4

\* Where a payload comes from.
LEMMA PayloadRead ==
  ASSUME NEW inp, Len(inp) \in Nat, NEW idx \in Nat, _utf8_cont_6(inp, idx) >= 0
  PROVE  /\ idx + 1 <= Len(inp)
         /\ inp[idx + 1] \in Int
         /\ inp[idx + 1] = 128 + _utf8_cont_6(inp, idx)
         /\ _utf8_cont_6(inp, idx) \in Int /\ 0 <= _utf8_cont_6(inp, idx) /\ _utf8_cont_6(inp, idx) <= 63
<1> DEFINE c == _utf8_cont_8(inp, idx)
<1>1. c \in 128 .. 191 /\ _utf8_cont_6(inp, idx) = c % 64
  BY DEF _utf8_cont_6, UTF8_ERR
<1>2. idx < Len(inp) /\ c = inp[idx + 1]
  BY <1>1 DEF _utf8_cont_8, UTF8_END
<1>3. ASSUME NEW b \in 128 .. 191
      PROVE  b \in Int /\ b % 64 \in Int /\ 0 <= b % 64 /\ b % 64 <= 63 /\ b = 128 + (b % 64)
  OBVIOUS
<1> HIDE DEF c
<1>4. c \in Int /\ c % 64 \in Int /\ 0 <= c % 64 /\ c % 64 <= 63 /\ c = 128 + (c % 64)
  BY <1>1, <1>3
<1>5. _utf8_cont_6(inp, idx) = c % 64
  BY <1>1
<1>6. idx + 1 <= Len(inp)
  BY <1>2
<1> QED BY ONLY <1>2, <1>4, <1>5, <1>6

\* What is decoded stands in the text as the encoder writes it (utf8.h:78-155): of the
\* ways to put a code point into bytes the decoder takes the shortest only, and it does
\* not look past the end of the text for it.
THEOREM DecodedEncodes ==
  ASSUME NEW inp \in Seq(Byte), NEW idx \in Nat, idx < Len(inp), Decoded(inp, idx) >= 0
  PROVE  LET bytes == utf8_encode_codepoint(Decoded(inp, idx))
         IN  /\ Len(bytes) > 0
             /\ idx + Len(bytes) <= Len(inp)
             /\ \A k \in 1 .. Len(bytes) : inp[idx + k] = bytes[k]
<1> DEFINE c == inp[idx + 1]
<1> DEFINE r == Decoded(inp, idx)
<1> DEFINE bytes == utf8_encode_codepoint(r)
<1>0. r >= 0
  OBVIOUS
<1>1. c \in Int /\ c >= 0 /\ Len(inp) \in Nat
  <2>1. idx + 1 \in 1 .. Len(inp)
    OBVIOUS
  <2>2. c \in Byte
    <3> DEFINE k == idx + 1
    <3> HIDE DEF k
    <3>1. k \in 1 .. Len(inp) BY <2>1 DEF k
    <3>2. inp[k] \in Byte BY <3>1, Element
    <3> QED BY <3>2 DEF k
  <2>3. \A b \in Byte : b \in Int /\ b >= 0
    BY DEF Byte
  <2> QED BY <2>2, <2>3
<1>2. _utf8_cont_8(inp, idx) = c
  BY DEF _utf8_cont_8
<1>p. \A k \in Nat : _utf8_cont_6(inp, k) >= 0 =>
        /\ k + 1 <= Len(inp) /\ inp[k + 1] = 128 + _utf8_cont_6(inp, k)
        /\ _utf8_cont_6(inp, k) \in Int
        /\ 0 <= _utf8_cont_6(inp, k) /\ _utf8_cont_6(inp, k) <= 63
  BY <1>1, PayloadRead
<1>x. /\ idx + 1 \in Nat /\ (idx + 1) + 1 = idx + 2
      /\ idx + 2 \in Nat /\ (idx + 2) + 1 = idx + 3
      /\ idx + 3 \in Nat /\ (idx + 3) + 1 = idx + 4
  OBVIOUS
<1> HIDE DEF c
<1>3. CASE Announced(c) = 0
  <2>1. r = c /\ Accepts(0, c) BY <1>1, <1>2, <1>3, DecodedFrom DEF UTF8_ERR
  <2> HIDE DEF r
  <2>2. bytes = <<c>> BY <1>1, <2>1, OneByte DEF Accepts
  <2> HIDE DEF bytes
  <2> QED BY <2>2 DEF c, bytes, r
<1>4. CASE Announced(c) = 1
  <2> DEFINE p1 == _utf8_cont_6(inp, idx + 1)
  <2> DEFINE sum == (c % 32) * 64 + p1
  <2>0. r = IF Accepts(1, sum) /\ p1 >= 0 THEN sum ELSE UTF8_ERR
    BY <1>1, <1>2, <1>4, DecodedFrom
  <2>1. r = (c % 32) * 64 + p1 /\ Accepts(1, r) /\ p1 >= 0
    <3> HIDE DEF r, sum
    <3>1. r = sum /\ Accepts(1, r) /\ p1 >= 0
      BY <1>0, <2>0 DEF UTF8_ERR
    <3> QED BY <3>1 DEF sum
  <2>2. idx + 2 <= Len(inp) /\ inp[idx + 2] = 128 + p1 /\ p1 \in Int /\ 0 <= p1 /\ p1 <= 63
    BY ONLY <2>1, <1>p, <1>x
  <2>3. 192 <= c /\ c <= 223 BY <1>1, <1>4 DEF Announced
  <2> HIDE DEF r, p1
  <2>4. 192 + (r \div 64) = c /\ 128 + (r % 64) = 128 + p1 /\ r \in Int
    BY <1>1, <2>1, <2>2, <2>3
  <2>5. bytes = <<c, 128 + p1>>
    <3>1. 128 <= r /\ r <= 2047
      BY <2>1 DEF Accepts
    <3>2. bytes = <<192 + (r \div 64), Continuation(r)>>
      <4>1. r \in Int
        BY <2>4
      <4> QED BY ONLY <3>1, <4>1, TwoBytes DEF bytes
    <3>3. Continuation(r) = 128 + p1
      BY <2>4 DEF Continuation
    <3> QED BY ONLY <3>2, <3>3, <2>4
  <2> HIDE DEF bytes
  <2>6. \A k \in 1 .. 2 : k = 1 \/ k = 2
    OBVIOUS
  <2> QED BY <2>2, <2>5, <2>6 DEF c, bytes, r
<1>5. CASE Announced(c) = 2
  <2> DEFINE p1 == _utf8_cont_6(inp, idx + 1)
  <2> DEFINE p2 == _utf8_cont_6(inp, idx + 2)
  <2> DEFINE sum == (c % 16) * 4096 + p1 * 64 + p2
  <2>0. r = IF Accepts(2, sum) /\ p1 >= 0 /\ p2 >= 0 THEN sum ELSE UTF8_ERR
    BY <1>1, <1>2, <1>5, DecodedFrom
  <2>1. r = (c % 16) * 4096 + p1 * 64 + p2 /\ Accepts(2, r) /\ p1 >= 0 /\ p2 >= 0
    <3> HIDE DEF r, sum
    <3>1. r = sum /\ Accepts(2, r) /\ p1 >= 0 /\ p2 >= 0
      BY <1>0, <2>0 DEF UTF8_ERR
    <3> QED BY <3>1 DEF sum
  <2>2. inp[idx + 2] = 128 + p1 /\ p1 \in Int /\ 0 <= p1 /\ p1 <= 63
    BY ONLY <2>1, <1>p, <1>x
  <2>3. idx + 3 <= Len(inp) /\ inp[idx + 3] = 128 + p2 /\ p2 \in Int /\ 0 <= p2 /\ p2 <= 63
    BY ONLY <2>1, <1>p, <1>x
  <2>4. 224 <= c /\ c <= 239 BY <1>1, <1>5 DEF Announced
  <2> HIDE DEF r, p1, p2
  <2>5. /\ 224 + (r \div 4096) = c
        /\ 128 + ((r \div 64) % 64) = 128 + p1
        /\ 128 + (r % 64) = 128 + p2
        /\ r \in Int
    <3> DEFINE high == c % 16
    <3>1. high \in Int /\ c = 224 + high
      BY <1>1, <2>4
    <3>2. r = high * 4096 + p1 * 64 + p2
      BY <2>1
    <3> HIDE DEF high
    <3>3. r \in Int /\ r % 64 = p2 /\ r \div 64 = high * 64 + p1
      BY ONLY <2>2, <2>3, <3>1, <3>2
    <3>4. (high * 64 + p1) % 64 = p1
      BY ONLY <2>2, <3>1
    <3>5. r \div 4096 = high
      BY ONLY <2>2, <2>3, <3>1, <3>2
    <3> QED BY ONLY <2>2, <2>3, <3>1, <3>3, <3>4, <3>5
  <2>6. bytes = <<c, 128 + p1, 128 + p2>>
    <3>1. 2048 <= r /\ r <= 65535
      BY <2>1 DEF Accepts
    <3>2. bytes = <<224 + (r \div 4096), Continuation(r \div 64), Continuation(r)>>
      <4>1. r \in Int
        BY <2>5
      <4> QED BY ONLY <3>1, <4>1, ThreeBytes DEF bytes
    <3>3. Continuation(r \div 64) = 128 + p1 /\ Continuation(r) = 128 + p2
      BY <2>5 DEF Continuation
    <3> QED BY ONLY <3>2, <3>3, <2>5
  <2> HIDE DEF bytes
  <2>7. \A k \in 1 .. 3 : k = 1 \/ k = 2 \/ k = 3
    OBVIOUS
  <2> QED BY <2>2, <2>3, <2>6, <2>7 DEF c, bytes, r
<1>6. CASE Announced(c) = 3
  <2> DEFINE p1 == _utf8_cont_6(inp, idx + 1)
  <2> DEFINE p2 == _utf8_cont_6(inp, idx + 2)
  <2> DEFINE p3 == _utf8_cont_6(inp, idx + 3)
  <2> DEFINE sum == (c % 8) * 262144 + p1 * 4096 + p2 * 64 + p3
  <2>0. r = IF Accepts(3, sum) /\ p1 >= 0 /\ p2 >= 0 /\ p3 >= 0 THEN sum ELSE UTF8_ERR
    BY <1>1, <1>2, <1>6, DecodedFrom
  <2>1. r = (c % 8) * 262144 + p1 * 4096 + p2 * 64 + p3 /\ Accepts(3, r) /\ p1 >= 0 /\ p2 >= 0 /\ p3 >= 0
    <3> HIDE DEF r, sum
    <3>1. r = sum /\ Accepts(3, r) /\ p1 >= 0 /\ p2 >= 0 /\ p3 >= 0
      BY <1>0, <2>0 DEF UTF8_ERR
    <3> QED BY <3>1 DEF sum
  <2>2. inp[idx + 2] = 128 + p1 /\ p1 \in Int /\ 0 <= p1 /\ p1 <= 63
    BY ONLY <2>1, <1>p, <1>x
  <2>3. inp[idx + 3] = 128 + p2 /\ p2 \in Int /\ 0 <= p2 /\ p2 <= 63
    BY ONLY <2>1, <1>p, <1>x
  <2>4. idx + 4 <= Len(inp) /\ inp[idx + 4] = 128 + p3 /\ p3 \in Int /\ 0 <= p3 /\ p3 <= 63
    BY ONLY <2>1, <1>p, <1>x
  <2>5. 240 <= c /\ c <= 247 BY <1>1, <1>6 DEF Announced
  <2> HIDE DEF r, p1, p2, p3
  <2>6. /\ 240 + (r \div 262144) = c
        /\ 128 + ((r \div 4096) % 64) = 128 + p1
        /\ 128 + ((r \div 64) % 64) = 128 + p2
        /\ 128 + (r % 64) = 128 + p3
        /\ r \in Int
    <3> DEFINE high == c % 8
    <3>1. high \in Int /\ c = 240 + high
      BY <1>1, <2>5
    <3>2. r = high * 262144 + p1 * 4096 + p2 * 64 + p3
      BY <2>1
    <3> HIDE DEF high
    <3>3. r \in Int /\ r % 64 = p3 /\ r \div 64 = high * 4096 + p1 * 64 + p2
      BY ONLY <2>2, <2>3, <2>4, <3>1, <3>2
    <3>4. (high * 4096 + p1 * 64 + p2) % 64 = p2
      BY ONLY <2>2, <2>3, <3>1
    <3>5. r \div 4096 = high * 64 + p1
      BY ONLY <2>2, <2>3, <2>4, <3>1, <3>2
    <3>6. (high * 64 + p1) % 64 = p1
      BY ONLY <2>2, <3>1
    <3>7. r \div 262144 = high
      BY ONLY <2>2, <2>3, <2>4, <3>1, <3>2
    <3> QED BY ONLY <2>2, <2>3, <2>4, <3>1, <3>3, <3>4, <3>5, <3>6, <3>7
  <2>7. bytes = <<c, 128 + p1, 128 + p2, 128 + p3>>
    <3>1. 65536 <= r /\ r <= 1114111
      BY <2>1 DEF Accepts
    <3>2. bytes = <<240 + (r \div 262144), Continuation(r \div 4096), Continuation(r \div 64), Continuation(r)>>
      <4>1. r \in Int
        BY <2>6
      <4> QED BY ONLY <3>1, <4>1, FourBytes DEF bytes
    <3>3. Continuation(r \div 4096) = 128 + p1 /\ Continuation(r \div 64) = 128 + p2 /\ Continuation(r) = 128 + p3
      BY <2>6 DEF Continuation
    <3> QED BY ONLY <3>2, <3>3, <2>6
  <2> HIDE DEF bytes
  <2>8. \A k \in 1 .. 4 : k = 1 \/ k = 2 \/ k = 3 \/ k = 4
    OBVIOUS
  <2>9. /\ Len(bytes) = 4
        /\ bytes[1] = c /\ bytes[2] = 128 + p1 /\ bytes[3] = 128 + p2 /\ bytes[4] = 128 + p3
    BY ONLY <2>7
  <2>10. \A k \in 1 .. Len(bytes) : inp[idx + k] = bytes[k]
    BY ONLY <2>2, <2>3, <2>4, <2>8, <2>9 DEF c
  <2> QED BY <2>4, <2>9, <2>10 DEF bytes, r
<1> QED BY <1>3, <1>4, <1>5, <1>6 DEF Announced

-------------------------------------------------------------------------
(* Texts: the characters of the Unicode standard and the two recursions.   *)

\* A byte of a text is a number.
LEMMA ByteAt ==
  ASSUME NEW inp \in Seq(Byte), NEW k \in Nat, k < Len(inp)
  PROVE  inp[k + 1] \in Int /\ 0 <= inp[k + 1] /\ inp[k + 1] <= 255
<1> DEFINE j == k + 1
<1>1. j \in 1 .. Len(inp)
  OBVIOUS
<1> HIDE DEF j
<1>2. inp[j] \in Byte
  BY <1>1, Element
<1>3. \A b \in Byte : b \in Int /\ 0 <= b /\ b <= 255
  BY DEF Byte
<1> QED BY <1>2, <1>3 DEF j

\* What it is to match two ranges.
LEMMA MatchesTwo ==
  ASSUME NEW inp, NEW idx, NEW A, NEW B
  PROVE  Matches(inp, idx, <<A, B>>) <=> idx + 2 <= Len(inp) /\ inp[idx + 1] \in A /\ inp[idx + 2] \in B
<1>1. Len(<<A, B>>) = 2 /\ DOMAIN <<A, B>> = {1, 2} /\ <<A, B>>[1] = A /\ <<A, B>>[2] = B
  OBVIOUS
<1> QED BY <1>1 DEF Matches

\* What it is to match three ranges.
LEMMA MatchesThree ==
  ASSUME NEW inp, NEW idx, NEW A, NEW B, NEW C
  PROVE  Matches(inp, idx, <<A, B, C>>) <=>
           idx + 3 <= Len(inp) /\ inp[idx + 1] \in A /\ inp[idx + 2] \in B /\ inp[idx + 3] \in C
<1> DEFINE r == <<A, B, C>>
<1>1. Len(r) = 3 /\ DOMAIN r = {1, 2, 3} /\ r[1] = A /\ r[2] = B /\ r[3] = C
  OBVIOUS
<1> HIDE DEF r
<1>2. Matches(inp, idx, r) <=> idx + 3 <= Len(inp) /\ inp[idx + 1] \in A /\ inp[idx + 2] \in B /\ inp[idx + 3] \in C
  BY <1>1 DEF Matches
<1> QED BY <1>2 DEF r

\* What it is to match four ranges.
LEMMA MatchesFour ==
  ASSUME NEW inp, NEW idx, NEW A, NEW B, NEW C, NEW D
  PROVE  Matches(inp, idx, <<A, B, C, D>>) <=>
           /\ idx + 4 <= Len(inp)
           /\ inp[idx + 1] \in A /\ inp[idx + 2] \in B /\ inp[idx + 3] \in C /\ inp[idx + 4] \in D
<1> DEFINE r == <<A, B, C, D>>
<1>1. Len(r) = 4 /\ DOMAIN r = {1, 2, 3, 4} /\ r[1] = A /\ r[2] = B /\ r[3] = C /\ r[4] = D
  OBVIOUS
<1> HIDE DEF r
<1>2. Matches(inp, idx, r) <=>
           /\ idx + 4 <= Len(inp)
           /\ inp[idx + 1] \in A /\ inp[idx + 2] \in B /\ inp[idx + 3] \in C /\ inp[idx + 4] \in D
  BY <1>1 DEF Matches
<1> QED BY <1>2 DEF r

\* The bytes from idx on are a character, by the ranges of the Unicode standard.
Two(inp, idx) ==
  /\ idx + 2 <= Len(inp)
  /\ inp[idx + 1] \in 194 .. 223 /\ inp[idx + 2] \in Cont

Three(inp, idx) ==
  /\ idx + 3 <= Len(inp)
  /\ \/ inp[idx + 1] = 224 /\ inp[idx + 2] \in 160 .. 191
     \/ inp[idx + 1] \in 225 .. 236 /\ inp[idx + 2] \in Cont
     \/ inp[idx + 1] = 237 /\ inp[idx + 2] \in 128 .. 159
     \/ inp[idx + 1] \in 238 .. 239 /\ inp[idx + 2] \in Cont
  /\ inp[idx + 3] \in Cont

Four(inp, idx) ==
  /\ idx + 4 <= Len(inp)
  /\ \/ inp[idx + 1] = 240 /\ inp[idx + 2] \in 144 .. 191
     \/ inp[idx + 1] \in 241 .. 243 /\ inp[idx + 2] \in Cont
     \/ inp[idx + 1] = 244 /\ inp[idx + 2] \in 128 .. 143
  /\ inp[idx + 3] \in Cont /\ inp[idx + 4] \in Cont

One(inp, idx) == idx + 1 <= Len(inp) /\ inp[idx + 1] \in 0 .. 127

\* The ranges by how many there are.
LEMMA RangesByLength ==
  ASSUME NEW inp, NEW idx, NEW ranges \in WellFormedRanges, Matches(inp, idx, ranges)
  PROVE  \/ Len(ranges) = 1 /\ One(inp, idx)
         \/ Len(ranges) = 2 /\ Two(inp, idx)
         \/ Len(ranges) = 3 /\ Three(inp, idx)
         \/ Len(ranges) = 4 /\ Four(inp, idx)
<1>1. CASE ranges = <<0 .. 127>>
  BY <1>1 DEF One, Matches
<1>2. CASE ranges = <<194 .. 223, Cont>>
  BY <1>2, MatchesTwo DEF Two
<1>3. ASSUME NEW A, NEW B, ranges = <<A, B, Cont>>,
             <<A, B>> \in {<<{224}, 160 .. 191>>, <<225 .. 236, Cont>>,
                           <<{237}, 128 .. 159>>, <<238 .. 239, Cont>>}
      PROVE  Len(ranges) = 3 /\ Three(inp, idx)
  <2>1. idx + 3 <= Len(inp) /\ inp[idx + 1] \in A /\ inp[idx + 2] \in B /\ inp[idx + 3] \in Cont
    BY <1>3, MatchesThree
  <2>2. \/ A = {224} /\ B = 160 .. 191
        \/ A = 225 .. 236 /\ B = Cont
        \/ A = {237} /\ B = 128 .. 159
        \/ A = 238 .. 239 /\ B = Cont
    BY <1>3
  <2>3. Len(ranges) = 3
    BY <1>3
  <2>4. \/ inp[idx + 1] = 224 /\ inp[idx + 2] \in 160 .. 191
        \/ inp[idx + 1] \in 225 .. 236 /\ inp[idx + 2] \in Cont
        \/ inp[idx + 1] = 237 /\ inp[idx + 2] \in 128 .. 159
        \/ inp[idx + 1] \in 238 .. 239 /\ inp[idx + 2] \in Cont
    BY ONLY <2>1, <2>2
  <2> QED BY <2>1, <2>3, <2>4 DEF Three
<1>4. ASSUME NEW A, NEW B, ranges = <<A, B, Cont, Cont>>,
             <<A, B>> \in {<<{240}, 144 .. 191>>, <<241 .. 243, Cont>>, <<{244}, 128 .. 143>>}
      PROVE  Len(ranges) = 4 /\ Four(inp, idx)
  <2>1. /\ idx + 4 <= Len(inp) /\ inp[idx + 1] \in A /\ inp[idx + 2] \in B
        /\ inp[idx + 3] \in Cont /\ inp[idx + 4] \in Cont
    BY <1>4, MatchesFour
  <2>2. \/ A = {240} /\ B = 144 .. 191
        \/ A = 241 .. 243 /\ B = Cont
        \/ A = {244} /\ B = 128 .. 143
    BY <1>4
  <2>3. Len(ranges) = 4
    BY <1>4
  <2>4. \/ inp[idx + 1] = 240 /\ inp[idx + 2] \in 144 .. 191
        \/ inp[idx + 1] \in 241 .. 243 /\ inp[idx + 2] \in Cont
        \/ inp[idx + 1] = 244 /\ inp[idx + 2] \in 128 .. 143
    BY ONLY <2>1, <2>2
  <2> QED BY <2>1, <2>3, <2>4 DEF Four
<1>5. \/ ranges = <<0 .. 127>>
      \/ ranges = <<194 .. 223, Cont>>
      \/ ranges = <<{224}, 160 .. 191, Cont>>
      \/ ranges = <<225 .. 236, Cont, Cont>>
      \/ ranges = <<{237}, 128 .. 159, Cont>>
      \/ ranges = <<238 .. 239, Cont, Cont>>
      \/ ranges = <<{240}, 144 .. 191, Cont, Cont>>
      \/ ranges = <<241 .. 243, Cont, Cont, Cont>>
      \/ ranges = <<{244}, 128 .. 143, Cont, Cont>>
  BY DEF WellFormedRanges
<1> QED BY <1>1, <1>2, <1>3, <1>4, <1>5

\* And where such bytes stand a range matches.
LEMMA LengthsByRange ==
  ASSUME NEW inp, NEW idx, One(inp, idx) \/ Two(inp, idx) \/ Three(inp, idx) \/ Four(inp, idx)
  PROVE  \E ranges \in WellFormedRanges : Matches(inp, idx, ranges)
<1>1. ASSUME NEW ranges \in WellFormedRanges, Matches(inp, idx, ranges)
      PROVE  \E r \in WellFormedRanges : Matches(inp, idx, r)
  BY <1>1
<1>2. CASE One(inp, idx)
  <2> DEFINE r == <<0 .. 127>>
  <2>0. Len(r) = 1 /\ DOMAIN r = {1} /\ r[1] = 0 .. 127
    OBVIOUS
  <2> HIDE DEF r
  <2>1. Matches(inp, idx, r)
    BY <1>2, <2>0 DEF Matches, One
  <2>2. r \in WellFormedRanges
    BY DEF WellFormedRanges, r
  <2> QED BY ONLY <2>1, <2>2
<1>3. CASE Two(inp, idx)
  <2>1. Matches(inp, idx, <<194 .. 223, Cont>>)
    BY <1>3, MatchesTwo DEF Two
  <2>2. <<194 .. 223, Cont>> \in WellFormedRanges
    BY DEF WellFormedRanges
  <2> QED BY ONLY <2>1, <2>2
<1>4. CASE Three(inp, idx)
  <2>1. ASSUME NEW A, NEW B, inp[idx + 1] \in A, inp[idx + 2] \in B,
               <<A, B, Cont>> \in WellFormedRanges
        PROVE  \E r \in WellFormedRanges : Matches(inp, idx, r)
    <3>1. Matches(inp, idx, <<A, B, Cont>>)
      BY <1>4, <2>1, MatchesThree DEF Three
    <3> QED BY ONLY <2>1, <3>1
  <2>2. /\ <<{224}, 160 .. 191, Cont>> \in WellFormedRanges
        /\ <<225 .. 236, Cont, Cont>> \in WellFormedRanges
        /\ <<{237}, 128 .. 159, Cont>> \in WellFormedRanges
        /\ <<238 .. 239, Cont, Cont>> \in WellFormedRanges
    BY DEF WellFormedRanges
  <2>3. CASE inp[idx + 1] = 224 /\ inp[idx + 2] \in 160 .. 191
    BY <2>1, <2>2, <2>3
  <2>4. CASE inp[idx + 1] \in 225 .. 236 /\ inp[idx + 2] \in Cont
    BY <2>1, <2>2, <2>4
  <2>5. CASE inp[idx + 1] = 237 /\ inp[idx + 2] \in 128 .. 159
    BY <2>1, <2>2, <2>5
  <2>6. CASE inp[idx + 1] \in 238 .. 239 /\ inp[idx + 2] \in Cont
    BY <2>1, <2>2, <2>6
  <2> QED BY <1>4, <2>3, <2>4, <2>5, <2>6 DEF Three
<1>5. CASE Four(inp, idx)
  <2>1. ASSUME NEW A, NEW B, inp[idx + 1] \in A, inp[idx + 2] \in B,
               <<A, B, Cont, Cont>> \in WellFormedRanges
        PROVE  \E r \in WellFormedRanges : Matches(inp, idx, r)
    <3>1. Matches(inp, idx, <<A, B, Cont, Cont>>)
      BY <1>5, <2>1, MatchesFour DEF Four
    <3> QED BY ONLY <2>1, <3>1
  <2>2. /\ <<{240}, 144 .. 191, Cont, Cont>> \in WellFormedRanges
        /\ <<241 .. 243, Cont, Cont, Cont>> \in WellFormedRanges
        /\ <<{244}, 128 .. 143, Cont, Cont>> \in WellFormedRanges
    BY DEF WellFormedRanges
  <2>3. CASE inp[idx + 1] = 240 /\ inp[idx + 2] \in 144 .. 191
    BY <2>1, <2>2, <2>3
  <2>4. CASE inp[idx + 1] \in 241 .. 243 /\ inp[idx + 2] \in Cont
    BY <2>1, <2>2, <2>4
  <2>5. CASE inp[idx + 1] = 244 /\ inp[idx + 2] \in 128 .. 143
    BY <2>1, <2>2, <2>5
  <2> QED BY <1>5, <2>3, <2>4, <2>5 DEF Four
<1> QED BY <1>2, <1>3, <1>4, <1>5

\* What a continuation byte of a text holds.
LEMMA ContHolds ==
  ASSUME NEW inp, Len(inp) \in Nat, NEW idx \in Nat, idx < Len(inp), inp[idx + 1] \in Cont
  PROVE  _utf8_cont_6(inp, idx) = inp[idx + 1] - 128 /\ inp[idx + 1] - 128 \in 0 .. 63
<1> DEFINE c == inp[idx + 1]
<1>1. _utf8_cont_8(inp, idx) = c
  BY DEF _utf8_cont_8
<1>2. c \in 128 .. 191
  BY DEF Cont
<1>3. ASSUME NEW b \in 128 .. 191
      PROVE  b % 64 = b - 128 /\ b - 128 \in 0 .. 63
  OBVIOUS
<1> HIDE DEF c
<1>4. c % 64 = c - 128 /\ c - 128 \in 0 .. 63
  BY <1>2, <1>3
<1>5. _utf8_cont_6(inp, idx) = c - 128
  BY <1>1, <1>2, <1>4 DEF _utf8_cont_6
<1> QED BY <1>4, <1>5 DEF c

\* The number in the bytes of a character.
LEMMA WeightOf ==
  ASSUME NEW s
  PROVE  /\ Len(s) = 1 => Weight(s) = s[1]
         /\ Len(s) = 2 => Weight(s) = (s[1] - 192) * 64 + (s[2] - 128)
         /\ Len(s) = 3 => Weight(s) = (s[1] - 224) * 4096 + (s[2] - 128) * 64 + (s[3] - 128)
         /\ Len(s) = 4 => Weight(s) = (s[1] - 240) * 262144 + (s[2] - 128) * 4096
                                      + (s[3] - 128) * 64 + (s[4] - 128)
<1> DEFINE two == (s[1] - 192) * 64 + (s[2] - 128)
           three == (s[1] - 224) * 4096 + (s[2] - 128) * 64 + (s[3] - 128)
           four == (s[1] - 240) * 262144 + (s[2] - 128) * 4096 + (s[3] - 128) * 64 + (s[4] - 128)
<1>1. Weight(s) = CASE Len(s) = 1 -> s[1] [] Len(s) = 2 -> two [] Len(s) = 3 -> three
                    [] Len(s) = 4 -> four
  BY DEF Weight
<1> HIDE DEF two, three, four
<1>2. /\ Len(s) = 1 => Weight(s) = s[1]
      /\ Len(s) = 2 => Weight(s) = two
      /\ Len(s) = 3 => Weight(s) = three
      /\ Len(s) = 4 => Weight(s) = four
  BY <1>1
<1> QED BY <1>2 DEF two, three, four

\* The bytes of a part of a text.
LEMMA PartOf ==
  ASSUME NEW S, NEW inp \in Seq(S), NEW idx \in Nat, NEW n \in Nat, idx + n <= Len(inp)
  PROVE  /\ SubSeq(inp, idx + 1, idx + n) \in Seq(S)
         /\ Len(SubSeq(inp, idx + 1, idx + n)) = n
         /\ \A k \in 1 .. n : SubSeq(inp, idx + 1, idx + n)[k] = inp[idx + k]
<1>1. Len(SubSeq(inp, idx + 1, idx + n)) = n
  OBVIOUS
<1>2. \A k \in 1 .. n : SubSeq(inp, idx + 1, idx + n)[k] = inp[idx + k]
  OBVIOUS
<1>3. \A k \in 1 .. n : idx + k \in 1 .. Len(inp)
  OBVIOUS
<1>4. SubSeq(inp, idx + 1, idx + n) \in Seq(S)
  BY <1>1, <1>2, <1>3
<1> QED BY <1>1, <1>2, <1>4

\* A character of ASCII.
LEMMA OneDecoded ==
  ASSUME NEW inp, NEW idx, inp \in Seq(Byte), idx \in Nat, One(inp, idx)
  PROVE  /\ Announced(inp[idx + 1]) = 0
         /\ Decoded(inp, idx) = inp[idx + 1] /\ Decoded(inp, idx) \in Nat
<1> DEFINE c == inp[idx + 1]
<1>0. c \in 0 .. 127 /\ idx + 1 <= Len(inp) /\ Len(inp) \in Nat
  BY DEF One
<1>2. _utf8_cont_8(inp, idx) = c
  BY <1>0 DEF _utf8_cont_8
<1> HIDE DEF c
<1>1. c \in Int /\ 0 <= c /\ c <= 127
  BY <1>0
<1>3. Announced(c) = 0 /\ Accepts(0, c)
  BY <1>1 DEF Announced, Accepts
<1>4. Decoded(inp, idx) = c
  BY <1>1, <1>2, <1>3, DecodedFrom
<1> QED BY <1>1, <1>3, <1>4 DEF c

\* A character of two bytes.
LEMMA TwoDecoded ==
  ASSUME NEW inp, NEW idx, inp \in Seq(Byte), idx \in Nat, Two(inp, idx)
  PROVE  /\ Announced(inp[idx + 1]) = 1
         /\ Decoded(inp, idx) = (inp[idx + 1] - 192) * 64 + (inp[idx + 2] - 128)
         /\ Decoded(inp, idx) \in Nat \ {0}
<1> DEFINE c == inp[idx + 1]
           b == inp[idx + 2] - 128
           r == (c - 192) * 64 + b
<1>0. Len(inp) \in Nat /\ idx + 2 <= Len(inp) /\ (idx + 1) + 1 = idx + 2
  BY DEF Two
<1>1. c \in 194 .. 223 /\ inp[idx + 2] \in Cont
  BY DEF Two
<1>2. _utf8_cont_8(inp, idx) = c
  BY <1>0 DEF _utf8_cont_8
<1>3. _utf8_cont_6(inp, idx + 1) = b /\ b \in 0 .. 63
  <2>1. idx + 1 \in Nat /\ idx + 1 < Len(inp) /\ inp[(idx + 1) + 1] \in Cont
    BY <1>0, <1>1
  <2>2. _utf8_cont_6(inp, idx + 1) = inp[(idx + 1) + 1] - 128 /\ inp[(idx + 1) + 1] - 128 \in 0 .. 63
    BY ONLY <1>0, <2>1, ContHolds
  <2> QED BY ONLY <1>0, <2>2
<1> HIDE DEF c, b
<1>4. Announced(c) = 1 /\ c % 32 = c - 192
  <2>1. c \in Int /\ 194 <= c /\ c <= 223
    BY <1>1
  <2> QED BY <2>1 DEF Announced
<1>5. Accepts(1, r) /\ r \in Nat \ {0} /\ b >= 0
  BY <1>1, <1>3 DEF Accepts
<1>6. Decoded(inp, idx) = IF Accepts(1, (c % 32) * 64 + b) /\ b >= 0 THEN (c % 32) * 64 + b ELSE UTF8_ERR
  BY <1>1, <1>2, <1>3, <1>4, DecodedFrom
<1>7. Decoded(inp, idx) = r
  <2> HIDE DEF r
  <2>1. (c % 32) * 64 + b = r
    BY <1>4 DEF r
  <2> QED BY <1>5, <1>6, <2>1
<1> QED BY <1>4, <1>5, <1>7 DEF c, b

\* A character of three bytes.
LEMMA ThreeDecoded ==
  ASSUME NEW inp, NEW idx, inp \in Seq(Byte), idx \in Nat, Three(inp, idx)
  PROVE  /\ Announced(inp[idx + 1]) = 2
         /\ Decoded(inp, idx) =
              (inp[idx + 1] - 224) * 4096 + (inp[idx + 2] - 128) * 64 + (inp[idx + 3] - 128)
         /\ Decoded(inp, idx) \in Nat \ {0}
<1> DEFINE c == inp[idx + 1]
           a == inp[idx + 2] - 128
           b == inp[idx + 3] - 128
           r == (c - 224) * 4096 + a * 64 + b
<1>0. /\ Len(inp) \in Nat /\ idx + 3 <= Len(inp)
      /\ (idx + 1) + 1 = idx + 2 /\ (idx + 2) + 1 = idx + 3
  BY DEF Three
<1>p. /\ \/ c = 224 /\ inp[idx + 2] \in 160 .. 191
         \/ c \in 225 .. 236 /\ inp[idx + 2] \in 128 .. 191
         \/ c = 237 /\ inp[idx + 2] \in 128 .. 159
         \/ c \in 238 .. 239 /\ inp[idx + 2] \in 128 .. 191
      /\ inp[idx + 3] \in 128 .. 191
  BY DEF Three, Cont
<1>1. inp[idx + 2] \in Cont /\ inp[idx + 3] \in Cont
  <2> DEFINE q == inp[idx + 2]
  <2>1. q \in 160 .. 191 \/ q \in 128 .. 191 \/ q \in 128 .. 159
    BY <1>p
  <2> HIDE DEF q
  <2>2. q \in 128 .. 191
    BY <2>1
  <2> QED BY <1>p, <2>2 DEF Cont, q
<1>2. _utf8_cont_8(inp, idx) = c
  BY <1>0 DEF _utf8_cont_8
<1>3. _utf8_cont_6(inp, idx + 1) = a /\ a \in 0 .. 63
  <2>1. idx + 1 \in Nat /\ idx + 1 < Len(inp) /\ inp[(idx + 1) + 1] \in Cont
    BY <1>0, <1>1
  <2>2. _utf8_cont_6(inp, idx + 1) = inp[(idx + 1) + 1] - 128 /\ inp[(idx + 1) + 1] - 128 \in 0 .. 63
    BY ONLY <1>0, <2>1, ContHolds
  <2> QED BY ONLY <1>0, <2>2
<1>4. _utf8_cont_6(inp, idx + 2) = b /\ b \in 0 .. 63
  <2>1. idx + 2 \in Nat /\ idx + 2 < Len(inp) /\ inp[(idx + 2) + 1] \in Cont
    BY <1>0, <1>1
  <2>2. _utf8_cont_6(inp, idx + 2) = inp[(idx + 2) + 1] - 128 /\ inp[(idx + 2) + 1] - 128 \in 0 .. 63
    BY ONLY <1>0, <2>1, ContHolds
  <2> QED BY ONLY <1>0, <2>2
<1>5. /\ c \in Int
      /\ \/ c = 224 /\ 32 <= a
         \/ 225 <= c /\ c <= 236
         \/ c = 237 /\ a <= 31
         \/ 238 <= c /\ c <= 239
  <2> DEFINE q == inp[idx + 2]
  <2>1. \/ c = 224 /\ q \in 160 .. 191
        \/ c \in 225 .. 236 /\ q \in 128 .. 191
        \/ c = 237 /\ q \in 128 .. 159
        \/ c \in 238 .. 239 /\ q \in 128 .. 191
    BY <1>p
  <2>2. a = q - 128
    OBVIOUS
  <2> HIDE DEF c, q, a
  <2> QED BY ONLY <2>1, <2>2
<1> HIDE DEF c, a, b
<1>6. Announced(c) = 2 /\ c % 16 = c - 224
  BY ONLY <1>5 DEF Announced
<1>7. Accepts(2, r) /\ r \in Nat \ {0} /\ a >= 0 /\ b >= 0
  BY ONLY <1>3, <1>4, <1>5 DEF Accepts
<1>8. Decoded(inp, idx) = IF Accepts(2, (c % 16) * 4096 + a * 64 + b) /\ a >= 0 /\ b >= 0
                        THEN (c % 16) * 4096 + a * 64 + b ELSE UTF8_ERR
  <2>1. Decoded(inp, idx) =
          IF /\ Accepts(2, (c % 16) * 4096 + _utf8_cont_6(inp, idx + 1) * 64 + _utf8_cont_6(inp, idx + 2))
             /\ _utf8_cont_6(inp, idx + 1) >= 0 /\ _utf8_cont_6(inp, idx + 2) >= 0
          THEN (c % 16) * 4096 + _utf8_cont_6(inp, idx + 1) * 64 + _utf8_cont_6(inp, idx + 2)
          ELSE UTF8_ERR
    BY ONLY <1>2, <1>5, <1>6, DecodedFrom
  <2> QED BY ONLY <1>3, <1>4, <2>1
<1>9. Decoded(inp, idx) = r
  <2> HIDE DEF r
  <2>1. (c % 16) * 4096 + a * 64 + b = r
    BY <1>6 DEF r
  <2> QED BY <1>7, <1>8, <2>1
<1> QED BY <1>6, <1>7, <1>9 DEF c, a, b

\* A character of four bytes.
LEMMA FourDecoded ==
  ASSUME NEW inp, NEW idx, inp \in Seq(Byte), idx \in Nat, Four(inp, idx)
  PROVE  /\ Announced(inp[idx + 1]) = 3
         /\ Decoded(inp, idx) = (inp[idx + 1] - 240) * 262144 + (inp[idx + 2] - 128) * 4096
                              + (inp[idx + 3] - 128) * 64 + (inp[idx + 4] - 128)
         /\ Decoded(inp, idx) \in Nat \ {0}
<1> DEFINE c == inp[idx + 1]
           a == inp[idx + 2] - 128
           b == inp[idx + 3] - 128
           d == inp[idx + 4] - 128
           r == (c - 240) * 262144 + a * 4096 + b * 64 + d
<1>0. /\ Len(inp) \in Nat /\ idx + 4 <= Len(inp)
      /\ (idx + 1) + 1 = idx + 2 /\ (idx + 2) + 1 = idx + 3 /\ (idx + 3) + 1 = idx + 4
  BY DEF Four
<1>p. /\ \/ c = 240 /\ inp[idx + 2] \in 144 .. 191
         \/ c \in 241 .. 243 /\ inp[idx + 2] \in 128 .. 191
         \/ c = 244 /\ inp[idx + 2] \in 128 .. 143
      /\ inp[idx + 3] \in 128 .. 191 /\ inp[idx + 4] \in 128 .. 191
  BY DEF Four, Cont
<1>1. inp[idx + 2] \in Cont /\ inp[idx + 3] \in Cont /\ inp[idx + 4] \in Cont
  <2> DEFINE q == inp[idx + 2]
  <2>1. q \in 144 .. 191 \/ q \in 128 .. 191 \/ q \in 128 .. 143
    BY <1>p
  <2> HIDE DEF q
  <2>2. q \in 128 .. 191
    BY <2>1
  <2> QED BY <1>p, <2>2 DEF Cont, q
<1>2. _utf8_cont_8(inp, idx) = c
  BY <1>0 DEF _utf8_cont_8
<1>3. _utf8_cont_6(inp, idx + 1) = a /\ a \in 0 .. 63
  <2>1. idx + 1 \in Nat /\ idx + 1 < Len(inp) /\ inp[(idx + 1) + 1] \in Cont
    BY <1>0, <1>1
  <2>2. _utf8_cont_6(inp, idx + 1) = inp[(idx + 1) + 1] - 128 /\ inp[(idx + 1) + 1] - 128 \in 0 .. 63
    BY ONLY <1>0, <2>1, ContHolds
  <2> QED BY ONLY <1>0, <2>2
<1>4. _utf8_cont_6(inp, idx + 2) = b /\ b \in 0 .. 63
  <2>1. idx + 2 \in Nat /\ idx + 2 < Len(inp) /\ inp[(idx + 2) + 1] \in Cont
    BY <1>0, <1>1
  <2>2. _utf8_cont_6(inp, idx + 2) = inp[(idx + 2) + 1] - 128 /\ inp[(idx + 2) + 1] - 128 \in 0 .. 63
    BY ONLY <1>0, <2>1, ContHolds
  <2> QED BY ONLY <1>0, <2>2
<1>5. _utf8_cont_6(inp, idx + 3) = d /\ d \in 0 .. 63
  <2>1. idx + 3 \in Nat /\ idx + 3 < Len(inp) /\ inp[(idx + 3) + 1] \in Cont
    BY <1>0, <1>1
  <2>2. _utf8_cont_6(inp, idx + 3) = inp[(idx + 3) + 1] - 128 /\ inp[(idx + 3) + 1] - 128 \in 0 .. 63
    BY ONLY <1>0, <2>1, ContHolds
  <2> QED BY ONLY <1>0, <2>2
<1>6. /\ c \in Int
      /\ \/ c = 240 /\ 16 <= a
         \/ 241 <= c /\ c <= 243
         \/ c = 244 /\ a <= 15
  <2> DEFINE q == inp[idx + 2]
  <2>1. \/ c = 240 /\ q \in 144 .. 191
        \/ c \in 241 .. 243 /\ q \in 128 .. 191
        \/ c = 244 /\ q \in 128 .. 143
    BY <1>p
  <2>2. a = q - 128
    OBVIOUS
  <2> HIDE DEF c, q, a
  <2> QED BY ONLY <2>1, <2>2
<1> HIDE DEF c, a, b, d
<1>7. Announced(c) = 3 /\ c % 8 = c - 240
  BY ONLY <1>6 DEF Announced
<1>8. Accepts(3, r) /\ r \in Nat \ {0} /\ a >= 0 /\ b >= 0 /\ d >= 0
  BY ONLY <1>3, <1>4, <1>5, <1>6 DEF Accepts
<1>9. Decoded(inp, idx) = IF Accepts(3, (c % 8) * 262144 + a * 4096 + b * 64 + d)
                           /\ a >= 0 /\ b >= 0 /\ d >= 0
                        THEN (c % 8) * 262144 + a * 4096 + b * 64 + d ELSE UTF8_ERR
  <2>1. Decoded(inp, idx) =
          IF /\ Accepts(3, (c % 8) * 262144 + _utf8_cont_6(inp, idx + 1) * 4096
                           + _utf8_cont_6(inp, idx + 2) * 64 + _utf8_cont_6(inp, idx + 3))
             /\ _utf8_cont_6(inp, idx + 1) >= 0 /\ _utf8_cont_6(inp, idx + 2) >= 0
             /\ _utf8_cont_6(inp, idx + 3) >= 0
          THEN (c % 8) * 262144 + _utf8_cont_6(inp, idx + 1) * 4096
               + _utf8_cont_6(inp, idx + 2) * 64 + _utf8_cont_6(inp, idx + 3)
          ELSE UTF8_ERR
    BY ONLY <1>2, <1>6, <1>7, DecodedFrom
  <2> QED BY ONLY <1>3, <1>4, <1>5, <2>1
<1>10. Decoded(inp, idx) = r
  <2> HIDE DEF r
  <2>1. (c % 8) * 262144 + a * 4096 + b * 64 + d = r
    BY <1>7 DEF r
  <2> QED BY <1>8, <1>9, <2>1
<1> QED BY <1>7, <1>8, <1>10 DEF c, a, b, d

\* No byte of a character but those of ASCII is zero.
LEMMA High ==
  ASSUME NEW inp, NEW idx, inp \in Seq(Byte), idx \in Nat
  PROVE  /\ Two(inp, idx) => inp[idx + 1] # 0 /\ inp[idx + 2] # 0
         /\ Three(inp, idx) => inp[idx + 1] # 0 /\ inp[idx + 2] # 0 /\ inp[idx + 3] # 0
         /\ Four(inp, idx) => inp[idx + 1] # 0 /\ inp[idx + 2] # 0 /\ inp[idx + 3] # 0 /\ inp[idx + 4] # 0
<1> DEFINE c == inp[idx + 1]
           a == inp[idx + 2]
           b == inp[idx + 3]
           d == inp[idx + 4]
<1>1. ASSUME Two(inp, idx) PROVE c # 0 /\ a # 0
  <2>1. c \in 194 .. 223 /\ a \in 128 .. 191
    BY <1>1 DEF Two, Cont
  <2> HIDE DEF c, a
  <2> QED BY ONLY <2>1
<1>2. ASSUME Three(inp, idx) PROVE c # 0 /\ a # 0 /\ b # 0
  <2>1. /\ \/ c = 224 /\ inp[idx + 2] \in 160 .. 191
           \/ c \in 225 .. 236 /\ inp[idx + 2] \in 128 .. 191
           \/ c = 237 /\ inp[idx + 2] \in 128 .. 159
           \/ c \in 238 .. 239 /\ inp[idx + 2] \in 128 .. 191
        /\ inp[idx + 3] \in 128 .. 191
    BY <1>2 DEF Three, Cont
  <2>2. /\ \/ c = 224 /\ a \in 160 .. 191
           \/ c \in 225 .. 236 /\ a \in 128 .. 191
           \/ c = 237 /\ a \in 128 .. 159
           \/ c \in 238 .. 239 /\ a \in 128 .. 191
        /\ b \in 128 .. 191
    BY ONLY <2>1, Zenon DEF a, b
  <2> HIDE DEF c, a, b
  <2> QED BY ONLY <2>2
<1>3. ASSUME Four(inp, idx) PROVE c # 0 /\ a # 0 /\ b # 0 /\ d # 0
  <2>1. /\ \/ c = 240 /\ inp[idx + 2] \in 144 .. 191
           \/ c \in 241 .. 243 /\ inp[idx + 2] \in 128 .. 191
           \/ c = 244 /\ inp[idx + 2] \in 128 .. 143
        /\ inp[idx + 3] \in 128 .. 191 /\ inp[idx + 4] \in 128 .. 191
    BY <1>3 DEF Four, Cont
  <2>2. /\ \/ c = 240 /\ a \in 144 .. 191
           \/ c \in 241 .. 243 /\ a \in 128 .. 191
           \/ c = 244 /\ a \in 128 .. 143
        /\ b \in 128 .. 191 /\ d \in 128 .. 191
    BY ONLY <2>1, Zenon DEF a, b, d
  <2> HIDE DEF c, a, b, d
  <2> QED BY ONLY <2>2
<1> HIDE DEF c, a, b, d
<1>4. (Two(inp, idx) => c # 0 /\ a # 0) /\ (Three(inp, idx) => c # 0 /\ a # 0 /\ b # 0)
      /\ (Four(inp, idx) => c # 0 /\ a # 0 /\ b # 0 /\ d # 0)
  BY ONLY <1>1, <1>2, <1>3, Zenon
<1> QED BY ONLY <1>4, Zenon DEF c, a, b, d

\* A character of the Unicode standard is decoded to its number.  No byte of it is zero
\* unless it is the character zero.
LEMMA MatchDecoded ==
  ASSUME NEW inp, NEW idx, inp \in Seq(Byte), idx \in Nat,
         NEW ranges \in WellFormedRanges, Matches(inp, idx, ranges)
  PROVE  LET n == Announced(inp[idx + 1]) + 1
         IN  /\ Len(ranges) = n /\ n \in 1 .. 4 /\ idx + n <= Len(inp)
             /\ Decoded(inp, idx) \in Nat
             /\ Decoded(inp, idx) = Weight(SubSeq(inp, idx + 1, idx + n))
             /\ Decoded(inp, idx) = 0 => inp[idx + 1] = 0
             /\ \A k \in 1 .. n : inp[idx + k] = 0 => Decoded(inp, idx) = 0
<1> DEFINE m == Len(ranges)
           s == SubSeq(inp, idx + 1, idx + m)
           r == Decoded(inp, idx)
           c == inp[idx + 1]
           Good == /\ Announced(c) + 1 = m /\ r \in Nat /\ r = Weight(s)
                   /\ r = 0 => c = 0
                   /\ \A k \in 1 .. m : inp[idx + k] = 0 => r = 0
<1>0. idx + m <= Len(inp)
  BY DEF Matches
<1>m. m \in {1, 2, 3, 4}
  BY RangesByLength
<1>s. Len(s) = m /\ \A k \in 1 .. m : s[k] = inp[idx + k]
  <2> HIDE DEF m
  <2>1. m \in Nat
    BY ONLY <1>m
  <2> QED BY <1>0, <2>1, PartOf
<1> HIDE DEF m, s, r
<1>1. ASSUME m = 1 /\ One(inp, idx)
      PROVE  Good
  <2>1. Announced(c) = 0 /\ r = c /\ r \in Nat
    BY <1>1, OneDecoded DEF r
  <2>2. s[1] = c
    BY ONLY <1>1, <1>s
  <2>3. Weight(s) = s[1]
    BY ONLY <1>1, <1>s, WeightOf
  <2> HIDE DEF c
  <2>4. \A k \in 1 .. 1 : k = 1
    OBVIOUS
  <2>5. inp[idx + 1] = c
    BY DEF c
  <2> QED BY ONLY <1>1, <2>1, <2>2, <2>3, <2>4, <2>5
<1>2. ASSUME m = 2 /\ Two(inp, idx)
      PROVE  Good
  <2>1. /\ Announced(c) = 1
        /\ r = (c - 192) * 64 + (inp[idx + 2] - 128)
        /\ r \in Nat \ {0}
    BY <1>2, TwoDecoded DEF r
  <2>2. s[1] = c /\ s[2] = inp[idx + 2]
    BY ONLY <1>2, <1>s
  <2>3. Weight(s) = (s[1] - 192) * 64 + (s[2] - 128)
    BY ONLY <1>2, <1>s, WeightOf
  <2>4. Weight(s) = r
    BY ONLY <2>1, <2>2, <2>3
  <2>5. \A k \in 1 .. 2 : inp[idx + k] # 0
    <3>1. inp[idx + 1] # 0 /\ inp[idx + 2] # 0
      BY <1>2, High
    <3>2. \A k \in 1 .. 2 : k = 1 \/ k = 2
      OBVIOUS
    <3> QED BY ONLY <3>1, <3>2
  <2> QED BY ONLY <1>2, <2>1, <2>4, <2>5
<1>3. ASSUME m = 3 /\ Three(inp, idx)
      PROVE  Good
  <2>1. /\ Announced(c) = 2
        /\ r = (c - 224) * 4096 + (inp[idx + 2] - 128) * 64 + (inp[idx + 3] - 128)
        /\ r \in Nat \ {0}
    BY <1>3, ThreeDecoded DEF r
  <2>2. s[1] = c /\ s[2] = inp[idx + 2] /\ s[3] = inp[idx + 3]
    BY ONLY <1>3, <1>s
  <2>3. Weight(s) = (s[1] - 224) * 4096 + (s[2] - 128) * 64 + (s[3] - 128)
    BY ONLY <1>3, <1>s, WeightOf
  <2>4. Weight(s) = r
    BY ONLY <2>1, <2>2, <2>3
  <2>5. \A k \in 1 .. 3 : inp[idx + k] # 0
    <3>1. inp[idx + 1] # 0 /\ inp[idx + 2] # 0 /\ inp[idx + 3] # 0
      BY <1>3, High
    <3>2. \A k \in 1 .. 3 : k = 1 \/ k = 2 \/ k = 3
      OBVIOUS
    <3> QED BY ONLY <3>1, <3>2
  <2> QED BY ONLY <1>3, <2>1, <2>4, <2>5
<1>4. ASSUME m = 4 /\ Four(inp, idx)
      PROVE  Good
  <2>1. /\ Announced(c) = 3
        /\ r = (c - 240) * 262144 + (inp[idx + 2] - 128) * 4096
               + (inp[idx + 3] - 128) * 64 + (inp[idx + 4] - 128)
        /\ r \in Nat \ {0}
    BY <1>4, FourDecoded, SMTT(30) DEF r
  <2>2. s[1] = c /\ s[2] = inp[idx + 2] /\ s[3] = inp[idx + 3] /\ s[4] = inp[idx + 4]
    <3>1. 1 \in 1 .. m /\ 2 \in 1 .. m /\ 3 \in 1 .. m /\ 4 \in 1 .. m
      BY ONLY <1>4
    <3> HIDE DEF c
    <3>2. s[1] = inp[idx + 1] /\ s[2] = inp[idx + 2] /\ s[3] = inp[idx + 3] /\ s[4] = inp[idx + 4]
      BY <1>s, <3>1, Zenon
    <3> QED BY <3>2 DEF c
  <2>3. Weight(s) = (s[1] - 240) * 262144 + (s[2] - 128) * 4096 + (s[3] - 128) * 64 + (s[4] - 128)
    BY ONLY <1>4, <1>s, WeightOf
  <2>4. Weight(s) = r
    BY ONLY <2>1, <2>2, <2>3
  <2>5. \A k \in 1 .. 4 : inp[idx + k] # 0
    <3>1. inp[idx + 1] # 0 /\ inp[idx + 2] # 0 /\ inp[idx + 3] # 0 /\ inp[idx + 4] # 0
      BY <1>4, High
    <3>2. \A k \in 1 .. 4 : k = 1 \/ k = 2 \/ k = 3 \/ k = 4
      OBVIOUS
    <3> QED BY ONLY <3>1, <3>2
  <2> QED BY ONLY <1>4, <2>1, <2>4, <2>5
<1>5. Good
  <2> HIDE DEF Good
  <2> QED BY <1>1, <1>2, <1>3, <1>4, RangesByLength DEF m
<1>6. m \in 1 .. 4
  BY ONLY <1>m
<1>7. Announced(c) + 1 = m
  BY <1>5
<1> HIDE DEF c
<1> QED BY ONLY <1>0, <1>5, <1>6, <1>7, Zenon DEF Good, c, m, s, r

\* Does a character begin at idx, and of how many bytes?
Character(inp, idx) == \E ranges \in WellFormedRanges : Matches(inp, idx, ranges)

Width(inp, idx) == Announced(inp[idx + 1]) + 1

\* What one says of a character that begins there.
LEMMA CharacterThere ==
  ASSUME NEW inp, NEW idx, inp \in Seq(Byte), idx \in Nat, Character(inp, idx)
  PROVE  /\ Width(inp, idx) \in 1 .. 4 /\ idx + Width(inp, idx) <= Len(inp)
         /\ Decoded(inp, idx) \in Nat
         /\ Decoded(inp, idx) = Weight(SubSeq(inp, idx + 1, idx + Width(inp, idx)))
         /\ Decoded(inp, idx) = 0 => inp[idx + 1] = 0
         /\ \A k \in 1 .. Width(inp, idx) : inp[idx + k] = 0 => Decoded(inp, idx) = 0
         /\ \A ranges \in WellFormedRanges : Matches(inp, idx, ranges) => Len(ranges) = Width(inp, idx)
<1>1. PICK ranges \in WellFormedRanges : Matches(inp, idx, ranges)
  BY DEF Character
<1>2. \A r \in WellFormedRanges : Matches(inp, idx, r) => Len(r) = Width(inp, idx)
  BY MatchDecoded DEF Width
<1>3. /\ Width(inp, idx) \in 1 .. 4 /\ idx + Width(inp, idx) <= Len(inp)
      /\ Decoded(inp, idx) \in Nat
      /\ Decoded(inp, idx) = Weight(SubSeq(inp, idx + 1, idx + Width(inp, idx)))
      /\ Decoded(inp, idx) = 0 => inp[idx + 1] = 0
      /\ \A k \in 1 .. Width(inp, idx) : inp[idx + k] = 0 => Decoded(inp, idx) = 0
  BY <1>1, MatchDecoded, Zenon DEF Width
<1> QED BY ONLY <1>2, <1>3, Zenon

\* A code point that is a digit of each size in base 64.
LEMMA Digits ==
  ASSUME NEW r \in Nat
  PROVE  /\ r \div 64 \in Nat /\ r % 64 \in 0 .. 63 /\ r = (r \div 64) * 64 + (r % 64)
         /\ (r \div 64) % 64 \in 0 .. 63 /\ r \div 4096 \in Nat
         /\ r = (r \div 4096) * 4096 + ((r \div 64) % 64) * 64 + (r % 64)
         /\ (r \div 4096) % 64 \in 0 .. 63 /\ r \div 262144 \in Nat
         /\ r = (r \div 262144) * 262144 + ((r \div 4096) % 64) * 4096
                + ((r \div 64) % 64) * 64 + (r % 64)
<1>1. /\ r \div 64 \in Nat /\ r % 64 \in 0 .. 63 /\ r = (r \div 64) * 64 + (r % 64)
  OBVIOUS
<1>2. (r \div 64) % 64 \in 0 .. 63 /\ r \div 4096 \in Nat
  OBVIOUS
<1>3. r = (r \div 4096) * 4096 + ((r \div 64) % 64) * 64 + (r % 64)
  OBVIOUS
<1>4. (r \div 4096) % 64 \in 0 .. 63 /\ r \div 262144 \in Nat
  OBVIOUS
<1>5. r = (r \div 262144) * 262144 + ((r \div 4096) % 64) * 4096 + ((r \div 64) % 64) * 64 + (r % 64)
  OBVIOUS
<1> QED BY ONLY <1>1, <1>2, <1>3, <1>4, <1>5

\* Where the bytes of a scalar value stand, it begins as a character.
LEMMA EncodedMatches ==
  ASSUME NEW inp, NEW idx, inp \in Seq(Byte), idx \in Nat, NEW r, r \in Int, IsScalar(r),
         idx + Len(utf8_encode_codepoint(r)) <= Len(inp),
         \A k \in 1 .. Len(utf8_encode_codepoint(r)) : inp[idx + k] = utf8_encode_codepoint(r)[k]
  PROVE  /\ Character(inp, idx)
         /\ Width(inp, idx) = Len(utf8_encode_codepoint(r))
         /\ Decoded(inp, idx) = r
<1> DEFINE e == utf8_encode_codepoint(r)
           high == r \div 262144
           top == r \div 4096
           third == (r \div 4096) % 64
           second == (r \div 64) % 64
           first == r % 64
           Good == Character(inp, idx) /\ Width(inp, idx) = Len(e) /\ Decoded(inp, idx) = r
<1>0. idx + Len(e) <= Len(inp) /\ \A k \in 1 .. Len(e) : inp[idx + k] = e[k]
  OBVIOUS
<1>t. inp \in Seq(Byte) /\ idx \in Nat
  OBVIOUS
<1>s. r \in Nat /\ r <= 1114111 /\ (r < 55296 \/ r > 57343)
  BY DEF IsScalar
<1> HIDE DEF e
<1>1. ASSUME r <= 127 PROVE Good
  <2>1. e = <<r>>
    BY <1>1, <1>s, OneByte DEF e
  <2>2. Len(e) = 1 /\ e[1] = r
    BY ONLY <2>1
  <2>3. idx + 1 <= Len(inp) /\ inp[idx + 1] = r
    BY ONLY <1>0, <2>2
  <2>4. One(inp, idx)
    BY ONLY <1>1, <1>s, <2>3 DEF One
  <2>5. Announced(inp[idx + 1]) = 0 /\ Decoded(inp, idx) = r
    BY <2>3, <2>4, OneDecoded
  <2>6. Width(inp, idx) = 1
    BY ONLY <2>5 DEF Width
  <2> QED BY <2>2, <2>4, <2>5, <2>6, LengthsByRange, Zenon DEF Character
<1>2. ASSUME 128 <= r, r <= 2047 PROVE Good
  <2>d. r \div 64 \in Nat /\ first \in 0 .. 63 /\ r = (r \div 64) * 64 + first
    BY <1>s, Digits
  <2>1. e = <<192 + (r \div 64), Continuation(r)>>
    BY <1>2, <1>s, TwoBytes DEF e
  <2>2. Len(e) = 2 /\ e[1] = 192 + (r \div 64) /\ e[2] = 128 + first
    BY ONLY <2>1 DEF Continuation
  <2>3. idx + 2 <= Len(inp) /\ inp[idx + 1] = 192 + (r \div 64) /\ inp[idx + 2] = 128 + first
    BY ONLY <1>0, <2>2
  <2> HIDE DEF first
  <2>4. 192 + (r \div 64) \in 194 .. 223 /\ 128 + first \in 128 .. 191
    BY ONLY <1>2, <1>s, <2>d
  <2>5. Two(inp, idx)
    BY ONLY <2>3, <2>4 DEF Two, Cont
  <2>6. Announced(inp[idx + 1]) = 1
        /\ Decoded(inp, idx) = (inp[idx + 1] - 192) * 64 + (inp[idx + 2] - 128)
    BY <2>5, TwoDecoded
  <2>7. Decoded(inp, idx) = r
    BY ONLY <2>d, <2>3, <2>6
  <2>8. Width(inp, idx) = 2
    BY ONLY <2>6 DEF Width
  <2> QED BY <2>2, <2>5, <2>7, <2>8, LengthsByRange, Zenon DEF Character
<1>3. ASSUME 2048 <= r, r <= 65535 PROVE Good
  <2>d. top \in Nat /\ second \in 0 .. 63 /\ first \in 0 .. 63 /\ r = top * 4096 + second * 64 + first
    BY <1>s, Digits
  <2>1. e = <<224 + top, Continuation(r \div 64), Continuation(r)>>
    BY <1>3, <1>s, ThreeBytes DEF e
  <2>2. Len(e) = 3 /\ e[1] = 224 + top /\ e[2] = 128 + second /\ e[3] = 128 + first
    BY ONLY <2>1 DEF Continuation
  <2>3. /\ idx + 3 <= Len(inp)
        /\ inp[idx + 1] = 224 + top /\ inp[idx + 2] = 128 + second /\ inp[idx + 3] = 128 + first
    BY ONLY <1>0, <2>2
  <2> HIDE DEF top, second, first
  <2>4. 128 + first \in Cont /\ 128 + second \in Cont
    BY ONLY <2>d DEF Cont
  <2>5. \/ 224 + top = 224 /\ 128 + second \in 160 .. 191
        \/ 224 + top \in 225 .. 236
        \/ 224 + top = 237 /\ 128 + second \in 128 .. 159
        \/ 224 + top \in 238 .. 239
    <3>1. top = 0 => second >= 32
      BY ONLY <1>3, <2>d
    <3>2. top = 13 => second <= 31
      BY ONLY <1>s, <2>d
    <3>3. top <= 15
      BY ONLY <1>3, <2>d
    <3>4. top = 0 \/ (1 <= top /\ top <= 12) \/ top = 13 \/ (14 <= top /\ top <= 15)
      BY ONLY <2>d, <3>3
    <3> QED BY ONLY <2>d, <3>1, <3>2, <3>4
  <2>6. Three(inp, idx)
    <3> DEFINE a == 224 + top
               b == 128 + second
    <3>1. /\ idx + 3 <= Len(inp)
          /\ inp[idx + 1] = a /\ inp[idx + 2] = b /\ inp[idx + 3] \in Cont
          /\ \/ a = 224 /\ b \in 160 .. 191
             \/ a \in 225 .. 236 /\ b \in Cont
             \/ a = 237 /\ b \in 128 .. 159
             \/ a \in 238 .. 239 /\ b \in Cont
      BY ONLY <2>3, <2>4, <2>5, ZenonT(40)
    <3> HIDE DEF a, b
    <3> QED BY <3>1 DEF Three
  <2>7. /\ Announced(inp[idx + 1]) = 2
        /\ Decoded(inp, idx) = (inp[idx + 1] - 224) * 4096 + (inp[idx + 2] - 128) * 64 + (inp[idx + 3] - 128)
    BY ONLY <1>t, <2>6, ThreeDecoded, SMT
  <2>8. Decoded(inp, idx) = r
    BY ONLY <2>d, <2>3, <2>7
  <2>9. Width(inp, idx) = 3
    BY ONLY <2>7 DEF Width
  <2> QED BY <2>2, <2>6, <2>8, <2>9, LengthsByRange, Zenon DEF Character
<1>4. ASSUME 65536 <= r PROVE Good
  <2>d. /\ high \in Nat /\ third \in 0 .. 63 /\ second \in 0 .. 63 /\ first \in 0 .. 63
        /\ r = high * 262144 + third * 4096 + second * 64 + first
    BY <1>s, Digits
  <2>1. e = <<240 + high, Continuation(r \div 4096), Continuation(r \div 64), Continuation(r)>>
    BY <1>4, <1>s, FourBytes DEF e
  <2>2. Len(e) = 4 /\ e[1] = 240 + high /\ e[2] = 128 + third /\ e[3] = 128 + second /\ e[4] = 128 + first
    BY ONLY <2>1 DEF Continuation
  <2>3. /\ idx + 4 <= Len(inp)
        /\ inp[idx + 1] = 240 + high /\ inp[idx + 2] = 128 + third
        /\ inp[idx + 3] = 128 + second /\ inp[idx + 4] = 128 + first
    BY ONLY <1>0, <2>2
  <2> HIDE DEF high, third, second, first
  <2>4. 128 + first \in Cont /\ 128 + second \in Cont /\ 128 + third \in Cont
    BY ONLY <2>d DEF Cont
  <2>5. \/ 240 + high = 240 /\ 128 + third \in 144 .. 191
        \/ 240 + high \in 241 .. 243
        \/ 240 + high = 244 /\ 128 + third \in 128 .. 143
    <3>1. high = 0 => third >= 16
      BY ONLY <1>4, <2>d
    <3>2. high = 4 => third <= 15
      BY ONLY <1>s, <2>d
    <3>3. high <= 4
      BY ONLY <1>s, <2>d
    <3>4. high = 0 \/ (1 <= high /\ high <= 3) \/ high = 4
      BY ONLY <2>d, <3>3
    <3> QED BY ONLY <2>d, <3>1, <3>2, <3>4
  <2>6. Four(inp, idx)
    <3> DEFINE a == 240 + high
               b == 128 + third
    <3>1. /\ idx + 4 <= Len(inp)
          /\ inp[idx + 1] = a /\ inp[idx + 2] = b /\ inp[idx + 3] \in Cont /\ inp[idx + 4] \in Cont
          /\ \/ a = 240 /\ b \in 144 .. 191
             \/ a \in 241 .. 243 /\ b \in Cont
             \/ a = 244 /\ b \in 128 .. 143
      BY ONLY <2>3, <2>4, <2>5, ZenonT(40)
    <3> HIDE DEF a, b
    <3> QED BY <3>1 DEF Four
  <2>7. /\ Announced(inp[idx + 1]) = 3
        /\ Decoded(inp, idx) = (inp[idx + 1] - 240) * 262144 + (inp[idx + 2] - 128) * 4096
                             + (inp[idx + 3] - 128) * 64 + (inp[idx + 4] - 128)
    BY ONLY <1>t, <2>6, FourDecoded, SMTT(30)
  <2>8. Decoded(inp, idx) = r
    BY ONLY <2>d, <2>3, <2>7
  <2>9. Width(inp, idx) = 4
    BY ONLY <2>7 DEF Width
  <2> QED BY <2>2, <2>6, <2>8, <2>9, LengthsByRange, Zenon DEF Character
<1>5. r <= 127 \/ (128 <= r /\ r <= 2047) \/ (2048 <= r /\ r <= 65535) \/ 65536 <= r
  BY ONLY <1>s
<1>6. Good
  <2> HIDE DEF Good
  <2> QED BY ONLY <1>1, <1>2, <1>3, <1>4, <1>5
<1> QED BY <1>6 DEF e

\* The decoder accepts a character wherever it reads one, and nothing else.
LEMMA DecodedIff ==
  ASSUME NEW inp, NEW idx, inp \in Seq(Byte), idx \in Nat, idx < Len(inp)
  PROVE  Decoded(inp, idx) >= 0 <=> Character(inp, idx)
<1> DEFINE r == Decoded(inp, idx)
           e == utf8_encode_codepoint(r)
<1>1. ASSUME Character(inp, idx)
      PROVE  r >= 0
  <2>1. r \in Nat
    BY <1>1, CharacterThere
  <2> HIDE DEF r
  <2> QED BY ONLY <2>1
<1>2. ASSUME r >= 0
      PROVE  Character(inp, idx)
  <2>1. _utf8_cont_8(inp, idx) \in Int
    BY ByteAt DEF _utf8_cont_8
  <2>2. r = UTF8_ERR \/ (r \in Nat /\ IsScalar(r))
    BY <2>1, DecodedScalar
  <2>3. idx + Len(e) <= Len(inp) /\ \A k \in 1 .. Len(e) : inp[idx + k] = e[k]
    BY <1>2, DecodedEncodes
  <2> HIDE DEF r
  <2>4. r \in Int /\ IsScalar(r)
    BY ONLY <1>2, <2>2 DEF UTF8_ERR
  <2> QED BY <2>3, <2>4, EncodedMatches
<1> QED BY <1>1, <1>2

\* The two recursions over a text, as equations.
OkLoop(f, inp) ==
  f = [idx \in 0 .. Len(inp) |->
         \/ idx = Len(inp)
         \/ \E ranges \in WellFormedRanges : Matches(inp, idx, ranges) /\ f[idx + Len(ranges)]]

FromLoop(f, inp) ==
  f = [idx \in 0 .. Len(inp) |->
         IF \E ranges \in WellFormedRanges : Matches(inp, idx, ranges)
         THEN LET n == Len(CHOOSE ranges \in WellFormedRanges : Matches(inp, idx, ranges))
              IN  <<Weight(SubSeq(inp, idx + 1, idx + n))>> \o f[idx + n]
         ELSE <<>>]

\* If the first recursion has a function, WellFormed is its value at the start of the text.
LEMMA OkRounds ==
  ASSUME NEW inp, \E f : OkLoop(f, inp)
  PROVE  \E f : OkLoop(f, inp) /\ WellFormed(inp) = f[0]
BY Zenon DEF OkLoop, WellFormed, WellFormedFrom

\* If the second recursion has a function, Characters is its value at the start of the text.
LEMMA FromRounds ==
  ASSUME NEW inp, \E f : FromLoop(f, inp)
  PROVE  \E f : FromLoop(f, inp) /\ Characters(inp) = f[0]
BY Zenon DEF FromLoop, Characters

\* Where a text goes on behind a character.
LEMMA Behind ==
  ASSUME NEW inp, NEW idx, inp \in Seq(Byte), idx \in 0 .. Len(inp), Character(inp, idx)
  PROVE  idx + Width(inp, idx) \in idx + 1 .. Len(inp) /\ idx < Len(inp)
<1>1. Width(inp, idx) \in 1 .. 4 /\ idx + Width(inp, idx) <= Len(inp)
  BY CharacterThere
<1> QED BY ONLY <1>1, Len(inp) \in Nat, idx \in 0 .. Len(inp)

\* The first recursion has a function: it only asks behind a character.
LEMMA OkRuns ==
  ASSUME NEW inp, inp \in Seq(Byte)
  PROVE  \E f : OkLoop(f, inp)
<1> DEFINE n == Len(inp)
<1> DEFINE X == BOOLEAN
<1> DEFINE Value(k, g) == \/ k = n
                          \/ \E ranges \in WellFormedRanges : Matches(inp, k, ranges) /\ g[k + Len(ranges)]
<1> DEFINE step == [k \in 0 .. n |-> [g \in [0 .. n -> X] |-> Value(k, g)]]
<1>1. n \in Nat
  OBVIOUS
<1>b. \A k \in 0 .. n : \A ranges \in WellFormedRanges :
        Matches(inp, k, ranges) => k + Len(ranges) \in k + 1 .. n
  <2> SUFFICES ASSUME NEW k \in 0 .. n, NEW ranges \in WellFormedRanges, Matches(inp, k, ranges)
               PROVE  k + Len(ranges) \in k + 1 .. n
    OBVIOUS
  <2>0. k \in Nat
    BY ONLY <1>1, k \in 0 .. n
  <2>1. Character(inp, k)
    BY ONLY ranges \in WellFormedRanges, Matches(inp, k, ranges), Zenon DEF Character
  <2>2. Len(ranges) = Width(inp, k)
    BY <2>0, <2>1, CharacterThere
  <2> QED BY <2>1, <2>2, Behind
<1> HIDE DEF n
<1>2. ASSUME NEW k \in 0 .. n, NEW g \in [0 .. n -> X]
      PROVE  Value(k, g) \in X
  OBVIOUS
<1>3. ASSUME NEW k \in 0 .. n, NEW g, NEW h, \A j \in k + 1 .. n : g[j] = h[j]
      PROVE  Value(k, g) = Value(k, h)
  <2>1. \A ranges \in WellFormedRanges :
          Matches(inp, k, ranges) => g[k + Len(ranges)] = h[k + Len(ranges)]
    BY <1>b, <1>3
  <2>2. Value(k, g) <=> Value(k, h)
    BY ONLY <2>1, Zenon
  <2>3. Value(k, g) \in BOOLEAN /\ Value(k, h) \in BOOLEAN
    OBVIOUS
  <2> HIDE DEF Value
  <2> QED BY <2>2, <2>3
<1>4. Local(step, n, X)
  <2>1. step \in [0 .. n -> [[0 .. n -> X] -> X]]
    <3> HIDE DEF Value
    <3> QED BY <1>2
  <2>2. \A k \in 0 .. n : \A g \in [0 .. n -> X] : step[k][g] = Value(k, g)
    <3> HIDE DEF Value
    <3> QED OBVIOUS
  <2>3. \A k \in 0 .. n : \A g, h \in [0 .. n -> X] :
          (\A j \in k + 1 .. n : g[j] = h[j]) => step[k][g] = step[k][h]
    <3> TAKE k \in 0 .. n
    <3> TAKE g, h \in [0 .. n -> X]
    <3> HAVE \A j \in k + 1 .. n : g[j] = h[j]
    <3>1. Value(k, g) = Value(k, h)
      BY <1>3
    <3> HIDE DEF step, Value
    <3> QED BY <2>2, <3>1
  <2> HIDE DEF step
  <2> QED BY <2>1, <2>3 DEF Local
<1>5. PICK f : Solves(f, step, n, X)
  <2> HIDE DEF step
  <2>1. TRUE \in X
    OBVIOUS
  <2> HIDE DEF X
  <2> QED BY <1>1, <1>4, <2>1, Solution
<1>6. f = [k \in 0 .. n |-> Value(k, f)]
  <2>1. \A k \in 0 .. n : f[k] = Value(k, f)
    <3> HIDE DEF Value, X
    <3> QED BY <1>5 DEF Solves
  <2>2. f = [k \in 0 .. n |-> f[k]]
    BY <1>5 DEF Solves
  <2> HIDE DEF Value, X
  <2> QED BY <2>1, <2>2
<1>7. OkLoop(f, inp)
  BY <1>6, Zenon DEF OkLoop, n
<1> QED BY <1>7

\* What one character gives, and how many bytes it has, as the recursion finds it.
LEMMA Chosen ==
  ASSUME NEW inp, NEW idx, inp \in Seq(Byte), idx \in Nat, Character(inp, idx)
  PROVE  /\ Len(CHOOSE ranges \in WellFormedRanges : Matches(inp, idx, ranges)) = Width(inp, idx)
         /\ <<Weight(SubSeq(inp, idx + 1, idx + Width(inp, idx)))>> = <<Decoded(inp, idx)>>
<1> DEFINE r == CHOOSE ranges \in WellFormedRanges : Matches(inp, idx, ranges)
<1>1. r \in WellFormedRanges /\ Matches(inp, idx, r)
  BY Zenon DEF Character
<1> HIDE DEF r
<1>2. Len(r) = Width(inp, idx)
  BY <1>1, CharacterThere
<1>3. Decoded(inp, idx) = Weight(SubSeq(inp, idx + 1, idx + Width(inp, idx)))
  BY CharacterThere, Zenon
<1> QED BY ONLY <1>2, <1>3, Zenon DEF r

\* The second recursion has a function: it goes on behind a character.
LEMMA FromRuns ==
  ASSUME NEW inp, inp \in Seq(Byte)
  PROVE  \E f : FromLoop(f, inp)
<1> DEFINE n == Len(inp)
<1> DEFINE X == Seq(Nat)
<1> DEFINE Value(k, g) ==
      IF Character(inp, k) THEN <<Decoded(inp, k)>> \o g[k + Width(inp, k)] ELSE <<>>
<1> DEFINE step == [k \in 0 .. n |-> [g \in [0 .. n -> X] |-> Value(k, g)]]
<1>1. n \in Nat
  OBVIOUS
<1>b. \A k \in 0 .. n : Character(inp, k) =>
        k + Width(inp, k) \in k + 1 .. n /\ <<Decoded(inp, k)>> \in Seq(Nat)
  BY Behind, CharacterThere
<1> HIDE DEF n
<1>2. ASSUME NEW k \in 0 .. n, NEW g \in [0 .. n -> X]
      PROVE  Value(k, g) \in X
  <2>1. CASE Character(inp, k)
    <3>1. k + Width(inp, k) \in 0 .. n /\ <<Decoded(inp, k)>> \in Seq(Nat)
      BY <1>b, <2>1
    <3>2. g[k + Width(inp, k)] \in Seq(Nat)
      BY <3>1
    <3> DEFINE a == <<Decoded(inp, k)>>
               b == g[k + Width(inp, k)]
    <3>3. Value(k, g) = a \o b
      BY <2>1
    <3> HIDE DEF a, b
    <3>4. a \o b \in Seq(Nat)
      BY <3>1, <3>2 DEF a, b
    <3> HIDE DEF Value
    <3> QED BY <3>3, <3>4
  <2>2. CASE ~Character(inp, k)
    BY <2>2
  <2> QED BY <2>1, <2>2
<1>3. ASSUME NEW k \in 0 .. n, NEW g, NEW h, \A j \in k + 1 .. n : g[j] = h[j]
      PROVE  Value(k, g) = Value(k, h)
  <2>1. Character(inp, k) => g[k + Width(inp, k)] = h[k + Width(inp, k)]
    BY <1>b, <1>3
  <2> QED BY ONLY <2>1, Zenon
<1>4. Local(step, n, X)
  <2>1. step \in [0 .. n -> [[0 .. n -> X] -> X]]
    <3> HIDE DEF Value
    <3> QED BY <1>2
  <2>2. \A k \in 0 .. n : \A g \in [0 .. n -> X] : step[k][g] = Value(k, g)
    <3> HIDE DEF Value
    <3> QED OBVIOUS
  <2>3. \A k \in 0 .. n : \A g, h \in [0 .. n -> X] :
          (\A j \in k + 1 .. n : g[j] = h[j]) => step[k][g] = step[k][h]
    <3> TAKE k \in 0 .. n
    <3> TAKE g, h \in [0 .. n -> X]
    <3> HAVE \A j \in k + 1 .. n : g[j] = h[j]
    <3>1. Value(k, g) = Value(k, h)
      BY <1>3
    <3> HIDE DEF step, Value
    <3> QED BY <2>2, <3>1
  <2> HIDE DEF step
  <2> QED BY <2>1, <2>3 DEF Local
<1>5. PICK f : Solves(f, step, n, X)
  <2> HIDE DEF step
  <2>1. <<>> \in X
    OBVIOUS
  <2> HIDE DEF X
  <2> QED BY <1>1, <1>4, <2>1, Solution
<1>6. f = [k \in 0 .. n |-> Value(k, f)]
  <2>1. \A k \in 0 .. n : f[k] = Value(k, f)
    <3> HIDE DEF Value, X
    <3> QED BY <1>5 DEF Solves
  <2>2. f = [k \in 0 .. n |-> f[k]]
    BY <1>5 DEF Solves
  <2> HIDE DEF Value, X
  <2> QED BY <2>1, <2>2
<1>7. FromLoop(f, inp)
  <2> DEFINE Coded(k) ==
        IF \E ranges \in WellFormedRanges : Matches(inp, k, ranges)
        THEN LET m == Len(CHOOSE ranges \in WellFormedRanges : Matches(inp, k, ranges))
             IN  <<Weight(SubSeq(inp, k + 1, k + m))>> \o f[k + m]
        ELSE <<>>
  <2>1. ASSUME NEW k \in 0 .. n
        PROVE  Value(k, f) = Coded(k)
    <3>1. CASE Character(inp, k)
      <4> DEFINE m == Len(CHOOSE ranges \in WellFormedRanges : Matches(inp, k, ranges))
      <4>1. m = Width(inp, k) /\ <<Weight(SubSeq(inp, k + 1, k + Width(inp, k)))>> = <<Decoded(inp, k)>>
        BY <3>1, Chosen, k \in Nat
      <4>2. Coded(k) = <<Weight(SubSeq(inp, k + 1, k + m))>> \o f[k + m]
        BY <3>1, Zenon DEF Character
      <4>3. Value(k, f) = <<Decoded(inp, k)>> \o f[k + Width(inp, k)]
        BY <3>1
      <4> HIDE DEF m, Value, Coded
      <4> QED BY ONLY <4>1, <4>2, <4>3, Zenon
    <3>2. CASE ~Character(inp, k)
      BY <3>2, Zenon DEF Character
    <3> QED BY <3>1, <3>2
  <2>2. [k \in 0 .. n |-> Value(k, f)] = [k \in 0 .. n |-> Coded(k)]
    <3> HIDE DEF Value, Coded
    <3> QED BY <2>1
  <2>3. f = [k \in 0 .. n |-> Coded(k)]
    <3> HIDE DEF Value, Coded
    <3> QED BY <1>6, <2>2
  <2> QED BY <2>3, Zenon DEF FromLoop, n
<1> QED BY <1>7

\* The two recursions, by what the decoder finds at each index.
Parsed(inp, ok, from) ==
  /\ ok[Len(inp)] = TRUE
  /\ from \in [0 .. Len(inp) -> Seq(Nat)] /\ from[Len(inp)] = <<>>
  /\ \A idx \in 0 .. Len(inp) - 1 :
       /\ ok[idx] <=> Character(inp, idx) /\ ok[idx + Width(inp, idx)]
       /\ Character(inp, idx) => from[idx] = <<Decoded(inp, idx)>> \o from[idx + Width(inp, idx)]
       /\ ~Character(inp, idx) => from[idx] = <<>>

\* WellFormed and Characters read a text from its end to its start.
LEMMA Parses ==
  ASSUME NEW inp, inp \in Seq(Byte)
  PROVE  \E ok, from : /\ Parsed(inp, ok, from)
                       /\ WellFormed(inp) = ok[0] /\ Characters(inp) = from[0]
<1>1. PICK ok : OkLoop(ok, inp) /\ WellFormed(inp) = ok[0]
  BY OkRuns, OkRounds
<1>2. PICK from : FromLoop(from, inp) /\ Characters(inp) = from[0]
  BY FromRuns, FromRounds
<1> DEFINE n == Len(inp)
<1>n. n \in Nat
  OBVIOUS
<1>3. /\ ok[n] = TRUE
      /\ \A idx \in 0 .. n - 1 : ok[idx] <=> Character(inp, idx) /\ ok[idx + Width(inp, idx)]
  <2> DEFINE Going(idx) == \/ idx = n
                       \/ \E ranges \in WellFormedRanges :
                            Matches(inp, idx, ranges) /\ ok[idx + Len(ranges)]
  <2>1. \A idx \in 0 .. n : ok[idx] = Going(idx)
    BY <1>1, Zenon DEF OkLoop
  <2>2. ok[n] = Going(n) /\ Going(n) = TRUE
    BY <1>n, <2>1
  <2>3. ASSUME NEW idx \in 0 .. n - 1
        PROVE  ok[idx] <=> Character(inp, idx) /\ ok[idx + Width(inp, idx)]
    <3>1. ok[idx] = Going(idx) /\ idx # n /\ idx \in Nat
      <4> HIDE DEF Going, n
      <4> QED BY <1>n, <2>1
    <3>2. Character(inp, idx) =>
            \A ranges \in WellFormedRanges : Matches(inp, idx, ranges) => Len(ranges) = Width(inp, idx)
      BY <3>1, CharacterThere
    <3>3. Going(idx) <=> \E ranges \in WellFormedRanges : Matches(inp, idx, ranges) /\ ok[idx + Len(ranges)]
      BY <3>1
    <3>4. Going(idx) <=> Character(inp, idx) /\ ok[idx + Width(inp, idx)]
      <4> HIDE DEF Going
      <4> QED BY ONLY <3>2, <3>3, Zenon DEF Character
    <3> HIDE DEF Going
    <3> QED BY ONLY <3>1, <3>4, Zenon
  <2> HIDE DEF Going
  <2> QED BY <2>2, <2>3
<1>4. \A idx \in 0 .. n :
        /\ Character(inp, idx) => from[idx] = <<Decoded(inp, idx)>> \o from[idx + Width(inp, idx)]
        /\ ~Character(inp, idx) => from[idx] = <<>>
  <2> DEFINE Coded(k) ==
        IF \E ranges \in WellFormedRanges : Matches(inp, k, ranges)
        THEN LET m == Len(CHOOSE ranges \in WellFormedRanges : Matches(inp, k, ranges))
             IN  <<Weight(SubSeq(inp, k + 1, k + m))>> \o from[k + m]
        ELSE <<>>
  <2>1. \A idx \in 0 .. n : from[idx] = Coded(idx)
    BY <1>2, Zenon DEF FromLoop
  <2>2. ASSUME NEW idx \in 0 .. n
        PROVE  /\ Character(inp, idx) => from[idx] = <<Decoded(inp, idx)>> \o from[idx + Width(inp, idx)]
               /\ ~Character(inp, idx) => from[idx] = <<>>
    <3>1. ASSUME Character(inp, idx)
          PROVE  from[idx] = <<Decoded(inp, idx)>> \o from[idx + Width(inp, idx)]
      <4> DEFINE m == Len(CHOOSE ranges \in WellFormedRanges : Matches(inp, idx, ranges))
      <4>1. m = Width(inp, idx) /\ <<Weight(SubSeq(inp, idx + 1, idx + Width(inp, idx)))>> = <<Decoded(inp, idx)>>
        BY <3>1, Chosen, idx \in Nat
      <4>2. Coded(idx) = <<Weight(SubSeq(inp, idx + 1, idx + m))>> \o from[idx + m]
        BY <3>1, Zenon DEF Character
      <4> HIDE DEF m, Coded
      <4> QED BY <2>1, <4>1, <4>2, Zenon
    <3>2. ASSUME ~Character(inp, idx)
          PROVE  from[idx] = <<>>
      <4>1. Coded(idx) = <<>>
        BY <3>2, Zenon DEF Character
      <4> HIDE DEF Coded
      <4> QED BY <2>1, <4>1, Zenon
    <3> QED BY <3>1, <3>2
  <2> HIDE DEF n
  <2> QED BY <2>2
<1>5. ~Character(inp, n)
  BY Behind, <1>n
<1>6. from \in [0 .. n -> Seq(Nat)]
  <2> DEFINE S == {idx \in 0 .. n : from[idx] \in Seq(Nat)}
  <2>1. ASSUME NEW idx \in 0 .. n, \A j \in idx + 1 .. n : j \in S
        PROVE  idx \in S
    <3>1. CASE Character(inp, idx)
      <4>1. idx + Width(inp, idx) \in idx + 1 .. n /\ Decoded(inp, idx) \in Nat
        BY <3>1, Behind, CharacterThere
      <4>2. from[idx + Width(inp, idx)] \in Seq(Nat)
        BY <2>1, <4>1
      <4> DEFINE a == <<Decoded(inp, idx)>>
                 b == from[idx + Width(inp, idx)]
      <4>3. from[idx] = a \o b
        BY <1>4, <3>1
      <4>4. a \in Seq(Nat)
        BY <4>1
      <4> HIDE DEF a, b
      <4>5. a \o b \in Seq(Nat)
        BY <4>2, <4>4 DEF b
      <4> QED BY <4>3, <4>5
    <3>2. CASE ~Character(inp, idx)
      <4>1. from[idx] = <<>>
        BY <1>4, <3>2
      <4>2. <<>> \in Seq(Nat)
        OBVIOUS
      <4> QED BY ONLY <4>1, <4>2, idx \in 0 .. n
    <3> QED BY <3>1, <3>2
  <2>2. \A idx \in 0 .. n : from[idx] \in Seq(Nat)
    <3>1. \A idx \in 0 .. n : idx \in S
      <4> HIDE DEF S, n
      <4> QED BY ONLY <1>n, <2>1, Downward
    <3> QED BY <3>1
  <2>3. from = [idx \in 0 .. n |-> from[idx]]
    BY <1>2, Zenon DEF FromLoop
  <2> HIDE DEF n
  <2> QED BY <2>2, <2>3
<1>7. Parsed(inp, ok, from)
  <2>1. from[n] = <<>>
    <3> HIDE DEF n
    <3>1. n \in 0 .. n
      BY <1>n
    <3> QED BY ONLY <1>4, <1>5, <3>1, Zenon
  <2>2. \A idx \in 0 .. n - 1 : idx \in 0 .. n
    BY <1>n
  <2> QED BY <1>3, <1>4, <1>6, <2>1, <2>2, Zenon DEF Parsed
<1> QED BY <1>1, <1>2, <1>7

\* A character is a sequence of ranges.
LEMMA RangesAreSequences ==
  ASSUME NEW ranges \in WellFormedRanges
  PROVE  DOMAIN ranges = 1 .. Len(ranges)
<1>1. ASSUME NEW A, ranges = <<A>> PROVE DOMAIN ranges = 1 .. Len(ranges)
  BY <1>1
<1>2. ASSUME NEW A, NEW B, ranges = <<A, B>> PROVE DOMAIN ranges = 1 .. Len(ranges)
  BY <1>2
<1>3. ASSUME NEW A, NEW B, NEW C, ranges = <<A, B, C>> PROVE DOMAIN ranges = 1 .. Len(ranges)
  BY <1>3
<1>4. ASSUME NEW A, NEW B, NEW C, NEW D, ranges = <<A, B, C, D>>
      PROVE  DOMAIN ranges = 1 .. Len(ranges)
  BY <1>4
<1>5. \/ ranges = <<0 .. 127>>
      \/ ranges = <<194 .. 223, Cont>>
      \/ ranges = <<{224}, 160 .. 191, Cont>>
      \/ ranges = <<225 .. 236, Cont, Cont>>
      \/ ranges = <<{237}, 128 .. 159, Cont>>
      \/ ranges = <<238 .. 239, Cont, Cont>>
      \/ ranges = <<{240}, 144 .. 191, Cont, Cont>>
      \/ ranges = <<241 .. 243, Cont, Cont, Cont>>
      \/ ranges = <<{244}, 128 .. 143, Cont, Cont>>
  BY DEF WellFormedRanges
<1> QED BY <1>1, <1>2, <1>3, <1>4, <1>5

\* A character is the same in every text that has its bytes there.
LEMMA SameThere ==
  ASSUME NEW u, NEW w, NEW idx, NEW j, u \in Seq(Byte), w \in Seq(Byte), idx \in Nat, j \in Nat,
         j <= Len(u), j <= Len(w), \A k \in 1 .. j : u[k] = w[k],
         Character(u, idx), idx + Width(u, idx) <= j
  PROVE  Character(w, idx) /\ Width(w, idx) = Width(u, idx) /\ Decoded(w, idx) = Decoded(u, idx)
<1> DEFINE n == Width(u, idx)
<1>1. n \in 1 .. 4 /\ idx + n <= j
  BY CharacterThere
<1>2. PICK ranges \in WellFormedRanges : Matches(u, idx, ranges)
  BY DEF Character
<1>3. Len(ranges) = n /\ DOMAIN ranges = 1 .. n
  BY <1>2, CharacterThere, RangesAreSequences
<1> HIDE DEF n
<1>4. \A k \in 1 .. n : idx + k \in 1 .. j /\ u[idx + k] = w[idx + k]
  BY ONLY <1>1, \A k \in 1 .. j : u[k] = w[k], idx \in Nat, j \in Nat
<1>5. \A k \in DOMAIN ranges : u[idx + k] \in ranges[k]
  BY <1>2 DEF Matches
<1>6. Matches(w, idx, ranges)
  <2>1. \A k \in DOMAIN ranges : w[idx + k] \in ranges[k]
    BY ONLY <1>3, <1>4, <1>5, Zenon
  <2>2. idx + Len(ranges) <= Len(w)
    <3>1. Len(w) \in Nat
      OBVIOUS
    <3> QED BY ONLY <1>1, <1>3, <3>1, idx \in Nat, j \in Nat, j <= Len(w)
  <2> QED BY ONLY <2>1, <2>2 DEF Matches
<1>7. Character(w, idx)
  BY ONLY <1>2, <1>6, Zenon DEF Character
<1>8. Width(w, idx) = n
  BY <1>3, <1>6, <1>7, CharacterThere
<1>9. SubSeq(u, idx + 1, idx + n) = SubSeq(w, idx + 1, idx + n)
  <2> DEFINE s == SubSeq(u, idx + 1, idx + n)
             t == SubSeq(w, idx + 1, idx + n)
  <2>1. /\ idx + n <= Len(u) /\ idx + n <= Len(w)
        /\ n \in Nat
    <3>1. Len(w) \in Nat /\ Len(u) \in Nat
      OBVIOUS
    <3> QED BY ONLY <1>1, <3>1, idx \in Nat, j \in Nat, j <= Len(w), j <= Len(u)
  <2>2. s \in Seq(Byte) /\ Len(s) = n /\ \A k \in 1 .. n : s[k] = u[idx + k]
    BY <2>1, PartOf
  <2>3. t \in Seq(Byte) /\ Len(t) = n /\ \A k \in 1 .. n : t[k] = w[idx + k]
    BY <2>1, PartOf
  <2> HIDE DEF s, t
  <2>4. s = t
    BY ONLY <1>4, <2>2, <2>3, SeqEqual
  <2> QED BY <2>4 DEF s, t
<1>10. Decoded(w, idx) = Weight(SubSeq(w, idx + 1, idx + n)) /\ Decoded(u, idx) = Weight(SubSeq(u, idx + 1, idx + n))
  BY <1>7, <1>8, CharacterThere DEF n
<1> QED BY ONLY <1>7, <1>8, <1>9, <1>10, Zenon DEF n

\* A text behind a well-formed part of it: it goes on with a character or it is not
\* well-formed, and the characters of the part come first.
LEMMA GoesOn ==
  ASSUME NEW w, NEW j, w \in Seq(Byte), j \in 0 .. Len(w), WellFormed(SubSeq(w, 1, j))
  PROVE  \E rest \in Seq(Nat) :
           /\ Characters(SubSeq(w, 1, j)) \in Seq(Nat)
           /\ Characters(w) = Characters(SubSeq(w, 1, j)) \o rest
           /\ Character(w, j) => Len(rest) > 0 /\ rest[1] = Decoded(w, j)
           /\ ~Character(w, j) => rest = <<>>
           /\ WellFormed(w) => j = Len(w) \/ Character(w, j)
           /\ Character(w, j) /\ j + Width(w, j) = Len(w) =>
                WellFormed(w) /\ rest = <<Decoded(w, j)>>
<1> DEFINE u == SubSeq(w, 1, j)
<1>0. u \in Seq(Byte) /\ Len(u) = j /\ j \in Nat /\ Len(w) \in Nat /\ j <= Len(w)
      /\ \A k \in 1 .. j : u[k] = w[k]
  OBVIOUS
<1>w. WellFormed(u)
  OBVIOUS
<1> HIDE DEF u
<1>1. PICK okU, fromU : /\ Parsed(u, okU, fromU)
                        /\ WellFormed(u) = okU[0] /\ Characters(u) = fromU[0]
  BY <1>0, Parses
<1>2. PICK okW, fromW : /\ Parsed(w, okW, fromW)
                        /\ WellFormed(w) = okW[0] /\ Characters(w) = fromW[0]
  BY Parses
<1>3. fromU \in [0 .. j -> Seq(Nat)] /\ fromW \in [0 .. Len(w) -> Seq(Nat)]
  BY <1>0, <1>1, <1>2 DEF Parsed
<1>e. okU[j] = TRUE /\ okW[Len(w)] = TRUE /\ fromU[j] = <<>> /\ fromW[Len(w)] = <<>>
  BY <1>0, <1>1, <1>2, Zenon DEF Parsed
<1>p. \A idx \in 0 .. j - 1 :
        /\ okU[idx] <=> Character(u, idx) /\ okU[idx + Width(u, idx)]
        /\ Character(u, idx) => fromU[idx] = <<Decoded(u, idx)>> \o fromU[idx + Width(u, idx)]
  BY <1>0, <1>1, Zenon DEF Parsed
<1>q. \A idx \in 0 .. Len(w) - 1 :
        /\ okW[idx] <=> Character(w, idx) /\ okW[idx + Width(w, idx)]
        /\ Character(w, idx) => fromW[idx] = <<Decoded(w, idx)>> \o fromW[idx + Width(w, idx)]
        /\ ~Character(w, idx) => fromW[idx] = <<>>
  BY <1>2, Zenon DEF Parsed
<1> DEFINE Joined(idx) == okU[idx] => (okW[idx] <=> okW[j]) /\ fromW[idx] = fromU[idx] \o fromW[j]
           S == {idx \in 0 .. j : Joined(idx)}
<1>4. ASSUME NEW idx \in 0 .. j, \A k \in idx + 1 .. j : k \in S
      PROVE  Joined(idx)
  <2>1. CASE idx = j
    <3>1. fromW[j] \in Seq(Nat) /\ fromU[j] = <<>>
      BY <1>0, <1>3, <1>e
    <3>2. fromW[j] = fromU[j] \o fromW[j]
      BY ONLY <3>1
    <3> QED BY ONLY <2>1, <3>2, Zenon
  <2>2. CASE idx # j
    <3>0. idx \in 0 .. j - 1 /\ idx \in 0 .. Len(w) - 1 /\ idx \in Nat
      BY ONLY <1>0, <2>2, idx \in 0 .. j
    <3> SUFFICES ASSUME okU[idx] PROVE (okW[idx] <=> okW[j]) /\ fromW[idx] = fromU[idx] \o fromW[j]
      BY Zenon
    <3> DEFINE n == Width(u, idx)
    <3>1. Character(u, idx) /\ okU[idx + n] /\ fromU[idx] = <<Decoded(u, idx)>> \o fromU[idx + n]
      BY <1>p, <3>0, Zenon
    <3>2. idx + n \in idx + 1 .. j
      BY <1>0, <3>0, <3>1, Behind
    <3>3. Character(w, idx) /\ Width(w, idx) = n /\ Decoded(w, idx) = Decoded(u, idx)
      <4> HIDE DEF n
      <4>1. idx + n <= j /\ j <= Len(u)
        BY ONLY <1>0, <3>2
      <4> QED BY <1>0, <3>0, <3>1, <4>1, SameThere, ZenonT(40) DEF n
    <3>4. (okW[idx] <=> okW[idx + n]) /\ fromW[idx] = <<Decoded(u, idx)>> \o fromW[idx + n]
      BY <1>q, <3>0, <3>3, Zenon
    <3>5. Joined(idx + n)
      <4> HIDE DEF Joined
      <4> QED BY <1>4, <3>2
    <3> HIDE DEF n
    <3>6. (okW[idx + n] <=> okW[j]) /\ fromW[idx + n] = fromU[idx + n] \o fromW[j]
      BY ONLY <3>1, <3>5, Zenon
    <3>7. Decoded(u, idx) \in Nat
      BY <1>0, <3>0, <3>1, CharacterThere
    <3>8. fromU[idx + n] \in Seq(Nat) /\ fromW[j] \in Seq(Nat)
      <4>1. idx + n \in 0 .. j /\ j \in 0 .. Len(w)
        BY ONLY <1>0, <3>0, <3>2
      <4> QED BY ONLY <1>3, <4>1
    <3> DEFINE a == <<Decoded(u, idx)>>
               b == fromU[idx + n]
               c == fromW[j]
    <3>9. a \o (b \o c) = (a \o b) \o c
      <4>1. a \in Seq(Nat) /\ b \in Seq(Nat) /\ c \in Seq(Nat)
        BY ONLY <3>7, <3>8
      <4> HIDE DEF a, b, c
      <4> QED BY ONLY <4>1
    <3> QED BY ONLY <3>1, <3>4, <3>6, <3>9, Zenon
  <2> QED BY <2>1, <2>2
<1>5. Joined(0)
  <2>1. \A idx \in 0 .. j : (\A k \in idx + 1 .. j : k \in S) => idx \in S
    <3> SUFFICES ASSUME NEW idx \in 0 .. j, \A k \in idx + 1 .. j : k \in S PROVE idx \in S
      OBVIOUS
    <3>1. Joined(idx)
      <4> HIDE DEF Joined, S
      <4> QED BY <1>4
    <3> HIDE DEF Joined
    <3> QED BY ONLY <3>1, idx \in 0 .. j
  <2>2. \A idx \in 0 .. j : idx \in S
    <3> HIDE DEF S
    <3> QED BY ONLY <1>0, <2>1, Downward
  <2> HIDE DEF Joined
  <2> QED BY <1>0, <2>2
<1>6. (WellFormed(w) <=> okW[j]) /\ Characters(w) = Characters(u) \o fromW[j]
  BY ONLY <1>w, <1>1, <1>2, <1>5, Zenon
<1>7. Characters(u) \in Seq(Nat) /\ fromW[j] \in Seq(Nat)
  <2>1. 0 \in 0 .. j /\ j \in 0 .. Len(w)
    BY ONLY <1>0
  <2>2. fromU[0] \in Seq(Nat) /\ fromW[j] \in Seq(Nat)
    BY ONLY <1>3, <2>1
  <2> QED BY ONLY <1>1, <2>2, Zenon
<1>8. CASE j = Len(w)
  <2>1. ~Character(w, j) /\ fromW[j] = <<>>
    BY <1>0, <1>8, <1>e, Behind
  <2> QED BY <1>6, <1>7, <1>8, <2>1, Zenon DEF u
<1>9. CASE j # Len(w)
  <2>0. j \in 0 .. Len(w) - 1 /\ j \in Nat
    BY ONLY <1>0, <1>9
  <2>1. CASE ~Character(w, j)
    <3>1. ~okW[j] /\ fromW[j] = <<>>
      BY <1>q, <2>0, <2>1, Zenon
    <3> QED BY <1>6, <1>7, <2>1, <3>1, Zenon DEF u
  <2>2. CASE Character(w, j)
    <3> DEFINE n == Width(w, j)
               a == <<Decoded(w, j)>>
               b == fromW[j + n]
    <3>1. (okW[j] <=> okW[j + n]) /\ fromW[j] = a \o b
      BY <1>q, <2>0, <2>2, Zenon
    <3>2. j + n \in j + 1 .. Len(w) /\ Decoded(w, j) \in Nat
      BY <1>0, <2>0, <2>2, Behind, CharacterThere
    <3>3. b \in Seq(Nat)
      <4> HIDE DEF n
      <4> QED BY ONLY <1>0, <1>3, <3>2
    <3>4. Len(a) = 1 /\ a[1] = Decoded(w, j) /\ a \in Seq(Nat)
      BY ONLY <3>2
    <3>5. n = Width(w, j)
      OBVIOUS
    <3> HIDE DEF n, a, b
    <3>6. Len(a \o b) > 0 /\ (a \o b)[1] = Decoded(w, j)
      BY ONLY <3>3, <3>4, SMTT(30)
    <3>7. ASSUME j + n = Len(w)
          PROVE  okW[j] /\ fromW[j] = a
      <4>1. b = <<>> /\ okW[j + n]
        BY ONLY <1>e, <3>7, Zenon DEF b
      <4>2. a \o <<>> = a
        BY ONLY <3>4
      <4> QED BY ONLY <3>1, <4>1, <4>2, Zenon
    <3>8. /\ Len(fromW[j]) > 0 /\ fromW[j][1] = Decoded(w, j)
          /\ j + Width(w, j) = Len(w) => okW[j] /\ fromW[j] = <<Decoded(w, j)>>
      BY ONLY <3>1, <3>5, <3>6, <3>7, Zenon DEF a
    <3> QED BY <1>6, <1>7, <2>2, <3>8, Zenon DEF u
  <2> QED BY <2>1, <2>2
<1> QED BY <1>8, <1>9
-------------------------------------------------------------------------
(* Parts of texts: what the decoder passes and what the encoder adds.      *)

\* The first bytes of a text, and the first bytes of those.
LEMMA FirstOf ==
  ASSUME NEW S, NEW w, NEW m, w \in Seq(S), m \in 0 .. Len(w)
  PROVE  /\ SubSeq(w, 1, m) \in Seq(S) /\ Len(SubSeq(w, 1, m)) = m
         /\ \A k \in 1 .. m : SubSeq(w, 1, m)[k] = w[k]
         /\ m = Len(w) => SubSeq(w, 1, m) = w
         /\ \A j \in 0 .. m : SubSeq(SubSeq(w, 1, m), 1, j) = SubSeq(w, 1, j)
<1> DEFINE v == SubSeq(w, 1, m)
<1>0. Len(w) \in Nat /\ m \in Nat /\ m <= Len(w)
  OBVIOUS
<1>1. v \in Seq(S) /\ Len(v) = m /\ \A k \in 1 .. m : v[k] = w[k]
  OBVIOUS
<1>2. m = Len(w) => v = w
  OBVIOUS
<1> HIDE DEF v
<1>3. ASSUME NEW j \in 0 .. m
      PROVE  SubSeq(v, 1, j) = SubSeq(w, 1, j)
  <2> DEFINE s == SubSeq(v, 1, j)
             t == SubSeq(w, 1, j)
  <2>1. s \in Seq(S) /\ Len(s) = j /\ \A k \in 1 .. j : s[k] = v[k]
    BY <1>0, <1>1
  <2>2. t \in Seq(S) /\ Len(t) = j /\ \A k \in 1 .. j : t[k] = w[k]
    BY <1>0
  <2> HIDE DEF s, t
  <2>3. \A k \in 1 .. j : k \in 1 .. m
    BY ONLY <1>0, j \in 0 .. m
  <2>4. s = t
    BY ONLY <1>1, <2>1, <2>2, <2>3, SeqEqual
  <2> QED BY <2>4 DEF s, t
<1> QED BY <1>1, <1>2, <1>3 DEF v

\* Behind a well-formed part and a character the text is well-formed that far.
LEMMA OneMore ==
  ASSUME NEW w, NEW j, w \in Seq(Byte), j \in 0 .. Len(w), WellFormed(SubSeq(w, 1, j)),
         Character(w, j)
  PROVE  LET m == j + Width(w, j)
         IN  /\ m \in j + 1 .. Len(w)
             /\ WellFormed(SubSeq(w, 1, m))
             /\ Characters(SubSeq(w, 1, m)) = Characters(SubSeq(w, 1, j)) \o <<Decoded(w, j)>>
             /\ Characters(SubSeq(w, 1, j)) \in Seq(Nat) /\ Decoded(w, j) \in Nat
<1> DEFINE m == j + Width(w, j)
           v == SubSeq(w, 1, m)
<1>0. j \in Nat /\ Len(w) \in Nat
  OBVIOUS
<1>1. m \in j + 1 .. Len(w) /\ m \in 0 .. Len(w) /\ j \in 0 .. m
  <2>1. m \in j + 1 .. Len(w)
    BY <1>0, Behind
  <2> HIDE DEF m
  <2> QED BY ONLY <1>0, <2>1
<1>2. v \in Seq(Byte) /\ Len(v) = m /\ (\A k \in 1 .. m : v[k] = w[k])
      /\ SubSeq(v, 1, j) = SubSeq(w, 1, j)
  <2> HIDE DEF m
  <2> QED BY <1>1, FirstOf
<1>3. j + Width(w, j) = m
  OBVIOUS
<1> HIDE DEF m, v
<1>4. Character(v, j) /\ Width(v, j) = Width(w, j) /\ Decoded(v, j) = Decoded(w, j)
  <2>1. m <= Len(w) /\ m <= Len(v) /\ j + Width(w, j) <= m /\ m \in Nat
    BY ONLY <1>0, <1>1, <1>2, <1>3
  <2>2. \A k \in 1 .. m : w[k] = v[k]
    BY ONLY <1>2
  <2>3. w \in Seq(Byte) /\ v \in Seq(Byte) /\ j \in Nat /\ Character(w, j) /\ m <= Len(w)
    BY <1>0, <1>2, <2>1
  <2> QED BY ONLY <2>1, <2>2, <2>3, SameThere, ZenonT(40)
<1>5. WellFormed(SubSeq(v, 1, j)) /\ j \in 0 .. Len(v)
  BY <1>1, <1>2
<1>6. PICK rest \in Seq(Nat) :
        /\ Characters(SubSeq(v, 1, j)) \in Seq(Nat)
        /\ Characters(v) = Characters(SubSeq(v, 1, j)) \o rest
        /\ Character(v, j) /\ j + Width(v, j) = Len(v) =>
             WellFormed(v) /\ rest = <<Decoded(v, j)>>
  BY ONLY <1>2, <1>5, GoesOn, Zenon
<1>7. WellFormed(v) /\ rest = <<Decoded(w, j)>>
  BY ONLY <1>2, <1>3, <1>4, <1>6, Zenon
<1>8. Decoded(w, j) \in Nat
  BY <1>0, CharacterThere
<1> QED BY ONLY <1>1, <1>2, <1>6, <1>7, <1>8, Zenon DEF m, v

\* Behind a well-formed part of a well-formed text stands its next character.
LEMMA NextCharacter ==
  ASSUME NEW w, NEW p, NEW n, w \in Seq(Byte), WellFormed(w),
         p \in 0 .. Len(w), WellFormed(SubSeq(w, 1, p)),
         n \in 0 .. Len(Characters(w)), Characters(SubSeq(w, 1, p)) = SubSeq(Characters(w), 1, n)
  PROVE  /\ n = Len(Characters(w)) => p = Len(w)
         /\ n < Len(Characters(w)) => Character(w, p) /\ Decoded(w, p) = Characters(w)[n + 1]
<1> DEFINE c == Characters(w)
           d == Characters(SubSeq(w, 1, p))
<1>1. PICK rest \in Seq(Nat) :
        /\ d \in Seq(Nat) /\ c = d \o rest
        /\ Character(w, p) => Len(rest) > 0 /\ rest[1] = Decoded(w, p)
        /\ ~Character(w, p) => rest = <<>>
        /\ WellFormed(w) => p = Len(w) \/ Character(w, p)
  BY GoesOn, Zenon
<1>2. n \in 0 .. Len(c) /\ d = SubSeq(c, 1, n)
  OBVIOUS
<1> HIDE DEF c, d
<1>3. c \in Seq(Nat) /\ Len(c) = Len(d) + Len(rest)
  BY ONLY <1>1
<1>4. Len(d) = n
  BY ONLY <1>2, <1>3, FirstOf
<1>5. n = Len(c) => Len(rest) = 0
  BY ONLY <1>1, <1>3, <1>4
<1>6. n = Len(c) => p = Len(w)
  BY ONLY <1>1, <1>5, WellFormed(w)
<1>7. ASSUME n < Len(c)
      PROVE  Character(w, p) /\ Decoded(w, p) = c[n + 1]
  <2>1. Len(rest) > 0
    BY ONLY <1>1, <1>3, <1>4, <1>7
  <2>2. rest # <<>>
    BY ONLY <2>1
  <2>3. Character(w, p) /\ rest[1] = Decoded(w, p)
    BY ONLY <1>1, <2>2, Zenon
  <2>4. c[n + 1] = rest[1]
    BY ONLY <1>1, <1>4, <2>1
  <2> QED BY ONLY <2>3, <2>4, Zenon
<1> QED BY ONLY <1>6, <1>7, Zenon DEF c

\* The text of no bytes.
LEMMA EmptyText ==
  WellFormed(<<>>) /\ Characters(<<>>) = <<>>
<1>1. <<>> \in Seq(Byte) /\ Len(<<>>) = 0
  OBVIOUS
<1>2. PICK ok, from : /\ Parsed(<<>>, ok, from)
                      /\ WellFormed(<<>>) = ok[0] /\ Characters(<<>>) = from[0]
  BY ONLY <1>1, Parses
<1>3. ok[0] = TRUE /\ from[0] = <<>>
  BY ONLY <1>1, <1>2, Zenon DEF Parsed
<1> QED BY ONLY <1>2, <1>3, Zenon

\* The characters of a text are numbers.
LEMMA CharactersType ==
  ASSUME NEW w, w \in Seq(Byte)
  PROVE  Characters(w) \in Seq(Nat)
<1>1. PICK ok, from : Parsed(w, ok, from) /\ Characters(w) = from[0]
  BY Parses
<1>2. from \in [0 .. Len(w) -> Seq(Nat)] /\ 0 \in 0 .. Len(w)
  BY <1>1 DEF Parsed
<1> QED BY ONLY <1>1, <1>2

\* A text of ASCII has a character per byte.
LEMMA AsciiCount ==
  ASSUME NEW w, w \in Seq(Byte), \A k \in DOMAIN w : w[k] < 128
  PROVE  Len(Characters(w)) = Len(w)
<1> DEFINE n == Len(w)
<1>0. n \in Nat
  OBVIOUS
<1>1. PICK ok, from : Parsed(w, ok, from) /\ Characters(w) = from[0]
  BY Parses
<1>2. /\ from \in [0 .. n -> Seq(Nat)] /\ from[n] = <<>>
      /\ \A k \in 0 .. n - 1 :
           Character(w, k) => from[k] = <<Decoded(w, k)>> \o from[k + Width(w, k)]
  BY <1>1, Zenon DEF Parsed
<1>3. ASSUME NEW k \in 0 .. n - 1
      PROVE  Character(w, k) /\ Width(w, k) = 1 /\ Decoded(w, k) \in Nat
  <2>0. k \in Nat /\ k + 1 \in 1 .. Len(w) /\ k < Len(w)
    BY ONLY <1>0, k \in 0 .. n - 1 DEF n
  <2>1. w[k + 1] \in Int /\ 0 <= w[k + 1] /\ w[k + 1] <= 255
    BY <2>0, ByteAt
  <2>2. w[k + 1] < 128
    <3> DEFINE m == k + 1
    <3>1. m \in DOMAIN w
      BY <2>0
    <3> HIDE DEF m
    <3>2. w[m] < 128
      BY <3>1
    <3> QED BY <3>2 DEF m
  <2>3. One(w, k)
    <3> DEFINE b == w[k + 1]
    <3>1. b \in 0 .. 127
      <4> HIDE DEF b
      <4>1. b \in Int /\ 0 <= b /\ b < 128
        BY ONLY <2>1, <2>2 DEF b
      <4> QED BY ONLY <4>1
    <3> HIDE DEF b
    <3>2. k + 1 <= Len(w)
      BY <2>0
    <3> QED BY ONLY <3>1, <3>2 DEF One, b
  <2>4. Announced(w[k + 1]) = 0 /\ Decoded(w, k) \in Nat
    BY <2>0, <2>3, OneDecoded
  <2>5. Width(w, k) = 1
    BY ONLY <2>4 DEF Width
  <2>6. Character(w, k)
    BY ONLY <2>3, LengthsByRange, Zenon DEF Character
  <2> QED BY ONLY <2>4, <2>5, <2>6, Zenon
<1> HIDE DEF n
<1> DEFINE S == {k \in 0 .. n : Len(from[k]) = n - k}
<1>4. ASSUME NEW k \in 0 .. n, \A j \in k + 1 .. n : j \in S
      PROVE  k \in S
  <2>1. CASE k = n
    <3>1. Len(<<>>) = n - n
      BY ONLY <1>0
    <3> QED BY ONLY <1>2, <2>1, <3>1, k \in 0 .. n
  <2>2. CASE k # n
    <3>1. k \in 0 .. n - 1 /\ k + 1 \in k + 1 .. n /\ k + 1 \in 0 .. n
      BY ONLY <1>0, <2>2, k \in 0 .. n
    <3>2. from[k] = <<Decoded(w, k)>> \o from[k + 1] /\ Decoded(w, k) \in Nat
      BY <1>2, <1>3, <3>1
    <3>3. from[k + 1] \in Seq(Nat) /\ Len(from[k + 1]) = n - (k + 1)
      BY <1>2, <1>4, <3>1
    <3> DEFINE a == <<Decoded(w, k)>>
               b == from[k + 1]
    <3>4. Len(a) = 1 /\ a \in Seq(Nat)
      BY ONLY <3>2
    <3>8. b \in Seq(Nat)
      BY ONLY <3>3
    <3> HIDE DEF a, b
    <3>5. Len(a \o b) = 1 + Len(b)
      <4>1. Len(a \o b) = Len(a) + Len(b)
        BY ONLY <3>4, <3>8, ConcatProperties, Zenon
      <4> QED BY ONLY <3>4, <4>1, Zenon
    <3>6. Len(from[k]) = 1 + (n - (k + 1))
      <4>1. from[k] = a \o b /\ Len(b) = n - (k + 1)
        BY ONLY <3>2, <3>3, Zenon DEF a, b
      <4> QED BY ONLY <3>5, <4>1
    <3>7. 1 + (n - (k + 1)) = n - k
      BY ONLY <1>0, k \in 0 .. n
    <3> QED BY ONLY <3>6, <3>7, k \in 0 .. n
  <2> QED BY <2>1, <2>2
<1>5. 0 \in S
  <2> HIDE DEF S
  <2>1. \A k \in 0 .. n : k \in S
    BY ONLY <1>0, <1>4, Downward
  <2> QED BY ONLY <1>0, <2>1
<1>6. Len(from[0]) = n
  BY ONLY <1>0, <1>5
<1> QED BY ONLY <1>1, <1>6, Zenon DEF n

\* The text before the first zero, or all of it.
LEMMA BeforeZeroCut ==
  ASSUME NEW S, NEW text \in Seq(S)
  PROVE  \E m \in 0 .. Len(text) :
           /\ BeforeZero(text) = SubSeq(text, 1, m)
           /\ \A k \in 1 .. m : text[k] # 0
           /\ m = Len(text) \/ text[m + 1] = 0
<1> DEFINE First(k) == /\ k = Len(text) + 1 \/ text[k] = 0
                       /\ \A j \in 1 .. k - 1 : text[j] # 0
<1> DEFINE T == {k \in 1 .. Len(text) + 1 : k = Len(text) + 1 \/ text[k] = 0}
<1>1. Len(text) \in Nat
  OBVIOUS
<1>2. T \subseteq Nat /\ Len(text) + 1 \in T
  BY <1>1
<1>3. PICK k \in T : \A j \in T : k <= j
  <2> HIDE DEF T
  <2> QED BY <1>2, Least
<1>4. First(k)
  <2>1. ASSUME NEW j \in 1 .. k - 1 PROVE text[j] # 0
    <3>1. j \in 1 .. Len(text) + 1 /\ ~(k <= j)
      BY <1>1
    <3> QED BY <1>3, <3>1
  <2> QED BY <1>3, <2>1
<1> DEFINE f == FirstZero(text)
<1>5. f \in 1 .. Len(text) + 1 /\ First(f)
  <2>1. \E m \in 1 .. Len(text) + 1 : First(m)
    BY <1>4
  <2> QED BY <2>1 DEF FirstZero
<1> HIDE DEF f
<1>6. f - 1 \in 0 .. Len(text) /\ (f - 1) + 1 = f /\ (f = Len(text) + 1 => f - 1 = Len(text))
  BY ONLY <1>1, <1>5
<1>7. BeforeZero(text) = SubSeq(text, 1, f - 1)
  BY DEF BeforeZero, f
<1> QED BY <1>5, <1>6, <1>7

\* What stands before the first zero is text of the same kind.
LEMMA BeforeZeroType ==
  ASSUME NEW S, NEW text \in Seq(S)
  PROVE  BeforeZero(text) \in Seq(S)
BY BeforeZeroCut, FirstOf

\* What ends at a zero and has none is what stands before the first.
LEMMA BeforeZeroIs ==
  ASSUME NEW S, NEW text \in Seq(S), NEW p \in 0 .. Len(text) - 1,
         text[p + 1] = 0, \A k \in 1 .. p : text[k] # 0
  PROVE  BeforeZero(text) = SubSeq(text, 1, p)
<1>1. PICK m \in 0 .. Len(text) :
           /\ BeforeZero(text) = SubSeq(text, 1, m)
           /\ \A k \in 1 .. m : text[k] # 0
           /\ m = Len(text) \/ text[m + 1] = 0
  BY BeforeZeroCut
<1>0. p \in Nat /\ m \in Nat /\ Len(text) \in Nat /\ p < Len(text)
  OBVIOUS
<1>2. ~(p < m)
  <2>1. p < m => p + 1 \in 1 .. m
    BY ONLY <1>0
  <2> QED BY ONLY <1>1, <2>1, text[p + 1] = 0
<1>3. ~(m < p)
  <2>1. m < p => m + 1 \in 1 .. p /\ m # Len(text)
    BY ONLY <1>0
  <2> QED BY ONLY <1>1, <2>1, \A k \in 1 .. p : text[k] # 0
<1>4. m = p
  BY ONLY <1>0, <1>2, <1>3
<1> QED BY <1>1, <1>4

\* A prefix and what stands behind it.
LEMMA Glued ==
  ASSUME NEW S, NEW w, NEW v, w \in Seq(S), v \in Seq(S)
  PROVE  /\ w \o v \in Seq(S) /\ Len(w \o v) = Len(w) + Len(v)
         /\ \A k \in 1 .. Len(w) : (w \o v)[k] = w[k]
         /\ \A k \in 1 .. Len(v) : (w \o v)[Len(w) + k] = v[k]
         /\ \A p \in 0 .. Len(w) : SubSeq(w \o v, 1, p) = SubSeq(w, 1, p)
<1> DEFINE x == w \o v
<1>0. Len(w) \in Nat /\ Len(v) \in Nat
  OBVIOUS
<1>1. x \in Seq(S) /\ Len(x) = Len(w) + Len(v)
      /\ \A k \in 1 .. Len(w) + Len(v) : x[k] = IF k <= Len(w) THEN w[k] ELSE v[k - Len(w)]
  BY ONLY ConcatProperties, w \in Seq(S), v \in Seq(S), Zenon
<1> HIDE DEF x
<1>2. \A k \in 1 .. Len(w) : x[k] = w[k]
  BY ONLY <1>0, <1>1
<1>3. ASSUME NEW k \in 1 .. Len(v)
      PROVE  x[Len(w) + k] = v[k]
  <2>1. Len(w) + k \in 1 .. Len(w) + Len(v) /\ ~(Len(w) + k <= Len(w)) /\ (Len(w) + k) - Len(w) = k
    BY ONLY <1>0, k \in 1 .. Len(v)
  <2> DEFINE m == Len(w) + k
  <2> HIDE DEF m
  <2>2. m \in 1 .. Len(w) + Len(v) /\ ~(m <= Len(w)) /\ m - Len(w) = k
    BY ONLY <2>1, Zenon DEF m
  <2>3. x[m] = v[k]
    BY ONLY <1>1, <2>2, Zenon
  <2> QED BY ONLY <2>3, Zenon DEF m
<1>4. ASSUME NEW p \in 0 .. Len(w)
      PROVE  SubSeq(x, 1, p) = SubSeq(w, 1, p)
  <2> DEFINE s == SubSeq(x, 1, p)
             t == SubSeq(w, 1, p)
  <2>0. p \in 0 .. Len(x)
    BY ONLY <1>0, <1>1, p \in 0 .. Len(w)
  <2>1. s \in Seq(S) /\ Len(s) = p /\ \A k \in 1 .. p : s[k] = x[k]
    BY ONLY <1>1, <2>0, FirstOf, ZenonT(40)
  <2>2. t \in Seq(S) /\ Len(t) = p /\ \A k \in 1 .. p : t[k] = w[k]
    BY ONLY FirstOf, w \in Seq(S), p \in 0 .. Len(w), ZenonT(40)
  <2> HIDE DEF s, t
  <2>3. \A k \in 1 .. p : k \in 1 .. Len(w)
    BY ONLY <1>0, p \in 0 .. Len(w)
  <2>4. Len(s) = Len(t) /\ \A k \in 1 .. Len(s) : s[k] = t[k]
    BY ONLY <1>2, <2>1, <2>2, <2>3, Zenon
  <2>5. s = t
    BY ONLY <2>1, <2>2, <2>4, SeqEqual, Zenon
  <2> QED BY <2>5 DEF s, t
<1> QED BY <1>1, <1>2, <1>3, <1>4, Zenon DEF x

\* The first numbers of a sequence, and one more.
LEMMA Lengthened ==
  ASSUME NEW c, NEW n, c \in Seq(Nat), n \in 0 .. Len(c) - 1
  PROVE  SubSeq(c, 1, n) \o <<c[n + 1]>> = SubSeq(c, 1, n + 1)
<1> DEFINE s == SubSeq(c, 1, n)
           e == <<c[n + 1]>>
           t == SubSeq(c, 1, n + 1)
<1>0. Len(c) \in Nat /\ n \in Nat /\ n \in 0 .. Len(c) /\ n + 1 \in 0 .. Len(c) /\ n + 1 \in 1 .. Len(c)
  BY ONLY c \in Seq(Nat), n \in 0 .. Len(c) - 1
<1>1. s \in Seq(Nat) /\ Len(s) = n /\ \A k \in 1 .. n : s[k] = c[k]
  BY ONLY <1>0, FirstOf, c \in Seq(Nat), ZenonT(40)
<1>2. t \in Seq(Nat) /\ Len(t) = n + 1 /\ \A k \in 1 .. n + 1 : t[k] = c[k]
  <2> DEFINE m == n + 1
  <2> HIDE DEF m
  <2>1. m \in 0 .. Len(c)
    BY ONLY <1>0, Zenon DEF m
  <2>2. SubSeq(c, 1, m) \in Seq(Nat) /\ Len(SubSeq(c, 1, m)) = m /\ \A k \in 1 .. m : SubSeq(c, 1, m)[k] = c[k]
    BY ONLY <2>1, FirstOf, c \in Seq(Nat), ZenonT(40)
  <2> QED BY ONLY <2>2, Zenon DEF m
<1>3. e \in Seq(Nat) /\ Len(e) = 1 /\ e[1] = c[n + 1]
  <2>1. c[n + 1] \in Nat
    <3> DEFINE m == n + 1
    <3>1. m \in 1 .. Len(c)
      BY <1>0
    <3> HIDE DEF m
    <3>2. c[m] \in Nat
      BY ONLY <3>1, c \in Seq(Nat)
    <3> QED BY <3>2 DEF m
  <2> QED BY ONLY <2>1
<1> HIDE DEF s, e, t
<1>4. /\ s \o e \in Seq(Nat) /\ Len(s \o e) = n + 1
      /\ \A k \in 1 .. n : (s \o e)[k] = s[k]
      /\ (s \o e)[n + 1] = e[1]
  <2>1. /\ (s \o e) \in Seq(Nat) /\ Len((s \o e)) = Len(s) + Len(e)
        /\ \A k \in 1 .. Len(s) : (s \o e)[k] = s[k]
        /\ \A k \in 1 .. Len(e) : (s \o e)[Len(s) + k] = e[k]
        /\ \A p \in 0 .. Len(s) : SubSeq((s \o e), 1, p) = SubSeq(s, 1, p)
    <3>1. s \in Seq(Nat) /\ e \in Seq(Nat)
      BY ONLY <1>1, <1>3, Zenon
    <3> QED BY ONLY <3>1, Glued, SMT
  <2>2. 1 \in 1 .. Len(e)
    BY ONLY <1>3
  <2> QED BY ONLY <1>1, <1>3, <2>1, <2>2, Zenon
<1>5. \A k \in 1 .. n + 1 : k \in 1 .. n \/ k = n + 1
  BY ONLY <1>0
<1>6. n + 1 \in 1 .. n + 1 /\ \A k \in 1 .. n : k \in 1 .. n + 1
  BY ONLY <1>0
<1>7. \A k \in 1 .. n + 1 : (s \o e)[k] = t[k]
  BY ONLY <1>1, <1>2, <1>3, <1>4, <1>5, <1>6, Zenon
<1>8. s \o e = t
  BY ONLY <1>2, <1>4, <1>7, SeqEqual, Zenon
<1> QED BY <1>8 DEF s, e, t

\* The decoder takes a character where there is one and reports an error where there is none.
LEMMA NextIs ==
  ASSUME NEW inp, NEW state, inp \in Seq(Byte), state.idx \in 0 .. Len(inp),
         state.len = Len(inp)
  PROVE  LET next == utf8_decodeNext(inp, state)
         IN  /\ next.chr = UTF8_END => state.idx = Len(inp)
             /\ next.chr = UTF8_ERR => state.idx < Len(inp) /\ ~Character(inp, state.idx)
             /\ next.chr >= 0 =>
                  /\ Character(inp, state.idx)
                  /\ next.chr = Decoded(inp, state.idx)
                  /\ next.state.idx = state.idx + Width(inp, state.idx)
             /\ next.chr >= 0 \/ next.chr = UTF8_ERR =>
                  next.state.chr = state.chr + 1 /\ next.state.byte = state.idx
<1> DEFINE at == state.idx
           next == utf8_decodeNext(inp, state)
           r == Decoded(inp, at)
<1>0. Len(inp) \in Nat /\ at \in Nat /\ at <= Len(inp) /\ state.len = Len(inp)
  OBVIOUS
<1>e. SubSeq(inp, 1, state.len) = inp
  OBVIOUS
<1> HIDE DEF at
<1>1. CASE at = Len(inp)
  <2>1. next.chr = UTF8_END
    BY <1>0, <1>1 DEF utf8_decodeNext, at
  <2> HIDE DEF next
  <2>2. ~(next.chr >= 0) /\ next.chr # UTF8_ERR
    BY ONLY <2>1 DEF UTF8_END, UTF8_ERR
  <2> QED BY ONLY <1>1, <2>1, <2>2, Zenon DEF at, next
<1>2. CASE at # Len(inp)
  <2>0. at < Len(inp)
    BY ONLY <1>0, <1>2
  <2>1. next = [chr |-> r, state |-> [idx |-> Tried(inp, at, Announced(inp[at + 1])), len |-> state.len,
                                      chr |-> state.chr + 1, byte |-> at]]
    <3>1. ~(at >= state.len)
      BY ONLY <1>0, <2>0
    <3> QED BY ONLY <1>e, <3>1, Zenon DEF utf8_decodeNext, at, next, r
  <2>2. /\ next.chr = r
        /\ next.state.idx = Tried(inp, at, Announced(inp[at + 1]))
        /\ next.state.chr = state.chr + 1 /\ next.state.byte = at
    BY ONLY <2>1
  <2>3. r >= 0 <=> Character(inp, at)
    BY <1>0, <2>0, DecodedIff
  <2>4. r = UTF8_ERR \/ r \in Nat
    <3>1. _utf8_cont_8(inp, at) \in Int
      BY <1>0, <2>0, ByteAt DEF _utf8_cont_8
    <3> QED BY <3>1, DecodedScalar
  <2> HIDE DEF next, r
  <2>5. r # UTF8_END /\ (r = UTF8_ERR => ~(r >= 0))
    BY ONLY <2>4 DEF UTF8_END, UTF8_ERR
  <2>6. ASSUME Character(inp, at)
        PROVE  next.state.idx = at + Width(inp, at)
    <3>1. at + Width(inp, at) <= Len(inp) /\ Width(inp, at) \in 1 .. 4
      BY <1>0, <2>6, CharacterThere
    <3> DEFINE n == Announced(inp[at + 1])
    <3>2. Width(inp, at) = n + 1
      BY DEF Width
    <3>3. n \in Int
      <4>1. \A c : Announced(c) \in Int
        BY DEF Announced
      <4> QED BY ONLY <4>1
    <3> HIDE DEF n
    <3>4. at + 1 + n <= Len(inp) /\ at + 1 + n = at + Width(inp, at)
      BY ONLY <1>0, <3>1, <3>2, <3>3
    <3>5. Tried(inp, at, n) = at + 1 + n
      BY ONLY <3>4 DEF Tried
    <3> QED BY ONLY <2>2, <3>4, <3>5, Zenon DEF n
  <2> QED BY ONLY <2>0, <2>2, <2>3, <2>5, <2>6, Zenon DEF at, next, r
<1> QED BY <1>1, <1>2

\* Encoding the next character of a text gives its next bytes.
LEMMA CopiesOne ==
  ASSUME NEW w, NEW p, NEW n, w \in Seq(Byte), WellFormed(w),
         p \in 0 .. Len(w), WellFormed(SubSeq(w, 1, p)),
         n \in 0 .. Len(Characters(w)) - 1, Characters(SubSeq(w, 1, p)) = SubSeq(Characters(w), 1, n),
         IsScalar(Characters(w)[n + 1])
  PROVE  \E q \in 0 .. Len(w) :
           /\ SubSeq(w, 1, p) \o utf8_encode_codepoint(Characters(w)[n + 1]) = SubSeq(w, 1, q)
           /\ WellFormed(SubSeq(w, 1, q))
           /\ Characters(SubSeq(w, 1, q)) = SubSeq(Characters(w), 1, n + 1)
           /\ \A k \in 1 .. q : k \in 1 .. p \/ (w[k] = 0 => Characters(w)[n + 1] = 0)
<1> DEFINE c == Characters(w)
           u == SubSeq(w, 1, p)
           r == c[n + 1]
           e == utf8_encode_codepoint(r)
<1>0. p \in Nat /\ Len(w) \in Nat /\ p <= Len(w)
  OBVIOUS
<1>c. c \in Seq(Nat)
  BY CharactersType
<1>n. Len(c) \in Nat /\ n \in 0 .. Len(c) /\ n < Len(c) /\ n \in 0 .. Len(c) - 1
  <2>1. n \in 0 .. Len(c) - 1
    OBVIOUS
  <2> HIDE DEF c
  <2> QED BY ONLY <1>c, <2>1
<1>1. Character(w, p) /\ Decoded(w, p) = r
  BY <1>n, NextCharacter
<1>2. /\ p + Width(w, p) \in p + 1 .. Len(w)
      /\ WellFormed(SubSeq(w, 1, p + Width(w, p)))
      /\ Characters(SubSeq(w, 1, p + Width(w, p))) = Characters(u) \o <<Decoded(w, p)>>
  BY <1>1, OneMore, Zenon
<1>3. r \in Nat /\ IsScalar(r)
  <2>1. Decoded(w, p) \in Nat
    BY <1>0, <1>1, CharacterThere
  <2> QED BY ONLY <1>1, <2>1, IsScalar(Characters(w)[n + 1])
<1>4. /\ Len(e) > 0 /\ p + Len(e) <= Len(w) /\ \A k \in 1 .. Len(e) : w[p + k] = e[k]
  <2>1. p < Len(w) /\ Decoded(w, p) >= 0
    BY <1>0, <1>1, <1>3, Behind
  <2>2. LET bytes == utf8_encode_codepoint(Decoded(w, p))
        IN  Len(bytes) > 0 /\ p + Len(bytes) <= Len(w) /\ \A k \in 1 .. Len(bytes) : w[p + k] = bytes[k]
    BY <1>0, <2>1, DecodedEncodes
  <2> QED BY ONLY <1>1, <2>2, Zenon
<1> HIDE DEF r
<1>5. e \in Seq(Byte) /\ Len(e) = Width(w, p)
  <2>1. r \in Int
    BY ONLY <1>3
  <2>2. e \in Seq(Byte)
    BY ONLY <2>1, EncodedBytes
  <2>3. Width(w, p) = Len(e)
    BY ONLY <1>0, <1>3, <1>4, <2>1, EncodedMatches, w \in Seq(Byte), Zenon
  <2> QED BY ONLY <2>2, <2>3, Zenon
<1> DEFINE q == p + Width(w, p)
           x == u \o e
           t == SubSeq(w, 1, q)
<1>6. q \in 0 .. Len(w) /\ q = p + Len(e) /\ Len(e) \in Nat /\ q \in Nat
  <2>1. Len(e) \in Nat
    <3> HIDE DEF e
    <3> QED BY ONLY <1>5
  <2> HIDE DEF e
  <2> QED BY ONLY <1>0, <1>2, <1>5, <2>1
<1>7. u \in Seq(Byte) /\ Len(u) = p /\ \A k \in 1 .. p : u[k] = w[k]
  BY ONLY FirstOf, w \in Seq(Byte), p \in 0 .. Len(w), ZenonT(40)
<1>8. t \in Seq(Byte) /\ Len(t) = q /\ \A k \in 1 .. q : t[k] = w[k]
  <2> HIDE DEF q
  <2> QED BY ONLY <1>6, FirstOf, w \in Seq(Byte), ZenonT(40)
<1>9. /\ x \in Seq(Byte) /\ Len(x) = Len(u) + Len(e)
      /\ \A k \in 1 .. Len(u) : x[k] = u[k]
      /\ \A k \in 1 .. Len(e) : x[Len(u) + k] = e[k]
      /\ \A b \in 0 .. Len(u) : SubSeq(x, 1, b) = SubSeq(u, 1, b)
  <2> HIDE DEF e, u
  <2>1. u \in Seq(Byte) /\ e \in Seq(Byte)
    BY ONLY <1>5, <1>7, Zenon
  <2> QED BY ONLY <2>1, Glued, ZenonT(40)
<1>w. Width(w, p) \in 1 .. 4
  BY <1>0, <1>1, CharacterThere
<1>z. \A k \in 1 .. Width(w, p) : w[p + k] = 0 => Decoded(w, p) = 0
  BY <1>0, <1>1, CharacterThere, Zenon
<1>v. q = p + Width(w, p)
  OBVIOUS
<1> HIDE DEF e, u, x, t, q
<1>10. ASSUME NEW k \in 1 .. q
       PROVE  k \in 1 .. p \/ (k - p \in 1 .. Len(e) /\ p + (k - p) = k)
  BY ONLY <1>0, <1>6, k \in 1 .. q
<1>11. ASSUME NEW k \in 1 .. q
       PROVE  x[k] = t[k]
  <2>1. CASE k \in 1 .. p
    BY ONLY <1>7, <1>8, <1>9, <2>1, k \in 1 .. q, Zenon
  <2>2. CASE k \notin 1 .. p
    <3> DEFINE m == k - p
    <3>1. m \in 1 .. Len(e) /\ p + m = k
      BY <1>10, <2>2
    <3> HIDE DEF m
    <3>2. x[k] = e[m]
      BY ONLY <1>7, <1>9, <3>1, Zenon
    <3>3. w[k] = e[m]
      BY ONLY <1>4, <3>1, Zenon
    <3> QED BY ONLY <1>8, <3>2, <3>3, k \in 1 .. q, Zenon
  <2> QED BY <2>1, <2>2
<1>12. x = t
  <2>1. Len(x) = Len(t)
    BY ONLY <1>6, <1>7, <1>8, <1>9, Zenon
  <2>2. Len(x) = q
    BY ONLY <1>8, <2>1, Zenon
  <2> QED BY ONLY <1>8, <1>9, <1>11, <2>1, <2>2, SeqEqual, Zenon
<1>13. Characters(t) = SubSeq(c, 1, n + 1)
  <2> HIDE DEF c
  <2>1. SubSeq(c, 1, n) \o <<c[n + 1]>> = SubSeq(c, 1, n + 1)
    BY ONLY <1>c, <1>n, Lengthened, Zenon
  <2>2. Characters(u) = SubSeq(c, 1, n)
    BY Zenon DEF c, u
  <2> QED BY ONLY <1>1, <1>2, <2>1, <2>2, Zenon DEF t, q, r
<1>14. ASSUME NEW k \in 1 .. q
       PROVE  k \in 1 .. p \/ (w[k] = 0 => r = 0)
  <2>1. CASE k \in 1 .. p
    BY <2>1
  <2>2. CASE k \notin 1 .. p
    <3> DEFINE m == k - p
    <3>1. m \in 1 .. Len(e) /\ p + m = k
      BY <1>10, <2>2
    <3> HIDE DEF m
    <3> QED BY ONLY <1>1, <1>5, <1>z, <3>1, Zenon
  <2> QED BY <2>1, <2>2
<1>15. WellFormed(t)
  BY ONLY <1>2, Zenon DEF t, q
<1> QED BY ONLY <1>6, <1>12, <1>13, <1>14, <1>15, Zenon DEF c, u, r, e, x, t

\* Behind a well-formed text the bytes of a scalar value keep it so.
LEMMA EncodedGoesOn ==
  ASSUME NEW w, NEW r, w \in Seq(Byte), WellFormed(w), r \in Int, IsScalar(r)
  PROVE  WellFormed(w \o utf8_encode_codepoint(r))
<1> DEFINE e == utf8_encode_codepoint(r)
           x == w \o e
           p == Len(w)
<1>1. e \in Seq(Byte)
  BY EncodedBytes
<1> HIDE DEF e
<1>2. /\ x \in Seq(Byte) /\ Len(x) = Len(w) + Len(e)
      /\ \A k \in 1 .. Len(w) : x[k] = w[k]
      /\ \A k \in 1 .. Len(e) : x[Len(w) + k] = e[k]
      /\ \A b \in 0 .. Len(w) : SubSeq(x, 1, b) = SubSeq(w, 1, b)
  BY ONLY <1>1, Glued, w \in Seq(Byte), ZenonT(40)
<1>3. p \in Nat /\ Len(e) \in Nat
  BY <1>1
<1>4. SubSeq(w, 1, p) = w /\ p \in 0 .. Len(w)
  <2>1. p \in 0 .. Len(w)
    BY <1>3
  <2> QED BY ONLY <2>1, FirstOf, w \in Seq(Byte), Zenon
<1> HIDE DEF x
<1>5. Character(x, p) /\ Width(x, p) = Len(e)
  <2>1. p + Len(e) <= Len(x)
    BY ONLY <1>2, <1>3
  <2> QED BY ONLY <1>2, <1>3, <2>1, EncodedMatches, r \in Int, IsScalar(r), Zenon DEF e
<1>6. WellFormed(SubSeq(x, 1, p)) /\ p \in 0 .. Len(x)
  <2>1. WellFormed(SubSeq(x, 1, p))
    BY ONLY <1>2, <1>4, WellFormed(w), Zenon
  <2>2. p \in 0 .. Len(x)
    BY ONLY <1>2, <1>3
  <2> QED BY ONLY <2>1, <2>2, Zenon
<1>7. WellFormed(SubSeq(x, 1, p + Width(x, p)))
  BY ONLY <1>2, <1>5, <1>6, OneMore, Zenon
<1>8. p + Width(x, p) = Len(x) /\ Len(x) \in 0 .. Len(x)
  BY ONLY <1>2, <1>3, <1>5
<1>9. SubSeq(x, 1, Len(x)) = x
  BY ONLY <1>2, <1>8, FirstOf, Zenon
<1> QED BY ONLY <1>7, <1>8, <1>9, Zenon DEF x, e

\* A text that breaks off where the encoder has written a surrogate.
Broken(text) ==
  \E p \in 0 .. Len(text) - 2 :
    /\ WellFormed(SubSeq(text, 1, p))
    /\ text[p + 1] = 237 /\ text[p + 2] \in 160 .. 191

\* No well-formed sequence has these bytes.
LEMMA BrokenIsNot ==
  ASSUME NEW w, w \in Seq(Byte), Broken(w)
  PROVE  ~WellFormed(w)
<1>1. PICK p \in 0 .. Len(w) - 2 :
        WellFormed(SubSeq(w, 1, p)) /\ w[p + 1] = 237 /\ w[p + 2] \in 160 .. 191
  BY DEF Broken
<1>2. p \in Nat /\ p \in 0 .. Len(w) /\ p # Len(w)
  BY ONLY p \in 0 .. Len(w) - 2, w \in Seq(Byte)
<1> DEFINE a == w[p + 1]
           b == w[p + 2]
<1>3. ~Character(w, p)
  <2> SUFFICES ASSUME Character(w, p) PROVE FALSE
    OBVIOUS
  <2>1. One(w, p) \/ Two(w, p) \/ Three(w, p) \/ Four(w, p)
    BY RangesByLength, Zenon DEF Character
  <2>2. a = 237 /\ b \in 160 .. 191
    BY <1>1
  <2>3. One(w, p) => a \in 0 .. 127
    BY DEF One
  <2>4. Two(w, p) => a \in 194 .. 223
    BY DEF Two
  <2>5. Three(w, p) => \/ a = 224
                       \/ a \in 225 .. 236
                       \/ a = 237 /\ b \in 128 .. 159
                       \/ a \in 238 .. 239
    BY <1>2 DEF Three
  <2>6. Four(w, p) => a = 240 \/ a \in 241 .. 243 \/ a = 244
    BY <1>2 DEF Four
  <2> HIDE DEF a, b
  <2> QED BY ONLY <2>1, <2>2, <2>3, <2>4, <2>5, <2>6
<1>4. WellFormed(w) => p = Len(w) \/ Character(w, p)
  BY <1>1, <1>2, GoesOn, Zenon
<1> QED BY <1>2, <1>3, <1>4

\* No bytes behind it mend a broken text.
LEMMA BrokenStays ==
  ASSUME NEW w, NEW v, w \in Seq(Byte), v \in Seq(Byte), Broken(w)
  PROVE  Broken(w \o v)
<1> DEFINE x == w \o v
<1>1. PICK p \in 0 .. Len(w) - 2 :
        WellFormed(SubSeq(w, 1, p)) /\ w[p + 1] = 237 /\ w[p + 2] \in 160 .. 191
  BY DEF Broken
<1>2. /\ x \in Seq(Byte) /\ Len(x) = Len(w) + Len(v)
      /\ \A k \in 1 .. Len(w) : x[k] = w[k]
      /\ \A k \in 1 .. Len(v) : x[Len(w) + k] = v[k]
      /\ \A b \in 0 .. Len(w) : SubSeq(x, 1, b) = SubSeq(w, 1, b)
  BY ONLY Glued, w \in Seq(Byte), v \in Seq(Byte), ZenonT(40)
<1> HIDE DEF x
<1>3. Len(w) \in Nat /\ Len(v) \in Nat
  OBVIOUS
<1>4. p \in 0 .. Len(w) /\ p \in 0 .. Len(x) - 2 /\ p + 1 \in 1 .. Len(w) /\ p + 2 \in 1 .. Len(w)
  BY ONLY <1>2, <1>3, p \in 0 .. Len(w) - 2
<1>5. WellFormed(SubSeq(x, 1, p)) /\ x[p + 1] = 237 /\ x[p + 2] \in 160 .. 191
  <2>1. SubSeq(x, 1, p) = SubSeq(w, 1, p)
    BY ONLY <1>2, <1>4, Zenon
  <2>2. x[p + 1] = w[p + 1] /\ x[p + 2] = w[p + 2]
    BY ONLY <1>2, <1>4, Zenon
  <2> QED BY ONLY <1>1, <2>1, <2>2, Zenon
<1>6. p \in 0 .. Len(x) - 2
  BY <1>4
<1>7. \E b \in 0 .. Len(x) - 2 :
        WellFormed(SubSeq(x, 1, b)) /\ x[b + 1] = 237 /\ x[b + 2] \in 160 .. 191
  <2> WITNESS p \in 0 .. Len(x) - 2
  <2> QED BY ONLY <1>5, Zenon
<1>8. Broken(x)
  BY ONLY <1>7 DEF Broken
<1> QED BY ONLY <1>8, Zenon DEF x

\* What the encoder accepts and the decoder does not.
IsSurrogate(r) == 55296 <= r /\ r <= 57343

\* Behind a well-formed text the bytes of a surrogate break it.
LEMMA SurrogateBreaks ==
  ASSUME NEW w, NEW r, w \in Seq(Byte), WellFormed(w), r \in Int, IsSurrogate(r)
  PROVE  Broken(w \o utf8_encode_codepoint(r))
<1> DEFINE e == utf8_encode_codepoint(r)
           x == w \o e
           p == Len(w)
<1>0. r \in Int /\ 2048 <= r /\ r <= 65535
  BY DEF IsSurrogate
<1>1. e = <<224 + (r \div 4096), Continuation(r \div 64), Continuation(r)>>
  BY <1>0, ThreeBytes
<1>2. e \in Seq(Byte)
  BY <1>0, EncodedBytes
<1>3. Len(e) = 3 /\ e[1] = 224 + (r \div 4096) /\ e[2] = 128 + ((r \div 64) % 64)
  BY ONLY <1>1 DEF Continuation
<1>4. r \div 4096 = 13 /\ (r \div 64) % 64 \in 32 .. 63
  <2> DEFINE top == r \div 4096
             second == (r \div 64) % 64
             first == r % 64
  <2>1. top \in Nat /\ second \in 0 .. 63 /\ first \in 0 .. 63 /\ r = top * 4096 + second * 64 + first
    <3>1. r \in Nat
      BY ONLY <1>0
    <3> QED BY <3>1, Digits
  <2> HIDE DEF top, second, first
  <2>2. 55296 <= r /\ r <= 57343
    BY DEF IsSurrogate
  <2>3. top = 13
    BY ONLY <2>1, <2>2
  <2>4. second \in 32 .. 63
    BY ONLY <2>1, <2>2, <2>3
  <2> QED BY <2>3, <2>4 DEF top, second
<1>5. e[1] = 237 /\ e[2] \in 160 .. 191
  <2> DEFINE second == (r \div 64) % 64
             top == r \div 4096
  <2>1. top = 13 /\ second \in 32 .. 63 /\ e[1] = 224 + top /\ e[2] = 128 + second
    BY <1>3, <1>4
  <2> HIDE DEF second, top, e
  <2> QED BY ONLY <2>1
<1> HIDE DEF e
<1>6. /\ x \in Seq(Byte) /\ Len(x) = Len(w) + Len(e)
      /\ \A k \in 1 .. Len(w) : x[k] = w[k]
      /\ \A k \in 1 .. Len(e) : x[Len(w) + k] = e[k]
      /\ \A b \in 0 .. Len(w) : SubSeq(x, 1, b) = SubSeq(w, 1, b)
  BY ONLY <1>2, Glued, w \in Seq(Byte), Zenon
<1>7. p \in Nat /\ p \in 0 .. Len(w)
  OBVIOUS
<1>8. SubSeq(w, 1, p) = w
  BY ONLY <1>7, FirstOf, w \in Seq(Byte), Zenon
<1> HIDE DEF x
<1>9. p \in 0 .. Len(x) - 2 /\ 1 \in 1 .. Len(e) /\ 2 \in 1 .. Len(e)
  BY ONLY <1>3, <1>6, <1>7
<1>10. x[p + 1] = 237 /\ x[p + 2] \in 160 .. 191
  <2>1. x[p + 1] = e[1] /\ x[p + 2] = e[2]
    BY ONLY <1>6, <1>9, Zenon
  <2> QED BY ONLY <1>5, <2>1, Zenon
<1>11. WellFormed(SubSeq(x, 1, p))
  BY ONLY <1>6, <1>7, <1>8, WellFormed(w), Zenon
<1>12. \E b \in 0 .. Len(x) - 2 :
         WellFormed(SubSeq(x, 1, b)) /\ x[b + 1] = 237 /\ x[b + 2] \in 160 .. 191
  <2>1. p \in 0 .. Len(x) - 2
    BY <1>9
  <2> HIDE DEF p
  <2> WITNESS p \in 0 .. Len(x) - 2
  <2> QED BY ONLY <1>10, <1>11, Zenon
<1>13. Broken(x)
  BY ONLY <1>12 DEF Broken
<1> QED BY ONLY <1>13, Zenon DEF x, e
-------------------------------------------------------------------------
(* The inductive invariant.                                                *)

Seeking == {"fseek_end", "ftell", "fseek_set"}
Decoding == {"utf8_malloc", "decode", "realloc"}
Encoding == {"out_malloc", "encode", "out_realloc"}
FileReaders == {"apaz_str_readFile", "String_new_fromFile"}

\* Which call runs where, and what the program owns meanwhile.
Calls ==
  /\ op = "none" => pc = "idle"
  /\ pc \in {"fopen", "malloc", "fread"} \cup Seeking => op \in Readers
  /\ pc \in Decoding => op = "utf8_readFile"
  /\ pc \in Encoding => op = "utf8_encode"
  /\ pc # "idle" => lost = {} /\ result = NULL(0)
  /\ pc # "idle" /\ op \in Readers => owned = {}
  /\ pc # "idle" /\ op = "utf8_encode" => owned \subseteq {"utf8_buffer"}
  /\ pc = "idle" => status = "runs"

\* What the call holds at each of its steps.
Holdings ==
  /\ pc \in {"idle", "fopen", "out_malloc"} => live = {}
  /\ pc \in Seeking \cup {"malloc"} => live = {"file"}
  /\ pc = "fread" => live = {"file", "buffer"}
  /\ pc = "utf8_malloc" => live = {"buffer"}
  /\ pc = "decode" => live = {"buffer", "utf8_buffer"} \/ live = {"buffer"}
  /\ pc = "realloc" => live = {"buffer", "utf8_buffer"}
  /\ pc \in {"encode", "out_realloc"} => live = {"out_buf"}

\* What has failed so far: nothing, or the malloc whose result nobody looks at.  Then
\* the decoder has not moved, and there are bytes for it.
Failures ==
  /\ status = "runs" /\ pc \notin {"idle", "decode"} => failed = {}
  /\ pc = "decode" /\ live = {"buffer", "utf8_buffer"} => failed = {}
  /\ pc = "decode" /\ live = {"buffer"} =>
       /\ failed = {"utf8_malloc"} /\ ~memdebug
       /\ status = "runs" => decoder.idx = 0
  /\ status = "fault" => pc = "decode" /\ live = {"buffer"}

\* What the library has computed of what it was given.
Progress ==
  /\ op = "none" => failed = {} /\ owned = {} /\ lost = {} /\ result = NULL(0)
  /\ op # "utf8_encode" \/ pc = "out_malloc" => out = <<>> /\ i = 0
  /\ op # "utf8_encode" => codepoints = <<>>
  /\ op = "none" \/ pc = "utf8_malloc" => decoder.idx = 0
  /\ pc = "decode" => decoder.len = AsInt(fileLen)
  /\ decoder.chr <= decoder.idx
  /\ Len(chars) <= decoder.idx
  /\ Len(out) <= 4 * i

\* What was read, and of which file.
Contents ==
  /\ op = "none" \/ pc \in Seeking \cup {"fopen", "malloc", "fread"} => buffer = <<>>
  /\ op = "none" \/ pc = "fopen" => ~changed
  /\ pc \in {"fseek_set", "malloc", "fread"} /\ ~changed => fileLen = Len(file)
  /\ op \in Readers /\ buffer # <<>> =>
       /\ fileLen > 0 /\ Len(buffer) = fileLen
       /\ buffer = SubSeq(file, 1, fileLen)
       /\ ~changed => buffer = file
  /\ pc \in Decoding => buffer # <<>>
  /\ op \in FileReaders /\ pc = "idle" /\ failed = {} => buffer # <<>> /\ result.content = buffer
  /\ op = "utf8_readFile" /\ pc = "idle" /\ ~result.null => buffer # <<>>

IInv == TypeOK /\ Calls /\ Holdings /\ Failures /\ Progress /\ Contents /\ NothingLost
-------------------------------------------------------------------------
(* The steps.                                                              *)

\* Before the bytes are read there are none; the decoder is told their number, as an int.
LEMMA Told ==
  ASSUME IInv, pc = "decode"
  PROVE  /\ decoder.len \in Int /\ decoder.len <= Len(buffer)
         /\ IntSized => decoder.len = Len(buffer)
<1>1. fileLen \in Nat /\ op \in Readers /\ buffer # <<>>
  BY DEF IInv, TypeOK, Calls, Contents, Decoding, Readers
<1>2. Len(buffer) = fileLen /\ decoder.len = AsInt(fileLen)
  BY <1>1 DEF IInv, Contents, Progress
<1>3. AsInt(fileLen) \in Int /\ AsInt(fileLen) <= fileLen
  BY <1>1, AsIntBelow
<1>4. fileLen <= IntMax => AsInt(fileLen) = fileLen
  BY DEF AsInt
<1> QED BY <1>2, <1>3, <1>4 DEF IntSized

\* What the decoder does with the bytes that were read.
LEMMA DecoderMoves ==
  ASSUME IInv, pc = "decode"
  PROVE  LET next == utf8_decodeNext(buffer, decoder)
         IN  /\ next.chr = UTF8_END => decoder.idx = decoder.len
             /\ \/ next.chr \in {UTF8_END, UTF8_ERR} /\ next.state = decoder
                \/ /\ next.chr = UTF8_ERR \/ (next.chr \in Nat /\ IsScalar(next.chr))
                   /\ next.state.idx \in decoder.idx + 1 .. Len(buffer)
                   /\ next.state = [idx |-> next.state.idx, len |-> decoder.len,
                                    chr |-> decoder.chr + 1, byte |-> decoder.idx]
<1>1. buffer \in Seq(Byte) /\ Len(buffer) \in Nat
  BY DEF IInv, TypeOK
<1>2. decoder \in [idx : 0 .. Len(buffer), len : Int, chr : Nat, byte : Nat]
  BY <1>1 DEF IInv, TypeOK
<1> QED BY <1>1, <1>2, Told, DecodeStep

\* A number that is decoded is none of the two signals.
LEMMA DecodedNumber ==
  ASSUME IInv, pc = "decode", utf8_decodeNext(buffer, decoder).chr >= 0
  PROVE  LET next == utf8_decodeNext(buffer, decoder)
         IN  /\ next.chr \in Nat /\ IsScalar(next.chr)
             /\ next.state.idx \in decoder.idx + 1 .. Len(buffer)
             /\ next.state.chr = decoder.chr + 1
             /\ next.state = [idx |-> next.state.idx, len |-> decoder.len,
                              chr |-> decoder.chr + 1, byte |-> decoder.idx]
<1> DEFINE next == utf8_decodeNext(buffer, decoder)
<1>1. \/ next.chr \in {UTF8_END, UTF8_ERR} /\ next.state = decoder
      \/ /\ next.chr = UTF8_ERR \/ (next.chr \in Nat /\ IsScalar(next.chr))
         /\ next.state.idx \in decoder.idx + 1 .. Len(buffer)
         /\ next.state = [idx |-> next.state.idx, len |-> decoder.len,
                          chr |-> decoder.chr + 1, byte |-> decoder.idx]
  BY DecoderMoves
<1> HIDE DEF next
<1>2. next.chr >= 0
  BY DEF next
<1>3. next.chr # UTF8_END /\ next.chr # UTF8_ERR
  BY ONLY <1>2 DEF UTF8_END, UTF8_ERR
<1>4. /\ next.chr \in Nat /\ IsScalar(next.chr)
      /\ next.state.idx \in decoder.idx + 1 .. Len(buffer)
      /\ next.state = [idx |-> next.state.idx, len |-> decoder.len,
                       chr |-> decoder.chr + 1, byte |-> decoder.idx]
  BY ONLY <1>1, <1>3, Zenon
<1>5. next.state.chr = decoder.chr + 1
  BY ONLY <1>4
<1> QED BY ONLY <1>4, <1>5, Zenon DEF next

\* Control: which call runs, what it holds and what has failed.
LEMMA ControlStep ==
  ASSUME IInv, Library
  PROVE  Calls' /\ Holdings' /\ Failures' /\ NothingLost'
<1> USE DEF IInv, TypeOK, Calls, Holdings, Failures, NothingLost, At, NULL, Content, Seeking, Decoding, Encoding
<1>1. CASE Open
  BY <1>1 DEF Open, At, Continue, Working, disk, work, ends
<1>2. CASE OpenFails
  BY <1>2 DEF OpenFails, At, Return, Failing, disk, work, ends
<1>3. CASE SeekEnd
  BY <1>3 DEF SeekEnd, At, Continue, Working, disk, work, ends
<1>4. CASE Tell
  BY <1>4 DEF Tell, At, Continue, Working, disk, work, ends
<1>5. CASE Rewind
  BY <1>5 DEF Rewind, At, Continue, Working, disk, work, ends
<1>6. CASE SeekFails
  BY <1>6 DEF SeekFails, At, Return, Failing, disk, work, ends
<1>7. CASE Alloc
  BY <1>7 DEF Alloc, At, Continue, Working, disk, work, ends
<1>8. CASE AllocFails
  BY <1>8 DEF AllocFails, At, Return, Stop, Failing, disk, work, ends
<1>9. CASE Read
  <2>1. op \in Readers /\ live = {"file", "buffer"} /\ status = "runs" /\ pc = "fread" /\ failed' = {}
    BY <1>9 DEF Read, Working
  <2>2. CASE op = "utf8_readFile"
    BY <1>9, <2>1, <2>2 DEF Read, Continue, ends, Readers
  <2>3. CASE op # "utf8_readFile"
    <3>1. Return(Content(buffer'), {"file"}, {"buffer"})
      BY <1>9, <2>3 DEF Read
    <3>2. op \notin {"none", "utf8_encode"} /\ owned = {}
      BY <2>1 DEF Readers
    <3> QED BY <2>1, <2>3, <3>1, <3>2 DEF Return
  <2> QED BY <2>2, <2>3
<1>10. CASE ReadFails
  <2>1. op \in Readers /\ live = {"file", "buffer"} /\ pc = "fread" /\ failed' = {"fread"} /\ owned = {}
    BY <1>10 DEF ReadFails, Failing
  <2>2. op \notin {"none", "utf8_encode"}
    BY <2>1 DEF Readers
  <2>3. CASE op = "utf8_readFile"
    BY <1>10, <2>1, <2>3 DEF ReadFails, Return
  <2>4. CASE op # "utf8_readFile"
    BY <1>10, <2>1, <2>2, <2>4 DEF ReadFails, Return
  <2> QED BY <2>3, <2>4
<1>11. CASE AllocChars
  <2>1. /\ pc = "utf8_malloc" /\ live = {"buffer"} /\ op = "utf8_readFile" /\ failed = {}
        /\ status = "runs"
    BY <1>11 DEF AllocChars
  <2>2. /\ pc' = "decode" /\ live' = {"buffer", "utf8_buffer"} /\ failed' = {}
        /\ status' = "runs" /\ op' = op /\ lost' = lost /\ owned' = owned /\ result' = result
    BY <1>11, <2>1 DEF AllocChars, Continue, ends
  <2>3. Calls'
    BY <2>1, <2>2
  <2>4. Holdings'
    BY ONLY <2>2 DEF Holdings, Seeking
  <2>5. Failures'
    BY ONLY <2>2 DEF Failures
  <2>6. NothingLost'
    BY ONLY <2>2 DEF NothingLost, At
  <2> QED BY <2>3, <2>4, <2>5, <2>6
<1>12. CASE AllocCharsFails
  <2>1. pc = "utf8_malloc" /\ live = {"buffer"} /\ failed' = {"utf8_malloc"}
    BY <1>12 DEF AllocCharsFails, Failing
  <2>2. CASE memdebug
    BY <1>12, <2>1, <2>2 DEF AllocCharsFails, Stop, ends
  <2>3. CASE ~memdebug
    <3>1. Continue("decode", live)
      BY <1>12, <2>3 DEF AllocCharsFails
    <3>2. /\ pc' = "decode" /\ live' = {"buffer"} /\ status' = "runs" /\ op' = op /\ lost' = lost
          /\ owned' = owned /\ result' = result
      BY <1>12, <2>1, <3>1 DEF Continue, ends, AllocCharsFails
    <3>3. ~memdebug' /\ "utf8_buffer" \notin live'
      BY <2>3, <3>1, <3>2 DEF Continue
    <3>4. decoder'.idx = 0
      BY <1>12, <2>3 DEF AllocCharsFails, DecodeStarts, utf8_decode_init
    <3>5. Failures'
      BY ONLY <2>1, <3>2, <3>3, <3>4 DEF Failures
    <3>6. Calls' /\ Holdings' /\ NothingLost'
      BY <2>1, <3>2
    <3> QED BY <3>5, <3>6
  <2> QED BY <2>2, <2>3
<1>13. CASE Decode
  BY <1>13 DEF Decode, At, Continue, Stop, Working, disk, work, ends
<1>14. CASE DecodeError
  <2>1. pc = "decode" /\ status = "runs" /\ Return(NULL(0), {"buffer", "utf8_buffer"}, {}) /\ failed' = failed
    BY <1>14 DEF DecodeError, Working
  <2>2. failed \subseteq {"utf8_malloc"} /\ op = "utf8_readFile" /\ owned = {} /\ lost' = {}
    BY <2>1 DEF Return, Readers
  <2>3. pc' = "idle" /\ live' = {} /\ owned' = {} /\ op' = op /\ status' = "runs"
    BY <2>1, <2>2 DEF Return
  <2>4. result'.null /\ result'.len = 0
    BY <2>1 DEF Return
  <2>5. Calls' /\ Holdings' /\ Failures'
    BY <2>2, <2>3
  <2>6. NothingLost'
    BY <2>1, <2>2, <2>3, <2>4
  <2> QED BY <2>5, <2>6
<1>15. CASE DecodeEnd
  <2>1. pc = "decode" /\ status = "runs" /\ failed' = failed /\ decoder' = decoder
    BY <1>15 DEF DecodeEnd, Working, work
  <2>2. CASE live = {"buffer", "utf8_buffer"}
    <3>1. Continue("realloc", live)
      BY <1>15, <2>2 DEF DecodeEnd
    <3> QED BY <2>1, <2>2, <3>1 DEF Continue, ends
  <2>3. CASE live = {"buffer"}
    <3>1. Stop("fault")
      BY <1>15, <2>3 DEF DecodeEnd
    <3> QED BY <2>1, <2>3, <3>1 DEF Stop, ends
  <2> QED BY <2>1, <2>2, <2>3
<1>16. CASE Shrink
  BY <1>16 DEF Shrink, At, Return, Working, disk, work, ends
<1>17. CASE ShrinkFails
  <2>1. pc = "realloc" /\ live = {"buffer", "utf8_buffer"} /\ failed' = {"realloc"} /\ op = "utf8_readFile" /\ owned = {}
    BY <1>17, ZenonT(40) DEF ShrinkFails, Failing, Readers
  <2>2. CASE memdebug
    BY <1>17, <2>1, <2>2 DEF ShrinkFails, Stop, ends
  <2>3. CASE ~memdebug
    <3>1. Return(NULL(Len(chars)), {"buffer"}, {})
      BY <1>17, <2>3 DEF ShrinkFails
    <3>2. lost' = {"utf8_buffer"} /\ owned' = {} /\ live' = {} /\ pc' = "idle" /\ op' = op /\ status' = status
      BY <2>1, <3>1 DEF Return
    <3>3. result'.null
      BY <3>1 DEF Return
    <3> QED BY <1>17, <2>1, <3>2, <3>3 DEF ShrinkFails, At
  <2> QED BY <2>2, <2>3
<1>18. CASE AllocOut
  BY <1>18 DEF AllocOut, At, Continue, Working, disk, work, ends
<1>19. CASE AllocOutFails
  BY <1>19 DEF AllocOutFails, At, Return, Stop, Failing, disk, work, ends
<1>20. CASE Encode
  BY <1>20 DEF Encode, At, Continue, Working, disk, work, ends
<1>21. CASE EncodeError
  BY <1>21, SMTT(30) DEF EncodeError, At, Return, Working, disk, work, ends
<1>22. CASE EncodeEnd
  BY <1>22 DEF EncodeEnd, At, Continue, Working, disk, work, ends
<1>23. CASE ShrinkOut
  BY <1>23 DEF ShrinkOut, At, Return, Working, disk, work, ends
<1>24. CASE ShrinkOutFails
  BY <1>24 DEF ShrinkOutFails, At, Return, Stop, Failing, disk, work, ends
<1> QED BY <1>1, <1>2, <1>3, <1>4, <1>5, <1>6, <1>7, <1>8, <1>9, <1>10, <1>11, <1>12, <1>13, <1>14, <1>15, <1>16, <1>17, <1>18, <1>19, <1>20, <1>21, <1>22, <1>23, <1>24 DEF Library

\* Types: every step of libc keeps them.
LEMMA TypeStep ==
  ASSUME IInv, Library
  PROVE  TypeOK'
<1> USE DEF IInv, TypeOK, At, NULL, Content, LibcCalls, Blocks
<1>0. Len(buffer) \in Nat /\ Len(chars) \in Nat /\ Len(out) \in Nat
  OBVIOUS
<1>1. CASE Open
  BY <1>1 DEF Open, At, Continue, Working, disk, work, ends
<1>2. CASE OpenFails
  BY <1>2 DEF OpenFails, At, Return, Failing, disk, work, ends
<1>3. CASE SeekEnd
  BY <1>3 DEF SeekEnd, At, Continue, Working, disk, work, ends
<1>4. CASE Tell
  <2>1. buffer = <<>> /\ buffer' = buffer /\ fileLen' \in Nat
    BY <1>4 DEF Tell, Contents, Seeking
  <2> QED BY <1>4, <2>1 DEF Tell, Continue, Working, disk, ends
<1>5. CASE Rewind
  BY <1>5 DEF Rewind, At, Continue, Working, disk, work, ends
<1>6. CASE SeekFails
  BY <1>6 DEF SeekFails, At, Return, Failing, disk, work, ends
<1>7. CASE Alloc
  BY <1>7 DEF Alloc, At, Continue, Working, disk, work, ends
<1>8. CASE AllocFails
  <2>1. CASE memdebug
    BY <1>8, <2>1 DEF AllocFails, Stop, Failing, disk, work, ends
  <2>2. CASE ~memdebug
    <3>1. Return(NULL(0), {"file"}, {})
      BY <1>8, <2>2 DEF AllocFails
    <3>2. pc = "malloc" /\ failed' = failed \cup {pc} /\ UNCHANGED <<disk, work>>
      BY <1>8 DEF AllocFails, Failing
    <3> QED BY <1>0, <3>1, <3>2 DEF Return, disk, work
  <2> QED BY <2>1, <2>2
<1>9. CASE Read
  <2>1. fileLen > 0 /\ fileLen <= Len(file) /\ Len(file) \in Nat
    BY <1>9 DEF Read, ItemThere
  <2>2. buffer' = SubSeq(file, 1, fileLen) /\ file' = file /\ fileLen' = fileLen
    BY <1>9 DEF Read, Working, disk
  <2>3. buffer' \in Seq(Byte) /\ Len(buffer') = fileLen
    BY <2>1, <2>2, Prefix
  <2>4. decoder' = decoder /\ decoder \in [idx : {0}, len : Int, chr : {0}, byte : {0}]
    BY <1>9 DEF Read, Contents
  <2>5. decoder' \in [idx : 0 .. Len(buffer'), len : Int, chr : 0 .. Len(buffer'), byte : 0 .. Len(buffer')]
    BY <2>1, <2>3, <2>4
  <2>6. CASE Continue("utf8_malloc", live \ {"file"})
    BY <1>9, <2>2, <2>3, <2>5, <2>6 DEF Read, Working, disk, Continue, ends
  <2>7. CASE Return(Content(buffer'), {"file"}, {"buffer"})
    BY <1>9, <2>2, <2>3, <2>5, <2>7 DEF Read, Working, disk, Return
  <2> QED BY <1>9, <2>6, <2>7 DEF Read
<1>10. CASE ReadFails
  BY <1>10 DEF ReadFails, At, Return, Failing, disk, work, ends
<1>s. ASSUME DecodeStarts
      PROVE  /\ decoder' \in [idx : 0 .. Len(buffer'), len : Int, chr : 0 .. Len(buffer'), byte : 0 .. Len(buffer')]
             /\ UNCHANGED <<disk, fileLen, buffer, chars, codepoints, out, i>>
  <2>1. AsInt(fileLen) \in Int
    BY AsIntBelow
  <2> QED BY <1>0, <1>s, <2>1 DEF DecodeStarts, utf8_decode_init
<1>11. CASE AllocChars
  BY <1>s, <1>11 DEF AllocChars, At, Continue, disk, ends
<1>12. CASE AllocCharsFails
  <2>1. CASE memdebug
    BY <1>12, <2>1 DEF AllocCharsFails, Stop, Failing, disk, work, ends
  <2>2. CASE ~memdebug
    BY <1>s, <1>12, <2>2 DEF AllocCharsFails, Continue, Failing, disk, ends
  <2> QED BY <2>1, <2>2
<1>13. CASE Decode
  <2> DEFINE next == utf8_decodeNext(buffer, decoder)
  <2>1. next.chr >= 0 /\ decoder' = next.state /\ buffer' = buffer /\ fileLen' = fileLen /\ pc = "decode"
    BY <1>13 DEF Decode
  <2>2. /\ next.chr \in Nat /\ IsScalar(next.chr)
        /\ next.state.idx \in decoder.idx + 1 .. Len(buffer)
        /\ next.state = [idx |-> next.state.idx, len |-> decoder.len, chr |-> decoder.chr + 1, byte |-> decoder.idx]
    BY <2>1, DecodedNumber
  <2>l. decoder.len \in Int
    OBVIOUS
  <2>3. chars' = chars \/ chars' = Append(chars, next.chr)
    BY <1>13 DEF Decode
  <2> HIDE DEF next
  <2>4. decoder' \in [idx : 0 .. Len(buffer'), len : Int, chr : 0 .. Len(buffer'), byte : 0 .. Len(buffer')]
    <3>1. /\ next.state.idx \in 0 .. Len(buffer)
          /\ decoder.chr + 1 \in 0 .. Len(buffer)
          /\ decoder.idx \in 0 .. Len(buffer)
      <4>1. decoder.idx \in Nat /\ decoder.chr \in Nat /\ decoder.chr <= decoder.idx
        BY <1>0 DEF Progress
      <4> QED BY ONLY <1>0, <2>2, <4>1, SMTT(30)
    <3> QED BY <2>l, <2>1, <2>2, <3>1
  <2>5. chars' \in Seq(Nat) /\ \A k \in DOMAIN chars' : IsScalar(chars'[k])
    <3>1. chars \in Seq(Nat) /\ \A k \in DOMAIN chars : IsScalar(chars[k])
      BY <1>0
    <3>2. next.chr \in Nat /\ IsScalar(next.chr)
      BY <2>2
    <3>3. CASE chars' = Append(chars, next.chr)
      <4> DEFINE n == next.chr
                 s == Append(chars, n)
      <4>1. n \in Nat /\ IsScalar(n) /\ chars' = s
        BY <3>2, <3>3
      <4> HIDE DEF n
      <4>2. s \in Seq(Nat) /\ DOMAIN s = 1 .. Len(chars) + 1
        BY ONLY <3>1, <4>1
      <4>3. s[Len(chars) + 1] = n /\ \A k \in DOMAIN chars : s[k] = chars[k]
        BY ONLY <3>1, <4>1
      <4>4. \A k \in DOMAIN s : k \in DOMAIN chars \/ k = Len(chars) + 1
        BY ONLY <3>1, <4>2
      <4> HIDE DEF s
      <4> QED BY ONLY <3>1, <4>1, <4>2, <4>3, <4>4
    <3>4. CASE chars' = chars
      BY <3>1, <3>4
    <3> QED BY <2>3, <3>3, <3>4
  <2> QED BY <1>13, <2>1, <2>4, <2>5 DEF Decode, Continue, Stop, Working, disk, ends
<1>14. CASE DecodeError
  <2> DEFINE next == utf8_decodeNext(buffer, decoder)
  <2>1. next.chr = UTF8_ERR /\ decoder' = next.state /\ buffer' = buffer /\ fileLen' = fileLen /\ pc = "decode"
    BY <1>14 DEF DecodeError
  <2>2. \/ next.state = decoder
        \/ /\ next.state.idx \in decoder.idx + 1 .. Len(buffer)
           /\ next.state = [idx |-> next.state.idx, len |-> decoder.len, chr |-> decoder.chr + 1, byte |-> decoder.idx]
    BY <2>1, DecoderMoves
  <2>l. decoder.len \in Int
    OBVIOUS
  <2> HIDE DEF next
  <2>3. decoder' \in [idx : 0 .. Len(buffer'), len : Int, chr : 0 .. Len(buffer'), byte : 0 .. Len(buffer')]
    <3> SUFFICES ASSUME next.state # decoder PROVE decoder' \in [idx : 0 .. Len(buffer'), len : Int, chr : 0 .. Len(buffer'), byte : 0 .. Len(buffer')]
      BY <2>1
    <3>1. /\ next.state.idx \in 0 .. Len(buffer)
          /\ decoder.chr + 1 \in 0 .. Len(buffer)
          /\ decoder.idx \in 0 .. Len(buffer)
      <4>1. decoder.idx \in Nat /\ decoder.chr \in Nat /\ decoder.chr <= decoder.idx
        BY <1>0 DEF Progress
      <4> QED BY ONLY <1>0, <2>2, <4>1, next.state # decoder
    <3> QED BY <2>l, <2>1, <2>2, <3>1
  <2> QED BY <1>14, <2>1, <2>3 DEF DecodeError, Return, Working, disk
<1>15. CASE DecodeEnd
  BY <1>15 DEF DecodeEnd, At, Continue, Stop, Working, disk, work, ends
<1>16. CASE Shrink
  BY <1>16 DEF Shrink, At, Return, Working, disk, work, ends
<1>17. CASE ShrinkFails
  <2>1. CASE memdebug
    BY <1>17, <2>1 DEF ShrinkFails, Stop, Failing, disk, work, ends
  <2>2. CASE ~memdebug
    <3>1. Return(NULL(Len(chars)), {"buffer"}, {})
      BY <1>17, <2>2 DEF ShrinkFails
    <3>2. pc = "realloc" /\ failed' = failed \cup {pc} /\ UNCHANGED <<disk, work>>
      BY <1>17 DEF ShrinkFails, Failing
    <3> QED BY <1>0, <3>1, <3>2 DEF Return, disk, work
  <2> QED BY <2>1, <2>2
<1>18. CASE AllocOut
  BY <1>18 DEF AllocOut, At, Continue, Working, disk, work, ends
<1>19. CASE AllocOutFails
  <2>1. CASE memdebug
    BY <1>19, <2>1 DEF AllocOutFails, Stop, Failing, disk, work, ends
  <2>2. CASE ~memdebug
    <3>1. Return(NULL(0), {}, {})
      BY <1>19, <2>2 DEF AllocOutFails
    <3>2. pc = "out_malloc" /\ failed' = failed \cup {pc} /\ UNCHANGED <<disk, work>>
      BY <1>19 DEF AllocOutFails, Failing
    <3> QED BY <1>0, <3>1, <3>2 DEF Return, disk, work
  <2> QED BY <2>1, <2>2
<1>20. CASE Encode
  <2> DEFINE n == codepoints[i + 1]
  <2> DEFINE buf4 == utf8_encode_codepoint(n)
  <2>1. i + 1 \in 1 .. Len(codepoints)
    BY <1>20 DEF Encode
  <2>2. n \in Int
    BY <2>1
  <2>3. buf4 \in Seq(Byte)
    <3> HIDE DEF n
    <3> QED BY <2>2, EncodedBytes
  <2>4. out' = out \o buf4 /\ i' = i + 1 /\ codepoints' = codepoints
    BY <1>20 DEF Encode
  <2> HIDE DEF buf4
  <2>5. out' \in Seq(Byte) /\ i' \in 0 .. Len(codepoints')
    BY <2>1, <2>3, <2>4
  <2> QED BY <1>20, <2>4, <2>5 DEF Encode, Continue, Working, disk, ends
<1>21. CASE EncodeError
  BY <1>21 DEF EncodeError, At, Return, Working, disk, work, ends
<1>22. CASE EncodeEnd
  BY <1>22 DEF EncodeEnd, At, Continue, Working, disk, work, ends
<1>23. CASE ShrinkOut
  BY <1>23 DEF ShrinkOut, At, Return, Working, disk, work, ends
<1>24. CASE ShrinkOutFails
  <2>1. CASE memdebug
    BY <1>24, <2>1 DEF ShrinkOutFails, Stop, Failing, disk, work, ends
  <2>2. CASE ~memdebug
    <3>1. Return(NULL(Len(out)), {}, {})
      BY <1>24, <2>2 DEF ShrinkOutFails
    <3>2. pc = "out_realloc" /\ failed' = failed \cup {pc} /\ UNCHANGED <<disk, work>>
      BY <1>24 DEF ShrinkOutFails, Failing
    <3> QED BY <1>0, <3>1, <3>2 DEF Return, disk, work
  <2> QED BY <2>1, <2>2
<1> QED BY <1>1, <1>2, <1>3, <1>4, <1>5, <1>6, <1>7, <1>8, <1>9, <1>10, <1>11, <1>12, <1>13, <1>14, <1>15, <1>16, <1>17, <1>18, <1>19, <1>20, <1>21, <1>22, <1>23, <1>24 DEF Library

\* Data: the library moves on in what it reads, decodes and encodes, and keeps what it read.
LEMMA DataStep ==
  ASSUME IInv, Library
  PROVE  Progress' /\ Contents'
<1> USE DEF IInv, Calls, Progress, Contents, At, NULL, Content, Seeking, Decoding, Encoding
<1>0. /\ Len(buffer) \in Nat /\ Len(chars) \in Nat /\ Len(out) \in Nat /\ i \in Nat
      /\ decoder.idx \in Nat /\ decoder.chr \in Nat
  BY DEF TypeOK
<1>1. CASE Open
  BY <1>1 DEF Open, At, Continue, Working, disk, work, ends
<1>2. CASE OpenFails
  BY <1>2 DEF OpenFails, At, Return, Failing, disk, work, ends
<1>3. CASE SeekEnd
  BY <1>3 DEF SeekEnd, At, Continue, Working, disk, work, ends
<1>4. CASE Tell
  BY <1>4 DEF Tell, At, Continue, Working, disk, work, ends
<1>5. CASE Rewind
  BY <1>5 DEF Rewind, At, Continue, Working, disk, work, ends
<1>6. CASE SeekFails
  BY <1>6 DEF SeekFails, At, Return, Failing, disk, work, ends
<1>7. CASE Alloc
  BY <1>7 DEF Alloc, At, Continue, Working, disk, work, ends
<1>8. CASE AllocFails
  BY <1>8 DEF AllocFails, At, Return, Stop, Failing, disk, work, ends
<1>9. CASE Read
  <2>1. fileLen > 0 /\ fileLen <= Len(file) /\ Len(file) \in Nat /\ file \in Seq(Byte) /\ fileLen \in Nat
    BY <1>9 DEF Read, ItemThere, TypeOK
  <2>2. /\ buffer' = SubSeq(file, 1, fileLen) /\ UNCHANGED <<file, changed, fileLen, decoder, chars, codepoints, out, i>>
        /\ failed' = failed /\ op' = op /\ pc = "fread" /\ failed = {}
    BY <1>9 DEF Read, Working, disk, Continue, Return, Failures
  <2>3. buffer' \in Seq(Byte) /\ Len(buffer') = fileLen /\ buffer' # <<>>
    BY <2>1, <2>2, Prefix
  <2>4. ~changed => buffer' = file
    BY <2>1, <2>2
  <2>5. op \in Readers /\ op \notin {"none", "utf8_encode"}
    BY <2>2 DEF Readers
  <2>6. CASE op = "utf8_readFile" /\ Continue("utf8_malloc", live \ {"file"})
    <3>1. pc' = "utf8_malloc" /\ decoder'.idx = 0
      BY <2>2, <2>6 DEF Continue, TypeOK
    <3> QED BY <2>1, <2>2, <2>3, <2>4, <2>5, <2>6, <3>1 DEF FileReaders
  <2>7. CASE op # "utf8_readFile" /\ Return(Content(buffer'), {"file"}, {"buffer"})
    <3>1. pc' = "idle" /\ result'.content = buffer'
      BY <2>7 DEF Return
    <3> QED BY <2>1, <2>2, <2>3, <2>4, <2>5, <2>7, <3>1
  <2> QED BY <1>9, <2>6, <2>7 DEF Read
<1>10. CASE ReadFails
  BY <1>10 DEF ReadFails, At, Return, Failing, disk, work, ends
<1>s. ASSUME DecodeStarts, pc = "utf8_malloc"
      PROVE  /\ decoder'.len = AsInt(fileLen') /\ decoder'.idx = 0
             /\ decoder'.chr <= decoder'.idx /\ Len(chars') <= decoder'.idx
             /\ UNCHANGED <<disk, fileLen, buffer, chars, codepoints, out, i>>
  <2>1. Len(chars) <= 0
    BY <1>s
  <2> QED BY <1>s, <2>1 DEF DecodeStarts, utf8_decode_init
<1>11. CASE AllocChars
  <2>1. pc = "utf8_malloc" /\ pc' = "decode"
    BY <1>11 DEF AllocChars, Continue
  <2> QED BY <1>s, <1>11, <2>1 DEF AllocChars, Continue, disk, ends
<1>12. CASE AllocCharsFails
  <2>1. CASE memdebug
    BY <1>12, <2>1 DEF AllocCharsFails, Stop, Failing, disk, work, ends
  <2>2. CASE ~memdebug
    <3>1. pc = "utf8_malloc" /\ pc' = "decode"
      BY <1>12, <2>2 DEF AllocCharsFails, Continue
    <3> QED BY <1>s, <1>12, <2>2, <3>1 DEF AllocCharsFails, Continue, disk, ends
  <2> QED BY <2>1, <2>2
<1>13. CASE Decode
  <2> DEFINE next == utf8_decodeNext(buffer, decoder)
  <2>1. next.chr >= 0 /\ decoder' = next.state /\ pc = "decode" /\ pc' = "decode" /\ op' = op /\ result' = result
    BY <1>13 DEF Decode, Continue, Stop, ends
  <2>2. /\ next.state.idx \in decoder.idx + 1 .. Len(buffer) /\ next.state.chr = decoder.chr + 1
        /\ next.state = [idx |-> next.state.idx, len |-> decoder.len, chr |-> decoder.chr + 1, byte |-> decoder.idx]
    BY <2>1, DecodedNumber
  <2>l. next.state.len = decoder.len
    <3> HIDE DEF next
    <3> QED BY ONLY <2>2
  <2>3. chars' = chars \/ chars' = Append(chars, next.chr)
    BY <1>13 DEF Decode
  <2> HIDE DEF next
  <2>4. decoder'.chr <= decoder'.idx
    BY <1>0, <2>1, <2>2
  <2>5. Len(chars') <= decoder'.idx
    <3>1. chars \in Seq(Nat) BY DEF TypeOK
    <3>2. Len(chars') <= Len(chars) + 1 BY <1>0, <2>3, <3>1
    <3>3. Len(chars') \in Nat BY <1>0, <2>3, <3>1
    <3> QED BY <1>0, <2>1, <2>2, <3>2, <3>3
  <2>6. UNCHANGED <<file, changed, fileLen, buffer, codepoints, out, i>>
    BY <1>13 DEF Decode, Working, disk
  <2>7. decoder'.len = AsInt(fileLen')
    BY <2>l, <2>1, <2>6
  <2> QED BY <2>1, <2>4, <2>5, <2>6, <2>7
<1>14. CASE DecodeError
  <2> DEFINE next == utf8_decodeNext(buffer, decoder)
  <2>1. next.chr = UTF8_ERR /\ decoder' = next.state /\ pc = "decode"
    BY <1>14 DEF DecodeError
  <2>2. \/ next.state = decoder
        \/ next.state.idx \in decoder.idx + 1 .. Len(buffer) /\ next.state.chr = decoder.chr + 1
    BY <2>1, DecoderMoves
  <2> HIDE DEF next
  <2>3. decoder'.chr <= decoder'.idx /\ Len(chars) <= decoder'.idx
    BY <1>0, <2>1, <2>2
  <2>4. UNCHANGED <<file, changed, fileLen, buffer, chars, codepoints, out, i, op>> /\ pc' = "idle" /\ result'.null
    BY <1>14 DEF DecodeError, Working, disk, Return
  <2> QED BY <2>1, <2>3, <2>4 DEF FileReaders
<1>15. CASE DecodeEnd
  <2>1. pc = "decode" /\ pc' \in {"decode", "realloc"} /\ UNCHANGED <<op, disk, work, ends>>
    BY <1>15 DEF DecodeEnd, Continue, Stop, Working
  <2>2. failed' = failed
    BY <1>15 DEF DecodeEnd, Working
  <2> QED BY <2>1, <2>2 DEF disk, work, ends
<1>16. CASE Shrink
  BY <1>16 DEF FileReaders, Shrink, At, Return, Working, disk, work, ends
<1>17. CASE ShrinkFails
  BY <1>17 DEF ShrinkFails, At, Return, Stop, Failing, disk, work, ends
<1>18. CASE AllocOut
  BY <1>18 DEF AllocOut, At, Continue, Working, disk, work, ends
<1>19. CASE AllocOutFails
  BY <1>19 DEF AllocOutFails, At, Return, Stop, Failing, disk, work, ends
<1>20. CASE Encode
  <2> DEFINE n == codepoints[i + 1]
  <2> DEFINE buf4 == utf8_encode_codepoint(n)
  <2>1. i + 1 \in 1 .. Len(codepoints)
    BY <1>0, <1>20 DEF Encode, TypeOK
  <2>2. n \in Int
    BY <2>1 DEF TypeOK
  <2>3. buf4 \in Seq(Byte) /\ Len(buf4) <= 4
    <3> HIDE DEF n
    <3> QED BY ONLY <2>2, EncodedBytes
  <2>4. out' = out \o buf4 /\ i' = i + 1 /\ codepoints' = codepoints
    BY <1>20 DEF Encode
  <2> HIDE DEF buf4
  <2>5. Len(out') <= 4 * i'
    <3>1. out \in Seq(Byte) BY DEF TypeOK
    <3>2. Len(out') = Len(out) + Len(buf4) BY <2>3, <2>4, <3>1
    <3>3. Len(buf4) \in Int /\ Len(buf4) <= 4 BY ONLY <2>3
    <3> QED BY <1>0, <2>4, <3>2, <3>3
  <2>6. /\ UNCHANGED <<file, changed, fileLen, buffer, decoder, chars, op, result>>
        /\ pc = "encode" /\ pc' = "encode"
    BY <1>20 DEF Encode, Working, disk, Continue, ends
  <2> QED BY <2>4, <2>5, <2>6 DEF Readers
<1>21. CASE EncodeError
  BY <1>21 DEF Readers, FileReaders, EncodeError, At, Return, Working, disk, work, ends
<1>22. CASE EncodeEnd
  BY <1>22 DEF EncodeEnd, At, Continue, Working, disk, work, ends
<1>23. CASE ShrinkOut
  BY <1>23 DEF Readers, FileReaders, ShrinkOut, At, Return, Working, disk, work, ends
<1>24. CASE ShrinkOutFails
  BY <1>24 DEF ShrinkOutFails, At, Return, Stop, Failing, disk, work, ends
<1> QED BY <1>1, <1>2, <1>3, <1>4, <1>5, <1>6, <1>7, <1>8, <1>9, <1>10, <1>11, <1>12, <1>13, <1>14, <1>15, <1>16, <1>17, <1>18, <1>19, <1>20, <1>21, <1>22, <1>23, <1>24 DEF Library

\* Without a text there are no types to keep.
LEMMA NoText ==
  /\ <<>> \in Seq(Byte) /\ <<>> \in Seq(Nat) /\ <<>> \in Seq(Int)
  /\ Len(<<>>) = 0 /\ DOMAIN <<>> = {}
  /\ utf8_decode_init(0) \in [idx : 0 .. 0, len : Int, chr : 0 .. 0, byte : 0 .. 0]
  /\ 0 \in 0 .. 0
<1>1. DOMAIN <<>> = {}
  OBVIOUS
<1>2. <<>> \in Seq(Byte) /\ <<>> \in Seq(Nat) /\ <<>> \in Seq(Int) /\ Len(<<>>) = 0
  OBVIOUS
<1>3. utf8_decode_init(0) \in [idx : 0 .. 0, len : Int, chr : 0 .. 0, byte : 0 .. 0]
  BY AsIntBelow DEF utf8_decode_init
<1> QED BY <1>1, <1>2, <1>3

\* The program's own steps: a call starts where nothing is left of the one before.
LEMMA ReadCallStep ==
  ASSUME IInv, NEW reader \in Readers, ReadCall(reader)
  PROVE  IInv'
<1>1. /\ op = "none" /\ pc = "idle" /\ status = "runs" /\ live = {}
      /\ owned = {} /\ buffer = <<>> /\ ~changed
  BY DEF IInv, ReadCall, Call, At, Progress, Holdings, Contents
<1>2. /\ op' = reader /\ pc' = "fopen" /\ failed' = {} /\ lost' = {} /\ result' = NULL(0)
      /\ UNCHANGED <<memdebug, status, live, owned, changed, work>> /\ file' \in Files
  BY DEF ReadCall, Call
<1>3. file' \in Seq(Byte)
  BY <1>2, FilesAssumption
<1>4. reader \notin {"none", "utf8_encode"}
  BY DEF Readers
<1>5. TypeOK'
  BY <1>1, <1>2, <1>3 DEF IInv, TypeOK, LibcCalls, NULL, work
<1>6. Calls' /\ Holdings' /\ Failures' /\ NothingLost'
  BY <1>1, <1>2, <1>4 DEF Calls, Holdings, Failures, NothingLost, Seeking, Decoding, Encoding, At
<1>7. Progress' /\ Contents'
  BY <1>1, <1>2, <1>4 DEF IInv, Progress, Contents, Seeking, Decoding, FileReaders, work
<1> QED BY <1>5, <1>6, <1>7 DEF IInv

\* A call of the encoder starts with nothing of its own.
LEMMA EncodeCallStep ==
  ASSUME IInv, EncodeCall
  PROVE  IInv'
<1>1. PICK points : EncodeStarts(points) /\ points \in Seq(Int)
  <2>1. CASE op = "none" /\ \E points \in Points : EncodeStarts(points) \/ EncodeStarts(BeforeZero(points))
    BY <2>1, PointsAssumption, BeforeZeroType
  <2>2. CASE EncodeStarts(chars) \/ EncodeStarts(BeforeZero(chars))
    <3>1. chars \in Seq(Int) BY DEF IInv, TypeOK
    <3> QED BY <2>2, <3>1, BeforeZeroType
  <2> QED BY <2>1, <2>2 DEF EncodeCall
<1>2. /\ op \in {"none", "utf8_readFile"} /\ owned \subseteq {"utf8_buffer"}
      /\ pc = "idle" /\ status = "runs" /\ live = {} /\ out = <<>> /\ i = 0
  BY <1>1 DEF IInv, EncodeCall, EncodeStarts, Call, At, Progress, Holdings
<1>3. /\ op' = "utf8_encode" /\ pc' = "out_malloc" /\ failed' = {} /\ lost' = {} /\ result' = NULL(0)
      /\ codepoints' = points
      /\ UNCHANGED <<memdebug, status, live, owned, disk, fileLen, buffer, decoder, chars, out, i>>
  BY <1>1 DEF EncodeStarts, Call
<1>4. TypeOK'
  BY <1>1, <1>2, <1>3 DEF IInv, TypeOK, LibcCalls, NULL, disk, Blocks
<1>5. Calls' /\ Holdings' /\ Failures' /\ NothingLost'
  BY <1>2, <1>3 DEF Calls, Holdings, Failures, NothingLost, Seeking, Decoding, Encoding, At, Readers
<1>6. Progress' /\ Contents'
  BY <1>2, <1>3 DEF IInv, Progress, Contents, Seeking, Decoding, FileReaders, Readers
<1> QED BY <1>4, <1>5, <1>6 DEF IInv

\* The program gives back what the last call returned.
LEMMA FreeStep ==
  ASSUME IInv, Free
  PROVE  IInv'
<1>1. pc' = "idle" /\ status' = "runs" /\ live' = {} /\ op' = "none" /\ memdebug' = memdebug
  BY DEF IInv, Holdings, Free, At
<1>2. /\ file' = <<>> /\ changed' = FALSE
      /\ fileLen' = 0 /\ buffer' = <<>> /\ decoder' = utf8_decode_init(0) /\ chars' = <<>>
      /\ codepoints' = <<>> /\ out' = <<>> /\ i' = 0
      /\ owned' = {} /\ lost' = {} /\ result' = NULL(0) /\ failed' = {}
  BY DEF Free
<1>3. TypeOK'
  <2>1. memdebug \in BOOLEAN
    BY DEF IInv, TypeOK
  <2> QED BY <1>1, <1>2, <2>1, NoText DEF TypeOK, NULL
<1>4. Calls' /\ Holdings' /\ Failures'
  BY <1>1, <1>2 DEF Calls, Holdings, Failures, Seeking, Decoding, Encoding
<1>5. NothingLost'
  BY <1>1, <1>2 DEF NothingLost, NULL
<1>6. Progress' /\ Contents'
  BY <1>1, <1>2 DEF Progress, Contents, Seeking, Decoding, FileReaders, Readers, utf8_decode_init
<1> QED BY <1>3, <1>4, <1>5, <1>6 DEF IInv

\* Another program writes the file while it is read.
LEMMA FileChangesStep ==
  ASSUME IInv, FileChanges
  PROVE  IInv'
<1>1. /\ pc \in {"fseek_end", "ftell", "fseek_set", "malloc", "fread"} /\ changed'
      /\ UNCHANGED <<memdebug, op, pc, status, work, live, ends, failed>>
  BY DEF FileChanges
<1>2. file' \in Seq(Byte)
  <2>1. file \in Seq(Byte) /\ 65 \in Byte BY DEF IInv, TypeOK, Byte
  <2>2. CASE file' = Append(file, 65) BY <2>1, <2>2
  <2>3. CASE file # <<>> /\ file' = SubSeq(file, 1, Len(file) - 1) BY <2>1, <2>3
  <2> QED BY <2>2, <2>3 DEF FileChanges
<1>3. buffer = <<>> /\ op \in Readers
  BY <1>1 DEF IInv, Contents, Calls, Seeking
<1>4. TypeOK'
  BY <1>1, <1>2 DEF IInv, TypeOK, work, ends, FileChanges
<1>5. Calls' /\ Holdings' /\ Failures' /\ NothingLost'
  BY <1>1 DEF IInv, Calls, Holdings, Failures, NothingLost, work, ends, At
<1>6. Progress'
  BY <1>1 DEF IInv, Progress, work, ends
<1>7. Contents'
  BY <1>1, <1>3 DEF IInv, Contents, Calls, work, ends, Seeking, Decoding, Readers
<1> QED BY <1>4, <1>5, <1>6, <1>7 DEF IInv

\* The initial states satisfy the inductive invariant.
LEMMA InitInvariant == Init => IInv
<1> SUFFICES ASSUME Init PROVE IInv
  OBVIOUS
<1>1. TypeOK
  BY NoText DEF Init, TypeOK, NULL
<1>2. Calls /\ Holdings /\ Failures /\ NothingLost
  BY DEF Init, Calls, Holdings, Failures, NothingLost, Seeking, Decoding, Encoding, NULL
<1>3. Progress /\ Contents
  BY DEF Init, Progress, Contents, Seeking, Decoding, FileReaders, Readers, utf8_decode_init
<1> QED BY <1>1, <1>2, <1>3 DEF IInv

\* Every step keeps it.
LEMMA StepInvariant == IInv /\ [Next]_vars => IInv'
<1> SUFFICES ASSUME IInv, [Next]_vars PROVE IInv'
  OBVIOUS
<1>1. CASE Library
  BY <1>1, ControlStep, TypeStep, DataStep DEF IInv
<1>2. CASE \E reader \in Readers : ReadCall(reader)
  BY <1>2, ReadCallStep
<1>3. CASE UNCHANGED vars
  <2>1. TypeOK'
    BY <1>3 DEF IInv, TypeOK, vars, disk, work, ends
  <2>2. Calls' /\ Holdings' /\ Failures' /\ NothingLost'
    BY <1>3 DEF IInv, Calls, Holdings, Failures, NothingLost, At, vars, disk, work, ends
  <2>3. Progress' /\ Contents'
    BY <1>3 DEF IInv, Progress, Contents, vars, disk, work, ends
  <2> QED BY <2>1, <2>2, <2>3 DEF IInv
<1> QED BY <1>1, <1>2, <1>3, EncodeCallStep, FreeStep, FileChangesStep DEF Next, Ended

\* What ReadsWhole says of the end of a call follows from what was read.
LEMMA WholeFile == IInv => ReadsWhole
<1> SUFFICES ASSUME IInv,
                    \/ Done({"apaz_str_readFile", "String_new_fromFile"})
                    \/ Done({"utf8_readFile"}) /\ ~result.null
             PROVE  /\ Len(buffer) = fileLen /\ fileLen > 0
                    /\ buffer = SubSeq(file, 1, fileLen)
                    /\ ~changed => buffer = file
                    /\ op # "utf8_readFile" => result.content = buffer
  BY DEF ReadsWhole
<1>1. op \in Readers /\ pc = "idle"
  BY DEF Done, At, Readers
<1>2. buffer # <<>> /\ (op # "utf8_readFile" => result.content = buffer)
  BY <1>1 DEF Done, IInv, Contents, FileReaders
<1> QED BY <1>1, <1>2 DEF IInv, Contents

\* Lengths are bounded by what was decoded and encoded.
LEMMA Fits == IInv => BuffersFit
<1> SUFFICES ASSUME IInv PROVE BuffersFit
  OBVIOUS
<1>1. /\ Len(chars) \in Nat /\ Len(out) \in Nat /\ Len(codepoints) \in Nat /\ Len(buffer) \in Nat
      /\ i \in 0 .. Len(codepoints) /\ decoder.idx \in 0 .. Len(buffer)
      /\ Len(buffer) \in {0, fileLen} /\ fileLen \in Nat
  BY DEF IInv, TypeOK
<1>2. Len(chars) + 1 <= CharsRoom
  BY <1>1 DEF IInv, Progress, CharsRoom
<1>3. Len(out) + 1 <= OutRoom
  BY <1>1 DEF IInv, Progress, OutRoom
<1>4. status = "fault" => failed = {"utf8_malloc"} /\ ~memdebug
  BY DEF IInv, Failures
<1> QED BY <1>2, <1>3, <1>4 DEF BuffersFit
-------------------------------------------------------------------------
(* What the decoder and the encoder make of texts.                         *)

\* What the decoder says of where it is: so many characters stand before atByte.
Counted == Len(Characters(SubSeq(buffer, 1, utf8_atByte(decoder)))) = utf8_atCharacter(decoder)

\* While the decoder runs: what it has passed is well-formed and is what it has written.
Parsing ==
  pc \in Decoding /\ status = "runs" =>
    /\ WellFormed(SubSeq(buffer, 1, decoder.idx))
    /\ Len(Characters(SubSeq(buffer, 1, decoder.idx))) = decoder.chr
    /\ "utf8_buffer" \in live \/ pc = "utf8_malloc" =>
         chars = Characters(SubSeq(buffer, 1, decoder.idx))
    /\ pc = "realloc" => decoder.idx = Len(buffer)

\* The characters are those of a well-formed text.
TextRead == buffer # <<>> /\ WellFormed(buffer) /\ chars = Characters(buffer)

\* What the program keeps of a call of the reader is the text.
Kept == op = "utf8_readFile" /\ owned = {"utf8_buffer"} => TextRead

\* The text is the first p bytes of w, and of its characters c the first n; the bytes
\* have no zero that the characters do not have.
Copies(text, w, p, c, n) ==
  /\ text = SubSeq(w, 1, p) /\ WellFormed(text)
  /\ n <= Len(c) /\ Characters(text) = SubSeq(c, 1, n)
  /\ \A k \in 1 .. p : w[k] = 0 => \E m \in 1 .. n : c[m] = 0

\* While the encoder runs: it copies the text that was read, or encodes code points of
\* the program, which leave a broken text from their first surrogate on.
Encoded ==
  op = "utf8_encode" =>
    /\ buffer # <<>> =>
         /\ TextRead
         /\ codepoints \in {chars, BeforeZero(chars)}
         /\ \E p \in 0 .. Len(buffer) : Copies(out, buffer, p, chars, i)
    /\ buffer = <<>> =>
         /\ \A k \in 1 .. i : IsCodePoint(codepoints[k])
         /\ (\A k \in 1 .. i : IsScalar(codepoints[k])) => WellFormed(out)
         /\ (\E k \in 1 .. i : ~IsScalar(codepoints[k])) => Broken(out)
    /\ pc = "out_realloc" => i = Len(codepoints)

\* What utf8_readFile has returned.
Judged ==
  Done({"utf8_readFile"}) =>
    /\ result.null <=> ~WellFormed(buffer)
    /\ result.null => ~Character(buffer, utf8_atByte(decoder))
    /\ ~result.null => result.content = Characters(buffer)

TextFacts == Counted /\ Parsing /\ Kept /\ Encoded /\ Judged /\ RoundTrip

\* All of this of a text whose length fits into an int.
TextInv == IntSized => TextFacts

\* What each step of the library may change.
LEMMA LibraryFrame ==
  ASSUME IInv, Library
  PROVE  /\ op' = op /\ codepoints' = codepoints
         /\ Read \/ buffer' = buffer
         /\ Decode \/ DecodeError \/ AllocChars \/ AllocCharsFails \/ decoder' = decoder
         /\ Decode \/ chars' = chars
         /\ Encode \/ (out' = out /\ i' = i)
         /\ Read \/ Shrink \/ ShrinkOut \/ owned' = owned
         /\ pc' \in Decoding /\ status' = "runs" =>
              Read \/ AllocChars \/ AllocCharsFails \/ Decode \/ DecodeEnd
         /\ pc' = "idle" /\ failed' = {} =>
              /\ op = "utf8_readFile" => DecodeError \/ Shrink
              /\ op = "utf8_encode" => EncodeError \/ ShrinkOut
         /\ pc' = "out_realloc" => EncodeEnd \/ pc = "out_realloc"
<1> USE DEF IInv, Calls, Readers, Decoding, Encoding, Seeking
<1>1. CASE Open
  BY <1>1 DEF Open, At, Continue, Working, disk, work, ends
<1>2. CASE OpenFails
  BY <1>2 DEF OpenFails, At, Return, Failing, disk, work
<1>3. CASE SeekEnd
  BY <1>3 DEF SeekEnd, At, Continue, Working, disk, work, ends
<1>4. CASE Tell
  BY <1>4 DEF Tell, At, Continue, Working, disk, work, ends
<1>5. CASE Rewind
  BY <1>5 DEF Rewind, At, Continue, Working, disk, work, ends
<1>6. CASE SeekFails
  BY <1>6 DEF SeekFails, At, Return, Failing, disk, work
<1>7. CASE Alloc
  BY <1>7 DEF Alloc, At, Continue, Working, disk, work, ends
<1>8. CASE AllocFails
  BY <1>8 DEF AllocFails, At, Return, Stop, Failing, disk, work, ends
<1>9. CASE Read
  BY <1>9 DEF Read, At, Continue, Return, Working, disk, work, ends
<1>10. CASE ReadFails
  BY <1>10 DEF ReadFails, At, Return, Failing, disk, work
<1>11. CASE AllocChars
  BY <1>11 DEF AllocChars, At, Continue, DecodeStarts, disk, ends
<1>12. CASE AllocCharsFails
  BY <1>12 DEF AllocCharsFails, At, Continue, Stop, Failing, DecodeStarts, disk, work, ends
<1>13. CASE Decode
  BY <1>13 DEF Decode, At, Continue, Stop, Working, disk, work, ends
<1>14. CASE DecodeError
  BY <1>14 DEF DecodeError, At, Return, Working, disk, work
<1>15. CASE DecodeEnd
  BY <1>15 DEF DecodeEnd, At, Continue, Stop, Working, disk, work, ends
<1>16. CASE Shrink
  BY <1>16 DEF Shrink, At, Return, Working, disk, work
<1>17. CASE ShrinkFails
  BY <1>17 DEF ShrinkFails, At, Return, Stop, Failing, disk, work, ends
<1>18. CASE AllocOut
  BY <1>18 DEF AllocOut, At, Continue, Working, disk, work, ends
<1>19. CASE AllocOutFails
  BY <1>19 DEF AllocOutFails, At, Return, Stop, Failing, disk, work, ends
<1>20. CASE Encode
  BY <1>20 DEF Encode, At, Continue, Working, disk, work, ends
<1>21. CASE EncodeError
  BY <1>21 DEF EncodeError, At, Return, Working, disk, work
<1>22. CASE EncodeEnd
  BY <1>22 DEF EncodeEnd, At, Continue, Working, disk, work, ends
<1>23. CASE ShrinkOut
  BY <1>23 DEF ShrinkOut, At, Return, Working, disk, work
<1>24. CASE ShrinkOutFails
  BY <1>24 DEF ShrinkOutFails, At, Return, Stop, Failing, disk, work, ends
<1> QED BY <1>1, <1>2, <1>3, <1>4, <1>5, <1>6, <1>7, <1>8, <1>9, <1>10, <1>11, <1>12, <1>13, <1>14, <1>15, <1>16, <1>17, <1>18, <1>19, <1>20, <1>21, <1>22, <1>23, <1>24 DEF Library

\* The first no bytes of a text.
LEMMA NoPart ==
  ASSUME NEW w, w \in Seq(Byte)
  PROVE  /\ SubSeq(w, 1, 0) = <<>> /\ WellFormed(SubSeq(w, 1, 0))
         /\ Characters(SubSeq(w, 1, 0)) = <<>> /\ Len(Characters(SubSeq(w, 1, 0))) = 0
<1>1. SubSeq(w, 1, 0) = <<>>
  OBVIOUS
<1>2. Len(<<>>) = 0
  OBVIOUS
<1> QED BY ONLY <1>1, <1>2, EmptyText, Zenon

\* Where nothing was read the decoder has not moved.
LEMMA NotMoved ==
  ASSUME TypeOK, Progress, buffer = <<>>
  PROVE  /\ decoder.idx = 0 /\ utf8_atByte(decoder) = 0 /\ utf8_atCharacter(decoder) = 0
         /\ decoder.chr = 0 /\ chars = <<>>
<1>1. Len(buffer) = 0
  BY NoText
<1>2. decoder \in [idx : 0 .. 0, len : Int, chr : 0 .. 0, byte : 0 .. 0]
  BY <1>1 DEF TypeOK
<1>3. decoder.idx = 0 /\ decoder.chr = 0 /\ decoder.byte = 0
  BY ONLY <1>2
<1>4. Len(chars) <= 0 /\ chars \in Seq(Nat)
  BY <1>3 DEF TypeOK, Progress
<1>5. chars = <<>>
  BY ONLY <1>4
<1> QED BY ONLY <1>3, <1>5 DEF utf8_atByte, utf8_atCharacter

\* A step of the decoder passes a character.
LEMMA Passed ==
  ASSUME IInv, IntSized, Parsing, Decode
  PROVE  /\ pc = "decode" /\ status = "runs" /\ buffer' = buffer
         /\ Character(buffer, decoder.idx)
         /\ decoder'.byte = decoder.idx /\ decoder'.chr = decoder.chr + 1
         /\ decoder'.idx \in 0 .. Len(buffer)
         /\ WellFormed(SubSeq(buffer, 1, decoder'.idx))
         /\ Len(Characters(SubSeq(buffer, 1, decoder'.idx))) = decoder.chr + 1
         /\ "utf8_buffer" \in live => chars' = Characters(SubSeq(buffer, 1, decoder'.idx))
         /\ "utf8_buffer" \notin live => status' = "fault"
         /\ status' = "runs" => pc' = "decode" /\ live' = live
<1> DEFINE next == utf8_decodeNext(buffer, decoder)
           at == decoder.idx
           passed == Characters(SubSeq(buffer, 1, at))
<1>1. /\ pc = "decode" /\ status = "runs" /\ buffer' = buffer /\ next.chr >= 0 /\ decoder' = next.state
      /\ "utf8_buffer" \in live => chars' = Append(chars, next.chr)
      /\ "utf8_buffer" \notin live => status' = "fault"
      /\ status' = "runs" => pc' = "decode" /\ live' = live
  BY DEF Decode, At, Continue, Stop
<1>2. buffer \in Seq(Byte) /\ at \in 0 .. Len(buffer) /\ decoder.chr \in Nat /\ decoder.len = Len(buffer)
  BY <1>1, Told DEF IInv, TypeOK
<1>3. /\ WellFormed(SubSeq(buffer, 1, at)) /\ Len(passed) = decoder.chr
      /\ "utf8_buffer" \in live => chars = passed
  BY <1>1 DEF Parsing, Decoding
<1>4. /\ Character(buffer, at) /\ next.chr = Decoded(buffer, at)
      /\ next.state.idx = at + Width(buffer, at)
      /\ next.state.chr = decoder.chr + 1 /\ next.state.byte = at
  BY <1>1, <1>2, NextIs, Zenon
<1> DEFINE m == at + Width(buffer, at)
<1>5. /\ m \in at + 1 .. Len(buffer) /\ WellFormed(SubSeq(buffer, 1, m))
      /\ Characters(SubSeq(buffer, 1, m)) = passed \o <<Decoded(buffer, at)>>
      /\ passed \in Seq(Nat) /\ Decoded(buffer, at) \in Nat
  BY <1>2, <1>3, <1>4, OneMore, Zenon
<1> DEFINE r == Decoded(buffer, at)
           more == Characters(SubSeq(buffer, 1, m))
<1>6. decoder'.idx = m /\ decoder'.chr = decoder.chr + 1 /\ decoder'.byte = at
  BY ONLY <1>1, <1>4, Zenon
<1>7. m \in 0 .. Len(buffer)
  <2>1. Len(buffer) \in Nat
    BY <1>2
  <2> HIDE DEF m, at
  <2> QED BY ONLY <1>2, <1>5, <2>1
<1> HIDE DEF passed, r, m, more
<1>8. passed \o <<r>> = Append(passed, r) /\ Len(passed \o <<r>>) = Len(passed) + 1
  <2>1. passed \in Seq(Nat) /\ r \in Nat
    BY ONLY <1>5 DEF r
  <2> QED BY ONLY <2>1
<1>9. more = passed \o <<r>>
  BY ONLY <1>5, Zenon DEF more, r
<1>10. Len(more) = decoder.chr + 1
  BY ONLY <1>3, <1>8, <1>9, Zenon
<1>11. "utf8_buffer" \in live => chars' = more
  <2>1. next.chr = r
    BY ONLY <1>4, Zenon DEF r
  <2> HIDE DEF next
  <2> QED BY ONLY <1>1, <1>3, <1>8, <1>9, <2>1, Zenon
<1>12. WellFormed(SubSeq(buffer, 1, m))
  BY ONLY <1>5, Zenon
<1> HIDE DEF next
<1> QED BY ONLY <1>1, <1>4, <1>6, <1>7, <1>10, <1>11, <1>12, Zenon DEF more

\* An error is where no character begins.
LEMMA Rejected ==
  ASSUME IInv, IntSized, Parsing, DecodeError
  PROVE  /\ op = "utf8_readFile" /\ buffer' = buffer /\ decoder'.byte = decoder.idx
         /\ decoder'.chr = decoder.chr + 1
         /\ ~Character(buffer, decoder.idx) /\ ~WellFormed(buffer)
         /\ Len(Characters(SubSeq(buffer, 1, decoder.idx))) = decoder.chr
         /\ result' = NULL(0) /\ pc' = "idle"
<1> DEFINE next == utf8_decodeNext(buffer, decoder)
           at == decoder.idx
<1>1. /\ pc = "decode" /\ status = "runs" /\ buffer' = buffer /\ next.chr = UTF8_ERR
      /\ decoder' = next.state /\ result' = NULL(0) /\ pc' = "idle"
  BY DEF DecodeError, At, Return
<1>2. buffer \in Seq(Byte) /\ at \in 0 .. Len(buffer) /\ op = "utf8_readFile" /\ decoder.len = Len(buffer)
  BY <1>1, Told DEF IInv, TypeOK, Calls, Decoding
<1>3. WellFormed(SubSeq(buffer, 1, at)) /\ Len(Characters(SubSeq(buffer, 1, at))) = decoder.chr
  BY <1>1 DEF Parsing, Decoding
<1>4. /\ at < Len(buffer) /\ ~Character(buffer, at)
      /\ next.state.chr = decoder.chr + 1 /\ next.state.byte = at
  BY <1>1, <1>2, NextIs, Zenon
<1>5. WellFormed(buffer) => at = Len(buffer) \/ Character(buffer, at)
  BY <1>2, <1>3, GoesOn, Zenon
<1>6. at # Len(buffer)
  <2>1. Len(buffer) \in Nat
    BY <1>2
  <2> HIDE DEF at
  <2> QED BY ONLY <1>4, <2>1
<1> QED BY ONLY <1>1, <1>2, <1>3, <1>4, <1>5, <1>6, Zenon

\* The counts stay right.
LEMMA CountedStep ==
  ASSUME IInv, IntSized, Counted, Parsing, Library
  PROVE  Counted'
<1>0. /\ Read \/ buffer' = buffer
      /\ Decode \/ DecodeError \/ AllocChars \/ AllocCharsFails \/ decoder' = decoder
  BY LibraryFrame
<1>1. CASE Decode \/ DecodeError
  <2>1. /\ buffer' = buffer /\ decoder'.byte = decoder.idx /\ decoder'.chr = decoder.chr + 1
        /\ Len(Characters(SubSeq(buffer, 1, decoder.idx))) = decoder.chr
    <3>1. CASE Decode
      BY <3>1, Passed DEF Parsing, Decoding
    <3>2. CASE DecodeError
      BY <3>2, Rejected
    <3> QED BY <1>1, <3>1, <3>2
  <2>2. decoder.chr \in Nat
    BY DEF IInv, TypeOK
  <2>3. utf8_atByte(decoder)' = decoder.idx /\ utf8_atCharacter(decoder)' = decoder.chr
    BY ONLY <2>1, <2>2 DEF utf8_atByte, utf8_atCharacter
  <2> QED BY ONLY <2>1, <2>3, Zenon DEF Counted
<1>2. CASE Read /\ decoder' = decoder
  <2>1. buffer = <<>> /\ buffer' \in Seq(Byte)
    <3>1. buffer = <<>> /\ fileLen \in Nat /\ file \in Seq(Byte) /\ fileLen <= Len(file)
      BY <1>2 DEF IInv, Contents, TypeOK, Read, At, ItemThere
    <3>2. buffer' = SubSeq(file, 1, fileLen) /\ fileLen \in 0 .. Len(file)
      BY <1>2, <3>1 DEF Read
    <3> QED BY ONLY <3>1, <3>2
  <2>2. utf8_atByte(decoder) = 0 /\ utf8_atCharacter(decoder) = 0
    BY <2>1, NotMoved DEF IInv
  <2> QED BY ONLY <1>2, <2>1, <2>2, NoPart, Zenon DEF Counted
<1>3. CASE buffer' = buffer /\ decoder' = decoder
  BY ONLY <1>3, Counted, Zenon DEF Counted
<1>4. CASE AllocChars \/ AllocCharsFails
  <2>1. decoder' = decoder \/ decoder' = utf8_decode_init(fileLen)
    BY <1>4 DEF AllocChars, AllocCharsFails, DecodeStarts, work
  <2>2. buffer' = buffer /\ buffer \in Seq(Byte)
    BY <1>4 DEF AllocChars, AllocCharsFails, DecodeStarts, work, IInv, TypeOK
  <2>3. CASE decoder' = utf8_decode_init(fileLen)
    <3>1. utf8_atByte(decoder)' = 0 /\ utf8_atCharacter(decoder)' = 0
      BY <2>3 DEF utf8_decode_init, utf8_atByte, utf8_atCharacter
    <3> QED BY ONLY <2>2, <3>1, NoPart, Zenon DEF Counted
  <2> QED BY <1>3, <2>1, <2>2, <2>3
<1> QED BY <1>0, <1>1, <1>2, <1>3, <1>4

\* The decoder has passed well-formed text only, and has written its characters.
LEMMA ParsingStep ==
  ASSUME IInv, IntSized, Parsing, Library
  PROVE  Parsing'
<1> SUFFICES ASSUME pc' \in Decoding, status' = "runs"
             PROVE  /\ WellFormed(SubSeq(buffer', 1, decoder'.idx))
                    /\ Len(Characters(SubSeq(buffer', 1, decoder'.idx))) = decoder'.chr
                    /\ "utf8_buffer" \in live' \/ pc' = "utf8_malloc" =>
                         chars' = Characters(SubSeq(buffer', 1, decoder'.idx))
                    /\ pc' = "realloc" => decoder'.idx = Len(buffer')
  BY DEF Parsing
<1>0. /\ Read \/ AllocChars \/ AllocCharsFails \/ Decode \/ DecodeEnd
      /\ Decode \/ chars' = chars
  BY LibraryFrame
<1>1. CASE Read
  <2>1. buffer = <<>> /\ buffer' \in Seq(Byte)
    <3>1. buffer = <<>> /\ fileLen \in Nat /\ file \in Seq(Byte) /\ fileLen <= Len(file)
      BY <1>1 DEF IInv, Contents, TypeOK, Read, At, ItemThere
    <3>2. buffer' = SubSeq(file, 1, fileLen) /\ fileLen \in 0 .. Len(file)
      BY <1>1, <3>1 DEF Read
    <3> QED BY ONLY <3>1, <3>2
  <2>2. decoder' = decoder /\ chars' = chars /\ pc' \in {"utf8_malloc", "idle"}
    BY <1>1 DEF Read, Continue, Return
  <2>3. decoder.idx = 0 /\ decoder.chr = 0 /\ chars = <<>>
    BY <2>1, NotMoved DEF IInv
  <2>4. pc' # "realloc"
    BY <2>2
  <2> QED BY ONLY <2>1, <2>2, <2>3, <2>4, NoPart, Zenon
<1>2. CASE AllocChars \/ AllocCharsFails
  <2>1. pc = "utf8_malloc" /\ pc' = "decode" /\ DecodeStarts
    BY <1>2 DEF AllocChars, AllocCharsFails, At, Continue, Stop
  <2>2. buffer' = buffer /\ chars' = chars /\ decoder'.idx = 0 /\ decoder'.chr = 0
    BY <2>1 DEF DecodeStarts, utf8_decode_init
  <2>3. buffer \in Seq(Byte) /\ chars \in Seq(Nat) /\ Len(chars) <= 0
    BY <2>1 DEF IInv, TypeOK, Progress
  <2>4. chars = <<>> /\ pc' # "realloc"
    BY <2>1, <2>3
  <2> QED BY ONLY <2>1, <2>2, <2>3, <2>4, NoPart, Zenon
<1>4. CASE Decode
  BY <1>4, Passed
<1>5. CASE DecodeEnd
  <2>1. /\ pc = "decode" /\ status = "runs" /\ UNCHANGED <<buffer, decoder, chars>> /\ live' = live
        /\ pc' = "realloc" /\ utf8_decodeNext(buffer, decoder).chr = UTF8_END
    BY <1>5 DEF DecodeEnd, At, Continue, Stop, work
  <2>2. decoder.idx = Len(buffer)
    BY <2>1, DecoderMoves, Told
  <2>3. /\ WellFormed(SubSeq(buffer, 1, decoder.idx))
        /\ Len(Characters(SubSeq(buffer, 1, decoder.idx))) = decoder.chr
        /\ "utf8_buffer" \in live => chars = Characters(SubSeq(buffer, 1, decoder.idx))
    BY <2>1 DEF Parsing, Decoding
  <2>4. pc' # "utf8_malloc"
    BY <2>1
  <2> QED BY ONLY <2>1, <2>2, <2>3, <2>4, Zenon
<1> QED BY <1>0, <1>1, <1>2, <1>4, <1>5

\* When the decoder has come to the end it has the text.
LEMMA Ending ==
  ASSUME IInv, Parsing, Shrink
  PROVE  /\ TextRead /\ op = "utf8_readFile" /\ result' = Content(chars)
         /\ buffer' = buffer /\ chars' = chars
<1>1. /\ pc = "realloc" /\ status = "runs" /\ result' = Content(chars)
      /\ buffer' = buffer /\ chars' = chars
  BY DEF Shrink, At, Return, work
<1>2. live = {"buffer", "utf8_buffer"} /\ buffer # <<>> /\ op = "utf8_readFile" /\ buffer \in Seq(Byte)
  BY <1>1 DEF IInv, Holdings, Contents, Calls, Decoding, TypeOK
<1>3. /\ WellFormed(SubSeq(buffer, 1, Len(buffer)))
      /\ chars = Characters(SubSeq(buffer, 1, Len(buffer)))
  BY <1>1, <1>2 DEF Parsing, Decoding
<1>4. SubSeq(buffer, 1, Len(buffer)) = buffer
  BY ONLY <1>2
<1> QED BY ONLY <1>1, <1>2, <1>3, <1>4, Zenon DEF TextRead

\* The program is given the characters of a well-formed text.
LEMMA KeptStep ==
  ASSUME IInv, Parsing, Kept, Library
  PROVE  Kept'
<1> SUFFICES ASSUME op' = "utf8_readFile", owned' = {"utf8_buffer"}
             PROVE  buffer' # <<>> /\ WellFormed(buffer') /\ chars' = Characters(buffer')
  BY DEF Kept, TextRead
<1>0. /\ op = "utf8_readFile"
      /\ Read \/ buffer' = buffer
      /\ Decode \/ chars' = chars
      /\ Read \/ Shrink \/ ShrinkOut \/ owned' = owned
  BY LibraryFrame
<1>1. CASE Read \/ Decode
  <2>1. pc \in {"fread", "decode"} /\ owned' = owned
    BY <1>0, <1>1 DEF Read, Decode, At, Continue, Stop, ends
  <2>2. owned = {}
    BY <1>0, <2>1 DEF IInv, Calls, Readers
  <2> QED BY <2>1, <2>2
<1>2. CASE ShrinkOut
  <2>1. pc = "out_realloc"
    BY <1>2 DEF ShrinkOut, At
  <2> QED BY <1>0, <2>1 DEF IInv, Calls, Encoding
<1>3. CASE Shrink
  BY <1>3, Ending DEF TextRead
<1>4. CASE owned' = owned /\ buffer' = buffer /\ chars' = chars
  BY <1>0, <1>4 DEF Kept, TextRead
<1> QED BY <1>0, <1>1, <1>2, <1>3, <1>4

\* What the encoder is given of a text that was read is characters of it.
LEMMA Given ==
  ASSUME IInv, Encoded, op = "utf8_encode", buffer # <<>>
  PROVE  /\ buffer \in Seq(Byte) /\ WellFormed(buffer) /\ chars = Characters(buffer)
         /\ chars \in Seq(Nat) /\ i \in 0 .. Len(chars)
         /\ \E m \in 0 .. Len(chars) :
              /\ codepoints = SubSeq(chars, 1, m) /\ Len(codepoints) = m
              /\ m = Len(chars) => codepoints = chars
              /\ m # Len(chars) => /\ chars[m + 1] = 0 /\ (\A k \in 1 .. m : chars[k] # 0)
                                   /\ codepoints = BeforeZero(chars)
<1>1. buffer \in Seq(Byte) /\ chars \in Seq(Nat) /\ i \in Nat
  BY DEF IInv, TypeOK
<1>2. TextRead /\ codepoints \in {chars, BeforeZero(chars)} /\ i <= Len(chars)
  <2>1. PICK p \in 0 .. Len(buffer) : Copies(out, buffer, p, chars, i)
    BY DEF Encoded
  <2> QED BY <2>1, Zenon DEF Encoded, Copies
<1>3. i \in 0 .. Len(chars) /\ Len(chars) \in 0 .. Len(chars) /\ Len(chars) \in Nat
  BY ONLY <1>1, <1>2
<1>4. CASE codepoints = chars
  <2>1. SubSeq(chars, 1, Len(chars)) = chars
    BY ONLY <1>1
  <2> QED BY ONLY <1>1, <1>2, <1>3, <1>4, <2>1, Zenon DEF TextRead
<1>5. CASE codepoints = BeforeZero(chars)
  <2>1. PICK m \in 0 .. Len(chars) :
          /\ BeforeZero(chars) = SubSeq(chars, 1, m)
          /\ \A k \in 1 .. m : chars[k] # 0
          /\ m = Len(chars) \/ chars[m + 1] = 0
    BY ONLY <1>1, BeforeZeroCut
  <2>2. /\ Len(SubSeq(chars, 1, m)) = m
        /\ m = Len(chars) => SubSeq(chars, 1, m) = chars
    BY ONLY <1>1, FirstOf, m \in 0 .. Len(chars), ZenonT(40)
  <2> QED BY ONLY <1>1, <1>2, <1>3, <1>5, <2>1, <2>2, m \in 0 .. Len(chars), Zenon DEF TextRead
<1> QED BY <1>2, <1>4, <1>5

\* The next of them is a character.
LEMMA GivenNext ==
  ASSUME IInv, Encoded, op = "utf8_encode", buffer # <<>>, i < Len(codepoints)
  PROVE  /\ i \in 0 .. Len(chars) - 1 /\ codepoints[i + 1] = chars[i + 1]
         /\ IsScalar(chars[i + 1]) /\ chars[i + 1] \in Nat
<1>1. PICK m \in 0 .. Len(chars) : codepoints = SubSeq(chars, 1, m) /\ Len(codepoints) = m
  BY Given
<1>2. chars \in Seq(Nat) /\ i \in Nat /\ Len(chars) \in Nat /\ \A k \in DOMAIN chars : IsScalar(chars[k])
  BY DEF IInv, TypeOK
<1> DEFINE n == i + 1
<1>3. n \in 1 .. m /\ n \in 1 .. Len(chars) /\ i \in 0 .. Len(chars) - 1
  BY ONLY <1>1, <1>2, m \in 0 .. Len(chars), i < Len(codepoints)
<1> HIDE DEF n
<1>4. SubSeq(chars, 1, m)[n] = chars[n]
  BY ONLY <1>2, <1>3, FirstOf, m \in 0 .. Len(chars), ZenonT(40)
<1>5. chars[n] \in Nat /\ n \in DOMAIN chars
  BY ONLY <1>2, <1>3
<1>6. IsScalar(chars[n])
  BY ONLY <1>2, <1>5, Zenon
<1> QED BY ONLY <1>1, <1>3, <1>4, <1>5, <1>6, Zenon DEF n

\* Encoding the text that was read copies it.
LEMMA CopyStep ==
  ASSUME IInv, Encoded, Encode, buffer # <<>>, op = "utf8_encode"
  PROVE  /\ buffer' = buffer /\ chars' = chars
         /\ \E p \in 0 .. Len(buffer) : Copies(out, buffer, p, chars, i)'
<1>1. /\ buffer' = buffer /\ chars' = chars /\ i' = i + 1 /\ i < Len(codepoints)
      /\ out' = out \o utf8_encode_codepoint(codepoints[i + 1])
  BY DEF Encode
<1>2. PICK p \in 0 .. Len(buffer) : Copies(out, buffer, p, chars, i)
  BY DEF Encoded
<1>3. /\ i \in 0 .. Len(chars) - 1 /\ codepoints[i + 1] = chars[i + 1]
      /\ IsScalar(chars[i + 1])
  BY <1>1, GivenNext
<1>4. buffer \in Seq(Byte) /\ WellFormed(buffer) /\ chars = Characters(buffer) /\ chars \in Seq(Nat)
  BY Given, Zenon
<1>5. PICK q \in 0 .. Len(buffer) :
        /\ SubSeq(buffer, 1, p) \o utf8_encode_codepoint(chars[i + 1]) = SubSeq(buffer, 1, q)
        /\ WellFormed(SubSeq(buffer, 1, q))
        /\ Characters(SubSeq(buffer, 1, q)) = SubSeq(chars, 1, i + 1)
        /\ \A k \in 1 .. q : k \in 1 .. p \/ (buffer[k] = 0 => chars[i + 1] = 0)
  <2>1. /\ WellFormed(SubSeq(buffer, 1, p))
        /\ Characters(SubSeq(buffer, 1, p)) = SubSeq(chars, 1, i)
    BY <1>2, Zenon DEF Copies
  <2> QED BY ONLY <1>3, <1>4, <2>1, CopiesOne, p \in 0 .. Len(buffer), Zenon
<1>6. out' = SubSeq(buffer, 1, q)
  BY ONLY <1>1, <1>2, <1>3, <1>5, Zenon DEF Copies
<1>7. i + 1 <= Len(chars) /\ i + 1 \in 1 .. i + 1 /\ \A k \in 1 .. i : k \in 1 .. i + 1
  BY ONLY <1>3, <1>4
<1>8. ASSUME NEW k \in 1 .. q, buffer[k] = 0
      PROVE  \E m \in 1 .. i + 1 : chars[m] = 0
  BY ONLY <1>2, <1>5, <1>7, <1>8, k \in 1 .. q, Zenon DEF Copies
<1>9. Copies(out', buffer', q, chars', i')
  BY ONLY <1>1, <1>5, <1>6, <1>7, <1>8, Zenon DEF Copies
<1> QED BY <1>1, <1>9

\* Encoding code points of the program: the text is well-formed up to the first surrogate
\* and broken from there on.
LEMMA OwnStep ==
  ASSUME IInv, Encoded, Encode, buffer = <<>>, op = "utf8_encode"
  PROVE  /\ buffer' = buffer /\ codepoints' = codepoints
         /\ \A k \in 1 .. i' : IsCodePoint(codepoints[k])
         /\ (\A k \in 1 .. i' : IsScalar(codepoints[k])) => WellFormed(out')
         /\ (\E k \in 1 .. i' : ~IsScalar(codepoints[k])) => Broken(out')
<1> DEFINE r == codepoints[i + 1]
           e == utf8_encode_codepoint(r)
           All(c, n) == \A k \in 1 .. n : IsScalar(c[k])
<1>1. /\ buffer' = buffer /\ codepoints' = codepoints /\ i' = i + 1 /\ i < Len(codepoints)
      /\ out' = out \o e /\ e # <<>>
  BY DEF Encode
<1>2. /\ codepoints \in Seq(Int) /\ i \in Nat /\ out \in Seq(Byte)
      /\ \A k \in 1 .. i : IsCodePoint(codepoints[k])
      /\ All(codepoints, i) => WellFormed(out)
      /\ ~All(codepoints, i) => Broken(out)
  BY DEF IInv, TypeOK, Encoded
<1>3. r \in Int
  <2> DEFINE n == i + 1
  <2>1. n \in 1 .. Len(codepoints)
    BY ONLY <1>1, <1>2
  <2> HIDE DEF n
  <2>2. codepoints[n] \in Int
    BY ONLY <1>2, <2>1
  <2> QED BY ONLY <2>2, Zenon DEF n
<1>4. e \in Seq(Byte) /\ IsCodePoint(r)
  <2> HIDE DEF r
  <2>1. e # <<>>
    BY ONLY <1>1
  <2>2. e \in Seq(Byte) /\ (e = <<>> <=> ~(0 <= r /\ r <= 1114111))
    BY ONLY <1>3, EncodedBytes, SMT
  <2> HIDE DEF e
  <2> QED BY ONLY <1>3, <2>1, <2>2, SMT DEF IsCodePoint
<1>5. \A k \in 1 .. i + 1 : k \in 1 .. i \/ k = i + 1
  BY ONLY <1>2
<1>6. i + 1 \in 1 .. i + 1 /\ \A k \in 1 .. i : k \in 1 .. i + 1
  BY ONLY <1>2
<1>8. \A k \in 1 .. i' : IsCodePoint(codepoints[k])
  BY ONLY <1>1, <1>2, <1>4, <1>5, Zenon
<1>9. All(codepoints, i') <=> All(codepoints, i) /\ IsScalar(r)
  BY ONLY <1>1, <1>5, <1>6, Zenon
<1>10. IsScalar(r) \/ IsSurrogate(r)
  <2> HIDE DEF r
  <2> QED BY ONLY <1>3, <1>4, SMT DEF IsScalar, IsCodePoint, IsSurrogate
<1>11. CASE All(codepoints, i) /\ IsScalar(r)
  <2>1. WellFormed(out) /\ IsScalar(r)
    <3> HIDE DEF All
    <3> QED BY ONLY <1>2, <1>11, Zenon
  <2>2. WellFormed(out \o e)
    <3> HIDE DEF r
    <3> QED BY ONLY <1>2, <1>3, <2>1, EncodedGoesOn, Zenon
  <2> HIDE DEF All, e
  <2> QED BY ONLY <1>1, <1>8, <1>9, <1>11, <2>2, Zenon DEF All
<1>12. CASE All(codepoints, i) /\ ~IsScalar(r)
  <2>1. WellFormed(out) /\ IsSurrogate(r)
    <3> HIDE DEF All, r
    <3> QED BY ONLY <1>2, <1>10, <1>12, Zenon
  <2>2. Broken(out \o e)
    <3> HIDE DEF r
    <3> QED BY ONLY <1>2, <1>3, <2>1, SurrogateBreaks, Zenon
  <2> HIDE DEF All, e
  <2> QED BY ONLY <1>1, <1>8, <1>9, <1>12, <2>2, Zenon DEF All
<1>13. CASE ~All(codepoints, i)
  <2>1. Broken(out)
    <3> HIDE DEF All
    <3> QED BY ONLY <1>2, <1>13, Zenon
  <2> HIDE DEF e
  <2>2. Broken(out \o e)
    BY ONLY <1>2, <1>4, <2>1, BrokenStays, Zenon
  <2> HIDE DEF All
  <2> QED BY ONLY <1>1, <1>8, <1>9, <1>13, <2>2, Zenon DEF All
<1> QED BY <1>11, <1>12, <1>13

\* What the encoder has written stays what it should be.
LEMMA EncodedStep ==
  ASSUME IInv, Encoded, Library
  PROVE  Encoded'
<1> SUFFICES ASSUME op = "utf8_encode"
             PROVE  Encoded'
  BY LibraryFrame DEF Encoded
<1>0. /\ op' = op /\ codepoints' = codepoints
      /\ Read \/ buffer' = buffer
      /\ Decode \/ chars' = chars
      /\ Encode \/ (out' = out /\ i' = i)
      /\ pc' = "out_realloc" => EncodeEnd \/ pc = "out_realloc"
  BY LibraryFrame
<1>1. ~Read /\ ~Decode
  <2>1. pc # "fread" /\ pc # "decode"
    BY DEF IInv, Calls, Decoding, Readers
  <2> QED BY <2>1 DEF Read, Decode, At
<1>2. CASE Encode
  <2>1. pc' # "out_realloc"
    BY <1>2 DEF Encode, Continue
  <2>2. CASE buffer # <<>>
    <3>1. TextRead /\ codepoints \in {chars, BeforeZero(chars)}
      BY <2>2 DEF Encoded
    <3>2. \E p \in 0 .. Len(buffer) : Copies(out', buffer', p, chars', i')
      BY <1>2, <2>2, CopyStep, Zenon
    <3> QED BY ONLY <1>0, <1>1, <2>1, <2>2, <3>1, <3>2, Zenon DEF Encoded, TextRead
  <2>3. CASE buffer = <<>>
    <3>1. /\ \A k \in 1 .. i' : IsCodePoint(codepoints[k])
          /\ (\A k \in 1 .. i' : IsScalar(codepoints[k])) => WellFormed(out')
          /\ (\E k \in 1 .. i' : ~IsScalar(codepoints[k])) => Broken(out')
      BY <1>2, <2>3, OwnStep, Zenon
    <3> QED BY ONLY <1>0, <1>1, <2>1, <2>3, <3>1, Zenon DEF Encoded
  <2> QED BY <2>2, <2>3
<1>3. CASE ~Encode
  <2>1. EncodeEnd => i = Len(codepoints)
    BY DEF EncodeEnd
  <2>2. UNCHANGED <<op, codepoints, buffer, chars, out, i>>
    BY <1>0, <1>1, <1>3
  <2>3. pc' = "out_realloc" => i = Len(codepoints)
    BY <1>0, <2>1 DEF Encoded
  <2> QED BY ONLY <2>2, <2>3, Encoded, Zenon DEF Encoded, TextRead
<1> QED BY <1>2, <1>3

\* The reader accepts a text if it is well-formed.
LEMMA JudgedStep ==
  ASSUME IInv, IntSized, Parsing, Library
  PROVE  Judged'
<1> SUFFICES ASSUME pc' = "idle", failed' = {}, op' = "utf8_readFile"
             PROVE  /\ result'.null <=> ~WellFormed(buffer')
                    /\ result'.null => ~Character(buffer', utf8_atByte(decoder)')
                    /\ ~result'.null => result'.content = Characters(buffer')
  BY DEF Judged, Done, At
<1>0. DecodeError \/ Shrink
  BY LibraryFrame
<1>1. CASE DecodeError
  <2>1. /\ buffer' = buffer /\ decoder'.byte = decoder.idx /\ result' = NULL(0)
        /\ ~Character(buffer, decoder.idx) /\ ~WellFormed(buffer)
    BY <1>1, Rejected
  <2>2. result'.null
    BY <2>1 DEF NULL
  <2>3. utf8_atByte(decoder)' = decoder.idx
    BY <2>1 DEF utf8_atByte
  <2> QED BY ONLY <2>1, <2>2, <2>3, Zenon
<1>2. CASE Shrink
  <2>1. /\ buffer' = buffer /\ result' = Content(chars)
        /\ WellFormed(buffer) /\ chars = Characters(buffer)
    BY <1>2, Ending DEF TextRead
  <2>2. ~result'.null /\ result'.content = chars
    BY <2>1 DEF Content
  <2> QED BY ONLY <2>1, <2>2, Zenon
<1> QED BY <1>0, <1>1, <1>2

\* What was copied when all that was given has been encoded.
LEMMA CopiedAll ==
  ASSUME IInv, Encoded, op = "utf8_encode", buffer # <<>>, i = Len(codepoints)
  PROVE  /\ out \in {buffer, BeforeZero(buffer)}
         /\ codepoints = chars => out = buffer
<1>1. PICK p \in 0 .. Len(buffer) : Copies(out, buffer, p, chars, i)
  BY DEF Encoded
<1>2. /\ buffer \in Seq(Byte) /\ WellFormed(buffer) /\ chars = Characters(buffer)
      /\ chars \in Seq(Nat) /\ i \in 0 .. Len(chars)
  BY Given, Zenon
<1>3. PICK m \in 0 .. Len(chars) :
              /\ codepoints = SubSeq(chars, 1, m) /\ Len(codepoints) = m
              /\ m = Len(chars) => codepoints = chars
              /\ m # Len(chars) => /\ chars[m + 1] = 0 /\ (\A k \in 1 .. m : chars[k] # 0)
                                   /\ codepoints = BeforeZero(chars)
  BY Given, Zenon
<1>4. /\ out = SubSeq(buffer, 1, p) /\ WellFormed(SubSeq(buffer, 1, p))
      /\ Characters(SubSeq(buffer, 1, p)) = SubSeq(chars, 1, i)
      /\ \A k \in 1 .. p : buffer[k] = 0 => \E j \in 1 .. i : chars[j] = 0
  BY <1>1, Zenon DEF Copies
<1>5. /\ i = Len(chars) => p = Len(buffer)
      /\ i < Len(chars) => Character(buffer, p) /\ Decoded(buffer, p) = chars[i + 1]
  BY ONLY <1>2, <1>4, NextCharacter, p \in 0 .. Len(buffer), Zenon
<1>6. p = Len(buffer) => out = buffer
  BY ONLY <1>2, <1>4, FirstOf, p \in 0 .. Len(buffer), ZenonT(40)
<1>7. CASE i = Len(chars)
  BY ONLY <1>5, <1>6, <1>7, Zenon
<1>8. CASE i # Len(chars)
  <2>1. i = m /\ i < Len(chars)
    BY ONLY <1>2, <1>3, <1>8, i = Len(codepoints)
  <2>2. Character(buffer, p) /\ Decoded(buffer, p) = 0 /\ \A k \in 1 .. i : chars[k] # 0
    BY ONLY <1>3, <1>5, <1>8, <2>1, Zenon
  <2>3. p < Len(buffer) /\ p \in Nat /\ p \in 0 .. Len(buffer) - 1
    <3>1. p < Len(buffer)
      BY <1>2, <2>2, Behind
    <3>2. Len(buffer) \in Nat
      BY ONLY <1>2
    <3> QED BY ONLY <3>1, <3>2, p \in 0 .. Len(buffer)
  <2>4. buffer[p + 1] = 0
    <3>1. 1 \in 1 .. Len(utf8_encode_codepoint(0)) /\ utf8_encode_codepoint(0)[1] = 0
      <4>1. utf8_encode_codepoint(0) = <<0>>
        BY DEF utf8_encode_codepoint
      <4> QED BY ONLY <4>1
    <3>2. Decoded(buffer, p) >= 0
      BY ONLY <2>2
    <3>3. \A k \in 1 .. Len(utf8_encode_codepoint(0)) : buffer[p + k] = utf8_encode_codepoint(0)[k]
      BY ONLY <1>2, <2>2, <2>3, <3>2, DecodedEncodes, Zenon
    <3> QED BY ONLY <3>1, <3>3, Zenon
  <2>5. \A k \in 1 .. p : buffer[k] # 0
    BY ONLY <1>4, <2>2, Zenon
  <2>6. BeforeZero(buffer) = SubSeq(buffer, 1, p)
    BY ONLY <1>2, <2>3, <2>4, <2>5, BeforeZeroIs, Zenon
  <2>7. codepoints # chars
    BY ONLY <1>8, i = Len(codepoints)
  <2> QED BY ONLY <1>4, <2>6, <2>7, Zenon
<1> QED BY <1>7, <1>8

\* Encoding what was decoded ends with the bytes.
LEMMA RoundTripStep ==
  ASSUME IInv, Encoded, Library
  PROVE  RoundTrip'
<1> SUFFICES ASSUME pc' = "idle", failed' = {}, op' = "utf8_encode"
             PROVE  RoundTrip'
  BY Zenon DEF RoundTrip, Done, At
<1>0. op = "utf8_encode" /\ (EncodeError \/ ShrinkOut)
  BY LibraryFrame
<1>t. codepoints \in Seq(Int) /\ i \in Nat /\ out \in Seq(Byte)
  BY DEF IInv, TypeOK
<1>1. CASE EncodeError
  <2>1. /\ i < Len(codepoints) /\ utf8_encode_codepoint(codepoints[i + 1]) = <<>>
        /\ UNCHANGED <<buffer, codepoints>> /\ result' = NULL(0)
    BY <1>1 DEF EncodeError, Return, work
  <2> DEFINE n == i + 1
             r == codepoints[n]
  <2>2. n \in 1 .. Len(codepoints)
    BY ONLY <1>t, <2>1
  <2>3. n \in DOMAIN codepoints /\ r \in Int
    <3> HIDE DEF n
    <3> QED BY ONLY <1>t, <2>2
  <2>4. utf8_encode_codepoint(r) = <<>>
    BY <2>1
  <2> HIDE DEF n, r
  <2>5. ~IsCodePoint(r)
    BY ONLY <2>3, <2>4, EncodedBytes, SMT DEF IsCodePoint
  <2>6. buffer = <<>>
    <3> SUFFICES ASSUME buffer # <<>> PROVE FALSE
      OBVIOUS
    <3>1. IsScalar(r)
      BY <1>0, <2>1, GivenNext DEF r, n
    <3> QED BY ONLY <2>3, <2>5, <3>1, SMT DEF IsScalar, IsCodePoint
  <2>7. \E k \in DOMAIN codepoints : ~IsCodePoint(codepoints[k])
    BY ONLY <2>3, <2>5, Zenon DEF r
  <2>8. result'.null
    BY ONLY <2>1 DEF NULL
  <2> QED BY ONLY <2>1, <2>6, <2>7, <2>8, Zenon DEF RoundTrip
<1>2. CASE ShrinkOut
  <2>1. /\ UNCHANGED <<buffer, codepoints, chars, out>> /\ result' = Content(out) /\ pc = "out_realloc"
    BY <1>2 DEF ShrinkOut, At, Return, work
  <2>2. i = Len(codepoints)
    BY <1>0, <2>1 DEF Encoded
  <2>3. ~result'.null /\ result'.content = out
    BY ONLY <2>1 DEF Content
  <2>4. CASE buffer # <<>>
    <3>1. /\ out \in {buffer, BeforeZero(buffer)}
          /\ codepoints = chars => out = buffer
      BY <1>0, <2>2, <2>4, CopiedAll
    <3> QED BY ONLY <2>1, <2>3, <2>4, <3>1, Zenon DEF RoundTrip
  <2>5. CASE buffer = <<>>
    <3>1. /\ \A k \in 1 .. i : IsCodePoint(codepoints[k])
          /\ (\A k \in 1 .. i : IsScalar(codepoints[k])) => WellFormed(out)
          /\ (\E k \in 1 .. i : ~IsScalar(codepoints[k])) => Broken(out)
      BY <1>0, <2>5 DEF Encoded
    <3>2. DOMAIN codepoints = 1 .. i
      BY ONLY <1>t, <2>2
    <3>3. WellFormed(out) <=> \A k \in 1 .. i : IsScalar(codepoints[k])
      BY ONLY <1>t, <3>1, BrokenIsNot, Zenon
    <3> QED BY ONLY <2>1, <2>3, <2>5, <3>1, <3>2, <3>3, Zenon DEF RoundTrip
  <2> QED BY <2>4, <2>5
<1> QED BY <1>0, <1>1, <1>2

\* A reader starts where nothing was read.
LEMMA ReadCallText ==
  ASSUME IInv, TextFacts, NEW reader \in Readers, ReadCall(reader)
  PROVE  TextFacts'
<1>1. /\ op' = reader /\ pc' = "fopen" /\ owned' = owned /\ UNCHANGED work /\ op = "none"
  BY DEF ReadCall, Call
<1>2. reader # "utf8_encode" /\ owned = {}
  BY <1>1 DEF Readers, IInv, Progress
<1>3. Counted'
  BY <1>1 DEF TextFacts, Counted, work
<1>4. Parsing' /\ Judged' /\ RoundTrip'
  BY <1>1 DEF Parsing, Decoding, Judged, RoundTrip, Done, At
<1>5. Kept' /\ Encoded'
  BY <1>1, <1>2 DEF Kept, Encoded
<1> QED BY <1>3, <1>4, <1>5 DEF TextFacts

\* The encoder starts with the text that was read, or with no text.
LEMMA EncodeCallText ==
  ASSUME IInv, TextFacts, EncodeCall
  PROVE  TextFacts'
<1>1. PICK points : EncodeStarts(points) /\ (op = "none" \/ /\ op = "utf8_readFile"
                                                            /\ owned = {"utf8_buffer"}
                                                            /\ points \in {chars, BeforeZero(chars)})
  BY DEF EncodeCall
<1>2. /\ op' = "utf8_encode" /\ pc' = "out_malloc" /\ codepoints' = points
      /\ UNCHANGED <<buffer, decoder, chars, out, i>>
  BY <1>1 DEF EncodeStarts, Call
<1>3. out = <<>> /\ i = 0 /\ buffer \in Seq(Byte) /\ chars \in Seq(Nat)
  BY <1>1 DEF IInv, Progress, TypeOK
<1>4. Counted'
  BY <1>2 DEF TextFacts, Counted
<1>5. Parsing' /\ Judged' /\ RoundTrip' /\ Kept'
  BY <1>2 DEF Parsing, Decoding, Judged, RoundTrip, Kept, Done, At
<1>6. ASSUME buffer # <<>>
      PROVE  /\ TextRead /\ points \in {chars, BeforeZero(chars)}
             /\ \E p \in 0 .. Len(buffer) : Copies(out, buffer, p, chars, i)
  <2>1. op # "none"
    BY <1>6 DEF IInv, Contents
  <2>2. TextRead /\ points \in {chars, BeforeZero(chars)}
    BY <1>1, <2>1 DEF TextFacts, Kept
  <2>3. /\ 0 \in 0 .. Len(buffer) /\ 0 <= Len(chars)
        /\ SubSeq(chars, 1, 0) = <<>> /\ SubSeq(buffer, 1, 0) = <<>>
        /\ \A k \in 1 .. 0 : FALSE
    BY ONLY <1>3
  <2>4. Copies(out, buffer, 0, chars, i)
    BY ONLY <1>3, <2>3, EmptyText, Zenon DEF Copies
  <2> QED BY ONLY <2>2, <2>3, <2>4, Zenon
<1>7. /\ \A k \in 1 .. 0 : FALSE
      /\ pc' # "out_realloc"
  BY ONLY <1>2
<1>8. Encoded'
  BY ONLY <1>2, <1>3, <1>6, <1>7, EmptyText, Zenon DEF Encoded, TextRead
<1> QED BY <1>4, <1>5, <1>8 DEF TextFacts

\* Nothing is said of what was given back.
LEMMA FreeText ==
  ASSUME op' = "none", pc' = "idle", buffer' = <<>>, decoder' = utf8_decode_init(0)
  PROVE  TextFacts'
<1>1. Counted'
  <2>1. SubSeq(<<>>, 1, 0) = <<>> /\ Len(<<>>) = 0
    BY ONLY NoText
  <2>2. utf8_atByte(decoder)' = 0 /\ utf8_atCharacter(decoder)' = 0
    BY DEF utf8_decode_init, utf8_atByte, utf8_atCharacter
  <2>3. <<>> \in Seq(Byte)
    BY NoText
  <2>4. Len(Characters(SubSeq(<<>>, 1, 0))) = 0
    BY ONLY <2>3, NoPart, Zenon
  <2> QED BY ONLY buffer' = <<>>, <2>2, <2>4, Zenon DEF Counted
<1>2. Parsing' /\ Judged' /\ RoundTrip' /\ Kept' /\ Encoded'
  BY DEF Parsing, Decoding, Judged, RoundTrip, Kept, Encoded, Done, At
<1> QED BY <1>1, <1>2 DEF TextFacts

\* What the texts are about stays as it is.
LEMMA TextsStay ==
  ASSUME TextFacts, UNCHANGED <<op, pc, status, work, live, ends, failed>>
  PROVE  TextFacts'
<1>1. UNCHANGED <<op, pc, status, buffer, decoder, chars, codepoints, out, i, live, owned, result, failed>>
  BY DEF work, ends
<1>2. Counted' /\ Parsing' /\ Kept'
  BY <1>1 DEF TextFacts, Counted, Parsing, Kept, TextRead
<1>3. Encoded'
  BY ONLY <1>1, TextFacts, Zenon DEF TextFacts, Encoded, TextRead
<1>4. Judged'
  BY ONLY <1>1, TextFacts, Zenon DEF TextFacts, Judged, Done, At
<1>5. RoundTrip'
  BY ONLY <1>1, TextFacts, Zenon DEF TextFacts, RoundTrip, Done, At, IntSized
<1> QED BY ONLY <1>2, <1>3, <1>4, <1>5, Zenon DEF TextFacts

\* At the start nothing was read.
LEMMA TextInit == Init => TextInv
<1> SUFFICES ASSUME Init PROVE TextFacts
  BY DEF TextInv
<1>1. Counted
  <2>1. utf8_atByte(decoder) = 0 /\ utf8_atCharacter(decoder) = 0 /\ buffer \in Seq(Byte)
    BY NoText DEF Init, utf8_decode_init, utf8_atByte, utf8_atCharacter
  <2> QED BY ONLY <2>1, NoPart, Zenon DEF Counted
<1>2. Parsing /\ Judged /\ RoundTrip /\ Kept /\ Encoded
  BY DEF Init, Parsing, Decoding, Judged, RoundTrip, Kept, Encoded, Done, At
<1> QED BY <1>1, <1>2 DEF TextFacts

\* Every step keeps what is known of texts.
LEMMA TextStep == IInv /\ TextInv /\ [Next]_vars => TextInv'
<1> SUFFICES ASSUME IInv, TextInv, [Next]_vars, IntSized' PROVE TextFacts'
  BY DEF TextInv
<1>a. buffer = <<>> => TextFacts
  BY NoText, IntAssumption DEF TextInv, IntSized
<1>b. buffer' = buffer => IntSized /\ TextFacts
  BY DEF TextInv, IntSized
<1>1. CASE Library
  <2>1. Read => buffer = <<>>
    BY DEF Read, At, IInv, Contents
  <2>2. IntSized /\ TextFacts
    BY <1>a, <1>b, <1>1, <2>1, LibraryFrame, NoText, IntAssumption DEF IntSized
  <2>3. Counted /\ Parsing /\ Kept /\ Encoded
    BY <2>2 DEF TextFacts
  <2> QED BY <1>1, <2>2, <2>3, CountedStep, ParsingStep, KeptStep, EncodedStep, JudgedStep, RoundTripStep
          DEF TextFacts
<1>2. CASE \E reader \in Readers : ReadCall(reader)
  <2>1. buffer' = buffer
    BY <1>2 DEF ReadCall, work
  <2> QED BY <1>b, <1>2, <2>1, ReadCallText
<1>3. CASE Free
  BY <1>3, FreeText DEF Free, At
<1>4. CASE FileChanges
  <2>1. buffer' = buffer
    BY <1>4 DEF FileChanges, work
  <2> QED BY <1>b, <1>4, <2>1, TextsStay DEF FileChanges
<1>5. CASE UNCHANGED vars
  <2>1. buffer' = buffer
    BY <1>5 DEF vars, work
  <2> QED BY <1>b, <1>5, <2>1, TextsStay DEF vars
<1>6. CASE EncodeCall
  <2>1. buffer' = buffer
    BY <1>6 DEF EncodeCall, EncodeStarts
  <2> QED BY <1>b, <1>6, <2>1, EncodeCallText
<1> QED BY <1>1, <1>2, <1>3, <1>4, <1>5, <1>6 DEF Next, Ended

\* What Decodes says follows: of ASCII there is a character per byte, and no character is
\* where none of the ranges match.
LEMMA TextDecodes == IInv /\ TextInv => Decodes
<1> SUFFICES ASSUME IInv, IntSized, TextFacts PROVE Decodes
  BY Zenon DEF TextInv, Decodes
<1> DEFINE at == utf8_atByte(decoder)
           before == SubSeq(buffer, 1, at)
           count == utf8_atCharacter(decoder)
<1>1. buffer \in Seq(Byte) /\ at \in 0 .. Len(buffer)
  BY DEF IInv, TypeOK, utf8_atByte
<1>2. count = Len(Characters(before))
  BY DEF TextFacts, Counted
<1>3. before \in Seq(Byte)
  <2> HIDE DEF at
  <2> QED BY ONLY <1>1, FirstOf, Zenon
<1>4. (\A k \in DOMAIN before : before[k] < 128) => count = Len(before)
  <2> HIDE DEF before, count
  <2> QED BY ONLY <1>2, <1>3, AsciiCount, Zenon
<1>5. Done({"utf8_readFile"}) =>
        /\ result.null <=> ~WellFormed(buffer)
        /\ result.null => ~\E ranges \in WellFormedRanges : Matches(buffer, at, ranges)
        /\ ~result.null => result.content = Characters(buffer)
  BY Zenon DEF TextFacts, Judged, Character
<1> HIDE DEF at
<1> QED BY ONLY <1>2, <1>4, <1>5, Zenon DEF Decodes, at
-------------------------------------------------------------------------
(* The theorems.                                                           *)

\* The inductive invariant holds in every reachable state of the readers of string.h and
\* utf8.h and of the encoder, whatever fails.
THEOREM Invariance == Spec => []IInv
BY InitInvariant, StepInvariant, PTL DEF Spec

\* Every variable keeps its type: lengths are those of the bytes, decoded characters are
\* scalar values (utf8.h:78-125), encoded ones bytes.
THEOREM TypeCorrect == Spec => []TypeOK
<1>1. IInv => TypeOK BY DEF IInv
<1> QED BY <1>1, Invariance, PTL

\* For every file, list of code points and combination of failing calls: what string.h and
\* utf8.h leave open or allocated is exactly what NothingLost lists.
THEOREM LeaksExact == Spec => []NothingLost
<1>1. IInv => NothingLost BY DEF IInv
<1> QED BY <1>1, Invariance, PTL

\* A reader that returns has what was in the file for fread up to the length it had for
\* ftell (string.h:348-379): all of it unless somebody has written to it in between.
THEOREM WholeFileRead == Spec => []ReadsWhole
BY WholeFile, Invariance, PTL

\* No write is outside its block, for texts of any length (utf8.h:165, 251), but for the
\* one through the result of a malloc that failed.
THEOREM WritesFit == Spec => []BuffersFit
BY Fits, Invariance, PTL

\* What the decoder and the encoder make of a text, in every reachable state.
THEOREM TextInvariance == Spec => []TextInv
BY Invariance, InitInvariant, TextInit, StepInvariant, TextStep, PTL DEF Spec

\* For every file whose length fits into an int and every combination of failing calls
\* utf8_readFile (utf8.h:215) accepts exactly the well-formed texts of the Unicode standard and returns their
\* characters; utf8_atByte and utf8_atCharacter (utf8.h:62-71) tell where and after how
\* many characters the decoder is, and where it gave up no character begins.
THEOREM DecoderCorrect == Spec => []Decodes
BY Invariance, TextInvariance, TextDecodes, PTL

\* Of every text whose length fits into an int utf8_encode gives back the bytes that were decoded, utf8_encode_len those
\* before the first NUL; code points of the program (utf8.h:134-155) become well-formed
\* text unless one of them is a surrogate.
THEOREM RoundTrips == Spec => []RoundTrip
<1>1. TextInv => RoundTrip
  BY Zenon DEF TextInv, TextFacts, RoundTrip
<1> QED BY <1>1, TextInvariance, PTL
=========================================================================
