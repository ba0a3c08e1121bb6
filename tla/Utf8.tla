------------------------------- MODULE Utf8 -------------------------------
(* The codec of utf8.h.  A text is a sequence of bytes; as in the code, an   *)
(* index counts from zero, so inp[idx + 1] is the byte at idx.               *)
EXTENDS Integers, Sequences

CONSTANT IntMax     \* the largest int: 2^31 - 1

ASSUME IntAssumption == IntMax \in Nat

UTF8_END == -1
UTF8_ERR == -2

Byte == 0 .. 255

\* The byte at idx, or UTF8_END behind the last one.
_utf8_cont_8(inp, idx) == IF idx < Len(inp) THEN inp[idx + 1] ELSE UTF8_END

\* The payload of a continuation byte; UTF8_END is not one either.
_utf8_cont_6(inp, idx) ==
  LET c == _utf8_cont_8(inp, idx) IN IF c \in 128 .. 191 THEN c % 64 ELSE UTF8_ERR

\* How many continuation bytes the first byte announces.
Announced(c) ==
  CASE 192 <= c /\ c <= 223 -> 1
    [] 224 <= c /\ c <= 239 -> 2
    [] 240 <= c /\ c <= 247 -> 3
    [] OTHER -> 0

\* Variant: longer forms than necessary are accepted.
Accepts_Overlong(n, r) ==
  IF n = 2 THEN 0 <= r /\ r <= 65535 /\ (r < 55296 \/ r > 57343) ELSE 0 <= r /\ r <= 1114111

\* The results that are accepted from n continuation bytes.
Accepts(n, r) ==
  \/ n = 0 /\ 0 <= r /\ r <= 127
  \/ n = 1 /\ 128 <= r /\ r <= 2047
  \/ n = 2 /\ 2048 <= r /\ r <= 65535 /\ (r < 55296 \/ r > 57343)
  \/ n = 3 /\ 65536 <= r /\ r <= 1114111

\* Variant: the bytes that are tried may lie behind the text.
Tried_Unbounded(inp, idx, n) == idx + 1 + n

\* The index behind a first byte and the n bytes that were tried after it.
Tried(inp, idx, n) == IF idx + 1 + n <= Len(inp) THEN idx + 1 + n ELSE Len(inp)

\* What an int holds of the length n: one that does not fit wraps around.
AsInt(n) ==
  IF n <= IntMax THEN n ELSE ((n + IntMax + 1) % (2 * IntMax + 2)) - (IntMax + 1)

\* The decoder of a text of n bytes: idx is where it reads on, len where it ends; byte
\* and chr tell where the last character began and how many there were.
utf8_decode_init(n) == [idx |-> 0, len |-> AsInt(n), chr |-> 0, byte |-> 0]

utf8_atByte(state) == state.byte
utf8_atCharacter(state) == IF state.chr > 0 THEN state.chr - 1 ELSE 0

\* The code point that the bytes from idx on encode, or UTF8_ERR.
Decoded(inp, idx) ==
  LET c == _utf8_cont_8(inp, idx)
      n == Announced(c)
      payload == [k \in 1 .. 3 |-> _utf8_cont_6(inp, idx + k)]
      r == CASE n = 0 -> c
             [] n = 1 -> (c % 32) * 64 + payload[1]
             [] n = 2 -> (c % 16) * 4096 + payload[1] * 64 + payload[2]
             [] n = 3 -> (c % 8) * 262144 + payload[1] * 4096 + payload[2] * 64 + payload[3]
  IN  IF Accepts(n, r) /\ \A k \in 1 .. n : payload[k] >= 0 THEN r ELSE UTF8_ERR

\* The next code point and the decoder behind it.  After an error the bytes that were
\* tried are skipped.
utf8_decodeNext(str, state) ==
  LET inp == SubSeq(str, 1, state.len)
  IN  IF state.idx >= state.len
      THEN [chr |-> IF state.idx = state.len THEN UTF8_END ELSE UTF8_ERR, state |-> state]
      ELSE [chr |-> Decoded(inp, state.idx),
            state |-> [idx |-> Tried(inp, state.idx, Announced(inp[state.idx + 1])),
                       len |-> state.len, chr |-> state.chr + 1, byte |-> state.idx]]

\* Variant: the payload of a continuation byte loses its highest bit.
Continuation_Narrow(bits) == 128 + (bits % 32)

\* A continuation byte holds the lowest six bits.
Continuation(bits) == 128 + (bits % 64)

\* The bytes of a code point, none for what is not one: a negative utf8_t becomes
\* a uint32_t above all of them.  Surrogates are encoded like any other.
utf8_encode_codepoint(codepoint) ==
  CASE 0 <= codepoint /\ codepoint <= 127 -> <<codepoint>>
    [] 128 <= codepoint /\ codepoint <= 2047 ->
         <<192 + (codepoint \div 64), Continuation(codepoint)>>
    [] 2048 <= codepoint /\ codepoint <= 65535 ->
         <<224 + (codepoint \div 4096), Continuation(codepoint \div 64), Continuation(codepoint)>>
    [] 65536 <= codepoint /\ codepoint <= 1114111 ->
         <<240 + (codepoint \div 262144), Continuation(codepoint \div 4096),
           Continuation(codepoint \div 64), Continuation(codepoint)>>
    [] OTHER -> <<>>
-------------------------------------------------------------------------
(* Reference: the well-formed byte sequences of the Unicode standard, by the *)
(* ranges of their bytes.                                                    *)

IsCodePoint(n) == 0 <= n /\ n <= 1114111

\* A code point that is no surrogate.
IsScalar(n) == 0 <= n /\ n <= 1114111 /\ (n < 55296 \/ n > 57343)

Cont == 128 .. 191

WellFormedRanges ==
  { << 0 .. 127 >>,
    << 194 .. 223, Cont >>,
    << {224}, 160 .. 191, Cont >>,
    << 225 .. 236, Cont, Cont >>,
    << {237}, 128 .. 159, Cont >>,
    << 238 .. 239, Cont, Cont >>,
    << {240}, 144 .. 191, Cont, Cont >>,
    << 241 .. 243, Cont, Cont, Cont >>,
    << {244}, 128 .. 143, Cont, Cont >> }

\* Do the bytes from idx on begin with a sequence of these ranges?
Matches(inp, idx, ranges) ==
  /\ idx + Len(ranges) <= Len(inp)
  /\ \A k \in DOMAIN ranges : inp[idx + k] \in ranges[k]

\* The lengths of the well-formed text inp: does it fall into such sequences from
\* each of its indexes on?
WellFormedFrom(inp) ==
  LET ok[i \in 0 .. Len(inp)] ==
        \/ i = Len(inp)
        \/ \E ranges \in WellFormedRanges :
             Matches(inp, i, ranges) /\ ok[i + Len(ranges)]
  IN  ok

WellFormed(inp) == WellFormedFrom(inp)[0]

\* The number that a well-formed sequence stands for: the payload bits of its bytes.
Weight(bytes) ==
  CASE Len(bytes) = 1 -> bytes[1]
    [] Len(bytes) = 2 -> (bytes[1] - 192) * 64 + (bytes[2] - 128)
    [] Len(bytes) = 3 -> (bytes[1] - 224) * 4096 + (bytes[2] - 128) * 64 + (bytes[3] - 128)
    [] Len(bytes) = 4 -> (bytes[1] - 240) * 262144 + (bytes[2] - 128) * 4096
                         + (bytes[3] - 128) * 64 + (bytes[4] - 128)

\* The code points of a text as far as it is well-formed.
Characters(inp) ==
  LET from[i \in 0 .. Len(inp)] ==
        IF \E ranges \in WellFormedRanges : Matches(inp, i, ranges)
        THEN LET n == Len(CHOOSE ranges \in WellFormedRanges : Matches(inp, i, ranges))
             IN  <<Weight(SubSeq(inp, i + 1, i + n))>> \o from[i + n]
        ELSE <<>>
  IN  from[0]
=========================================================================
