---------------------------- MODULE MCTextProgram ----------------------------
(* Files, code points and arrays of chars for TLC.                             *)
EXTENDS TextProgram

\* The ends of the ranges that the code and the Unicode standard tell apart.
Ascii == {0, 127}
Trail == {128, 143, 144, 159, 160, 191}
Lead2 == {192, 193, 194, 223}
Lead3 == {224, 225, 236, 237, 238, 239}
Lead4 == {240, 241, 243, 244, 245, 247}
Other == {248, 255}

AllBytes == Ascii \cup Trail \cup Lead2 \cup Lead3 \cup Lead4 \cup Other

\* Any two bytes of them, lead bytes with what may follow, complete or broken off, and
\* texts of several characters; those of 7 and 16 bytes may get one more.
MCFiles ==
  {<<>>} \cup {<<a>> : a \in AllBytes}
  \cup {<<a, b>> : a \in AllBytes, b \in {0, 127, 128, 191, 192, 223, 224, 255}}
  \cup {<<a, b, c>> : a \in Lead3, b \in Trail \cup {127, 192}, c \in {127, 128, 191}}
  \cup {<<a, b, c>> : a \in {240, 244}, b \in {143, 144}, c \in {128, 255}}
  \cup {<<a, b, c, d>> : a \in Lead4, b \in Trail \cup {127}, c \in {128, 194}, d \in {127, 191}}
  \cup {<<97, 195, 169, 0, 98>>, <<226, 130, 172, 97>>, <<97, 226, 130>>, <<240, 159, 152, 128, 33>>,
        <<97, 98, 255, 99>>, <<97>>, <<97, 32, 97>>}
  \cup {[k \in 1 .. n |-> 97] : n \in {7, 16}}

Numbers == {-1, 0, 97, 127, 128, 2047, 2048, 55295, 55296, 57343, 57344, 65535, 65536, 1114111, 1114112}

MCPoints == {<<>>} \cup {<<a>> : a \in Numbers} \cup {<<a, b>> : a \in Numbers, b \in Numbers}

\* Letters and blanks: a word, a delimiter, what is split at it, and nothing.
MCArrays == {<<0>>, <<97, 0>>, <<32, 0>>, <<32, 32, 0>>, <<97, 32, 97, 0>>}
=========================================================================
