------------------------------ MODULE CStrings ------------------------------
(* The functions of string.h on char *.  Such an argument is an array that     *)
(* ends with NUL, possibly not its first; s[k + 1] is the char at index k.     *)
EXTENDS Integers, SequencesExt

NUL == 0
NotFound == -1

\* The argument str + k.
From(str, k) == SubSeq(str, k + 1, Len(str))

apaz_strlen(str) ==
  LET len[k \in 0 .. Len(str) - 1] == IF str[k + 1] = NUL THEN k ELSE len[k + 1] IN len[0]

\* The index at which equals and strcmp stop.
Differ(str, seq) ==
  LET at[k \in 0 .. Len(str) - 1] ==
        IF str[k + 1] # NUL /\ str[k + 1] = seq[k + 1] THEN at[k + 1] ELSE k
  IN  at[0]

apaz_str_equals(str, seq) ==
  LET k == Differ(str, seq) IN str[k + 1] = seq[k + 1]

\* Variant: stops only where the texts differ or the second one ends.
apaz_strcmp_Sorted(s1, s2) ==
  LET k == Differ(s1, s2) IN IF s2[k + 1] = NUL THEN 0 ELSE s1[k + 1] - s2[k + 1]

apaz_strcmp(s1, s2) ==
  LET k == Differ(s1, s2) IN s1[k + 1] - s2[k + 1]

apaz_str_startsWith(str, prefix) ==
  LET rest[k \in 0 .. Len(prefix) - 1] ==
        \/ prefix[k + 1] = NUL
        \/ prefix[k + 1] = str[k + 1] /\ rest[k + 1]
  IN  prefix[1] # NUL /\ str[1] # NUL /\ rest[0]

\* The index of the first match.
apaz_strstr(str, subseq) ==
  LET search[k \in 0 .. Len(str) - 1] ==
        IF str[k + 1] = NUL THEN NotFound
        ELSE IF apaz_str_startsWith(From(str, k), subseq) THEN k
        ELSE search[k + 1]
  IN  search[0]

apaz_str_contains(str, subseq) == apaz_strstr(str, subseq) # NotFound
-------------------------------------------------------------------------
(* Reference: the text of an array is what stands before its first NUL.      *)

Text(str) == SubSeq(str, 1, SelectInSeq(str, LAMBDA c : c = NUL) - 1)

CString(text) == Append(text, NUL)

\* Is s before t in the order of a dictionary?
Before(s, t) ==
  \/ IsStrictPrefix(s, t)
  \/ \E k \in 1 .. Len(s) : k <= Len(t) /\ s[k] < t[k] /\ SubSeq(s, 1, k - 1) = SubSeq(t, 1, k - 1)

\* Does sub stand in s behind the first k elements?
OccursAt(s, sub, k) == k + Len(sub) <= Len(s) /\ SubSeq(s, k + 1, k + Len(sub)) = sub
=========================================================================
