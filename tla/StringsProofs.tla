--------------------------- MODULE StringsProofs ---------------------------
(* Strings for all arrays of chars and all bounds: what the loops of string.h  *)
(* compute, that each block is what it says, and who owns it.                  *)
EXTENDS Strings, SequenceTheorems, Loops

-------------------------------------------------------------------------
(* The loops of string.h on char *.                                        *)

\* The chars of a block.
Char == 0 .. 127 \cup {Unset}

\* An array of chars that ends with NUL.
Terminated(str) == str \in Seq(Char) /\ Len(str) > 0 /\ str[Len(str)] = NUL

\* The loop of strlen.
StrlenLoop(f, str) ==
  f = [k \in 0 .. Len(str) - 1 |-> IF str[k + 1] = NUL THEN k ELSE f[k + 1]]

\* strlen is what a solution of it has at 0.
LEMMA StrlenRounds ==
  ASSUME NEW str, \E f : StrlenLoop(f, str)
  PROVE  \E f : StrlenLoop(f, str) /\ apaz_strlen(str) = f[0]
  BY Zenon DEF StrlenLoop, apaz_strlen

\* There is a solution: the loop ends at the last NUL.
LEMMA StrlenRuns ==
  ASSUME NEW str, Terminated(str)
  PROVE  \E f : StrlenLoop(f, str)
<1> DEFINE n == Len(str) - 1
<1> DEFINE X == Nat
<1> DEFINE Value(k, g) == IF str[k + 1] = NUL THEN k ELSE g[k + 1]
<1> DEFINE step == [k \in 0 .. n |-> [g \in [0 .. n -> X] |-> Value(k, g)]]
<1>1. n \in Nat /\ str[n + 1] = NUL
  BY DEF Terminated
<1> HIDE DEF n
<1>2. ASSUME NEW k \in 0 .. n, NEW g \in [0 .. n -> X]
      PROVE  Value(k, g) \in X
  BY <1>1
<1>3. ASSUME NEW k \in 0 .. n, NEW g, NEW h, \A j \in k + 1 .. n : g[j] = h[j]
      PROVE  Value(k, g) = Value(k, h)
  BY <1>1, <1>3
<1>4. Local(step, n, X)
  <2>1. step \in [0 .. n -> [[0 .. n -> X] -> X]]
    <3> HIDE DEF Value
    <3> QED BY <1>2
  <2>2. \A k \in 0 .. n : \A g \in [0 .. n -> X] : step[k][g] = Value(k, g)
    <3> HIDE DEF Value
    <3> QED OBVIOUS
  <2>3. \A k \in 0 .. n : \A g, h \in [0 .. n -> X] :
          (\A j \in k + 1 .. n : g[j] = h[j]) => step[k][g] = step[k][h]
    <3> TAKE k \in 0 .. n
    <3> TAKE g, h \in [0 .. n -> X]
    <3> HAVE \A j \in k + 1 .. n : g[j] = h[j]
    <3>1. Value(k, g) = Value(k, h)
      BY <1>3
    <3> HIDE DEF step, Value
    <3> QED BY <2>2, <3>1
  <2> HIDE DEF step
  <2> QED BY <2>1, <2>3 DEF Local
<1>5. PICK f : Solves(f, step, n, X)
  <2> HIDE DEF step
  <2>1. 0 \in X
    OBVIOUS
  <2> HIDE DEF X
  <2> QED BY <1>1, <1>4, <2>1, Solution
<1>6. f = [k \in 0 .. n |-> Value(k, f)]
  <2>1. \A k \in 0 .. n : f[k] = Value(k, f)
    <3> HIDE DEF Value, X
    <3> QED BY <1>5 DEF Solves
  <2>2. f = [k \in 0 .. n |-> f[k]]
    BY <1>5 DEF Solves
  <2> HIDE DEF Value, X
  <2> QED BY <2>1, <2>2
<1>7. StrlenLoop(f, str)
  BY <1>6, Zenon DEF StrlenLoop, n
<1> QED BY <1>7

\* strlen counts the chars before the first NUL.
LEMMA StrlenIs ==
  ASSUME NEW str, Terminated(str)
  PROVE  /\ apaz_strlen(str) \in 0 .. Len(str) - 1 /\ apaz_strlen(str) \in Nat
         /\ str[apaz_strlen(str) + 1] = NUL
         /\ \A j \in 1 .. apaz_strlen(str) : str[j] # NUL
<1> DEFINE n == Len(str) - 1
<1>1. n \in Nat /\ str[n + 1] = NUL
  BY DEF Terminated
<1>2. PICK f : StrlenLoop(f, str) /\ apaz_strlen(str) = f[0]
  BY StrlenRuns, StrlenRounds
<1>3. \A k \in 0 .. n : f[k] = IF str[k + 1] = NUL THEN k ELSE f[k + 1]
  BY <1>2 DEF StrlenLoop
<1> HIDE DEF n
<1> DEFINE S == {k \in 0 .. n : /\ f[k] \in k .. n /\ str[f[k] + 1] = NUL
                                /\ \A j \in k + 1 .. f[k] : str[j] # NUL}
<1>4. ASSUME NEW k \in 0 .. n, \A j \in k + 1 .. n : j \in S
      PROVE  k \in S
  <2>1. CASE str[k + 1] = NUL
    BY <1>3, <2>1
  <2>2. CASE str[k + 1] # NUL
    <3>1. k + 1 \in S /\ f[k] = f[k + 1]
      <4>1. k + 1 \in k + 1 .. n
        BY <1>1, <2>2
      <4> HIDE DEF S
      <4> QED BY <1>3, <1>4, <2>2, <4>1
    <3>2. \A j \in k + 1 .. f[k] : str[j] # NUL
      BY <2>2, <3>1
    <3> QED BY <3>1, <3>2
  <2> QED BY <2>1, <2>2
<1>5. 0 \in S
  <2> HIDE DEF S
  <2>1. \A k \in 0 .. n : k \in S
    BY <1>1, <1>4, Downward
  <2> QED BY <1>1, <2>1
<1> QED BY <1>2, <1>5 DEF n

\* What is left of an array behind its first k chars.
LEMMA FromIs ==
  ASSUME NEW str, Terminated(str), NEW k \in 0 .. Len(str) - 1
  PROVE  /\ Terminated(From(str, k)) /\ Len(From(str, k)) = Len(str) - k
         /\ \A j \in 1 .. Len(str) - k : From(str, k)[j] = str[j + k]
<1>1. str \in Seq(Char) /\ Len(str) \in Nat /\ str[Len(str)] = NUL
  BY DEF Terminated
<1>2. From(str, k) \in Seq(Char) /\ Len(From(str, k)) = Len(str) - k
  BY <1>1 DEF From
<1>3. \A j \in 1 .. Len(str) - k : From(str, k)[j] = str[j + k]
  BY <1>1 DEF From
<1>4. Len(str) - k \in 1 .. Len(str) - k
  BY <1>1
<1>5. From(str, k)[Len(str) - k] = NUL
  BY <1>1, <1>3, <1>4
<1> QED BY <1>1, <1>2, <1>3, <1>4, <1>5 DEF Terminated

\* The loop of startsWith.
StartsLoop(f, str, prefix) ==
  f = [k \in 0 .. Len(prefix) - 1 |->
        \/ prefix[k + 1] = NUL
        \/ prefix[k + 1] = str[k + 1] /\ f[k + 1]]

\* startsWith asks a solution of it at 0.
LEMMA StartsRounds ==
  ASSUME NEW str, NEW prefix, \E f : StartsLoop(f, str, prefix)
  PROVE  \E f : /\ StartsLoop(f, str, prefix)
                /\ apaz_str_startsWith(str, prefix) <=> (prefix[1] # NUL /\ str[1] # NUL /\ f[0])
  BY Zenon DEF StartsLoop, apaz_str_startsWith

\* There is a solution: the loop ends with the prefix.
LEMMA StartsRuns ==
  ASSUME NEW str, NEW prefix, Terminated(prefix)
  PROVE  \E f : /\ StartsLoop(f, str, prefix)
                /\ f \in [0 .. Len(prefix) - 1 -> BOOLEAN]
<1> DEFINE n == Len(prefix) - 1
<1> DEFINE X == BOOLEAN
<1> DEFINE Value(k, g) == prefix[k + 1] = NUL \/ (prefix[k + 1] = str[k + 1] /\ g[k + 1])
<1> DEFINE step == [k \in 0 .. n |-> [g \in [0 .. n -> X] |-> Value(k, g)]]
<1>1. n \in Nat /\ prefix[n + 1] = NUL
  BY DEF Terminated
<1> HIDE DEF n
<1>2. ASSUME NEW k \in 0 .. n, NEW g \in [0 .. n -> X]
      PROVE  Value(k, g) \in X
  OBVIOUS
<1>3. ASSUME NEW k \in 0 .. n, NEW g, NEW h, \A j \in k + 1 .. n : g[j] = h[j]
      PROVE  Value(k, g) = Value(k, h)
  <2>1. CASE k = n
    BY <1>1, <2>1
  <2>2. CASE k # n
    <3>1. k + 1 \in k + 1 .. n
      BY <1>1, <2>2
    <3>2. g[k + 1] = h[k + 1]
      BY <1>3, <3>1
    <3> QED BY <3>2
  <2> QED BY <2>1, <2>2
<1>4. Local(step, n, X)
  <2>1. step \in [0 .. n -> [[0 .. n -> X] -> X]]
    <3> HIDE DEF Value, X
    <3> QED BY <1>2
  <2>2. \A k \in 0 .. n : \A g \in [0 .. n -> X] : step[k][g] = Value(k, g)
    <3> HIDE DEF Value
    <3> QED BY Zenon
  <2>3. \A k \in 0 .. n : \A g, h \in [0 .. n -> X] :
          (\A j \in k + 1 .. n : g[j] = h[j]) => step[k][g] = step[k][h]
    <3> TAKE k \in 0 .. n
    <3> TAKE g, h \in [0 .. n -> X]
    <3> HAVE \A j \in k + 1 .. n : g[j] = h[j]
    <3>1. Value(k, g) = Value(k, h)
      BY <1>3
    <3> HIDE DEF step, Value
    <3> QED BY <2>2, <3>1
  <2> HIDE DEF step
  <2> QED BY <2>1, <2>3 DEF Local
<1>5. PICK f : Solves(f, step, n, X)
  <2> HIDE DEF step
  <2>1. TRUE \in X
    OBVIOUS
  <2> HIDE DEF X
  <2> QED BY <1>1, <1>4, <2>1, Solution
<1>6. f = [k \in 0 .. n |-> Value(k, f)]
  <2>1. \A k \in 0 .. n : f[k] = Value(k, f)
    <3>1. f \in [0 .. n -> X] /\ \A k \in 0 .. n : f[k] = step[k][f]
      <4> HIDE DEF step, X
      <4> QED BY <1>5 DEF Solves
    <3> HIDE DEF Value, X
    <3> QED BY <3>1, Zenon
  <2>2. f = [k \in 0 .. n |-> f[k]]
    BY <1>5 DEF Solves
  <2> HIDE DEF Value, X
  <2> QED BY <2>1, <2>2, Zenon
<1>7. StartsLoop(f, str, prefix)
  BY <1>6, Zenon DEF StartsLoop, n
<1>8. f \in [0 .. n -> BOOLEAN]
  BY <1>5 DEF Solves
<1> QED BY <1>7, <1>8 DEF n

\* The prefix stands at the beginning of the text, and is not empty.
LEMMA StartsWithIs ==
  ASSUME NEW str, Terminated(str), NEW prefix, Terminated(prefix)
  PROVE  apaz_str_startsWith(str, prefix) <=>
           /\ apaz_strlen(prefix) > 0 /\ apaz_strlen(prefix) <= apaz_strlen(str)
           /\ \A j \in 1 .. apaz_strlen(prefix) : prefix[j] = str[j]
<1> DEFINE m == apaz_strlen(prefix)
<1> DEFINE l == apaz_strlen(str)
<1> DEFINE n == Len(prefix) - 1
<1>1. /\ n \in Nat /\ m \in 0 .. n /\ m \in Nat
      /\ prefix[m + 1] = NUL /\ \A j \in 1 .. m : prefix[j] # NUL
      /\ l \in Nat /\ str[l + 1] = NUL /\ \A j \in 1 .. l : str[j] # NUL
  BY StrlenIs DEF Terminated
<1>2. PICK f : /\ StartsLoop(f, str, prefix)
               /\ apaz_str_startsWith(str, prefix) <=> (prefix[1] # NUL /\ str[1] # NUL /\ f[0])
  BY StartsRuns, StartsRounds
<1>3. \A k \in 0 .. n : f[k] = (prefix[k + 1] = NUL \/ (prefix[k + 1] = str[k + 1] /\ f[k + 1]))
  BY <1>2, Zenon DEF StartsLoop
<1> HIDE DEF m, l, n
<1> DEFINE Rest(k) == \A j \in k + 1 .. m : prefix[j] = str[j]
<1> DEFINE S == {k \in 0 .. m : f[k] <=> Rest(k)}
<1>4. ASSUME NEW k \in 0 .. m, \A j \in k + 1 .. m : j \in S
      PROVE  k \in S
  <2>0. f[k] <=> (prefix[k + 1] = NUL \/ (prefix[k + 1] = str[k + 1] /\ f[k + 1]))
    <3>1. k \in 0 .. n
      BY <1>1
    <3> QED BY <1>3, <3>1, Zenon
  <2>1. CASE k = m
    <3>1. f[k]
      <4>1. prefix[k + 1] = NUL
        BY <1>1, <2>1
      <4> QED BY <2>0, <4>1, Zenon
    <3>2. Rest(k)
      BY <1>1, <2>1
    <3> QED BY <3>1, <3>2
  <2>2. CASE k # m
    <3>1. k + 1 \in k + 1 .. m /\ k + 1 \in 1 .. m
      BY <1>1, <2>2
    <3>2. prefix[k + 1] # NUL
      BY <1>1, <3>1
    <3>3. f[k + 1] <=> Rest(k + 1)
      <4>1. k + 1 \in S
        BY <1>4, <3>1
      <4> HIDE DEF Rest
      <4> QED BY <4>1
    <3>4. f[k] <=> (prefix[k + 1] = str[k + 1] /\ Rest(k + 1))
      <4> HIDE DEF Rest
      <4> QED BY <2>0, <3>2, <3>3, Zenon
    <3>5. Rest(k) <=> (prefix[k + 1] = str[k + 1] /\ Rest(k + 1))
      <4>1. \A j \in k + 1 .. m : j = k + 1 \/ j \in (k + 1) + 1 .. m
        BY <1>1
      <4>2. \A j \in (k + 1) + 1 .. m : j \in k + 1 .. m
        BY <1>1
      <4> QED BY <3>1, <4>1, <4>2
    <3>6. f[k] <=> Rest(k)
      <4> HIDE DEF Rest
      <4> QED BY <3>4, <3>5, Zenon
    <3> HIDE DEF Rest
    <3> QED BY <3>6
  <2> QED BY <2>1, <2>2
<1>5. f[0] <=> Rest(0)
  <2>1. \A k \in 0 .. m : k \in S
    <3> HIDE DEF S
    <3> QED BY <1>1, <1>4, Downward
  <2>2. 0 \in S
    <3> HIDE DEF S
    <3> QED BY <1>1, <2>1
  <2> HIDE DEF Rest
  <2> QED BY <2>2
<1>6. f[0] <=> \A j \in 1 .. m : prefix[j] = str[j]
  <2>1. Rest(0) <=> \A j \in 1 .. m : prefix[j] = str[j]
    OBVIOUS
  <2> HIDE DEF Rest
  <2> QED BY <1>5, <2>1, Zenon
<1>7. ASSUME \A j \in 1 .. m : prefix[j] = str[j]
      PROVE  prefix[1] # NUL /\ str[1] # NUL <=> m > 0 /\ m <= l
  <2>1. CASE m = 0
    BY <1>1, <2>1
  <2>2. CASE m > 0
    <3>1. prefix[1] # NUL /\ str[1] # NUL
      BY <1>1, <1>7, <2>2
    <3>2. m <= l
      <4> SUFFICES ASSUME l < m PROVE FALSE
        BY <1>1
      <4>1. l + 1 \in 1 .. m
        BY <1>1
      <4> QED BY <1>1, <1>7, <4>1
    <3> QED BY <2>2, <3>1, <3>2
  <2> QED BY <1>1, <2>1, <2>2
<1>8. apaz_str_startsWith(str, prefix) <=> m > 0 /\ m <= l /\ \A j \in 1 .. m : prefix[j] = str[j]
  BY <1>2, <1>6, <1>7, Zenon
<1> QED BY <1>8 DEF m, l

\* The loop of strstr.
SearchLoop(f, str, subseq) ==
  f = [k \in 0 .. Len(str) - 1 |->
        IF str[k + 1] = NUL THEN NotFound
        ELSE IF apaz_str_startsWith(From(str, k), subseq) THEN k
        ELSE f[k + 1]]

\* strstr is what a solution of it has at 0.
LEMMA SearchRounds ==
  ASSUME NEW str, NEW subseq, \E f : SearchLoop(f, str, subseq)
  PROVE  \E f : SearchLoop(f, str, subseq) /\ apaz_strstr(str, subseq) = f[0]
  BY Zenon DEF SearchLoop, apaz_strstr

\* There is a solution: the loop ends with the text.
LEMMA SearchRuns ==
  ASSUME NEW str, Terminated(str), NEW subseq
  PROVE  \E f : SearchLoop(f, str, subseq)
<1> DEFINE n == Len(str) - 1
<1> DEFINE X == Int
<1> DEFINE Here(k) == apaz_str_startsWith(From(str, k), subseq)
<1> DEFINE Value(k, g) == IF str[k + 1] = NUL THEN NotFound ELSE IF Here(k) THEN k ELSE g[k + 1]
<1> DEFINE step == [k \in 0 .. n |-> [g \in [0 .. n -> X] |-> Value(k, g)]]
<1>1. n \in Nat /\ str[n + 1] = NUL /\ NotFound \in X
  BY DEF Terminated, NotFound
<1> HIDE DEF n, Here
<1>2. ASSUME NEW k \in 0 .. n, NEW g \in [0 .. n -> X]
      PROVE  Value(k, g) \in X
  <2>1. CASE k = n
    BY <1>1, <2>1
  <2>2. CASE k # n
    <3>1. k + 1 \in 0 .. n
      BY <1>1, <2>2
    <3> QED BY <1>1, <3>1
  <2> QED BY <2>1, <2>2
<1>3. ASSUME NEW k \in 0 .. n, NEW g, NEW h, \A j \in k + 1 .. n : g[j] = h[j]
      PROVE  Value(k, g) = Value(k, h)
  <2>1. CASE k = n
    BY <1>1, <2>1
  <2>2. CASE k # n
    <3>1. k + 1 \in k + 1 .. n
      BY <1>1, <2>2
    <3>2. g[k + 1] = h[k + 1]
      BY <1>3, <3>1
    <3> QED BY <3>2
  <2> QED BY <2>1, <2>2
<1>4. Local(step, n, X)
  <2>1. step \in [0 .. n -> [[0 .. n -> X] -> X]]
    <3> HIDE DEF Value, X
    <3> QED BY <1>2
  <2>2. \A k \in 0 .. n : \A g \in [0 .. n -> X] : step[k][g] = Value(k, g)
    <3> HIDE DEF Value
    <3> QED BY Zenon
  <2>3. \A k \in 0 .. n : \A g, h \in [0 .. n -> X] :
          (\A j \in k + 1 .. n : g[j] = h[j]) => step[k][g] = step[k][h]
    <3> TAKE k \in 0 .. n
    <3> TAKE g, h \in [0 .. n -> X]
    <3> HAVE \A j \in k + 1 .. n : g[j] = h[j]
    <3>1. Value(k, g) = Value(k, h)
      BY <1>3
    <3> HIDE DEF step, Value
    <3> QED BY <2>2, <3>1
  <2> HIDE DEF step
  <2> QED BY <2>1, <2>3 DEF Local
<1>5. PICK f : Solves(f, step, n, X)
  <2> HIDE DEF step, X
  <2> QED BY <1>1, <1>4, Solution
<1>6. f = [k \in 0 .. n |-> Value(k, f)]
  <2>1. \A k \in 0 .. n : f[k] = Value(k, f)
    <3>1. f \in [0 .. n -> X] /\ \A k \in 0 .. n : f[k] = step[k][f]
      <4> HIDE DEF step, X
      <4> QED BY <1>5 DEF Solves
    <3> HIDE DEF Value, X
    <3> QED BY <3>1, Zenon
  <2>2. f = [k \in 0 .. n |-> f[k]]
    BY <1>5 DEF Solves
  <2> HIDE DEF Value, X
  <2> QED BY <2>1, <2>2, Zenon
<1>7. SearchLoop(f, str, subseq)
  BY <1>6, Zenon DEF SearchLoop, n, Here
<1> QED BY <1>7

\* strstr finds the first match in the text.
LEMMA StrstrIs ==
  ASSUME NEW str, Terminated(str), NEW subseq
  PROVE  \/ /\ apaz_strstr(str, subseq) = NotFound
            /\ \A j \in 0 .. apaz_strlen(str) - 1 : ~apaz_str_startsWith(From(str, j), subseq)
         \/ /\ apaz_strstr(str, subseq) \in 0 .. apaz_strlen(str) - 1
            /\ apaz_str_startsWith(From(str, apaz_strstr(str, subseq)), subseq)
            /\ \A j \in 0 .. apaz_strstr(str, subseq) - 1 : ~apaz_str_startsWith(From(str, j), subseq)
<1> DEFINE l == apaz_strlen(str)
<1> DEFINE n == Len(str) - 1
<1> DEFINE Here(k) == apaz_str_startsWith(From(str, k), subseq)
<1>1. n \in Nat /\ l \in 0 .. n /\ l \in Nat /\ str[l + 1] = NUL /\ \A j \in 1 .. l : str[j] # NUL
  BY StrlenIs DEF Terminated
<1>2. PICK f : SearchLoop(f, str, subseq) /\ apaz_strstr(str, subseq) = f[0]
  BY SearchRuns, SearchRounds
<1>3. \A k \in 0 .. n : f[k] = IF str[k + 1] = NUL THEN NotFound ELSE IF Here(k) THEN k ELSE f[k + 1]
  BY <1>2 DEF SearchLoop
<1> HIDE DEF l, n, Here
<1> DEFINE From1(k) == \/ f[k] = NotFound /\ \A j \in k .. l - 1 : ~Here(j)
                       \/ f[k] \in k .. l - 1 /\ Here(f[k]) /\ \A j \in k .. f[k] - 1 : ~Here(j)
<1> DEFINE S == {k \in 0 .. l : From1(k)}
<1>4. ASSUME NEW k \in 0 .. l, \A j \in k + 1 .. l : j \in S
      PROVE  k \in S
  <2>0. f[k] = IF str[k + 1] = NUL THEN NotFound ELSE IF Here(k) THEN k ELSE f[k + 1]
    <3>1. k \in 0 .. n
      BY <1>1
    <3> QED BY <1>3, <3>1, Zenon
  <2>1. CASE k = l
    BY <1>1, <2>0, <2>1
  <2>2. CASE k # l
    <3>1. k + 1 \in k + 1 .. l /\ k + 1 \in 1 .. l
      BY <1>1, <2>2
    <3>2. f[k] = IF Here(k) THEN k ELSE f[k + 1]
      BY <1>1, <2>0, <3>1
    <3>3. From1(k + 1)
      <4>1. k + 1 \in S
        BY <1>4, <3>1
      <4> HIDE DEF From1
      <4> QED BY <4>1
    <3>4. CASE Here(k)
      BY <1>1, <2>2, <3>2, <3>4
    <3>5. CASE ~Here(k)
      <4>1. f[k] = f[k + 1]
        BY <3>2, <3>5
      <4>2. \A j : j \in k .. l - 1 => j = k \/ j \in k + 1 .. l - 1
        BY <1>1
      <4>3. CASE f[k] = NotFound /\ \A j \in k + 1 .. l - 1 : ~Here(j)
        BY <3>5, <4>2, <4>3
      <4>4. CASE f[k] \in k + 1 .. l - 1 /\ Here(f[k]) /\ \A j \in k + 1 .. f[k] - 1 : ~Here(j)
        <5>1. f[k] \in k .. l - 1
          BY <1>1, <4>4
        <5>2. \A j \in k .. f[k] - 1 : j = k \/ j \in k + 1 .. f[k] - 1
          BY <1>1, <4>4
        <5> QED BY <3>5, <4>4, <5>1, <5>2
      <4> QED BY <3>3, <4>1, <4>3, <4>4
    <3> QED BY <3>4, <3>5
  <2> QED BY <2>1, <2>2
<1>5. From1(0)
  <2>1. \A k \in 0 .. l : k \in S
    <3> HIDE DEF S
    <3> QED BY <1>1, <1>4, Downward
  <2>2. 0 \in S
    <3> HIDE DEF S
    <3> QED BY <1>1, <2>1
  <2> HIDE DEF From1
  <2> QED BY <2>2
<1> QED BY <1>2, <1>5 DEF l, Here

\* A match and the delimiter that it is of lie in the text.
LEMMA MatchFits ==
  ASSUME NEW str, Terminated(str), NEW delim, Terminated(delim), NEW at \in 0 .. Len(str) - 1,
         apaz_strstr(From(str, at), delim) # NotFound
  PROVE  /\ apaz_strlen(delim) \in Nat
         /\ apaz_strstr(From(str, at), delim) \in Nat
         /\ at + apaz_strstr(From(str, at), delim) + apaz_strlen(delim) \in at + 1 .. Len(str) - 1
<1> DEFINE rest == From(str, at)
<1> DEFINE match == apaz_strstr(rest, delim)
<1> DEFINE there == From(rest, match)
<1>1. Len(str) \in Nat
  BY DEF Terminated
<1>2. Terminated(rest) /\ Len(rest) = Len(str) - at
  BY FromIs
<1>3. apaz_strlen(rest) \in 0 .. Len(rest) - 1
  BY <1>2, StrlenIs
<1>4. match \in 0 .. apaz_strlen(rest) - 1 /\ apaz_str_startsWith(there, delim)
  <2>1. match # NotFound
    OBVIOUS
  <2> HIDE DEF rest
  <2>2. \/ match = NotFound
        \/ match \in 0 .. apaz_strlen(rest) - 1 /\ apaz_str_startsWith(there, delim)
    BY <1>2, StrstrIs, Zenon
  <2> HIDE DEF match, there
  <2> QED BY <2>1, <2>2
<1> HIDE DEF rest
<1>5. match \in 0 .. Len(rest) - 1
  BY <1>1, <1>2, <1>3, <1>4
<1> HIDE DEF match
<1>6. Terminated(there) /\ Len(there) = Len(rest) - match
  BY <1>2, <1>5, FromIs
<1> HIDE DEF there
<1>7. apaz_strlen(there) \in 0 .. Len(there) - 1
  BY <1>6, StrlenIs
<1>8. apaz_strlen(delim) \in Nat
  BY StrlenIs
<1>9. apaz_strlen(delim) > 0 /\ apaz_strlen(delim) <= apaz_strlen(there)
  BY <1>4, <1>6, StartsWithIs
<1>10. at + match + apaz_strlen(delim) \in at + 1 .. Len(str) - 1 /\ match \in Nat
  BY <1>1, <1>2, <1>5, <1>6, <1>7, <1>8, <1>9
<1> QED BY <1>8, <1>10 DEF match, rest

\* The loop of String_split.
PartsLoop(f, str, delim) ==
  f = [at \in 0 .. Len(str) - 1 |->
        LET match == apaz_strstr(From(str, at), delim)
        IN  IF match = NotFound THEN <<at>> ELSE <<at>> \o f[at + match + apaz_strlen(delim)]]

\* The starts are what a solution of it has at 0.
LEMMA PartsRounds ==
  ASSUME NEW str, NEW delim, \E f : PartsLoop(f, str, delim)
  PROVE  \E f : PartsLoop(f, str, delim) /\ Starts(str, delim) = f[0]
  BY Zenon DEF PartsLoop, Starts

\* The index behind the match.
Onward(str, delim, at) == at + apaz_strstr(From(str, at), delim) + apaz_strlen(delim)

\* There is a solution: each part begins behind the one before it.
LEMMA PartsRuns ==
  ASSUME NEW str, Terminated(str), NEW delim, Terminated(delim)
  PROVE  \E f : PartsLoop(f, str, delim)
<1> DEFINE n == Len(str) - 1
<1> DEFINE X == Seq(Int)
<1> DEFINE Ends(k) == apaz_strstr(From(str, k), delim) = NotFound
<1> DEFINE next(k) == Onward(str, delim, k)
<1> DEFINE Value(k, g) == IF Ends(k) THEN <<k>> ELSE <<k>> \o g[next(k)]
<1> DEFINE step == [k \in 0 .. n |-> [g \in [0 .. n -> X] |-> Value(k, g)]]
<1>1. n \in Nat /\ \A k \in 0 .. n : ~Ends(k) => next(k) \in k + 1 .. n
  BY MatchFits DEF Terminated, Onward
<1> HIDE DEF n, Ends, next
<1>2. ASSUME NEW k \in 0 .. n, NEW g \in [0 .. n -> X]
      PROVE  Value(k, g) \in X
  <2>1. CASE Ends(k)
    BY <2>1
  <2>2. CASE ~Ends(k)
    <3>1. next(k) \in 0 .. n
      BY <1>1, <2>2
    <3>2. g[next(k)] \in Seq(Int) /\ <<k>> \in Seq(Int)
      BY <3>1
    <3>3. <<k>> \o g[next(k)] \in Seq(Int)
      BY <3>2
    <3> QED BY <2>2, <3>3
  <2> QED BY <2>1, <2>2
<1>3. ASSUME NEW k \in 0 .. n, NEW g, NEW h, \A j \in k + 1 .. n : g[j] = h[j]
      PROVE  Value(k, g) = Value(k, h)
  <2>1. CASE Ends(k)
    BY <2>1
  <2>2. CASE ~Ends(k)
    <3>1. g[next(k)] = h[next(k)]
      BY <1>1, <1>3, <2>2
    <3> QED BY <2>2, <3>1
  <2> QED BY <2>1, <2>2
<1>4. Local(step, n, X)
  <2>1. step \in [0 .. n -> [[0 .. n -> X] -> X]]
    <3> HIDE DEF Value, X
    <3> QED BY <1>2
  <2>2. \A k \in 0 .. n : \A g \in [0 .. n -> X] : step[k][g] = Value(k, g)
    <3> HIDE DEF Value
    <3> QED BY Zenon
  <2>3. \A k \in 0 .. n : \A g, h \in [0 .. n -> X] :
          (\A j \in k + 1 .. n : g[j] = h[j]) => step[k][g] = step[k][h]
    <3> TAKE k \in 0 .. n
    <3> TAKE g, h \in [0 .. n -> X]
    <3> HAVE \A j \in k + 1 .. n : g[j] = h[j]
    <3>1. Value(k, g) = Value(k, h)
      BY <1>3
    <3> HIDE DEF step, Value
    <3> QED BY <2>2, <3>1
  <2> HIDE DEF step
  <2> QED BY <2>1, <2>3 DEF Local
<1>5. PICK f : Solves(f, step, n, X)
  <2>1. <<>> \in X
    OBVIOUS
  <2> HIDE DEF step, X
  <2> QED BY <1>1, <1>4, <2>1, Solution
<1>6. f = [k \in 0 .. n |-> Value(k, f)]
  <2>1. \A k \in 0 .. n : f[k] = Value(k, f)
    <3>1. f \in [0 .. n -> X] /\ \A k \in 0 .. n : f[k] = step[k][f]
      <4> HIDE DEF step, X
      <4> QED BY <1>5 DEF Solves
    <3> HIDE DEF Value, X
    <3> QED BY <3>1, Zenon
  <2>2. f = [k \in 0 .. n |-> f[k]]
    BY <1>5 DEF Solves
  <2> HIDE DEF Value, X
  <2> QED BY <2>1, <2>2, Zenon
<1>7. PartsLoop(f, str, delim)
  BY <1>6, Zenon DEF PartsLoop, n, Ends, next, Onward
<1> QED BY <1>7

\* The parts begin at indexes of the array, each behind the delimiter that ends the one
\* before it.
LEMMA StartsAre ==
  ASSUME NEW str, Terminated(str), NEW delim, Terminated(delim)
  PROVE  /\ Starts(str, delim) \in Seq(0 .. Len(str) - 1)
         /\ Len(Starts(str, delim)) > 0
         /\ \A j \in 1 .. Len(Starts(str, delim)) - 1 :
              Starts(str, delim)[j + 1] - apaz_strlen(delim) >= Starts(str, delim)[j]
<1> DEFINE n == Len(str) - 1
<1> DEFINE d == apaz_strlen(delim)
<1> DEFINE match(k) == apaz_strstr(From(str, k), delim)
<1>1. n \in Nat /\ d \in Nat
  BY StrlenIs DEF Terminated
<1>2. ASSUME NEW k \in 0 .. n, match(k) # NotFound
      PROVE  match(k) \in Nat /\ k + match(k) + d \in k + 1 .. n
  BY <1>2, MatchFits
<1>3. PICK f : PartsLoop(f, str, delim) /\ Starts(str, delim) = f[0]
  BY PartsRuns, PartsRounds
<1>4. \A k \in 0 .. n : f[k] = IF match(k) = NotFound THEN <<k>> ELSE <<k>> \o f[k + match(k) + d]
  BY <1>3, Zenon DEF PartsLoop
<1> HIDE DEF n, d, match
<1> DEFINE Apart(s) == /\ s \in Seq(0 .. n) /\ Len(s) > 0
                       /\ \A j \in 1 .. Len(s) - 1 : s[j + 1] - d >= s[j]
<1> DEFINE S == {k \in 0 .. n : Apart(f[k]) /\ f[k][1] = k}
<1>5. ASSUME NEW k \in 0 .. n, \A j \in k + 1 .. n : j \in S
      PROVE  k \in S
  <2>1. CASE match(k) = NotFound
    <3>1. f[k] = <<k>>
      BY <1>4, <2>1
    <3>2. <<k>> \in Seq(0 .. n) /\ Len(<<k>>) = 1 /\ <<k>>[1] = k
      OBVIOUS
    <3> DEFINE t == <<k>>
    <3>3. f[k] = t
      BY <3>1
    <3>4. t \in Seq(0 .. n) /\ Len(t) = 1 /\ t[1] = k
      BY <3>2
    <3> HIDE DEF t
    <3>5. Apart(t)
      BY <3>4
    <3> HIDE DEF Apart
    <3> QED BY <3>3, <3>4, <3>5
  <2>2. CASE match(k) # NotFound
    <3> DEFINE next == k + match(k) + d
    <3>1. match(k) \in Nat /\ next \in k + 1 .. n /\ next - d >= k
      <4>1. match(k) \in Nat /\ next \in k + 1 .. n
        BY <1>2, <2>2
      <4>2. next - d >= k
        <5> DEFINE m == match(k)
        <5>1. m \in Nat
          BY <4>1
        <5>2. next = k + m + d
          BY Zenon
        <5>3. k \in Nat
          BY <1>1
        <5> HIDE DEF m, next
        <5> QED BY <1>1, <5>1, <5>2, <5>3
      <4> QED BY <4>1, <4>2
    <3>2. f[k] = <<k>> \o f[next]
      BY <1>4, <2>2
    <3> HIDE DEF next
    <3>3. Apart(f[next]) /\ f[next][1] = next
      <4>1. next \in S
        BY <1>5, <3>1
      <4> HIDE DEF Apart
      <4> QED BY <4>1
    <3> DEFINE s == f[next]
    <3> DEFINE t == <<k>> \o s
    <3>4. s \in Seq(0 .. n) /\ Len(s) \in Nat /\ Len(s) > 0 /\ s[1] = next
      BY <3>3
    <3>5. \A j \in 1 .. Len(s) - 1 : s[j + 1] - d >= s[j]
      BY <3>3
    <3> HIDE DEF s
    <3>6. t \in Seq(0 .. n) /\ Len(t) = Len(s) + 1 /\ t[1] = k /\ \A j \in 1 .. Len(s) : t[j + 1] = s[j]
      BY <3>4
    <3> HIDE DEF t
    <3>7. ASSUME NEW j \in 1 .. Len(t) - 1
          PROVE  t[j + 1] - d >= t[j]
      <4>1. j \in 1 .. Len(s) /\ t[j + 1] = s[j]
        BY <3>4, <3>6
      <4>2. CASE j = 1
        BY <3>1, <3>4, <3>6, <4>1, <4>2
      <4>3. CASE j # 1
        <5>1. j - 1 \in 1 .. Len(s) - 1 /\ (j - 1) + 1 = j
          BY <3>4, <4>1, <4>3
        <5>2. s[j] - d >= s[j - 1]
          BY <3>5, <5>1
        <5>3. t[j] = s[j - 1]
          BY <3>4, <3>6, <5>1
        <5> QED BY <4>1, <5>2, <5>3
      <4> QED BY <4>2, <4>3
    <3>8. Apart(t)
      BY <3>4, <3>6, <3>7
    <3>9. f[k] = t
      BY <3>2 DEF t, s
    <3> HIDE DEF Apart
    <3> QED BY <3>6, <3>8, <3>9
  <2> QED BY <2>1, <2>2
<1>6. Apart(f[0])
  <2>1. \A k \in 0 .. n : k \in S
    <3> HIDE DEF S
    <3> QED BY <1>1, <1>5, Downward
  <2>2. 0 \in S
    <3> HIDE DEF S
    <3> QED BY <1>1, <2>1
  <2> HIDE DEF Apart
  <2> QED BY <2>2
<1> QED BY <1>3, <1>6 DEF n, d

\* strlen is where the first NUL is.
LEMMA StrlenUnique ==
  ASSUME NEW str, Terminated(str), NEW l \in Nat, l + 1 <= Len(str), str[l + 1] = NUL,
         \A j \in 1 .. l : str[j] # NUL
  PROVE  apaz_strlen(str) = l
<1> DEFINE m == apaz_strlen(str)
<1>1. m \in Nat /\ str[m + 1] = NUL /\ \A j \in 1 .. m : str[j] # NUL
  BY StrlenIs
<1> HIDE DEF m
<1>2. ~(m < l)
  <2> SUFFICES ASSUME m < l PROVE FALSE
    OBVIOUS
  <2>1. m + 1 \in 1 .. l
    BY <1>1
  <2> QED BY <1>1, <2>1
<1>3. ~(l < m)
  <2> SUFFICES ASSUME l < m PROVE FALSE
    OBVIOUS
  <2>1. l + 1 \in 1 .. m
    BY <1>1
  <2> QED BY <1>1, <2>1
<1>4. m = l
  BY <1>1, <1>2, <1>3
<1> QED BY <1>4 DEF m

\* The text of an array.
LEMMA TextIs ==
  ASSUME NEW str, Terminated(str)
  PROVE  /\ Text(str) = SubSeq(str, 1, apaz_strlen(str))
         /\ Text(str) \in Seq(Char) /\ Len(Text(str)) = apaz_strlen(str)
         /\ \A j \in 1 .. apaz_strlen(str) : Text(str)[j] = str[j]
<1> DEFINE l == apaz_strlen(str)
<1> DEFINE I == {j \in 1 .. Len(str) : str[j] = NUL}
<1>1. /\ l \in Nat /\ l \in 0 .. Len(str) - 1 /\ str[l + 1] = NUL /\ \A j \in 1 .. l : str[j] # NUL
      /\ str \in Seq(Char) /\ Len(str) \in Nat
  BY StrlenIs DEF Terminated
<1> HIDE DEF l
<1>2. l + 1 \in I /\ \A j \in I : l + 1 <= j
  BY <1>1
<1>3. I # {} /\ Min(I) = l + 1
  <2>1. Min(I) \in I /\ \A j \in I : Min(I) <= j
    BY <1>2 DEF Min
  <2>2. Min(I) <= l + 1 /\ l + 1 <= Min(I) /\ Min(I) \in Int
    BY <1>1, <1>2, <2>1
  <2> HIDE DEF I
  <2> QED BY <1>1, <1>2, <2>2
<1>4. SelectInSeq(str, LAMBDA c : c = NUL) = IF I # {} THEN Min(I) ELSE 0
  BY Zenon DEF SelectInSeq
<1> HIDE DEF I
<1>5. Text(str) = SubSeq(str, 1, (l + 1) - 1)
  BY <1>3, <1>4 DEF Text
<1>6. Text(str) = SubSeq(str, 1, l)
  BY <1>1, <1>5
<1>7. /\ SubSeq(str, 1, l) \in Seq(Char) /\ Len(SubSeq(str, 1, l)) = l
      /\ \A j \in 1 .. l : SubSeq(str, 1, l)[j] = str[j]
  BY <1>1
<1> QED BY <1>6, <1>7 DEF l

\* Sequences are equal element for element.
LEMMA SameSeq ==
  ASSUME NEW S, NEW s \in Seq(S), NEW t \in Seq(S)
  PROVE  s = t <=> Len(s) = Len(t) /\ \A j \in 1 .. Len(s) : s[j] = t[j]
<1>1. ASSUME Len(s) = Len(t), \A j \in 1 .. Len(s) : s[j] = t[j]
      PROVE  s = t
  BY <1>1, SeqEqual
<1> QED BY <1>1

\* So are their beginnings.
LEMMA SameBeginning ==
  ASSUME NEW S, NEW s \in Seq(S), NEW t \in Seq(S), NEW m \in Nat, m <= Len(s), m <= Len(t)
  PROVE  SubSeq(s, 1, m) = SubSeq(t, 1, m) <=> \A j \in 1 .. m : s[j] = t[j]
<1> DEFINE a == SubSeq(s, 1, m)
<1> DEFINE b == SubSeq(t, 1, m)
<1>1. /\ a \in Seq(S) /\ Len(a) = m /\ \A j \in 1 .. m : a[j] = s[j]
      /\ b \in Seq(S) /\ Len(b) = m /\ \A j \in 1 .. m : b[j] = t[j]
  OBVIOUS
<1> HIDE DEF a, b
<1>2. a = b <=> Len(a) = Len(b) /\ \A j \in 1 .. Len(a) : a[j] = b[j]
  BY <1>1, SameSeq
<1>3. a = b <=> \A j \in 1 .. m : s[j] = t[j]
  BY <1>1, <1>2
<1> QED BY <1>3 DEF a, b

\* The loop that equals and strcmp share.
DifferLoop(f, str, seq) ==
  f = [k \in 0 .. Len(str) - 1 |->
        IF str[k + 1] # NUL /\ str[k + 1] = seq[k + 1] THEN f[k + 1] ELSE k]

\* They stop where a solution of it says at 0.
LEMMA DifferRounds ==
  ASSUME NEW str, NEW seq, \E f : DifferLoop(f, str, seq)
  PROVE  \E f : DifferLoop(f, str, seq) /\ Differ(str, seq) = f[0]
  BY Zenon DEF DifferLoop, Differ

\* There is a solution: the loop ends with the first text.
LEMMA DifferRuns ==
  ASSUME NEW str, Terminated(str), NEW seq
  PROVE  \E f : DifferLoop(f, str, seq)
<1> DEFINE n == Len(str) - 1
<1> DEFINE X == Nat
<1> DEFINE Goes(k) == str[k + 1] # NUL /\ str[k + 1] = seq[k + 1]
<1> DEFINE Value(k, g) == IF Goes(k) THEN g[k + 1] ELSE k
<1> DEFINE step == [k \in 0 .. n |-> [g \in [0 .. n -> X] |-> Value(k, g)]]
<1>1. n \in Nat /\ \A k \in 0 .. n : Goes(k) => k + 1 \in k + 1 .. n
  <2>1. n \in Nat /\ str[n + 1] = NUL
    BY DEF Terminated
  <2> HIDE DEF n
  <2> QED BY <2>1
<1> HIDE DEF n, Goes
<1>2. ASSUME NEW k \in 0 .. n, NEW g \in [0 .. n -> X]
      PROVE  Value(k, g) \in X
  <2>1. CASE Goes(k)
    <3>1. k + 1 \in 0 .. n
      BY <1>1, <2>1
    <3> QED BY <2>1, <3>1
  <2>2. CASE ~Goes(k)
    BY <2>2
  <2> QED BY <2>1, <2>2
<1>3. ASSUME NEW k \in 0 .. n, NEW g, NEW h, \A j \in k + 1 .. n : g[j] = h[j]
      PROVE  Value(k, g) = Value(k, h)
  <2>1. CASE Goes(k)
    <3>1. g[k + 1] = h[k + 1]
      BY <1>1, <1>3, <2>1
    <3> QED BY <2>1, <3>1
  <2>2. CASE ~Goes(k)
    BY <2>2
  <2> QED BY <2>1, <2>2
<1>4. Local(step, n, X)
  <2>1. step \in [0 .. n -> [[0 .. n -> X] -> X]]
    <3> HIDE DEF Value, X
    <3> QED BY <1>2
  <2>2. \A k \in 0 .. n : \A g \in [0 .. n -> X] : step[k][g] = Value(k, g)
    <3> HIDE DEF Value
    <3> QED BY Zenon
  <2>3. \A k \in 0 .. n : \A g, h \in [0 .. n -> X] :
          (\A j \in k + 1 .. n : g[j] = h[j]) => step[k][g] = step[k][h]
    <3> TAKE k \in 0 .. n
    <3> TAKE g, h \in [0 .. n -> X]
    <3> HAVE \A j \in k + 1 .. n : g[j] = h[j]
    <3>1. Value(k, g) = Value(k, h)
      BY <1>3
    <3> HIDE DEF step, Value
    <3> QED BY <2>2, <3>1
  <2> HIDE DEF step
  <2> QED BY <2>1, <2>3 DEF Local
<1>5. PICK f : Solves(f, step, n, X)
  <2>1. 0 \in X
    OBVIOUS
  <2> HIDE DEF step, X
  <2> QED BY <1>1, <1>4, <2>1, Solution
<1>6. f = [k \in 0 .. n |-> Value(k, f)]
  <2>1. \A k \in 0 .. n : f[k] = Value(k, f)
    <3>1. f \in [0 .. n -> X] /\ \A k \in 0 .. n : f[k] = step[k][f]
      <4> HIDE DEF step, X
      <4> QED BY <1>5 DEF Solves
    <3> HIDE DEF Value, X
    <3> QED BY <3>1, Zenon
  <2>2. f = [k \in 0 .. n |-> f[k]]
    BY <1>5 DEF Solves
  <2> HIDE DEF Value, X
  <2> QED BY <2>1, <2>2, Zenon
<1>7. DifferLoop(f, str, seq)
  BY <1>6, Zenon DEF DifferLoop, n, Goes
<1> QED BY <1>7

\* The texts are equal before the index at which the comparison stops.
LEMMA DifferIs ==
  ASSUME NEW str, Terminated(str), NEW seq, Terminated(seq)
  PROVE  /\ Differ(str, seq) \in Nat
         /\ Differ(str, seq) <= apaz_strlen(str) /\ Differ(str, seq) <= apaz_strlen(seq)
         /\ \A j \in 1 .. Differ(str, seq) : str[j] = seq[j]
         /\ str[Differ(str, seq) + 1] = NUL \/ str[Differ(str, seq) + 1] # seq[Differ(str, seq) + 1]
<1> DEFINE l == apaz_strlen(str)
<1> DEFINE m == apaz_strlen(seq)
<1> DEFINE n == Len(str) - 1
<1>1. /\ n \in Nat /\ l \in 0 .. n /\ l \in Nat /\ str[l + 1] = NUL /\ \A j \in 1 .. l : str[j] # NUL
      /\ m \in Nat /\ seq[m + 1] = NUL
  BY StrlenIs DEF Terminated
<1>2. PICK f : DifferLoop(f, str, seq) /\ Differ(str, seq) = f[0]
  BY DifferRuns, DifferRounds
<1>3. \A k \in 0 .. n : f[k] = IF str[k + 1] # NUL /\ str[k + 1] = seq[k + 1] THEN f[k + 1] ELSE k
  BY <1>2 DEF DifferLoop
<1> HIDE DEF l, m, n
<1> DEFINE Stops(k, at) ==
      /\ at \in k .. l
      /\ \A j \in k + 1 .. at : str[j] = seq[j] /\ str[j] # NUL
      /\ str[at + 1] = NUL \/ str[at + 1] # seq[at + 1]
<1> DEFINE S == {k \in 0 .. l : Stops(k, f[k])}
<1>4. ASSUME NEW k \in 0 .. l, \A j \in k + 1 .. l : j \in S
      PROVE  k \in S
  <2>0. f[k] = IF str[k + 1] # NUL /\ str[k + 1] = seq[k + 1] THEN f[k + 1] ELSE k
    <3>1. k \in 0 .. n
      BY <1>1
    <3> QED BY <1>3, <3>1, Zenon
  <2>1. CASE str[k + 1] # NUL /\ str[k + 1] = seq[k + 1]
    <3>1. k + 1 \in k + 1 .. l
      BY <1>1, <2>1
    <3>2. Stops(k + 1, f[k + 1])
      <4>1. k + 1 \in S
        BY <1>4, <3>1
      <4> HIDE DEF Stops
      <4> QED BY <4>1
    <3>3. f[k] = f[k + 1]
      BY <2>0, <2>1
    <3> DEFINE at == f[k + 1]
    <3>4. at \in k .. l /\ \A j \in k + 1 .. at : j = k + 1 \/ j \in (k + 1) + 1 .. at
      BY <1>1, <3>2
    <3>5. Stops(k, at)
      BY <2>1, <3>2, <3>4
    <3> HIDE DEF Stops
    <3> QED BY <3>3, <3>5
  <2>2. CASE ~(str[k + 1] # NUL /\ str[k + 1] = seq[k + 1])
    BY <2>0, <2>2
  <2> QED BY <2>1, <2>2
<1>5. Stops(0, f[0])
  <2>1. \A k \in 0 .. l : k \in S
    <3> HIDE DEF S
    <3> QED BY <1>1, <1>4, Downward
  <2>2. 0 \in S
    <3> HIDE DEF S
    <3> QED BY <1>1, <2>1
  <2> HIDE DEF Stops
  <2> QED BY <2>2
<1> DEFINE at == f[0]
<1>6. /\ at \in 0 .. l /\ \A j \in 1 .. at : str[j] = seq[j] /\ str[j] # NUL
      /\ str[at + 1] = NUL \/ str[at + 1] # seq[at + 1]
  BY <1>5
<1> HIDE DEF at
<1>7. at <= m
  <2> SUFFICES ASSUME m < at PROVE FALSE
    BY <1>1, <1>6
  <2>1. m + 1 \in 1 .. at
    BY <1>1, <1>6
  <2> QED BY <1>1, <1>6, <2>1
<1>8. at \in Nat /\ at <= l
  BY <1>1, <1>6
<1>9. Differ(str, seq) = at
  BY <1>2 DEF at
<1> QED BY <1>6, <1>7, <1>8, <1>9 DEF l, m

-------------------------------------------------------------------------
(* The comparisons.                                                        *)

\* Two texts are the same exactly if the arrays agree up to the first NUL of both.
LEMMA SameText ==
  ASSUME NEW str, Terminated(str), NEW seq, Terminated(seq)
  PROVE  Text(str) = Text(seq) <=>
           /\ apaz_strlen(str) = apaz_strlen(seq)
           /\ \A j \in 1 .. apaz_strlen(str) : str[j] = seq[j]
<1> DEFINE s == Text(str)
<1> DEFINE t == Text(seq)
<1> DEFINE l == apaz_strlen(str)
<1> DEFINE m == apaz_strlen(seq)
<1>1. /\ s \in Seq(Char) /\ Len(s) = l /\ \A j \in 1 .. l : s[j] = str[j]
      /\ t \in Seq(Char) /\ Len(t) = m /\ \A j \in 1 .. m : t[j] = seq[j]
  BY TextIs
<1> HIDE DEF s, t, l, m
<1>2. s = t <=> Len(s) = Len(t) /\ \A j \in 1 .. Len(s) : s[j] = t[j]
  BY <1>1, SameSeq
<1>3. s = t <=> l = m /\ \A j \in 1 .. l : str[j] = seq[j]
  BY <1>1, <1>2
<1> QED BY <1>3 DEF s, t, l, m

\* equals stops at the end of both texts if they are the same, and at a difference if not.
LEMMA EqualsIs ==
  ASSUME NEW str, Terminated(str), NEW seq, Terminated(seq)
  PROVE  str[Differ(str, seq) + 1] = seq[Differ(str, seq) + 1] <=> Text(str) = Text(seq)
<1> DEFINE k == Differ(str, seq)
<1> DEFINE l == apaz_strlen(str)
<1> DEFINE m == apaz_strlen(seq)
<1>1. /\ l \in Nat /\ str[l + 1] = NUL /\ \A j \in 1 .. l : str[j] # NUL
      /\ m \in Nat /\ seq[m + 1] = NUL /\ \A j \in 1 .. m : seq[j] # NUL
  BY StrlenIs
<1>2. /\ k \in Nat /\ k <= l /\ k <= m /\ \A j \in 1 .. k : str[j] = seq[j]
      /\ str[k + 1] = NUL \/ str[k + 1] # seq[k + 1]
  BY DifferIs
<1>3. Text(str) = Text(seq) <=> l = m /\ \A j \in 1 .. l : str[j] = seq[j]
  BY SameText
<1> HIDE DEF k, l, m
<1>4. ASSUME str[k + 1] = seq[k + 1]
      PROVE  l = m /\ \A j \in 1 .. l : str[j] = seq[j]
  <2>1. k = l
    <3> SUFFICES ASSUME k < l PROVE FALSE
      BY <1>1, <1>2
    <3>1. k + 1 \in 1 .. l
      BY <1>1, <1>2
    <3> QED BY <1>1, <1>2, <1>4, <3>1
  <2>2. k = m
    <3> SUFFICES ASSUME k < m PROVE FALSE
      BY <1>1, <1>2
    <3>1. k + 1 \in 1 .. m
      BY <1>1, <1>2
    <3> QED BY <1>1, <1>2, <1>4, <3>1
  <2> QED BY <1>2, <2>1, <2>2
<1>5. ASSUME l = m, \A j \in 1 .. l : str[j] = seq[j]
      PROVE  str[k + 1] = seq[k + 1]
  <2>1. CASE k = l
    BY <1>1, <1>5, <2>1
  <2>2. CASE k # l
    <3>1. k + 1 \in 1 .. l
      BY <1>1, <1>2, <2>2
    <3> QED BY <1>5, <3>1
  <2> QED BY <2>1, <2>2
<1>6. str[k + 1] = seq[k + 1] <=> Text(str) = Text(seq)
  BY <1>3, <1>4, <1>5
<1> QED BY <1>6 DEF k

\* A text whose chars are numbers, the NUL behind it included.
Numbered(str) == \A j \in 1 .. apaz_strlen(str) + 1 : str[j] \in 0 .. 127

\* strcmp sorts texts as a dictionary does.
LEMMA StrcmpIs ==
  ASSUME NEW str, Terminated(str), Numbered(str), NEW seq, Terminated(seq), Numbered(seq)
  PROVE  /\ apaz_strcmp(str, seq) = 0 <=> Text(str) = Text(seq)
         /\ apaz_strcmp(str, seq) < 0 <=> Before(Text(str), Text(seq))
<1> DEFINE k == Differ(str, seq)
<1> DEFINE l == apaz_strlen(str)
<1> DEFINE m == apaz_strlen(seq)
<1> DEFINE s == Text(str)
<1> DEFINE t == Text(seq)
<1>1. /\ l \in Nat /\ str[l + 1] = NUL /\ \A j \in 1 .. l : str[j] # NUL
      /\ m \in Nat /\ seq[m + 1] = NUL /\ \A j \in 1 .. m : seq[j] # NUL
  BY StrlenIs
<1>2. /\ k \in Nat /\ k <= l /\ k <= m /\ \A j \in 1 .. k : str[j] = seq[j]
      /\ str[k + 1] = NUL \/ str[k + 1] # seq[k + 1]
  BY DifferIs
<1>3. /\ \A j \in 1 .. l + 1 : str[j] \in 0 .. 127
      /\ \A j \in 1 .. m + 1 : seq[j] \in 0 .. 127
  BY DEF Numbered
<1>4. str[k + 1] = seq[k + 1] <=> s = t
  BY EqualsIs
<1>5. apaz_strcmp(str, seq) = str[k + 1] - seq[k + 1]
  BY DEF apaz_strcmp
<1>6. /\ s \in Seq(Char) /\ Len(s) = l /\ \A j \in 1 .. l : s[j] = str[j]
      /\ t \in Seq(Char) /\ Len(t) = m /\ \A j \in 1 .. m : t[j] = seq[j]
  BY TextIs
<1> HIDE DEF k, l, m, s, t
<1> DEFINE a == str[k + 1]
<1> DEFINE b == seq[k + 1]
<1>7. a \in 0 .. 127 /\ b \in 0 .. 127
  <2>1. k + 1 \in 1 .. l + 1 /\ k + 1 \in 1 .. m + 1
    BY <1>1, <1>2
  <2> QED BY <1>3, <2>1
<1>8. a - b = 0 <=> a = b
  <2> HIDE DEF a, b
  <2> QED BY <1>7
<1>9. IsPrefix(s, t) <=> l <= m /\ \A j \in 1 .. l : str[j] = seq[j]
  <2>1. CASE l <= m
    <3>1. SubSeq(s, 1, l) = SubSeq(t, 1, l) <=> \A j \in 1 .. l : s[j] = t[j]
      BY <1>1, <1>6, <2>1, SameBeginning
    <3>2. \A j \in 1 .. l : s[j] = str[j] /\ t[j] = seq[j]
      BY <1>1, <1>6, <2>1
    <3>3. IsPrefix(s, t) <=> SubSeq(s, 1, l) = SubSeq(t, 1, l)
      BY <1>6, <2>1 DEF IsPrefix
    <3> QED BY <2>1, <3>1, <3>2, <3>3
  <2>2. CASE ~(l <= m)
    BY <1>6, <2>2 DEF IsPrefix
  <2> QED BY <2>1, <2>2
<1>10. \A i \in 1 .. l : i <= m =>
         (SubSeq(s, 1, i - 1) = SubSeq(t, 1, i - 1) <=> \A j \in 1 .. i - 1 : str[j] = seq[j])
  <2> SUFFICES ASSUME NEW i \in 1 .. l, i <= m
               PROVE  SubSeq(s, 1, i - 1) = SubSeq(t, 1, i - 1) <=> \A j \in 1 .. i - 1 : str[j] = seq[j]
    OBVIOUS
  <2> DEFINE h == i - 1
  <2>1. h \in Nat /\ h <= l /\ h <= m
    BY <1>1
  <2> HIDE DEF h
  <2>2. SubSeq(s, 1, h) = SubSeq(t, 1, h) <=> \A j \in 1 .. h : s[j] = t[j]
    BY <1>6, <2>1, SameBeginning
  <2>3. \A j \in 1 .. h : s[j] = str[j] /\ t[j] = seq[j]
    BY <1>1, <1>6, <2>1
  <2>4. SubSeq(s, 1, h) = SubSeq(t, 1, h) <=> \A j \in 1 .. h : str[j] = seq[j]
    BY <2>2, <2>3
  <2> QED BY <2>4 DEF h
<1>11. ASSUME a < b
       PROVE  Before(s, t)
  <2>1. k < m
    <3> SUFFICES ASSUME k = m PROVE FALSE
      BY <1>1, <1>2
    <3>1. b = NUL
      BY <1>1
    <3> HIDE DEF a, b
    <3> QED BY <1>7, <1>11, <3>1 DEF NUL
  <2>2. s # t
    <3>1. a # b
      BY <1>7, <1>11
    <3> QED BY <1>4, <3>1
  <2>3. CASE k = l
    <3>1. IsPrefix(s, t)
      BY <1>1, <1>2, <1>9, <2>1, <2>3
    <3> QED BY <2>2, <3>1 DEF Before, IsStrictPrefix
  <2>4. CASE k # l
    <3> DEFINE i == k + 1
    <3>1. i \in 1 .. l /\ i <= m /\ i \in 1 .. m /\ i - 1 = k
      BY <1>1, <1>2, <2>1, <2>4
    <3>2. s[i] = a /\ t[i] = b
      BY <1>6, <3>1
    <3> HIDE DEF i, a, b
    <3>3. SubSeq(s, 1, i - 1) = SubSeq(t, 1, i - 1)
      BY <1>2, <1>10, <3>1
    <3>4. i \in 1 .. Len(s) /\ i <= Len(t) /\ s[i] < t[i] /\ SubSeq(s, 1, i - 1) = SubSeq(t, 1, i - 1)
      BY <1>6, <1>11, <3>1, <3>2, <3>3
    <3> QED BY <3>4, Zenon DEF Before
  <2> QED BY <2>3, <2>4
<1>12. ASSUME Before(s, t)
       PROVE  a < b
  <2>1. CASE IsStrictPrefix(s, t)
    <3>1. l <= m /\ (\A j \in 1 .. l : str[j] = seq[j]) /\ s # t
      BY <1>9, <2>1 DEF IsStrictPrefix
    <3>2. a # b
      BY <1>4, <3>1
    <3>3. k = l
      <4> SUFFICES ASSUME k < l PROVE FALSE
        BY <1>1, <1>2
      <4>1. k + 1 \in 1 .. l
        BY <1>1, <1>2
      <4> QED BY <3>1, <3>2, <4>1
    <3>4. a = NUL
      BY <1>1, <3>3
    <3> HIDE DEF a, b
    <3> QED BY <1>7, <3>2, <3>4 DEF NUL
  <2>2. ASSUME NEW i \in 1 .. l, i <= m, s[i] < t[i], SubSeq(s, 1, i - 1) = SubSeq(t, 1, i - 1)
        PROVE  a < b
    <3>1. \A j \in 1 .. i - 1 : str[j] = seq[j]
      BY <1>10, <2>2
    <3>2. i \in 1 .. m /\ s[i] = str[i] /\ t[i] = seq[i]
      BY <1>1, <1>6, <2>2
    <3>3. str[i] \in 0 .. 127 /\ seq[i] \in 0 .. 127
      BY <1>1, <1>3, <2>2
    <3>4. str[i] # seq[i]
      BY <2>2, <3>2, <3>3
    <3>5. ~(i <= k)
      <4> SUFFICES ASSUME i <= k PROVE FALSE
        OBVIOUS
      <4>1. i \in 1 .. k
        BY <1>1, <1>2
      <4> QED BY <1>2, <3>4, <4>1
    <3>6. ~(k + 1 < i)
      <4> SUFFICES ASSUME k + 1 < i PROVE FALSE
        OBVIOUS
      <4>1. k + 1 \in 1 .. i - 1 /\ k + 1 \in 1 .. l
        BY <1>1, <1>2
      <4> QED BY <1>1, <1>2, <3>1, <4>1
    <3>7. i = k + 1
      BY <1>1, <1>2, <3>5, <3>6
    <3> QED BY <2>2, <3>2, <3>7
  <2> QED BY <1>6, <1>12, <2>1, <2>2 DEF Before
<1>13. a - b < 0 <=> a < b
  <2> HIDE DEF a, b
  <2> QED BY <1>7
<1>14. (apaz_strcmp(str, seq) = 0 <=> s = t) /\ (apaz_strcmp(str, seq) < 0 <=> Before(s, t))
  BY <1>4, <1>5, <1>8, <1>11, <1>12, <1>13
<1> QED BY <1>14 DEF s, t

\* The text behind the first k chars of one.
LEMMA StrlenFrom ==
  ASSUME NEW str, Terminated(str), NEW k \in 0 .. apaz_strlen(str)
  PROVE  /\ Terminated(From(str, k)) /\ apaz_strlen(From(str, k)) = apaz_strlen(str) - k
         /\ \A j \in 1 .. apaz_strlen(str) - k : From(str, k)[j] = str[j + k]
<1> DEFINE l == apaz_strlen(str)
<1> DEFINE rest == From(str, k)
<1> DEFINE n == Len(str)
<1>1. /\ n \in Nat /\ l \in 0 .. n - 1 /\ l \in Nat /\ k \in 0 .. l
      /\ str[l + 1] = NUL /\ \A j \in 1 .. l : str[j] # NUL
  BY StrlenIs DEF Terminated
<1>2. k \in 0 .. n - 1
  <2> HIDE DEF n, l
  <2> QED BY <1>1
<1>3. Terminated(rest) /\ Len(rest) = n - k /\ \A j \in 1 .. n - k : rest[j] = str[j + k]
  BY <1>2, FromIs
<1> HIDE DEF n, l, rest
<1>4. rest[(l - k) + 1] = NUL
  <2>1. (l - k) + 1 \in 1 .. n - k /\ ((l - k) + 1) + k = l + 1
    BY <1>1
  <2> QED BY <1>1, <1>3, <2>1
<1>5. \A j \in 1 .. l - k : rest[j] = str[j + k] /\ rest[j] # NUL
  <2> SUFFICES ASSUME NEW j \in 1 .. l - k PROVE rest[j] = str[j + k] /\ rest[j] # NUL
    OBVIOUS
  <2>1. j \in 1 .. n - k /\ j + k \in 1 .. l
    BY <1>1
  <2> QED BY <1>1, <1>3, <2>1
<1>6. l - k \in Nat /\ (l - k) + 1 <= Len(rest)
  BY <1>1, <1>3
<1>7. apaz_strlen(rest) = l - k
  BY <1>3, <1>4, <1>5, <1>6, StrlenUnique
<1> QED BY <1>3, <1>5, <1>7 DEF l, rest

\* A text begins with another behind its first k chars if that occurs there.
LEMMA OccursIs ==
  ASSUME NEW str, Terminated(str), NEW seq, Terminated(seq), NEW k \in 0 .. apaz_strlen(str)
  PROVE  apaz_str_startsWith(From(str, k), seq) <=>
           Text(seq) # <<>> /\ OccursAt(Text(str), Text(seq), k)
<1> DEFINE l == apaz_strlen(str)
<1> DEFINE m == apaz_strlen(seq)
<1> DEFINE s == Text(str)
<1> DEFINE t == Text(seq)
<1> DEFINE rest == From(str, k)
<1>1. l \in Nat /\ m \in Nat /\ k \in 0 .. l
  BY StrlenIs
<1>2. /\ s \in Seq(Char) /\ Len(s) = l /\ \A j \in 1 .. l : s[j] = str[j]
      /\ t \in Seq(Char) /\ Len(t) = m /\ \A j \in 1 .. m : t[j] = seq[j]
  BY TextIs
<1>3. Terminated(rest) /\ apaz_strlen(rest) = l - k /\ \A j \in 1 .. l - k : rest[j] = str[j + k]
  BY StrlenFrom
<1>4. apaz_str_startsWith(rest, seq) <=> m > 0 /\ m <= l - k /\ \A j \in 1 .. m : seq[j] = rest[j]
  <2> HIDE DEF rest
  <2>1. apaz_str_startsWith(rest, seq) <=>
          m > 0 /\ m <= apaz_strlen(rest) /\ \A j \in 1 .. m : seq[j] = rest[j]
    BY <1>3, StartsWithIs
  <2> QED BY <1>3, <2>1
<1> HIDE DEF l, m, s, t, rest
<1>5. t # <<>> <=> m > 0
  <2>1. <<>> \in Seq(Char) /\ Len(<<>>) = 0
    OBVIOUS
  <2>2. t = <<>> <=> Len(t) = 0
    BY <1>2, <2>1, SameSeq
  <2> QED BY <1>1, <1>2, <2>2
<1>6. ASSUME m <= l - k
      PROVE  SubSeq(s, k + 1, k + m) = t <=> \A j \in 1 .. m : seq[j] = rest[j]
  <2> DEFINE u == SubSeq(s, k + 1, k + m)
  <2>1. u \in Seq(Char) /\ Len(u) = m /\ \A j \in 1 .. m : u[j] = s[j + k]
    BY <1>1, <1>2, <1>6
  <2> HIDE DEF u
  <2>2. u = t <=> \A j \in 1 .. m : u[j] = t[j]
    BY <1>2, <2>1, SameSeq
  <2>3. ASSUME NEW j \in 1 .. m
        PROVE  u[j] = rest[j] /\ t[j] = seq[j]
    <3>1. j \in 1 .. l - k /\ j + k \in 1 .. l
      BY <1>1, <1>6
    <3>2. s[j + k] = str[j + k] /\ rest[j] = str[j + k]
      BY <1>2, <1>3, <3>1
    <3> QED BY <1>2, <2>1, <3>2
  <2>4. u = t <=> \A j \in 1 .. m : seq[j] = rest[j]
    BY <2>2, <2>3
  <2> QED BY <2>4 DEF u
<1>7. OccursAt(s, t, k) <=> m <= l - k /\ SubSeq(s, k + 1, k + m) = t
  <2>1. k + m <= l <=> m <= l - k
    BY <1>1
  <2> QED BY <1>2, <2>1 DEF OccursAt
<1>8. apaz_str_startsWith(rest, seq) <=> t # <<>> /\ OccursAt(s, t, k)
  BY <1>4, <1>5, <1>6, <1>7
<1> QED BY <1>8 DEF rest, s, t

\* The prefix of a text.
LEMMA PrefixIs ==
  ASSUME NEW str, Terminated(str), NEW seq, Terminated(seq)
  PROVE  apaz_str_startsWith(str, seq) <=> Text(seq) # <<>> /\ IsPrefix(Text(seq), Text(str))
<1> DEFINE s == Text(str)
<1> DEFINE t == Text(seq)
<1>1. /\ s \in Seq(Char) /\ Len(s) = apaz_strlen(str) /\ t \in Seq(Char) /\ apaz_strlen(str) \in Nat
  BY TextIs, StrlenIs
<1>2. From(str, 0) = str
  <2>1. str \in Seq(Char)
    BY DEF Terminated
  <2>2. SubSeq(str, 1, Len(str)) = str
    <3>1. /\ SubSeq(str, 1, Len(str)) \in Seq(Char) /\ Len(SubSeq(str, 1, Len(str))) = Len(str)
          /\ \A j \in 1 .. Len(str) : SubSeq(str, 1, Len(str))[j] = str[j]
      BY <2>1
    <3> QED BY <2>1, <3>1, SameSeq
  <2> QED BY <2>2 DEF From
<1>3. 0 \in 0 .. apaz_strlen(str)
  BY <1>1
<1>4. apaz_str_startsWith(From(str, 0), seq) <=> t # <<>> /\ OccursAt(s, t, 0)
  BY <1>3, OccursIs
<1> HIDE DEF s, t
<1>5. OccursAt(s, t, 0) <=> Len(t) <= Len(s) /\ SubSeq(s, 1, Len(t)) = t
  <2>1. Len(t) \in Nat
    BY <1>1
  <2> QED BY <2>1 DEF OccursAt
<1>6. SubSeq(t, 1, Len(t)) = t
  <2>1. /\ SubSeq(t, 1, Len(t)) \in Seq(Char) /\ Len(SubSeq(t, 1, Len(t))) = Len(t)
        /\ \A j \in 1 .. Len(t) : SubSeq(t, 1, Len(t))[j] = t[j]
    BY <1>1
  <2> QED BY <1>1, <2>1, SameSeq
<1>7. OccursAt(s, t, 0) <=> IsPrefix(t, s)
  BY <1>5, <1>6 DEF IsPrefix
<1> QED BY <1>2, <1>4, <1>7 DEF s, t

\* strstr finds where a text occurs first in another.
LEMMA FoundIs ==
  ASSUME NEW str, Terminated(str), NEW seq, Terminated(seq)
  PROVE  /\ apaz_str_contains(str, seq) <=>
              Text(seq) # <<>> /\ \E k \in 0 .. Len(Text(str)) : OccursAt(Text(str), Text(seq), k)
         /\ apaz_strstr(str, seq) # NotFound =>
              /\ OccursAt(Text(str), Text(seq), apaz_strstr(str, seq))
              /\ \A k \in 0 .. apaz_strstr(str, seq) - 1 : ~OccursAt(Text(str), Text(seq), k)
<1> DEFINE l == apaz_strlen(str)
<1> DEFINE s == Text(str)
<1> DEFINE t == Text(seq)
<1> DEFINE found == apaz_strstr(str, seq)
<1> DEFINE Here(k) == apaz_str_startsWith(From(str, k), seq)
<1> DEFINE At(k) == OccursAt(s, t, k)
<1>1. l \in Nat /\ Len(s) = l
  BY StrlenIs, TextIs
<1>2. \A k \in 0 .. l : Here(k) <=> t # <<>> /\ At(k)
  BY OccursIs
<1>3. \/ found = NotFound /\ \A j \in 0 .. l - 1 : ~Here(j)
      \/ found \in 0 .. l - 1 /\ Here(found) /\ \A j \in 0 .. found - 1 : ~Here(j)
  BY StrstrIs
<1>4. At(l) => t = <<>>
  <2> SUFFICES ASSUME At(l) PROVE t = <<>>
    OBVIOUS
  <2>1. t \in Seq(Char) /\ Len(t) \in Nat
    BY TextIs
  <2> HIDE DEF s, t, l
  <2>2. Len(t) = 0
    BY <1>1, <2>1 DEF OccursAt
  <2> QED BY <2>1, <2>2
<1>5. NotFound \notin 0 .. l - 1
  BY DEF NotFound
<1> HIDE DEF l, s, t, found, Here, At
<1>6. CASE found = NotFound /\ \A j \in 0 .. l - 1 : ~Here(j)
  <2>1. ASSUME t # <<>>, NEW k \in 0 .. l, At(k)
        PROVE  FALSE
    <3>1. k # l
      BY <1>4, <2>1
    <3>2. k \in 0 .. l - 1
      BY <1>1, <3>1
    <3> QED BY <1>2, <1>6, <2>1, <3>2
  <2>2. ~(t # <<>> /\ \E k \in 0 .. Len(s) : At(k))
    BY <1>1, <2>1
  <2> QED BY <1>6, <2>2 DEF apaz_str_contains, found, s, t, At
<1>7. CASE found \in 0 .. l - 1 /\ Here(found) /\ \A j \in 0 .. found - 1 : ~Here(j)
  <2>1. found # NotFound /\ found \in 0 .. l /\ \A k \in 0 .. found - 1 : k \in 0 .. l
    BY <1>1, <1>5, <1>7
  <2>2. t # <<>> /\ At(found) /\ \A k \in 0 .. found - 1 : ~At(k)
    BY <1>2, <1>7, <2>1
  <2>3. \E k \in 0 .. Len(s) : At(k)
    BY <1>1, <2>1, <2>2
  <2> QED BY <2>1, <2>2, <2>3 DEF apaz_str_contains, found, s, t, At
<1> QED BY <1>3, <1>6, <1>7

\* The end of one sequence.
LEMMA SuffixIs ==
  ASSUME NEW S, NEW s \in Seq(S), NEW t \in Seq(S)
  PROVE  IsSuffix(t, s) <=>
           Len(t) <= Len(s) /\ \A j \in 1 .. Len(t) : t[j] = s[j + (Len(s) - Len(t))]
<1> DEFINE n == Len(s)
<1> DEFINE m == Len(t)
<1> DEFINE a == Reverse(s)
<1> DEFINE b == Reverse(t)
<1>1. n \in Nat /\ m \in Nat
  OBVIOUS
<1>2. /\ a \in Seq(S) /\ Len(a) = n /\ \A j \in 1 .. n : a[j] = s[(n - j) + 1]
      /\ b \in Seq(S) /\ Len(b) = m /\ \A j \in 1 .. m : b[j] = t[(m - j) + 1]
  BY DEF Reverse
<1>3. IsSuffix(t, s) <=> Len(b) <= Len(a) /\ SubSeq(b, 1, Len(b)) = SubSeq(a, 1, Len(b))
  BY DEF IsSuffix, IsPrefix
<1>4. s \in Seq(S) /\ t \in Seq(S)
  OBVIOUS
<1> HIDE DEF n, m, a, b
<1>5. CASE m <= n
  <2>1. SubSeq(b, 1, m) = SubSeq(a, 1, m) <=> \A j \in 1 .. m : b[j] = a[j]
    BY <1>1, <1>2, <1>5, SameBeginning
  <2>2. ASSUME \A j \in 1 .. m : b[j] = a[j], NEW j \in 1 .. m
        PROVE  t[j] = s[j + (n - m)]
    <3> DEFINE i == (m - j) + 1
    <3>1. i \in 1 .. m /\ i \in 1 .. n /\ (m - i) + 1 = j /\ (n - i) + 1 = j + (n - m)
      BY <1>1, <1>5
    <3> HIDE DEF i
    <3>2. b[i] = t[j] /\ a[i] = s[j + (n - m)]
      BY <1>2, <3>1
    <3> QED BY <2>2, <3>1, <3>2
  <2>3. ASSUME \A j \in 1 .. m : t[j] = s[j + (n - m)], NEW j \in 1 .. m
        PROVE  b[j] = a[j]
    <3> DEFINE i == (m - j) + 1
    <3>1. i \in 1 .. m /\ j \in 1 .. n /\ i + (n - m) = (n - j) + 1
      BY <1>1, <1>5
    <3>2. b[j] = t[i]
      BY <1>2
    <3> HIDE DEF i
    <3>3. a[j] = s[i + (n - m)]
      BY <1>2, <3>1
    <3> QED BY <2>3, <3>1, <3>2, <3>3
  <2>4. IsSuffix(t, s) <=> \A j \in 1 .. m : t[j] = s[j + (n - m)]
    BY <1>2, <1>3, <1>5, <2>1, <2>2, <2>3
  <2> QED BY <1>5, <2>4 DEF n, m
<1>6. CASE ~(m <= n)
  BY <1>2, <1>3, <1>6 DEF n, m
<1> QED BY <1>5, <1>6

-------------------------------------------------------------------------
(* SoundBlocks.                                                                 *)

\* A block of the length that it says, with its terminator.
Sound(b) ==
  /\ b \in [len : Nat, data : Seq(Char)]
  /\ Len(b.data) = b.len + 1
  /\ b.data[b.len + 1] = NUL

\* What functions on char * take of it.
LEMMA SoundTerminated ==
  ASSUME NEW b, Sound(b)
  PROVE  Terminated(b.data)
BY DEF Sound, Terminated

\* A block of a function that ends with NUL.
LEMMA MakeSound ==
  ASSUME NEW len \in Nat, NEW data \in [1 .. len + 1 -> Char], data[len + 1] = NUL
  PROVE  Sound([len |-> len, data |-> data])
<1>1. data \in Seq(Char) /\ Len(data) = len + 1
  <2>1. len + 1 \in Nat
    OBVIOUS
  <2>2. data \in Seq(Char)
    BY <2>1, SeqDef, Zenon
  <2>3. DOMAIN data = 1 .. len + 1
    OBVIOUS
  <2> QED BY <2>1, <2>2, <2>3
<1> QED BY <1>1 DEF Sound

\* Every operation that allocates makes such a block.
LEMMA BlockSound ==
  ASSUME NEW len \in Nat, NEW chars \in Seq(Char)
  PROVE  Sound(Block(len, chars)) /\ Block(len, chars).len = len
<1> DEFINE data == [k \in 1 .. len + 1 |->
                      IF k = len + 1 THEN NUL ELSE IF k <= Len(chars) THEN chars[k] ELSE Unset]
<1>1. ASSUME NEW k \in 1 .. len + 1
      PROVE  (IF k = len + 1 THEN NUL ELSE IF k <= Len(chars) THEN chars[k] ELSE Unset) \in Char
  <2>1. NUL \in Char /\ Unset \in Char
    BY DEF NUL, Char
  <2> QED BY <2>1
<1>2. data \in [1 .. len + 1 -> Char] /\ data[len + 1] = NUL
  BY <1>1
<1>3. Block(len, chars) = [len |-> len, data |-> data]
  BY DEF Block
<1> HIDE DEF data
<1> QED BY <1>2, <1>3, MakeSound

\* The first len chars of an array that has as many.
LEMMA NewOfSound ==
  ASSUME NEW cstr \in Seq(Char), NEW len \in 0 .. Len(cstr)
  PROVE  Sound(_String_new_of(cstr, len)) /\ _String_new_of(cstr, len).len = len
<1>1. SubSeq(cstr, 1, len) \in Seq(Char) /\ len \in Nat
  OBVIOUS
<1> QED BY <1>1, BlockSound DEF _String_new_of

\* All of an array before its first NUL.
LEMMA NewOfStrlenSound ==
  ASSUME NEW cstr, Terminated(cstr)
  PROVE  Sound(_String_new_of_strlen(cstr))
<1>1. cstr \in Seq(Char) /\ apaz_strlen(cstr) \in 0 .. Len(cstr)
  BY StrlenIs DEF Terminated
<1> QED BY <1>1, NewOfSound DEF _String_new_of_strlen

\* Each part is a block of its own.
LEMMA PartsSound ==
  ASSUME NEW str, Terminated(str), NEW delim, Terminated(delim)
  PROVE  /\ Len(Parts(str, delim)) = Len(Starts(str, delim))
         /\ \A k \in 1 .. Len(Starts(str, delim)) : Sound(Parts(str, delim)[k])
<1> DEFINE ret == Starts(str, delim)
<1> DEFINE d == apaz_strlen(delim)
<1> DEFINE part(k) == IF k < Len(ret)
                      THEN _String_new_of(From(str, ret[k]), (ret[k + 1] - d) - ret[k])
                      ELSE _String_new_of_strlen(From(str, ret[k]))
<1>1. /\ Len(str) \in Nat /\ d \in Nat
      /\ ret \in Seq(0 .. Len(str) - 1) /\ Len(ret) \in Nat
      /\ \A j \in 1 .. Len(ret) - 1 : ret[j + 1] - d >= ret[j]
  <2>1. Len(str) \in Nat
    BY DEF Terminated
  <2>2. d \in Nat
    BY StrlenIs
  <2>3. /\ ret \in Seq(0 .. Len(str) - 1)
        /\ \A j \in 1 .. Len(ret) - 1 : ret[j + 1] - d >= ret[j]
    BY StartsAre, Zenon
  <2> HIDE DEF ret, d
  <2> QED BY <2>1, <2>2, <2>3
<1>2. Parts(str, delim) = [k \in 1 .. Len(ret) |-> part(k)]
  BY DEF Parts
<1> HIDE DEF ret, d
<1>3. ASSUME NEW k \in 1 .. Len(ret)
      PROVE  Sound(part(k))
  <2>1. ret[k] \in 0 .. Len(str) - 1
    BY <1>1
  <2>2. /\ Terminated(From(str, ret[k])) /\ Len(From(str, ret[k])) = Len(str) - ret[k]
        /\ From(str, ret[k]) \in Seq(Char)
    BY <2>1, FromIs DEF Terminated
  <2>3. CASE k < Len(ret)
    <3>1. k \in 1 .. Len(ret) - 1 /\ k + 1 \in 1 .. Len(ret)
      BY <1>1, <2>3
    <3>2. ret[k + 1] \in 0 .. Len(str) - 1 /\ ret[k + 1] - d >= ret[k]
      BY <1>1, <3>1, SMTT(30)
    <3>3. (ret[k + 1] - d) - ret[k] \in 0 .. Len(From(str, ret[k]))
      <4> DEFINE a == ret[k]
      <4> DEFINE b == ret[k + 1]
      <4> DEFINE l == Len(From(str, a))
      <4> DEFINE n == Len(str)
      <4>1. /\ a \in 0 .. n - 1 /\ b \in 0 .. n - 1 /\ b - d >= a
            /\ l = n - a /\ n \in Nat /\ d \in Nat
        BY <1>1, <2>1, <2>2, <3>2, Zenon
      <4> HIDE DEF a, b, l, n
      <4>2. (b - d) - a \in 0 .. l
        BY <4>1
      <4> QED BY <4>2 DEF a, b, l
    <3> QED BY <2>2, <2>3, <3>3, NewOfSound
  <2>4. CASE ~(k < Len(ret))
    BY <2>2, <2>4, NewOfStrlenSound
  <2> QED BY <2>3, <2>4
<1> HIDE DEF part
<1>4. Len(Parts(str, delim)) = Len(ret) /\ \A k \in 1 .. Len(ret) : Parts(str, delim)[k] = part(k)
  BY <1>1, <1>2
<1> QED BY <1>3, <1>4 DEF ret

\* Chars that somebody wrote are chars.
LEMMA WiderSeq ==
  ASSUME NEW s \in Seq(0 .. 127)
  PROVE  s \in Seq(Char)
<1>1. 0 .. 127 \subseteq Char
  BY DEF Char
<1> QED BY <1>1, SeqMonotonic

\* The program's arrays have their terminators.
LEMMA ArraysTerminated ==
  ASSUME NEW a \in Arrays
  PROVE  Terminated(a)
<1>1. a \in Seq(0 .. 127) \ {<<>>} /\ Last(a) = NUL
  BY ArraysAssumption
<1>2. Len(a) \in Nat /\ Len(a) > 0
  BY <1>1
<1>3. a[Len(a)] = NUL
  BY <1>1 DEF Last
<1> QED BY <1>1, <1>2, <1>3, WiderSeq DEF Terminated

\* The new length is the one that was asked for.
LEMMA ResizeSound ==
  ASSUME NEW b, Sound(b), NEW new_size \in Nat
  PROVE  Sound(_String_resize(b, new_size)) /\ _String_resize(b, new_size).len = new_size
BY BlockSound DEF _String_resize, Sound

\* Two Strings together.
LEMMA AddSound ==
  ASSUME NEW b1, Sound(b1), NEW b2, Sound(b2)
  PROVE  Sound(_String_add(b1, b2))
<1>1. /\ b1.len \in Nat /\ b1.data \in Seq(Char) /\ Len(b1.data) = b1.len + 1
      /\ b2.len \in Nat /\ b2.data \in Seq(Char) /\ Len(b2.data) = b2.len + 1
  BY DEF Sound
<1>2. SubSeq(b1.data, 1, b1.len) \in Seq(Char) /\ SubSeq(b2.data, 1, b2.len) \in Seq(Char)
  BY <1>1
<1>3. SubSeq(b1.data, 1, b1.len) \o SubSeq(b2.data, 1, b2.len) \in Seq(Char)
  BY <1>2
<1>4. b1.len + b2.len \in Nat
  BY <1>1
<1> QED BY <1>3, <1>4, BlockSound DEF _String_add

\* String_copy copies no more than either has.
LEMMA MinOfTwo ==
  ASSUME NEW a \in Nat, NEW b \in Nat
  PROVE  Min({a, b}) \in Nat /\ Min({a, b}) <= a /\ Min({a, b}) <= b
<1>1. \E x \in {a, b} : \A y \in {a, b} : x <= y
  OBVIOUS
<1>2. Min({a, b}) \in {a, b} /\ \A y \in {a, b} : Min({a, b}) <= y
  BY <1>1 DEF Min
<1> QED BY <1>2

\* A block with other chars of as many.
LEMMA Rewritten ==
  ASSUME NEW b, Sound(b), NEW data \in [1 .. b.len + 1 -> Char], data[b.len + 1] = NUL
  PROVE  Sound([b EXCEPT !.data = data]) /\ [b EXCEPT !.data = data].len = b.len
<1>1. b.len \in Nat /\ b = [len |-> b.len, data |-> b.data]
  BY DEF Sound
<1>2. [b EXCEPT !.data = data] = [len |-> b.len, data |-> data]
  BY <1>1
<1> QED BY <1>1, <1>2, MakeSound

\* The copy keeps the length and the terminator of its destination.
LEMMA CopySound ==
  ASSUME NEW source, Sound(source), NEW dest, Sound(dest)
  PROVE  Sound(String_copy(source, dest)) /\ String_copy(source, dest).len = dest.len
<1> DEFINE minlen == Min({source.len, dest.len})
<1> DEFINE data == [k \in DOMAIN dest.data |->
                      IF k <= minlen THEN source.data[k] ELSE dest.data[k]]
<1>1. /\ source.len \in Nat /\ source.data \in Seq(Char) /\ Len(source.data) = source.len + 1
      /\ dest.len \in Nat /\ dest.data \in Seq(Char) /\ Len(dest.data) = dest.len + 1
      /\ dest.data[dest.len + 1] = NUL /\ DOMAIN dest.data = 1 .. dest.len + 1
  BY DEF Sound
<1>2. minlen \in Nat /\ minlen <= source.len /\ minlen <= dest.len
  BY <1>1, MinOfTwo
<1> HIDE DEF minlen
<1>3. ASSUME NEW k \in 1 .. dest.len + 1
      PROVE  (IF k <= minlen THEN source.data[k] ELSE dest.data[k]) \in Char
  <2>1. k <= minlen => k \in 1 .. Len(source.data)
    BY <1>1, <1>2
  <2> QED BY <1>1, <2>1
<1>4. data \in [1 .. dest.len + 1 -> Char] /\ data[dest.len + 1] = NUL
  BY <1>1, <1>2, <1>3
<1>5. String_copy(source, dest) = [dest EXCEPT !.data = data]
  BY DEF String_copy, minlen
<1> HIDE DEF data
<1> QED BY <1>4, <1>5, Rewritten, ZenonT(40)

\* A String that nobody wrote has its terminator.
LEMMA NewSound ==
  ASSUME NEW len \in Nat
  PROVE  Sound(_String_new(len))
<1>1. <<>> \in Seq(Char)
  OBVIOUS
<1> QED BY <1>1, BlockSound DEF _String_new

\* String_add_destroy copies what fits exactly if the first String has one char at most.
LEMMA InBoundsIs ==
  ASSUME NEW b1, b1.len \in Nat, NEW b2, b2.len \in Nat
  PROVE  AddDestroyInBounds(b1, b2) <=> b1.len <= 1
<1> DEFINE m == b1.len
<1> DEFINE n == b2.len
<1>1. AddDestroyInBounds(b1, b2) <=>
        m .. m + (m + n) - 1 \subseteq 0 .. m + n /\ 0 .. m + n - 1 \subseteq 0 .. n
  BY DEF AddDestroyInBounds, AddDestroyWrites, AddDestroyReads, AddDestroyCopies
<1>2. m \in Nat /\ n \in Nat
  OBVIOUS
<1> HIDE DEF m, n
<1>3. CASE m <= 1
  <2>1. m .. m + (m + n) - 1 \subseteq 0 .. m + n /\ 0 .. m + n - 1 \subseteq 0 .. n
    BY <1>2, <1>3
  <2> QED BY <1>1, <1>3, <2>1 DEF m
<1>4. CASE m > 1
  <2>1. m + n - 1 \in 0 .. m + n - 1 /\ m + n - 1 \notin 0 .. n
    BY <1>2, <1>4
  <2>2. ~(m <= 1)
    BY <1>2, <1>4
  <2> QED BY <1>1, <2>1, <2>2 DEF m
<1> QED BY <1>2, <1>3, <1>4

\* Where it does, the last char that it copies is the terminator, or there is none to copy.
LEMMA AddDestroySound ==
  ASSUME NEW base, Sound(base), NEW to_append, Sound(to_append),
         AddDestroyInBounds(base, to_append)
  PROVE  Sound(_String_add_destroy(base, to_append))
<1> DEFINE m == base.len
<1> DEFINE n == to_append.len
<1> DEFINE big == _String_resize(base, m + n)
<1> DEFINE data == [k \in 1 .. m + n + 1 |->
                      IF k - 1 \in AddDestroyWrites(base, to_append)
                      THEN to_append.data[k - m] ELSE big.data[k]]
<1>1. /\ m \in Nat /\ n \in Nat
      /\ to_append.data \in Seq(Char) /\ Len(to_append.data) = n + 1
      /\ to_append.data[n + 1] = NUL
  BY DEF Sound
<1>2. m <= 1
  BY <1>1, InBoundsIs
<1>3. Sound(big) /\ big.len = m + n
  <2>1. m + n \in Nat
    BY <1>1
  <2> HIDE DEF m, n
  <2> QED BY <2>1, ResizeSound
<1>4. _String_add_destroy(base, to_append) = [big EXCEPT !.data = data]
  BY DEF _String_add_destroy
<1>5. AddDestroyWrites(base, to_append) = m .. m + (m + n) - 1
  BY DEF AddDestroyWrites, AddDestroyCopies
<1> HIDE DEF big
<1>6. /\ big.data \in Seq(Char) /\ Len(big.data) = m + n + 1 /\ big.data[m + n + 1] = NUL
  BY <1>3 DEF Sound
<1> HIDE DEF m, n
<1>7. ASSUME NEW k \in 1 .. m + n + 1
      PROVE  (IF k - 1 \in m .. m + (m + n) - 1 THEN to_append.data[k - m] ELSE big.data[k]) \in Char
  <2>1. k - 1 \in m .. m + (m + n) - 1 => k - m \in 1 .. n + 1
    BY <1>1, <1>2
  <2>2. k \in 1 .. Len(big.data)
    BY <1>1, <1>6
  <2> QED BY <1>1, <1>6, <2>1, <2>2
<1>8. data \in [1 .. m + n + 1 -> Char]
  BY <1>5, <1>7
<1>9. data[m + n + 1] = NUL
  <2>1. m + n + 1 \in 1 .. m + n + 1
    BY <1>1
  <2>2. CASE (m + n + 1) - 1 \in m .. m + (m + n) - 1
    <3>1. m = 1 /\ (m + n + 1) - m = n + 1
      BY <1>1, <1>2, <2>2
    <3> QED BY <1>1, <1>5, <2>1, <2>2, <3>1
  <2>3. CASE (m + n + 1) - 1 \notin m .. m + (m + n) - 1
    BY <1>5, <1>6, <2>1, <2>3
  <2> QED BY <2>2, <2>3
<1> HIDE DEF data
<1>10. data \in [1 .. big.len + 1 -> Char] /\ data[big.len + 1] = NUL
  BY <1>3, <1>8, <1>9
<1> QED BY <1>3, <1>4, <1>10, Rewritten, ZenonT(40)

\* What is in a block that the program has written.
LEMMA WrittenChars ==
  ASSUME NEW b, Sound(b), Written(b.data)
  PROVE  /\ apaz_strlen(b.data) \in 0 .. b.len
         /\ \A k \in 1 .. apaz_strlen(b.data) : b.data[k] \in 0 .. 127
<1> DEFINE l == apaz_strlen(b.data)
<1>1. Terminated(b.data) /\ b.len \in Nat /\ Len(b.data) = b.len + 1 /\ b.data \in Seq(Char)
  BY DEF Sound, Terminated
<1>2. l \in 0 .. b.len /\ l \in Nat /\ \A j \in 1 .. l : b.data[j] # NUL
  BY <1>1, StrlenIs
<1> HIDE DEF l
<1>3. PICK k \in 1 .. b.len + 1 : b.data[k] = NUL /\ \A j \in 1 .. k : b.data[j] # Unset
  <2>1. DOMAIN b.data = 1 .. b.len + 1
    BY <1>1
  <2> QED BY <2>1, Zenon DEF Written
<1>4. l < k
  BY <1>1, <1>2, <1>3
<1>5. \A j \in 1 .. l : b.data[j] \in Char /\ b.data[j] # Unset
  BY <1>1, <1>2, <1>3, <1>4
<1> QED BY <1>2, <1>5 DEF l, Char

\* A change of case stops before the first NUL.
LEMMA InPlaceSound ==
  ASSUME NEW b, Sound(b), Written(b.data), NEW case \in [0 .. 127 -> 0 .. 127]
  PROVE  Sound(InPlace(b, case))
<1> DEFINE l == apaz_strlen(b.data)
<1> DEFINE data == [k \in DOMAIN b.data |-> IF k <= l THEN case[b.data[k]] ELSE b.data[k]]
<1>1. /\ b.len \in Nat /\ Len(b.data) = b.len + 1 /\ b.data \in Seq(Char)
      /\ b.data[b.len + 1] = NUL /\ DOMAIN b.data = 1 .. b.len + 1
  BY SMTT(30) DEF Sound
<1>2. l \in 0 .. b.len /\ \A k \in 1 .. l : b.data[k] \in 0 .. 127
  BY WrittenChars, ZenonT(40)
<1>3. InPlace(b, case) = [b EXCEPT !.data = data]
  BY SMTT(30) DEF InPlace
<1> HIDE DEF l
<1>4. ASSUME NEW k \in 1 .. b.len + 1
      PROVE  (IF k <= l THEN case[b.data[k]] ELSE b.data[k]) \in Char
  <2>1. CASE k <= l
    <3>1. case[b.data[k]] \in 0 .. 127
      <4>1. k \in 1 .. l
        BY <1>1, <1>2, <2>1
      <4>2. b.data[k] \in 0 .. 127
        BY <1>2, <4>1, SMTT(30)
      <4> QED BY <4>2
    <3> QED BY <2>1, <3>1, SMTT(30) DEF Char
  <2>2. CASE ~(k <= l)
    BY <1>1, <2>2, SMTT(30)
  <2> QED BY <2>1, <2>2, SMTT(30)
<1>5. data = [k \in 1 .. b.len + 1 |-> IF k <= l THEN case[b.data[k]] ELSE b.data[k]]
  BY <1>1, SMTT(30)
<1> HIDE DEF data
<1>6. data \in [1 .. b.len + 1 -> Char]
  BY <1>4, <1>5, ZenonT(40)
<1>7. data[b.len + 1] = NUL
  <2>1. b.len + 1 \in 1 .. b.len + 1 /\ ~(b.len + 1 <= l)
    <3> DEFINE n == b.len
    <3>1. n \in Nat /\ l \in 0 .. n
      BY <1>1, <1>2, SMTT(30)
    <3> HIDE DEF n
    <3>2. n + 1 \in 1 .. n + 1 /\ ~(n + 1 <= l)
      BY <3>1, SMTT(30)
    <3> QED BY <3>2, SMTT(30) DEF n
  <2> QED BY <1>1, <1>5, <2>1, ZenonT(40)
<1>8. Sound([b EXCEPT !.data = data])
  BY <1>6, <1>7, Rewritten, ZenonT(40)
<1> QED BY <1>3, <1>8, ZenonT(40)

\* It does so in both directions.
LEMMA CaseSound ==
  ASSUME NEW b, Sound(b), Written(b.data)
  PROVE  Sound(String_toUpper(b)) /\ Sound(String_toLower(b))
<1>1. toupper \in [0 .. 127 -> 0 .. 127] /\ tolower \in [0 .. 127 -> 0 .. 127]
  BY DEF toupper, tolower
<1> QED BY <1>1, InPlaceSound DEF String_toUpper, String_toLower

\* String_endsWith compares what stands before the terminator.
LEMMA EndsIs ==
  ASSUME NEW b, Sound(b), NEW suffix, Terminated(suffix)
  PROVE  String_endsWith(b, suffix) <=> IsSuffix(Text(suffix), SubSeq(b.data, 1, b.len))
<1> DEFINE n == b.len
<1> DEFINE m == apaz_strlen(suffix)
<1> DEFINE d == b.data
<1> DEFINE s == SubSeq(d, 1, n)
<1> DEFINE t == Text(suffix)
<1>1. /\ n \in Nat /\ d \in Seq(Char) /\ Len(d) = n + 1 /\ d[n + 1] = NUL /\ Terminated(d)
      /\ m \in Nat /\ \A j \in 1 .. m : suffix[j] # NUL
  BY StrlenIs, SoundTerminated DEF Sound
<1>2. t \in Seq(Char) /\ Len(t) = m /\ \A j \in 1 .. m : t[j] = suffix[j]
  BY TextIs
<1>3. String_endsWith(b, suffix) <=> n >= m /\ apaz_str_equals(From(d, n - m), suffix)
  BY DEF String_endsWith
<1>4. \A str : apaz_str_equals(str, suffix) <=>
                 str[Differ(str, suffix) + 1] = suffix[Differ(str, suffix) + 1]
  BY DEF apaz_str_equals
<1> HIDE DEF n, m, d, t
<1>5. s \in Seq(Char) /\ Len(s) = n /\ \A j \in 1 .. n : s[j] = d[j]
  BY <1>1
<1> HIDE DEF s
<1>6. IsSuffix(t, s) <=> m <= n /\ \A j \in 1 .. m : t[j] = s[j + (n - m)]
  BY <1>2, <1>5, SuffixIs, ZenonT(40)
<1>7. CASE m <= n
  <2> DEFINE rest == From(d, n - m)
  <2>1. n - m \in 0 .. Len(d) - 1 /\ Len(d) - (n - m) = m + 1
    BY <1>1, <1>7
  <2>2. Terminated(rest) /\ Len(rest) = m + 1 /\ \A j \in 1 .. m + 1 : rest[j] = d[j + (n - m)]
    BY <1>1, <2>1, FromIs
  <2> HIDE DEF rest
  <2>3. apaz_str_equals(rest, suffix) <=> Text(rest) = t
    BY <1>4, <2>2, EqualsIs DEF t
  <2>4. Text(rest) = t <=> apaz_strlen(rest) = m /\ \A j \in 1 .. apaz_strlen(rest) : rest[j] = suffix[j]
    BY <2>2, SameText DEF t, m
  <2>5. rest[m + 1] = NUL
    <3>1. m + 1 \in 1 .. m + 1 /\ (m + 1) + (n - m) = n + 1
      BY <1>1
    <3> QED BY <1>1, <2>2, <3>1
  <2>6. ASSUME \A j \in 1 .. m : rest[j] = suffix[j]
        PROVE  apaz_strlen(rest) = m
    <3>1. \A j \in 1 .. m : rest[j] # NUL
      BY <1>1, <2>6
    <3>2. m + 1 <= Len(rest)
      BY <1>1, <2>2
    <3> QED BY <1>1, <2>2, <2>5, <3>1, <3>2, StrlenUnique
  <2>7. \A j \in 1 .. m : t[j] = suffix[j] /\ s[j + (n - m)] = rest[j]
    <3> SUFFICES ASSUME NEW j \in 1 .. m PROVE t[j] = suffix[j] /\ s[j + (n - m)] = rest[j]
      OBVIOUS
    <3>1. j \in 1 .. m + 1 /\ j + (n - m) \in 1 .. n
      BY <1>1, <1>7
    <3> QED BY <1>2, <1>5, <2>2, <3>1
  <2>8. Text(rest) = t <=> \A j \in 1 .. m : rest[j] = suffix[j]
    BY <2>4, <2>6
  <2>9. (\A j \in 1 .. m : t[j] = s[j + (n - m)]) <=> \A j \in 1 .. m : rest[j] = suffix[j]
    BY <2>7
  <2>10. n >= m
    BY <1>1, <1>7
  <2>11. String_endsWith(b, suffix) <=> IsSuffix(t, s)
    BY <1>3, <1>6, <1>7, <2>3, <2>8, <2>9, <2>10 DEF rest
  <2> QED BY <2>11 DEF t, s, d, n
<1>8. CASE ~(m <= n)
  <2>1. ~(n >= m)
    BY <1>1, <1>8
  <2>2. String_endsWith(b, suffix) <=> IsSuffix(t, s)
    BY <1>3, <1>6, <1>8, <2>1
  <2> QED BY <2>2 DEF t, s, d, n
<1> QED BY <1>7, <1>8

-------------------------------------------------------------------------
(* The inductive invariant.                                                *)

\* A program without a list has no elements, so that String_split loses none.
Listed ==
  /\ list \in [held : BOOLEAN, elems : Seq(1 .. MaxBlocks)]
  /\ ~list.held => list.elems = <<>>

Owners ==
  /\ Listed
  /\ held \subseteq 1 .. MaxBlocks
  /\ Ownership

-------------------------------------------------------------------------
(* What the steps do to the addresses.                                     *)

\* A block that stays where it is changes no owner.
LEMMA InPlaceStep ==
  ASSUME Owners, DOMAIN heap' = DOMAIN heap, UNCHANGED <<held, list>>
  PROVE  Owners'
BY DEF Owners, Listed, Ownership, Range, IsInjective

\* A new block belongs to the variable that receives it.
LEMMA GetsStep ==
  ASSUME Owners, NEW b, Gets(b), UNCHANGED list
  PROVE  Owners'
<1>1. PICK a \in Addresses(heap) : heap' = With(heap, a, b) /\ held' = held \cup {a}
  BY DEF Gets
<1>2. a \in 1 .. MaxBlocks /\ a \notin DOMAIN heap
  BY DEF Addresses
<1>3. DOMAIN heap' = DOMAIN heap \cup {a}
  BY <1>1 DEF With
<1> QED BY <1>1, <1>2, <1>3 DEF Owners, Listed, Ownership, Range, IsInjective

\* A freed block leaves the variable that it was in.
LEMMA GoneStep ==
  ASSUME Owners, NEW x \in held, DOMAIN heap' = DOMAIN heap \ {x}, held' = held \ {x},
         UNCHANGED list
  PROVE  Owners'
BY DEF Owners, Listed, Ownership, Range, IsInjective

\* String_split puts the new blocks into the list and nowhere else.
LEMMA SplitStep ==
  ASSUME Owners, NEW x, Split(x)
  PROVE  Owners'
<1>1. PICK a \in Arrays, n \in 1 .. MaxBlocks : \E new \in [1 .. n -> Addresses(heap)] :
        /\ \A j, k \in DOMAIN new : j < k => new[j] < new[k]
        /\ heap' = [p \in DOMAIN heap \cup Range(new) |->
             IF p \in DOMAIN heap THEN heap[p]
             ELSE Parts(Data(x), a)[CHOOSE k \in DOMAIN new : new[k] = p]]
        /\ list' = Held(new)
  BY DEF Split
<1>2. PICK new \in [1 .. n -> Addresses(heap)] :
        /\ \A j, k \in DOMAIN new : j < k => new[j] < new[k]
        /\ DOMAIN heap' = DOMAIN heap \cup Range(new)
        /\ list' = Held(new)
  BY <1>1
<1>3. n \in Nat
  BY BoundsAssumption
<1>4. new \in Seq(1 .. MaxBlocks) /\ Range(new) \cap DOMAIN heap = {}
  <2>1. Addresses(heap) \subseteq 1 .. MaxBlocks /\ Addresses(heap) \cap DOMAIN heap = {}
    BY DEF Addresses
  <2>2. new \in [1 .. n -> 1 .. MaxBlocks]
    BY <1>2, <2>1
  <2>3. new \in Seq(1 .. MaxBlocks)
    BY <1>3, <2>2, SeqDef, Zenon
  <2>4. Range(new) \subseteq Addresses(heap)
    BY <1>2 DEF Range
  <2> QED BY <2>1, <2>3, <2>4
<1>5. IsInjective(new)
  BY <1>2, <1>3, <1>4, SMTT(30) DEF IsInjective, Addresses
<1>6. list.elems = <<>> /\ held' = held
  BY DEF Split, Owners, Listed
<1>7. held = DOMAIN heap
  BY <1>6 DEF Owners, Ownership, Range
<1>8. list'.elems = new /\ list'.held /\ list' \in [held : BOOLEAN, elems : Seq(1 .. MaxBlocks)]
  BY <1>2, <1>4 DEF Held
<1> QED BY <1>2, <1>4, <1>5, <1>6, <1>7, <1>8 DEF Owners, Listed, Ownership

\* List_String_addeq moves a String from a variable into the list.
LEMMA ListAddStep ==
  ASSUME Owners, NEW x \in held, ListAdd(x)
  PROVE  Owners'
<1> DEFINE e == list.elems
<1>1. /\ e \in Seq(1 .. MaxBlocks) /\ x \in 1 .. MaxBlocks
      /\ \A j \in 1 .. Len(e) : e[j] # x
      /\ \A j, k \in 1 .. Len(e) : e[j] = e[k] => j = k
  BY DEF Owners, Listed, Ownership, Range, IsInjective
<1>2. /\ list'.held /\ list'.elems = Append(e, x) /\ held' = held \ {x} /\ heap' = heap
      /\ list' \in [held : BOOLEAN, elems : Seq(1 .. MaxBlocks)]
  BY <1>1 DEF ListAdd, Held
<1>3. IsInjective(Append(e, x))
  BY <1>1 DEF IsInjective
<1>4. Range(Append(e, x)) = Range(e) \cup {x}
  <2>1. Len(Append(e, x)) = Len(e) + 1 /\ DOMAIN Append(e, x) = 1 .. Len(e) + 1
    BY <1>1
  <2>2. Append(e, x)[Len(e) + 1] = x /\ \A k \in 1 .. Len(e) : Append(e, x)[k] = e[k]
    BY <1>1
  <2>3. \A p \in Range(Append(e, x)) : p \in Range(e) \cup {x}
    BY <1>1, <2>1, <2>2 DEF Range
  <2>4. \A p \in Range(e) : p \in Range(Append(e, x))
    BY <1>1, <2>1, <2>2 DEF Range
  <2>5. x \in Range(Append(e, x))
    BY <1>1, <2>1, <2>2 DEF Range
  <2> QED BY <2>3, <2>4, <2>5
<1>5. IsInjective(e) /\ held \cap Range(e) = {} /\ held \cup Range(e) = DOMAIN heap
  BY DEF Owners, Ownership
<1>6. Listed'
  BY <1>2 DEF Listed
<1>7. held' \subseteq 1 .. MaxBlocks
  BY <1>2 DEF Owners
<1>8. held' \cap Range(list'.elems) = {} /\ held' \cup Range(list'.elems) = DOMAIN heap'
  <2>1. Range(list'.elems) = Range(e) \cup {x} /\ held' = held \ {x} /\ DOMAIN heap' = DOMAIN heap
    BY <1>2, <1>4
  <2> HIDE DEF e
  <2> QED BY ONLY <2>1, <1>5, x \in held
<1> QED BY <1>2, <1>3, <1>6, <1>7, <1>8 DEF Owners, Ownership

\* The list goes with its elements.
LEMMA ListDestroyStep ==
  ASSUME Owners, ListDestroy
  PROVE  Owners'
<1>1. DOMAIN heap' = DOMAIN heap \ Range(list.elems) /\ held' = held /\ list' = None
  BY DEF ListDestroy, Without, Restrict
<1>2. held' = DOMAIN heap'
  BY <1>1 DEF Owners, Ownership
<1> QED BY <1>1, <1>2 DEF Owners, Listed, Ownership, None, Range, IsInjective

-------------------------------------------------------------------------
(* All steps.                                                              *)

\* Every step keeps the owners.
LEMMA OwnersStep ==
  ASSUME Owners, [StringsNext]_stringVars
  PROVE  Owners'
<1>1. CASE UNCHANGED stringVars
  BY <1>1, InPlaceStep DEF stringVars
<1>2. CASE New
  BY <1>2, GetsStep DEF New, Lists
<1>3. CASE ListChangeCase
  BY <1>3, InPlaceStep DEF ListChangeCase, Lists
<1>4. CASE ListDestroy
  BY <1>4, ListDestroyStep
<1>5. CASE List_char_to_String
  BY <1>5, GetsStep DEF List_char_to_String
<1>6. ASSUME NEW x \in held, NEW b, Changes(x, b), UNCHANGED list
      PROVE  Owners'
  BY <1>6, InPlaceStep DEF Changes
<1>7. ASSUME NEW x \in held, Gone(x), UNCHANGED list
      PROVE  Owners'
  BY <1>7, GoneStep DEF Gone, Without, Restrict
<1>8. ASSUME NEW x \in held, Fill(x) \/ Resize(x) \/ ChangeCase(x)
      PROVE  Owners'
  BY <1>8, <1>6 DEF Fill, Resize, ChangeCase, Lists
<1>9. ASSUME NEW x \in held, Destroy(x) \/ String_to_List_char(x)
      PROVE  Owners'
  BY <1>9, <1>7 DEF Destroy, String_to_List_char, Lists
<1>10. ASSUME NEW x \in held, Clone(x) \/ Substring(x)
       PROVE  Owners'
  BY <1>10, GetsStep DEF Clone, Substring, Lists
<1>11. ASSUME NEW x \in held, NEW y \in held, Add(x, y)
       PROVE  Owners'
  BY <1>11, GetsStep DEF Add, Lists
<1>12. ASSUME NEW x \in held, NEW y \in held, AddDestroy(x, y)
       PROVE  Owners'
  <2>1. CASE AddDestroyInBounds(heap[x], heap[y])
    <3>1. /\ heap' = Without([heap EXCEPT ![x] = _String_add_destroy(@, heap[y])], {y})
          /\ held' = held \ {y} /\ UNCHANGED list
      BY <1>12, <2>1 DEF AddDestroy, Lists
    <3>2. DOMAIN heap' = DOMAIN heap \ {y}
      BY <3>1 DEF Without, Restrict
    <3> QED BY <3>1, <3>2, GoneStep
  <2>2. CASE ~AddDestroyInBounds(heap[x], heap[y])
    <3>1. heap' = <<>> /\ held' = {} /\ list' = None
      BY <1>12, <2>2 DEF AddDestroy, Overrun
    <3> QED BY <3>1 DEF Owners, Listed, Ownership, None, Range, IsInjective
  <2> QED BY <2>1, <2>2
<1>13. ASSUME NEW x \in held, NEW y \in held, Copy(x, y)
       PROVE  Owners'
  BY <1>13, <1>6 DEF Copy, Lists
<1> QED
  BY <1>1, <1>2, <1>3, <1>4, <1>5, <1>8, <1>9, <1>10, <1>11, <1>12, <1>13, SplitStep, ListAddStep
     DEF StringsNext

\* At first there are no Strings.
LEMMA OwnersInit == StringsInit => Owners
BY DEF StringsInit, Owners, Listed, Ownership, None, Range, IsInjective

-------------------------------------------------------------------------
(* What the steps do to the blocks.                                        *)

\* Every block is sound, and so is what else the program holds.
SoundBlocks ==
  /\ \A p \in DOMAIN heap : Sound(heap[p])
  /\ letters \in [held : BOOLEAN, elems : Seq(Char)]
  /\ fault \in BOOLEAN

\* A step that overruns no String.
LEMMA BlocksStay ==
  ASSUME SoundBlocks, UNCHANGED <<letters, fault>>, \A p \in DOMAIN heap' : Sound(heap'[p])
  PROVE  SoundBlocks'
BY DEF SoundBlocks

\* A step that allocates a String.
LEMMA BlocksGets ==
  ASSUME SoundBlocks, NEW b, Sound(b), Gets(b), UNCHANGED fault,
         letters' \in [held : BOOLEAN, elems : Seq(Char)]
  PROVE  SoundBlocks'
<1>1. PICK a : heap' = With(heap, a, b)
  BY DEF Gets
<1>2. \A p \in DOMAIN heap' : Sound(heap'[p])
  <2> SUFFICES ASSUME NEW p \in DOMAIN heap' PROVE Sound(heap'[p])
    OBVIOUS
  <2>1. p \in DOMAIN heap \cup {a} /\ heap'[p] = IF p = a THEN b ELSE heap[p]
    BY <1>1 DEF With
  <2> QED BY <2>1 DEF SoundBlocks
<1> QED BY <1>2 DEF SoundBlocks

\* A step that rewrites a String.
LEMMA BlocksChange ==
  ASSUME SoundBlocks, NEW x, NEW b, Sound(b), Changes(x, b), UNCHANGED <<letters, fault>>
  PROVE  SoundBlocks'
<1>1. heap' = [heap EXCEPT ![x] = b]
  BY DEF Changes
<1>2. \A p \in DOMAIN heap' : Sound(heap'[p])
  <2> SUFFICES ASSUME NEW p \in DOMAIN heap' PROVE Sound(heap'[p])
    OBVIOUS
  <2>1. p \in DOMAIN heap /\ heap'[p] = IF p = x THEN b ELSE heap[p]
    BY <1>1
  <2> QED BY <2>1 DEF SoundBlocks
<1> QED BY <1>2, BlocksStay

\* What is left of a heap of sound blocks.
LEMMA BlocksLeft ==
  ASSUME NEW h, \A p \in DOMAIN h : Sound(h[p]), NEW S
  PROVE  \A p \in DOMAIN Without(h, S) : Sound(Without(h, S)[p])
BY DEF Without, Restrict

\* The parts of a String are Strings.
LEMMA BlocksSplit ==
  ASSUME SoundBlocks, Owners, NEW x \in held, Split(x)
  PROVE  SoundBlocks'
<1>1. x \in DOMAIN heap
  BY DEF Owners, Ownership
<1>2. PICK a \in Arrays, n \in 1 .. MaxBlocks :
        /\ Len(Parts(Data(x), a)) = n
        /\ \E new \in [1 .. n -> Addresses(heap)] :
             /\ \A j, k \in DOMAIN new : j < k => new[j] < new[k]
             /\ \A p \in Range(new), c \in Addresses(heap) : c < p => c \in Range(new)
             /\ heap' = [p \in DOMAIN heap \cup Range(new) |->
                  IF p \in DOMAIN heap THEN heap[p]
                  ELSE Parts(Data(x), a)[CHOOSE k \in DOMAIN new : new[k] = p]]
             /\ list' = Held(new)
  BY DEF Split
<1>3. PICK new \in [1 .. n -> Addresses(heap)] :
        heap' = [p \in DOMAIN heap \cup Range(new) |->
          IF p \in DOMAIN heap THEN heap[p]
          ELSE Parts(Data(x), a)[CHOOSE k \in DOMAIN new : new[k] = p]]
  BY <1>2
<1>4. \A k \in 1 .. n : Sound(Parts(Data(x), a)[k])
  <2>1. Terminated(Data(x)) /\ Terminated(a)
    BY <1>1, SoundTerminated, ArraysTerminated DEF SoundBlocks, Data
  <2> QED BY <1>2, <2>1, PartsSound
<1>5. \A p \in DOMAIN heap' : Sound(heap'[p])
  <2> SUFFICES ASSUME NEW p \in DOMAIN heap' PROVE Sound(heap'[p])
    OBVIOUS
  <2>1. CASE p \in DOMAIN heap
    <3>1. heap'[p] = heap[p]
      BY <1>3, <2>1
    <3> QED BY <2>1, <3>1 DEF SoundBlocks
  <2>2. CASE p \notin DOMAIN heap
    <3> DEFINE k == CHOOSE j \in DOMAIN new : new[j] = p
    <3>1. p \in Range(new)
      BY <1>3, <2>2
    <3>2. \E j \in DOMAIN new : new[j] = p
      BY <3>1 DEF Range
    <3>3. k \in 1 .. n
      BY <3>2
    <3>4. heap'[p] = Parts(Data(x), a)[k]
      BY <1>3, <2>2, <3>1
    <3> HIDE DEF k
    <3> QED BY <1>4, <3>3, <3>4
  <2> QED BY <2>1, <2>2
<1>6. UNCHANGED <<letters, fault>>
  BY DEF Split
<1> QED BY <1>5, <1>6, BlocksStay

\* The three ways to a new String.
LEMMA BlocksNew ==
  ASSUME SoundBlocks, New
  PROVE  SoundBlocks'
<1>1. UNCHANGED <<letters, fault>>
  BY DEF New, Lists
<1>2. letters' \in [held : BOOLEAN, elems : Seq(Char)]
  BY <1>1 DEF SoundBlocks
<1>3. ASSUME NEW len \in 0 .. MaxLen, Gets(_String_new(len))
      PROVE  SoundBlocks'
  <2>1. len \in Nat
    BY BoundsAssumption
  <2> QED BY <1>1, <1>2, <1>3, <2>1, NewSound, BlocksGets
<1>4. ASSUME NEW a \in Arrays, NEW len \in 0 .. Len(a) - 1, Gets(_String_new_of(a, len))
      PROVE  SoundBlocks'
  <2>1. a \in Seq(Char) /\ len \in 0 .. Len(a)
    BY ArraysTerminated DEF Terminated
  <2>2. Sound(_String_new_of(a, len))
    BY <2>1, NewOfSound
  <2> QED BY <1>1, <1>2, <1>4, <2>2, BlocksGets
<1>5. ASSUME NEW a \in Arrays, Gets(_String_new_of_strlen(a))
      PROVE  SoundBlocks'
  <2>1. Sound(_String_new_of_strlen(a))
    BY ArraysTerminated, NewOfStrlenSound
  <2> QED BY <1>1, <1>2, <1>5, <2>1, BlocksGets
<1> QED BY <1>3, <1>4, <1>5 DEF New

\* The list keeps the lengths of its Strings.
LEMMA BlocksListChangeCase ==
  ASSUME SoundBlocks, ListChangeCase
  PROVE  SoundBlocks'
<1>1. \A p \in DOMAIN heap : p \in Range(list.elems) =>
        Sound(String_toUpper(heap[p])) /\ Sound(String_toLower(heap[p]))
  BY CaseSound DEF SoundBlocks, ListChangeCase
<1>2. \A p \in DOMAIN heap' : p \in DOMAIN heap /\
        (\/ heap'[p] = IF p \in Range(list.elems) THEN String_toUpper(heap[p]) ELSE heap[p]
         \/ heap'[p] = IF p \in Range(list.elems) THEN String_toLower(heap[p]) ELSE heap[p])
  BY DEF ListChangeCase
<1>3. \A p \in DOMAIN heap' : Sound(heap'[p])
  BY <1>1, <1>2 DEF SoundBlocks
<1> QED BY <1>3, BlocksStay DEF ListChangeCase, Lists

\* String_add_destroy leaves a String, or overruns one and nothing is left.
LEMMA BlocksAddDestroy ==
  ASSUME SoundBlocks, NEW x \in DOMAIN heap, NEW y \in DOMAIN heap, AddDestroy(x, y)
  PROVE  SoundBlocks'
<1> DEFINE base == heap[x]
<1> DEFINE to_append == heap[y]
<1>1. Sound(base) /\ Sound(to_append)
  BY DEF SoundBlocks
<1>3. CASE AddDestroyInBounds(base, to_append)
  <2> DEFINE b == _String_add_destroy(base, to_append)
  <2> DEFINE h == [heap EXCEPT ![x] = b]
  <2>1. Sound(b)
    BY <1>1, <1>3, AddDestroySound
  <2>2. heap' = Without(h, {y}) /\ UNCHANGED <<letters, fault>>
    BY <1>3 DEF AddDestroy, Lists
  <2> HIDE DEF b
  <2>3. \A p \in DOMAIN h : Sound(h[p])
    BY <2>1 DEF SoundBlocks
  <2> HIDE DEF h
  <2> QED BY <2>2, <2>3, BlocksLeft, BlocksStay
<1>4. CASE ~AddDestroyInBounds(base, to_append)
  <2>1. heap' = <<>> /\ letters' = None /\ fault' = TRUE
    BY <1>4 DEF AddDestroy, Overrun
  <2> QED BY <2>1 DEF SoundBlocks, None
<1> QED BY <1>3, <1>4

\* Every step leaves sound blocks.
LEMMA BlocksStep ==
  ASSUME SoundBlocks, Owners, [StringsNext]_stringVars
  PROVE  SoundBlocks'
<1>1. held \subseteq DOMAIN heap /\ \A p \in held : Sound(heap[p])
  BY DEF SoundBlocks, Owners, Ownership
<1>2. CASE UNCHANGED stringVars
  BY <1>2, BlocksStay DEF stringVars, SoundBlocks
<1>3. CASE ListDestroy
  <2>1. heap' = Without(heap, Range(list.elems)) /\ UNCHANGED <<letters, fault>>
    BY <1>3 DEF ListDestroy
  <2> QED BY <2>1, BlocksLeft, BlocksStay DEF SoundBlocks
<1>4. CASE List_char_to_String
  <2> DEFINE e == letters.elems
  <2>1. /\ Gets(_String_new_of(e, Len(e))) /\ letters' = None /\ UNCHANGED fault
    BY <1>4 DEF List_char_to_String
  <2>2. e \in Seq(Char) /\ Len(e) \in 0 .. Len(e)
    BY DEF SoundBlocks
  <2>3. None \in [held : BOOLEAN, elems : Seq(Char)]
    BY DEF None
  <2> HIDE DEF e
  <2>4. Sound(_String_new_of(e, Len(e)))
    BY <2>2, NewOfSound
  <2> QED BY <2>1, <2>3, <2>4, BlocksGets
<1>5. ASSUME NEW x \in held, NEW b, Sound(b), Gets(b), UNCHANGED <<letters, fault>>
      PROVE  SoundBlocks'
  <2>1. letters' \in [held : BOOLEAN, elems : Seq(Char)]
    BY <1>5 DEF SoundBlocks
  <2> QED BY <1>5, <2>1, BlocksGets
<1>6. ASSUME NEW x \in held, Gone(x), UNCHANGED fault,
             letters' \in [held : BOOLEAN, elems : Seq(Char)]
      PROVE  SoundBlocks'
  <2>1. \A p \in DOMAIN heap' : Sound(heap'[p])
    BY <1>6, BlocksLeft DEF Gone, SoundBlocks
  <2> QED BY <1>6, <2>1 DEF SoundBlocks
<1>7. ASSUME NEW x \in held, Fill(x)
      PROVE  SoundBlocks'
  <2>1. PICK a \in Arrays : Len(a) > String_len(x) /\ Changes(x, _String_new_of(a, String_len(x)))
    BY <1>7 DEF Fill
  <2>2. a \in Seq(Char) /\ Len(a) \in Nat /\ String_len(x) \in Nat
    BY <1>1, ArraysTerminated DEF Terminated, Sound, String_len
  <2>3. String_len(x) \in 0 .. Len(a)
    BY <2>1, <2>2
  <2>4. Sound(_String_new_of(a, String_len(x)))
    BY <2>2, <2>3, NewOfSound
  <2> QED BY <1>7, <2>1, <2>4, BlocksChange DEF Fill, Lists
<1>8. ASSUME NEW x \in held, Resize(x)
      PROVE  SoundBlocks'
  <2>1. PICK new_size \in 0 .. MaxLen : Changes(x, _String_resize(heap[x], new_size))
    BY <1>8 DEF Resize
  <2>2. new_size \in Nat
    BY BoundsAssumption
  <2>3. Sound(_String_resize(heap[x], new_size))
    BY <1>1, <2>2, ResizeSound
  <2> QED BY <1>8, <2>1, <2>3, BlocksChange DEF Resize, Lists
<1>9. ASSUME NEW x \in held, ChangeCase(x)
      PROVE  SoundBlocks'
  <2>1. Sound(String_toUpper(heap[x])) /\ Sound(String_toLower(heap[x]))
    BY <1>1, <1>9, CaseSound DEF ChangeCase, Data
  <2> QED BY <1>9, <2>1, BlocksChange DEF ChangeCase, Lists
<1>10. ASSUME NEW x \in held, Destroy(x)
       PROVE  SoundBlocks'
  BY <1>6, <1>10 DEF Destroy, Lists, SoundBlocks
<1>11. ASSUME NEW x \in held, Clone(x)
       PROVE  SoundBlocks'
  <2>1. Sound(heap[x]) /\ heap[x].len \in Nat
    BY <1>1 DEF Sound
  <2>2. Sound(_String_clone(heap[x]))
    BY <2>1, NewSound, CopySound DEF _String_clone
  <2> QED BY <1>5, <1>11, <2>2 DEF Clone, Lists
<1>12. ASSUME NEW x \in held, Substring(x)
       PROVE  SoundBlocks'
  <2>1. PICK end \in 0 .. MaxLen : \E start \in PartStarts \cap 0 .. end :
          Gets(_String_substring(heap[x], start, end))
    BY <1>12 DEF Substring
  <2>2. PICK start \in PartStarts \cap 0 .. end : Gets(_String_substring(heap[x], start, end))
    BY <2>1
  <2>3. end - start \in Nat
    BY BoundsAssumption
  <2>4. Sound(_String_new(end - start))
    BY <2>3, NewSound
  <2>5. Sound(_String_substring(heap[x], start, end))
    BY <1>1, <2>4, CopySound DEF _String_substring
  <2> QED BY <1>5, <1>12, <2>2, <2>5 DEF Substring, Lists
<1>13. ASSUME NEW x \in held, ListAdd(x)
       PROVE  SoundBlocks'
  BY <1>13, BlocksStay DEF ListAdd, SoundBlocks
<1>14. ASSUME NEW x \in held, String_to_List_char(x)
       PROVE  SoundBlocks'
  <2>1. letters' = Held(SubSeq(Data(x), 1, String_len(x))) /\ Gone(x) /\ UNCHANGED fault
    BY <1>14 DEF String_to_List_char
  <2>2. SubSeq(Data(x), 1, String_len(x)) \in Seq(Char)
    BY <1>1 DEF Sound, Data, String_len
  <2>3. letters' \in [held : BOOLEAN, elems : Seq(Char)]
    BY <2>1, <2>2 DEF Held
  <2> QED BY <1>6, <2>1, <2>3
<1>15. ASSUME NEW x \in held, NEW y \in held, Add(x, y)
       PROVE  SoundBlocks'
  <2>1. Sound(_String_add(heap[x], heap[y]))
    BY <1>1, AddSound
  <2> QED BY <1>5, <1>15, <2>1 DEF Add, Lists
<1>16. ASSUME NEW x \in held, NEW y \in held, AddDestroy(x, y)
       PROVE  SoundBlocks'
  BY <1>1, <1>16, BlocksAddDestroy
<1>17. ASSUME NEW x \in held, NEW y \in held, Copy(x, y)
       PROVE  SoundBlocks'
  <2>1. Sound(String_copy(heap[x], heap[y]))
    BY <1>1, CopySound
  <2> QED BY <1>17, <2>1, BlocksChange DEF Copy, Lists
<1> QED
  BY <1>2, <1>3, <1>4, <1>7, <1>8, <1>9, <1>10, <1>11, <1>12, <1>13, <1>14, <1>15, <1>16,
     <1>17, BlocksNew, BlocksListChangeCase, BlocksSplit
     DEF StringsNext

\* At first there are no blocks.
LEMMA BlocksInit == StringsInit => SoundBlocks
<1> SUFFICES ASSUME StringsInit PROVE SoundBlocks
  OBVIOUS
<1>1. heap = <<>> /\ letters = None /\ fault \in BOOLEAN
  BY DEF StringsInit
<1>2. None \in [held : BOOLEAN, elems : Seq(Char)]
  BY DEF None
<1>3. \A p \in DOMAIN heap : Sound(heap[p])
  BY <1>1
<1> QED BY <1>1, <1>2, <1>3 DEF SoundBlocks

\* What the two parts of the invariant say together.
LEMMA BlocksTypeOK == Owners /\ SoundBlocks => StringsTypeOK
<1> SUFFICES ASSUME Owners, SoundBlocks PROVE StringsTypeOK
  OBVIOUS
<1>1. ASSUME NEW p \in DOMAIN heap
      PROVE  /\ heap[p].len \in Nat
             /\ Len(heap[p].data) = heap[p].len + 1
             /\ Last(heap[p].data) = NUL
             /\ Range(heap[p].data) \subseteq 0 .. 127 \cup {Unset}
  <2>1. Sound(heap[p])
    BY DEF SoundBlocks
  <2>2. /\ heap[p].len \in Nat /\ heap[p].data \in Seq(Char)
        /\ Len(heap[p].data) = heap[p].len + 1 /\ heap[p].data[heap[p].len + 1] = NUL
    BY <2>1 DEF Sound
  <2>3. Last(heap[p].data) = NUL
    BY <2>2 DEF Last
  <2>4. Range(heap[p].data) \subseteq Char
    BY <2>2 DEF Range
  <2> QED BY <2>2, <2>3, <2>4 DEF Char
<1>2. DOMAIN heap \subseteq 1 .. MaxBlocks /\ held \subseteq 1 .. MaxBlocks
  <2>1. Range(list.elems) \subseteq 1 .. MaxBlocks
    <3> DEFINE e == list.elems
    <3>1. e \in Seq(1 .. MaxBlocks)
      BY DEF Owners, Listed
    <3> HIDE DEF e
    <3>4. DOMAIN e = 1 .. Len(e)
      BY <3>1
    <3>2. \A k \in DOMAIN e : e[k] \in 1 .. MaxBlocks
      BY <3>1, <3>4, ElementOfSeq, Zenon
    <3>3. Range(e) \subseteq 1 .. MaxBlocks
      BY <3>2, Zenon DEF Range
    <3> QED BY <3>3 DEF e
  <2> QED BY <2>1 DEF Owners, Ownership
<1>3. /\ list.elems \in Seq(1 .. MaxBlocks) /\ letters.elems \in Seq(0 .. 127 \cup {Unset})
      /\ list.held \in BOOLEAN /\ letters.held \in BOOLEAN
      /\ fault \in BOOLEAN
  BY DEF Owners, Listed, SoundBlocks, Char
<1> QED BY <1>1, <1>2, <1>3, Zenon DEF StringsTypeOK

\* What Comparisons says of two blocks.
Agree(p, seq) ==
  LET str == heap[p].data
      s == Text(str)
      t == Text(seq)
      found == apaz_strstr(str, seq)
  IN  /\ apaz_str_equals(str, seq) <=> s = t
      /\ apaz_strcmp(str, seq) = 0 <=> s = t
      /\ apaz_strcmp(str, seq) < 0 <=> Before(s, t)
      /\ apaz_str_startsWith(str, seq) <=> t # <<>> /\ IsPrefix(t, s)
      /\ apaz_str_contains(str, seq) <=> t # <<>> /\ \E k \in 0 .. Len(s) : OccursAt(s, t, k)
      /\ found # NotFound =>
           OccursAt(s, t, found) /\ \A k \in 0 .. found - 1 : ~OccursAt(s, t, k)
      /\ Unset \notin Range(str) =>
           (String_endsWith(heap[p], seq) <=> IsSuffix(t, SubSeq(str, 1, heap[p].len)))

\* That is all of it.
LEMMA AgreeAll ==
  ASSUME \A p, q \in DOMAIN heap :
           Written(heap[p].data) /\ Written(heap[q].data) => Agree(p, heap[q].data)
  PROVE  Comparisons
<1> DEFINE readable == {p \in DOMAIN heap : Written(heap[p].data)}
<1>1. \A p \in readable : \A seq \in {heap[q].data : q \in readable} : Agree(p, seq)
  OBVIOUS
<1> QED BY <1>1, Zenon DEF Comparisons, Agree

\* Sound blocks are compared as their texts are.
LEMMA BlocksCompare == SoundBlocks => Comparisons
<1> SUFFICES ASSUME SoundBlocks,
                    NEW p \in DOMAIN heap, Written(heap[p].data),
                    NEW q \in DOMAIN heap, Written(heap[q].data)
             PROVE  Agree(p, heap[q].data)
  BY AgreeAll
<1> DEFINE str == heap[p].data
<1> DEFINE seq == heap[q].data
<1>1. Sound(heap[p]) /\ Sound(heap[q])
  BY DEF SoundBlocks
<1>2. Terminated(str) /\ Terminated(seq)
  BY <1>1, SoundTerminated
<1>3. Numbered(str) /\ Numbered(seq)
  <2>1. ASSUME NEW b, Sound(b), Written(b.data)
        PROVE  Numbered(b.data)
    <3> DEFINE l == apaz_strlen(b.data)
    <3>1. l \in Nat /\ b.data[l + 1] = NUL /\ \A j \in 1 .. l : b.data[j] \in 0 .. 127
      BY <2>1, SoundTerminated, StrlenIs, WrittenChars
    <3> HIDE DEF l
    <3>2. \A j \in 1 .. l + 1 : j \in 1 .. l \/ j = l + 1
      BY <3>1
    <3>3. \A j \in 1 .. l + 1 : b.data[j] \in 0 .. 127
      BY <3>1, <3>2 DEF NUL
    <3> QED BY <3>3 DEF Numbered, l
  <2> QED BY <1>1, <2>1
<1>4. apaz_str_equals(str, seq) <=> str[Differ(str, seq) + 1] = seq[Differ(str, seq) + 1]
  BY DEF apaz_str_equals
<1>5. String_endsWith(heap[p], seq) <=> IsSuffix(Text(seq), SubSeq(str, 1, heap[p].len))
  BY <1>1, <1>2, EndsIs
<1>6. apaz_str_equals(str, seq) <=> Text(str) = Text(seq)
  BY <1>2, <1>4, EqualsIs
<1> HIDE DEF str, seq
<1>7. /\ apaz_strcmp(str, seq) = 0 <=> Text(str) = Text(seq)
      /\ apaz_strcmp(str, seq) < 0 <=> Before(Text(str), Text(seq))
  BY <1>2, <1>3, StrcmpIs
<1>8. apaz_str_startsWith(str, seq) <=> Text(seq) # <<>> /\ IsPrefix(Text(seq), Text(str))
  BY <1>2, PrefixIs
<1>9. /\ apaz_str_contains(str, seq) <=>
           Text(seq) # <<>> /\ \E k \in 0 .. Len(Text(str)) : OccursAt(Text(str), Text(seq), k)
      /\ apaz_strstr(str, seq) # NotFound =>
           /\ OccursAt(Text(str), Text(seq), apaz_strstr(str, seq))
           /\ \A k \in 0 .. apaz_strstr(str, seq) - 1 : ~OccursAt(Text(str), Text(seq), k)
  BY <1>2, FoundIs
<1> QED BY <1>5, <1>6, <1>7, <1>8, <1>9, Zenon DEF str, seq, Agree

-------------------------------------------------------------------------
(* The texts of the blocks.                                                *)

\* The text of a block.
Said(b) == SubSeq(b.data, 1, b.len)

\* It has the chars of the block but for the terminator.
LEMMA SaidIs ==
  ASSUME NEW b, Sound(b)
  PROVE  /\ b.len \in Nat /\ Said(b) \in Seq(Char) /\ Len(Said(b)) = b.len
         /\ DOMAIN Said(b) = 1 .. b.len
         /\ \A k \in 1 .. b.len : Said(b)[k] = b.data[k]
         /\ Said(b) = [k \in 1 .. b.len |-> b.data[k]]
<1>1. b.len \in Nat /\ b.data \in Seq(Char) /\ Len(b.data) = b.len + 1
  BY DEF Sound
<1>2. /\ Said(b) \in Seq(Char) /\ Len(Said(b)) = b.len
      /\ \A k \in 1 .. b.len : Said(b)[k] = b.data[k]
  BY <1>1 DEF Said
<1>3. Said(b) = [k \in 1 .. b.len |-> b.data[k]]
  BY <1>1 DEF Said
<1> QED BY <1>1, <1>2, <1>3

\* With its terminator the text is the array.
LEMMA SaidEnds ==
  ASSUME NEW b, Sound(b)
  PROVE  Abstract!CString(Said(b)) = b.data
<1> DEFINE s == Said(b)
<1>1. b.len \in Nat /\ b.data \in Seq(Char) /\ Len(b.data) = b.len + 1 /\ b.data[b.len + 1] = NUL
  BY DEF Sound
<1>2. s \in Seq(Char) /\ Len(s) = b.len /\ \A k \in 1 .. b.len : s[k] = b.data[k]
  BY SaidIs
<1>3. Abstract!CString(s) = Append(s, NUL)
  BY DEF Abstract!CString, Abstract!NUL, NUL
<1> HIDE DEF s
<1>4. NUL \in Char
  BY DEF NUL, Char
<1>5. Append(s, NUL) \in Seq(Char) /\ Len(Append(s, NUL)) = b.len + 1
      /\ Append(s, NUL)[b.len + 1] = NUL /\ \A k \in 1 .. b.len : Append(s, NUL)[k] = s[k]
  BY <1>1, <1>2, <1>4
<1> DEFINE t == Append(s, NUL)
<1>6. t \in Seq(Char) /\ Len(t) = Len(b.data)
  BY <1>1, <1>5
<1>7. \A k \in 1 .. Len(t) : t[k] = b.data[k]
  <2>1. \A k \in 1 .. b.len + 1 : k \in 1 .. b.len \/ k = b.len + 1
    BY <1>1
  <2> QED BY <1>1, <1>2, <1>5, <2>1
<1> HIDE DEF t
<1>8. t = b.data
  BY <1>1, <1>6, <1>7, SameSeq
<1> QED BY <1>3, <1>8 DEF t, s

\* The text of an array, as the two modules define it.
LEMMA SameTextOf == \A str : Abstract!Text(str) = Text(str)
  BY Zenon DEF Text, Abstract!Text, SelectInSeq, Abstract!SelectInSeq, Min, Abstract!Min, NUL, Abstract!NUL

\* What is shown of the text of a block is what the functions on char * see of it.
LEMMA ShownIs ==
  ASSUME NEW b, Sound(b)
  PROVE  Abstract!Shown(Said(b)) = Text(b.data)
  BY SaidEnds, SameTextOf DEF Abstract!Shown

-------------------------------------------------------------------------
(* The state of the abstract Strings.                                      *)

\* A String is there if a variable holds it.
LEMMA HasIs ==
  /\ \A x : Abstract!Has(x) <=> x \in held
  /\ \A x : Abstract!Has(x)' <=> x \in held'
  BY DEF Abstract!Has

\* Its text is that of its block.
LEMMA TextAt ==
  /\ \A x \in held : [p \in held |-> Chars(p)][x] = Said(heap[x])
  /\ \A x \in held' : [p \in held |-> Chars(p)]'[x] = Said(heap'[x])
  BY DEF Chars, Said

\* One String is new or has another text.
LEMMA BindIs ==
  ASSUME NEW x, NEW t, held' = held \cup {x}, Said(heap'[x]) = t,
         \A p \in held : p # x => Said(heap'[p]) = Said(heap[p])
  PROVE  Abstract!Bind(x, t)
  BY DEF Abstract!Bind, Chars, Said

\* Some Strings are left.
LEMMA OnlyIs ==
  ASSUME NEW S, S \subseteq held, held' = S, \A p \in S : Said(heap'[p]) = Said(heap[p])
  PROVE  Abstract!Only(S)
  BY DEF Abstract!Only, Abstract!Restrict, Chars, Said

\* The list of texts.
ListText == [held |-> list.held, elems |-> [k \in DOMAIN list.elems |-> Said(heap[list.elems[k]])]]

LEMMA ListIs ==
  /\ [held |-> list.held, elems |-> [k \in DOMAIN list.elems |-> Chars(list.elems[k])]] = ListText
  /\ [held |-> list.held, elems |-> [k \in DOMAIN list.elems |-> Chars(list.elems[k])]]' = ListText'
  BY DEF ListText, Chars, Said

\* What is in the list stays if its blocks do.
LEMMA ListStays ==
  ASSUME UNCHANGED list, \A k \in DOMAIN list.elems : heap'[list.elems[k]] = heap[list.elems[k]]
  PROVE  /\ ListText' = ListText
         /\ UNCHANGED letters => UNCHANGED Abstract!Lists
<1>1. ListText' = ListText
  BY DEF ListText
<1>2. ASSUME UNCHANGED letters
      PROVE  UNCHANGED Abstract!Lists
  BY <1>1, <1>2, ListIs DEF Abstract!Lists
<1> QED BY <1>1, <1>2

-------------------------------------------------------------------------
(* The operations: each is one of the abstract Strings.                    *)

\* Where the variables and the list point.
LEMMA OwnersSay ==
  ASSUME Owners
  PROVE  /\ held \subseteq DOMAIN heap /\ held \subseteq 1 .. MaxBlocks
         /\ \A k \in DOMAIN list.elems : list.elems[k] \in DOMAIN heap \ held
  BY DEF Owners, Ownership, Range

\* A new block is a new text.
LEMMA GetsText ==
  ASSUME Owners, NEW b, Gets(b), UNCHANGED list
  PROVE  \E x \in 1 .. MaxBlocks :
           /\ ~Abstract!Has(x) /\ Abstract!Has(x)' /\ heap'[x] = b
           /\ Abstract!Bind(x, Said(b)) /\ ListText' = ListText
           /\ UNCHANGED letters => UNCHANGED Abstract!Lists
<1>1. PICK x \in Addresses(heap) : heap' = With(heap, x, b) /\ held' = held \cup {x}
  BY DEF Gets
<1>2. x \in 1 .. MaxBlocks /\ x \notin DOMAIN heap
  BY DEF Addresses
<1>3. heap'[x] = b /\ \A p \in DOMAIN heap : heap'[p] = heap[p]
  BY <1>1, <1>2 DEF With
<1>4. x \notin held /\ \A p \in held : heap'[p] = heap[p]
  BY <1>2, <1>3, OwnersSay
<1>5. Abstract!Bind(x, Said(b))
  BY <1>1, <1>3, <1>4, BindIs
<1>6. ListText' = ListText /\ (UNCHANGED letters => UNCHANGED Abstract!Lists)
  BY <1>3, OwnersSay, ListStays
<1>7. ~Abstract!Has(x) /\ Abstract!Has(x)'
  BY <1>1, <1>4, HasIs
<1> QED BY <1>2, <1>3, <1>5, <1>6, <1>7

\* A block that is rewritten is another text of the same String.
LEMMA ChangesText ==
  ASSUME Owners, NEW x \in held, NEW b, Changes(x, b), UNCHANGED <<list, letters>>
  PROVE  /\ Abstract!Has(x) /\ Abstract!Has(x)' /\ heap'[x] = b
         /\ Abstract!Bind(x, Said(b)) /\ UNCHANGED Abstract!Lists
<1>1. heap' = [heap EXCEPT ![x] = b] /\ held' = held
  BY DEF Changes
<1>2. x \in DOMAIN heap /\ held \subseteq DOMAIN heap
  BY OwnersSay
<1>3. heap'[x] = b /\ \A p \in DOMAIN heap : p # x => heap'[p] = heap[p]
  BY <1>1, <1>2
<1>4. Abstract!Bind(x, Said(b))
  <2>1. held' = held \cup {x}
    BY <1>1
  <2> QED BY <1>2, <1>3, <2>1, BindIs
<1>5. UNCHANGED Abstract!Lists
  BY <1>3, OwnersSay, ListStays
<1> QED BY <1>1, <1>3, <1>4, <1>5, HasIs

\* A block that is freed takes its text with it.
LEMMA GoneText ==
  ASSUME Owners, NEW x \in held, Gone(x), UNCHANGED list
  PROVE  /\ Abstract!Has(x) /\ Abstract!Only(held \ {x}) /\ ListText' = ListText
         /\ UNCHANGED letters => UNCHANGED Abstract!Lists
<1>1. heap' = Without(heap, {x}) /\ held' = held \ {x}
  BY DEF Gone
<1>2. \A p \in DOMAIN heap : p # x => heap'[p] = heap[p]
  BY <1>1 DEF Without, Restrict
<1>3. Abstract!Only(held \ {x})
  <2>1. \A p \in held \ {x} : heap'[p] = heap[p]
    BY <1>2, OwnersSay
  <2> QED BY <1>1, <2>1, OnlyIs
<1>4. ListText' = ListText /\ (UNCHANGED letters => UNCHANGED Abstract!Lists)
  BY <1>2, OwnersSay, ListStays
<1> QED BY <1>3, <1>4, HasIs

\* The text of a new block.
LEMMA BlockText ==
  ASSUME NEW len \in Nat, NEW chars \in Seq(Char)
  PROVE  Said(Block(len, chars)) =
           [k \in 1 .. len |-> IF k <= Len(chars) THEN chars[k] ELSE Unset]
<1>1. Sound(Block(len, chars)) /\ Block(len, chars).len = len
  BY BlockSound
<1>2. Said(Block(len, chars)) = [k \in 1 .. len |-> Block(len, chars).data[k]]
  BY <1>1, SaidIs
<1>3. \A k \in 1 .. len : Block(len, chars).data[k] = IF k <= Len(chars) THEN chars[k] ELSE Unset
  BY DEF Block
<1> QED BY <1>2, <1>3

\* Of an array, its beginning.
LEMMA NewOfText ==
  ASSUME NEW cstr \in Seq(Char), NEW len \in 0 .. Len(cstr)
  PROVE  Said(_String_new_of(cstr, len)) = SubSeq(cstr, 1, len)
<1> DEFINE s == SubSeq(cstr, 1, len)
<1>1. s \in Seq(Char) /\ Len(s) = len /\ len \in Nat /\ s = [k \in 1 .. len |-> s[k]]
  OBVIOUS
<1> HIDE DEF s
<1>2. Said(Block(len, s)) = [k \in 1 .. len |-> IF k <= Len(s) THEN s[k] ELSE Unset]
  BY <1>1, BlockText
<1>3. \A k \in 1 .. len : k <= Len(s)
  BY <1>1
<1>4. Said(Block(len, s)) = s
  BY <1>1, <1>2, <1>3
<1> QED BY <1>4 DEF _String_new_of, s

\* A new String is an array's beginning, or nobody wrote it.
LEMMA NewText ==
  ASSUME Owners, New
  PROVE  \E x \in 1 .. MaxBlocks : Abstract!New(x)
<1>1. UNCHANGED <<list, letters>>
  BY DEF New, Lists
<1>2. ASSUME NEW a \in Arrays, NEW len \in 0 .. Len(a) - 1, Gets(_String_new_of(a, len))
      PROVE  \E x \in 1 .. MaxBlocks : Abstract!New(x)
  <2>1. a \in Seq(Char) /\ len \in 0 .. Len(a)
    BY ArraysTerminated DEF Terminated
  <2>2. Said(_String_new_of(a, len)) = SubSeq(a, 1, len)
    BY <2>1, NewOfText
  <2>3. PICK x \in 1 .. MaxBlocks :
          /\ ~Abstract!Has(x) /\ Abstract!Bind(x, SubSeq(a, 1, len)) /\ UNCHANGED Abstract!Lists
    BY <1>1, <1>2, <2>2, GetsText
  <2>4. Abstract!New(x)
    BY <2>3 DEF Abstract!New
  <2> QED BY <2>4
<1>3. ASSUME NEW len \in 0 .. MaxLen, Gets(_String_new(len))
      PROVE  \E x \in 1 .. MaxBlocks : Abstract!New(x)
  <2> DEFINE s == Said(_String_new(len))
  <2>1. len \in Nat /\ <<>> \in Seq(Char)
    BY BoundsAssumption
  <2>2. s = [k \in 1 .. len |-> IF k <= Len(<<>>) THEN <<>>[k] ELSE Unset]
    BY <2>1, BlockText DEF _String_new
  <2>3. s = [k \in 1 .. len |-> Unset]
    BY <2>1, <2>2
  <2> HIDE DEF s
  <2>4. s \in Seq({Unset})
    BY <2>1, <2>3
  <2>5. PICK x \in 1 .. MaxBlocks :
          /\ ~Abstract!Has(x) /\ Abstract!Has(x)' /\ heap'[x] = _String_new(len)
          /\ Abstract!Bind(x, s) /\ UNCHANGED Abstract!Lists
    BY <1>1, <1>3, GetsText DEF s
  <2>6. [p \in held |-> Chars(p)]'[x] = s
    BY <2>5, HasIs, TextAt DEF s
  <2>7. Abstract!New(x)
    BY <2>4, <2>5, <2>6 DEF Abstract!New
  <2> QED BY <2>7
<1>4. ASSUME NEW a \in Arrays, Gets(_String_new_of_strlen(a))
      PROVE  \E x \in 1 .. MaxBlocks : Abstract!New(x)
  <2>1. apaz_strlen(a) \in 0 .. Len(a) - 1
    BY ArraysTerminated, StrlenIs
  <2> QED BY <1>2, <1>4, <2>1 DEF _String_new_of_strlen
<1> QED BY <1>2, <1>3, <1>4 DEF New

\* The program writes all chars of a String.
LEMMA FillText ==
  ASSUME Owners, SoundBlocks, NEW x \in held, Fill(x)
  PROVE  Abstract!Fill(x)
<1>1. PICK a \in Arrays : Len(a) > String_len(x) /\ Changes(x, _String_new_of(a, String_len(x)))
  BY DEF Fill
<1>2. Sound(heap[x])
  BY OwnersSay DEF SoundBlocks
<1>3. /\ a \in Seq(Char) /\ Len(a) \in Nat /\ String_len(x) \in Nat
      /\ Len(Said(heap[x])) = String_len(x)
  BY <1>2, SaidIs, ArraysTerminated DEF Terminated, String_len
<1>4. Said(_String_new_of(a, String_len(x))) = SubSeq(a, 1, String_len(x))
  <2>1. String_len(x) \in 0 .. Len(a)
    BY <1>1, <1>3
  <2> QED BY <1>3, <2>1, NewOfText
<1>5. UNCHANGED <<list, letters>>
  BY DEF Fill, Lists
<1>6. /\ Abstract!Has(x) /\ UNCHANGED Abstract!Lists
      /\ Abstract!Bind(x, SubSeq(a, 1, String_len(x)))
  BY <1>1, <1>4, <1>5, ChangesText
<1>7. [p \in held |-> Chars(p)][x] = Said(heap[x])
  BY TextAt
<1> QED BY <1>1, <1>3, <1>6, <1>7 DEF Abstract!Fill

\* realloc keeps the beginning, with the old terminator if there is room for it.
LEMMA ResizeText ==
  ASSUME Owners, SoundBlocks, NEW x \in held, Resize(x)
  PROVE  Abstract!Resize(x)
<1>1. PICK n \in 0 .. MaxLen : Changes(x, _String_resize(heap[x], n))
  BY DEF Resize
<1> DEFINE old == heap[x].data
<1> DEFINE s == Said(_String_resize(heap[x], n))
<1>2. Sound(heap[x]) /\ n \in Nat /\ old \in Seq(Char)
  BY OwnersSay, BoundsAssumption DEF SoundBlocks, Sound
<1>3. s = [k \in 1 .. n |-> IF k <= Len(old) THEN old[k] ELSE Unset]
  BY <1>2, BlockText DEF _String_resize
<1>4. Len(s) = n
  BY <1>2, ResizeSound, SaidIs, ZenonT(40)
<1>5. UNCHANGED <<list, letters>>
  BY DEF Resize, Lists
<1>6. /\ Abstract!Has(x) /\ Abstract!Has(x)' /\ heap'[x] = _String_resize(heap[x], n)
      /\ Abstract!Bind(x, s) /\ UNCHANGED Abstract!Lists
  BY <1>1, <1>5, ChangesText
<1>7. /\ [p \in held |-> Chars(p)]'[x] = s
      /\ Abstract!CString([p \in held |-> Chars(p)][x]) = old
  BY <1>2, <1>6, HasIs, TextAt, SaidEnds
<1> HIDE DEF old, s
<1>8. Abstract!Bind(x, [k \in 1 .. n |-> IF k <= Len(old) THEN old[k] ELSE Unset])
  BY <1>3, <1>6
<1> QED BY <1>4, <1>6, <1>7, <1>8 DEF Abstract!Resize

\* A sequence and another behind it.
LEMMA Joined ==
  ASSUME NEW S, NEW s \in Seq(S), NEW t \in Seq(S)
  PROVE  /\ s \o t \in Seq(S) /\ Len(s \o t) = Len(s) + Len(t)
         /\ s \o t = [k \in 1 .. Len(s) + Len(t) |-> IF k <= Len(s) THEN s[k] ELSE t[k - Len(s)]]
<1>1. s \o t \in Seq(S) /\ Len(s \o t) = Len(s) + Len(t) /\ Len(s) \in Nat /\ Len(t) \in Nat
  OBVIOUS
<1> DEFINE u == s \o t
<1>2. \A k \in 1 .. Len(s) + Len(t) : u[k] = IF k <= Len(s) THEN s[k] ELSE t[k - Len(s)]
  OBVIOUS
<1>3. u \in Seq(S) /\ Len(u) = Len(s) + Len(t)
  BY <1>1
<1> HIDE DEF u
<1>4. u = [k \in 1 .. Len(s) + Len(t) |-> u[k]]
  <2>1. u \in [1 .. Len(u) -> S]
    BY <1>3
  <2> QED BY <1>3, <2>1
<1>5. u = [k \in 1 .. Len(s) + Len(t) |-> IF k <= Len(s) THEN s[k] ELSE t[k - Len(s)]]
  BY <1>2, <1>4
<1>6. s \o t = u
  BY DEF u
<1> QED BY <1>3, <1>5, <1>6

\* Two Strings together are their texts together.
LEMMA JoinedText ==
  ASSUME NEW b1, Sound(b1), NEW b2, Sound(b2)
  PROVE  Said(_String_add(b1, b2)) = Said(b1) \o Said(b2)
<1> DEFINE s == Said(b1) \o Said(b2)
<1>1. /\ Said(b1) \in Seq(Char) /\ Len(Said(b1)) = b1.len /\ b1.len \in Nat
      /\ Said(b2) \in Seq(Char) /\ Len(Said(b2)) = b2.len /\ b2.len \in Nat
  BY SaidIs
<1>2. s \in Seq(Char) /\ Len(s) = b1.len + b2.len /\ b1.len + b2.len \in Nat
  <2>1. s \in Seq(Char) /\ Len(s) = Len(Said(b1)) + Len(Said(b2))
    BY <1>1, Joined, Zenon
  <2> QED BY <1>1, <2>1
<1>3. Said(_String_add(b1, b2)) = Said(Block(b1.len + b2.len, s))
  BY DEF _String_add, Said
<1> DEFINE n == b1.len + b2.len
<1> HIDE DEF s, n
<1>4. Said(Block(n, s)) = [k \in 1 .. n |-> IF k <= Len(s) THEN s[k] ELSE Unset]
  <2>1. n \in Nat
    BY <1>2 DEF n
  <2> QED BY <1>2, <2>1, BlockText
<1>5. Len(s) = n /\ n \in Nat /\ s = [k \in 1 .. n |-> s[k]]
  <2>1. s \in Seq(Char) /\ Len(s) = n /\ n \in Nat
    BY <1>2 DEF n
  <2> QED BY <2>1
<1>6. \A k \in 1 .. n : k <= Len(s)
  BY <1>5
<1>7. Said(Block(n, s)) = s
  BY <1>4, <1>5, <1>6
<1> QED BY <1>3, <1>7 DEF s, n

\* What String_add returns.
LEMMA AddText ==
  ASSUME Owners, SoundBlocks, NEW y \in held, NEW z \in held, Add(y, z)
  PROVE  \E x \in 1 .. MaxBlocks : Abstract!Add(x, y, z)
<1>1. Sound(heap[y]) /\ Sound(heap[z])
  BY OwnersSay DEF SoundBlocks
<1>2. Said(_String_add(heap[y], heap[z])) = Said(heap[y]) \o Said(heap[z])
  BY <1>1, JoinedText
<1>3. Gets(_String_add(heap[y], heap[z])) /\ UNCHANGED <<list, letters>>
  BY DEF Add, Lists
<1>4. PICK x \in 1 .. MaxBlocks :
        /\ ~Abstract!Has(x) /\ UNCHANGED Abstract!Lists
        /\ Abstract!Bind(x, Said(heap[y]) \o Said(heap[z]))
  BY <1>2, <1>3, GetsText
<1>5. /\ Abstract!Has(y) /\ Abstract!Has(z)
      /\ [p \in held |-> Chars(p)][y] = Said(heap[y])
      /\ [p \in held |-> Chars(p)][z] = Said(heap[z])
  BY HasIs, TextAt
<1>6. Abstract!Add(x, y, z)
  BY <1>4, <1>5 DEF Abstract!Add
<1> QED BY <1>6

\* String_add_destroy appends, where it stays in its blocks.
LEMMA AppendedText ==
  ASSUME NEW base, Sound(base), NEW to_append, Sound(to_append),
         AddDestroyInBounds(base, to_append)
  PROVE  Said(_String_add_destroy(base, to_append)) = Said(base) \o Said(to_append)
<1> DEFINE m == base.len
<1> DEFINE n == to_append.len
<1> DEFINE big == _String_resize(base, m + n)
<1> DEFINE new == _String_add_destroy(base, to_append)
<1> DEFINE data == [k \in 1 .. m + n + 1 |->
                      IF k - 1 \in AddDestroyWrites(base, to_append)
                      THEN to_append.data[k - m] ELSE big.data[k]]
<1> DEFINE s == Said(base)
<1> DEFINE t == Said(to_append)
<1>1. /\ m \in Nat /\ n \in Nat /\ base.data \in Seq(Char) /\ Len(base.data) = m + 1
      /\ s \in Seq(Char) /\ Len(s) = m /\ (\A k \in 1 .. m : s[k] = base.data[k])
      /\ t \in Seq(Char) /\ Len(t) = n /\ (\A k \in 1 .. n : t[k] = to_append.data[k])
  BY SaidIs DEF Sound
<1>2. new = [big EXCEPT !.data = data] /\ Sound(new)
  BY AddDestroySound DEF _String_add_destroy
<1>3. AddDestroyWrites(base, to_append) = m .. m + (m + n) - 1
  BY DEF AddDestroyWrites, AddDestroyCopies
<1>4. Sound(big) /\ big.len = m + n /\ \A k \in 1 .. m : big.data[k] = base.data[k]
  <2>1. m + n \in Nat
    BY <1>1
  <2> HIDE DEF m, n
  <2>2. Sound(big) /\ big.len = m + n
    BY <2>1, ResizeSound
  <2>3. \A k \in 1 .. m : k \in 1 .. m + n + 1 /\ k <= Len(base.data) /\ (k = m + n + 1 => FALSE)
    BY <1>1
  <2>4. \A k \in 1 .. m : big.data[k] = base.data[k]
    BY <1>1, <2>3 DEF _String_resize, Block
  <2> QED BY <2>2, <2>4
<1>5. new.len = m + n /\ new.data = data
  BY <1>2, <1>4 DEF Sound
<1>6. Said(new) = [k \in 1 .. m + n |-> data[k]]
  <2>1. Said(new) = [k \in 1 .. new.len |-> new.data[k]]
    BY <1>2, SaidIs
  <2> HIDE DEF data, new
  <2> QED BY <1>5, <2>1
<1> HIDE DEF m, n, big, new, s, t
<1>7. \A k \in 1 .. m + n : data[k] = IF k <= m THEN s[k] ELSE t[k - m]
  <2> SUFFICES ASSUME NEW k \in 1 .. m + n PROVE data[k] = IF k <= m THEN s[k] ELSE t[k - m]
    OBVIOUS
  <2>1. k \in 1 .. m + n + 1
    BY <1>1
  <2>2. CASE k <= m
    <3>1. k - 1 \notin m .. m + (m + n) - 1 /\ k \in 1 .. m
      BY <1>1, <2>2
    <3> QED BY <1>1, <1>3, <1>4, <2>1, <2>2, <3>1
  <2>3. CASE ~(k <= m)
    <3>1. k - 1 \in m .. m + (m + n) - 1 /\ k - m \in 1 .. n
      BY <1>1, <2>3
    <3> QED BY <1>1, <1>3, <2>1, <2>3, <3>1
  <2> QED BY <2>2, <2>3
<1> HIDE DEF data
<1>8. s \o t = [k \in 1 .. m + n |-> IF k <= m THEN s[k] ELSE t[k - m]]
  <2>1. s \in Seq(Char) /\ Len(s) = m /\ t \in Seq(Char) /\ Len(t) = n
    BY <1>1
  <2>2. s \o t = [k \in 1 .. Len(s) + Len(t) |-> IF k <= Len(s) THEN s[k] ELSE t[k - Len(s)]]
    BY <2>1, Joined, Zenon
  <2> QED BY <2>1, <2>2, Zenon
<1>9. Said(new) = s \o t
  BY <1>6, <1>7, <1>8
<1> QED BY <1>9 DEF new, s, t

\* It keeps the first String and the joined text, and the second String is gone.
LEMMA AddDestroyText ==
  ASSUME Owners, SoundBlocks, NEW x \in held, NEW y \in held, AddDestroy(x, y),
         AddDestroyInBounds(heap[x], heap[y])
  PROVE  Abstract!AddDestroy(x, y)
<1> DEFINE b == _String_add_destroy(heap[x], heap[y])
<1>1. /\ x # y /\ heap' = Without([heap EXCEPT ![x] = b], {y}) /\ held' = held \ {y}
      /\ UNCHANGED <<list, letters>>
  BY DEF AddDestroy, Lists
<1>2. Sound(heap[x]) /\ Sound(heap[y]) /\ x \in DOMAIN heap
  BY OwnersSay DEF SoundBlocks
<1>3. Said(b) = Said(heap[x]) \o Said(heap[y])
  BY <1>2, AppendedText
<1> HIDE DEF b
<1>4. heap'[x] = b /\ \A p \in DOMAIN heap : p # x /\ p # y => heap'[p] = heap[p]
  BY <1>1, <1>2 DEF Without, Restrict
<1>5. UNCHANGED Abstract!Lists
  BY <1>1, <1>4, OwnersSay, ListStays
<1> DEFINE T == [p \in held |-> Chars(p)]
<1>6. T' = [z \in held \ {y} |-> IF z = x THEN T[x] \o T[y] ELSE T[z]]
  <2>1. T' = [p \in held \ {y} |-> Said(heap'[p])]
    BY <1>1 DEF Chars, Said
  <2>2. \A z \in held \ {y} : Said(heap'[z]) = IF z = x THEN T[x] \o T[y] ELSE T[z]
    <3>1. \A z \in held : T[z] = Said(heap[z]) /\ z \in DOMAIN heap
      BY TextAt, OwnersSay
    <3> HIDE DEF T
    <3> QED BY <1>3, <1>4, <3>1
  <2> HIDE DEF T
  <2> QED BY <2>1, <2>2
<1>7. Abstract!Has(x) /\ Abstract!Has(y) /\ DOMAIN T = held
  BY HasIs
<1> QED BY <1>1, <1>5, <1>6, <1>7 DEF Abstract!AddDestroy

\* String_copy takes as much of the beginning as there is.
LEMMA CopiedText ==
  ASSUME NEW source, Sound(source), NEW dest, Sound(dest)
  PROVE  Said(String_copy(source, dest)) =
           [k \in DOMAIN Said(dest) |->
              IF k <= Len(Said(source)) THEN Said(source)[k] ELSE Said(dest)[k]]
<1> DEFINE minlen == Min({source.len, dest.len})
<1> DEFINE new == String_copy(source, dest)
<1> DEFINE data == [k \in DOMAIN dest.data |->
                      IF k <= minlen THEN source.data[k] ELSE dest.data[k]]
<1> DEFINE s == Said(source)
<1> DEFINE t == Said(dest)
<1> DEFINE m == source.len
<1> DEFINE n == dest.len
<1>1. /\ m \in Nat /\ n \in Nat /\ DOMAIN dest.data = 1 .. n + 1
      /\ s \in Seq(Char) /\ Len(s) = m /\ (\A k \in 1 .. m : s[k] = source.data[k])
      /\ t \in Seq(Char) /\ DOMAIN t = 1 .. n /\ (\A k \in 1 .. n : t[k] = dest.data[k])
  BY SaidIs DEF Sound
<1>2. minlen \in {m, n} /\ minlen <= m /\ minlen <= n
  <2>1. \E x \in {m, n} : \A y \in {m, n} : x <= y
    BY <1>1
  <2>2. minlen \in {m, n} /\ \A y \in {m, n} : minlen <= y
    BY <2>1 DEF Min
  <2> QED BY <2>2
<1>3. new = [dest EXCEPT !.data = data] /\ Sound(new) /\ new.len = n
  BY CopySound DEF String_copy
<1>4. new.data = data
  BY <1>3 DEF Sound
<1>5. Said(new) = [k \in 1 .. n |-> data[k]]
  <2>1. Said(new) = [k \in 1 .. new.len |-> new.data[k]]
    BY <1>3, SaidIs
  <2> HIDE DEF data, new
  <2> QED BY <1>3, <1>4, <2>1
<1> HIDE DEF minlen, new, s, t, m, n
<1>6. \A k \in 1 .. n : data[k] = IF k <= Len(s) THEN s[k] ELSE t[k]
  <2> SUFFICES ASSUME NEW k \in 1 .. n PROVE data[k] = IF k <= Len(s) THEN s[k] ELSE t[k]
    OBVIOUS
  <2>1. k \in 1 .. n + 1 /\ (k <= minlen <=> k <= m) /\ (k <= m => k \in 1 .. m)
    BY <1>1, <1>2
  <2> QED BY <1>1, <2>1
<1> HIDE DEF data
<1>7. Said(new) = [k \in DOMAIN t |-> IF k <= Len(s) THEN s[k] ELSE t[k]]
  BY <1>1, <1>5, <1>6
<1> QED BY <1>7 DEF new, s, t

\* The beginning of one text is written over that of another, which may be the same.
LEMMA CopyText ==
  ASSUME Owners, SoundBlocks, NEW x \in held, NEW y \in held, Copy(x, y)
  PROVE  Abstract!Copy(x, y)
<1>1. Sound(heap[x]) /\ Sound(heap[y])
  BY OwnersSay DEF SoundBlocks
<1>2. Changes(y, String_copy(heap[x], heap[y])) /\ UNCHANGED <<list, letters>>
  BY DEF Copy, Lists
<1>3. Abstract!Bind(y, Said(String_copy(heap[x], heap[y]))) /\ UNCHANGED Abstract!Lists
  BY <1>2, ChangesText
<1>4. Said(String_copy(heap[x], heap[y])) =
        [k \in DOMAIN Said(heap[y]) |->
           IF k <= Len(Said(heap[x])) THEN Said(heap[x])[k] ELSE Said(heap[y])[k]]
  BY <1>1, CopiedText
<1>5. /\ Abstract!Has(x) /\ Abstract!Has(y)
      /\ [p \in held |-> Chars(p)][x] = Said(heap[x])
      /\ [p \in held |-> Chars(p)][y] = Said(heap[y])
  BY HasIs, TextAt
<1> QED BY <1>3, <1>4, <1>5 DEF Abstract!Copy

\* A String that nobody wrote.
LEMMA BlankText ==
  ASSUME NEW len \in Nat
  PROVE  /\ Sound(_String_new(len)) /\ Said(_String_new(len)) = [k \in 1 .. len |-> Unset]
         /\ _String_new(len).len = len
<1>1. <<>> \in Seq(Char) /\ \A k \in 1 .. len : ~(k <= Len(<<>>))
  OBVIOUS
<1>2. Said(_String_new(len)) = [k \in 1 .. len |-> IF k <= Len(<<>>) THEN <<>>[k] ELSE Unset]
  BY <1>1, BlockText DEF _String_new
<1>3. Sound(_String_new(len)) /\ _String_new(len).len = len
  BY <1>1, BlockSound DEF _String_new
<1> QED BY <1>1, <1>2, <1>3

\* String_clone copies all of it.
LEMMA CloneText ==
  ASSUME Owners, SoundBlocks, NEW y \in held, Clone(y)
  PROVE  \E x \in 1 .. MaxBlocks : Abstract!Clone(x, y)
<1> DEFINE n == heap[y].len
<1> DEFINE s == Said(heap[y])
<1>1. Sound(heap[y])
  BY OwnersSay DEF SoundBlocks
<1>2. n \in Nat /\ Len(s) = n /\ s = [k \in 1 .. n |-> s[k]]
  <2>1. n \in Nat /\ s \in Seq(Char) /\ Len(s) = n
    BY <1>1, SaidIs
  <2> HIDE DEF n, s
  <2> QED BY <2>1
<1>3. Said(_String_clone(heap[y])) = s
  <2> DEFINE d == Said(_String_new(n))
  <2>1. Sound(_String_new(n)) /\ d = [k \in 1 .. n |-> Unset]
    BY <1>2, BlankText
  <2>2. Said(_String_clone(heap[y])) = [k \in DOMAIN d |-> IF k <= Len(s) THEN s[k] ELSE d[k]]
    BY <1>1, <2>1, CopiedText, ZenonT(40) DEF _String_clone
  <2>3. DOMAIN d = 1 .. n
    BY <2>1
  <2> HIDE DEF d, s, n
  <2>4. \A k \in 1 .. n : k <= Len(s)
    BY <1>2
  <2> QED BY <1>2, <2>2, <2>3, <2>4
<1>4. Gets(_String_clone(heap[y])) /\ UNCHANGED <<list, letters>>
  BY DEF Clone, Lists
<1>5. PICK x \in 1 .. MaxBlocks :
        ~Abstract!Has(x) /\ Abstract!Bind(x, s) /\ UNCHANGED Abstract!Lists
  BY <1>3, <1>4, GetsText
<1>6. Abstract!Has(y) /\ [p \in held |-> Chars(p)][y] = s
  BY HasIs, TextAt
<1>7. Abstract!Clone(x, y)
  BY <1>5, <1>6 DEF Abstract!Clone
<1> QED BY <1>7

\* String_substring takes as much of the beginning as it should take of the part, so that
\* the part is right if it is at the beginning.
LEMMA SubstringText ==
  ASSUME Owners, SoundBlocks, PartStarts = {0}, NEW y \in held, Substring(y)
  PROVE  \E x \in 1 .. MaxBlocks : Abstract!Substring(x, y)
<1>0. PICK end \in 0 .. MaxLen : \E start \in PartStarts \cap 0 .. end :
        Gets(_String_substring(heap[y], start, end))
  BY DEF Substring
<1>1. PICK start \in PartStarts \cap 0 .. end : Gets(_String_substring(heap[y], start, end))
  BY <1>0
<1> DEFINE n == end - start
<1> DEFINE s == Said(heap[y])
<1> DEFINE b == _String_substring(heap[y], start, end)
<1> DEFINE t == Said(b)
<1>2. n \in Nat /\ UNCHANGED <<list, letters>>
  BY BoundsAssumption DEF Substring, Lists
<1>3. Sound(heap[y])
  BY OwnersSay DEF SoundBlocks
<1> HIDE DEF n
<1>4. t = [k \in 1 .. n |-> IF k <= Len(s) THEN s[k] ELSE Unset]
  <2> DEFINE d == Said(_String_new(n))
  <2>1. Sound(_String_new(n)) /\ d = [k \in 1 .. n |-> Unset]
    BY <1>2, BlankText
  <2>2. t = [k \in DOMAIN d |-> IF k <= Len(s) THEN s[k] ELSE d[k]]
    BY <1>3, <2>1, CopiedText DEF _String_substring, n
  <2>3. DOMAIN d = 1 .. n /\ \A k \in 1 .. n : d[k] = Unset
    BY <2>1
  <2> HIDE DEF d, s, t
  <2> QED BY <2>2, <2>3
<1>5. DOMAIN t = 1 .. n
  <2> HIDE DEF t
  <2> QED BY <1>4
<1>6. PICK x \in 1 .. MaxBlocks :
        /\ ~Abstract!Has(x) /\ Abstract!Has(x)' /\ heap'[x] = b
        /\ Abstract!Bind(x, t) /\ UNCHANGED Abstract!Lists
  BY <1>1, <1>2, GetsText
<1>7. /\ Abstract!Has(y) /\ [p \in held |-> Chars(p)][y] = s
      /\ [p \in held |-> Chars(p)]'[x] = t
  BY <1>6, HasIs, TextAt
<1> HIDE DEF s, t, b
<1>8. t = [k \in DOMAIN t |-> IF 0 + k <= Len(s) THEN s[0 + k] ELSE Unset]
  BY <1>4, <1>5
<1>9. Abstract!Substring(x, y)
  BY <1>6, <1>7, <1>8 DEF Abstract!Substring
<1> QED BY <1>9

\* A change of case is one of the letters that are shown; the chars that nobody wrote are
\* not among them.
LEMMA CasedText ==
  ASSUME NEW b, Sound(b), Written(b.data), NEW case \in [0 .. 127 -> 0 .. 127]
  PROVE  Said(InPlace(b, case)) = Abstract!Cased(Said(b), case)
<1> DEFINE l == apaz_strlen(b.data)
<1> DEFINE n == b.len
<1> DEFINE s == Said(b)
<1> DEFINE new == InPlace(b, case)
<1> DEFINE data == [k \in DOMAIN b.data |-> IF k <= l THEN case[b.data[k]] ELSE b.data[k]]
<1>1. /\ n \in Nat /\ DOMAIN s = 1 .. n /\ (\A k \in 1 .. n : s[k] = b.data[k])
      /\ Len(b.data) = n + 1 /\ DOMAIN b.data = 1 .. n + 1
  <2>1. b.len \in Nat /\ b.data \in Seq(Char) /\ Len(b.data) = b.len + 1
    BY SMTT(30) DEF Sound
  <2>2. Len(b.data) = b.len + 1 /\ DOMAIN b.data = 1 .. b.len + 1
    BY <2>1
  <2>3. /\ b.len \in Nat /\ DOMAIN Said(b) = 1 .. b.len
        /\ \A k \in 1 .. b.len : Said(b)[k] = b.data[k]
    BY SaidIs, ZenonT(40)
  <2> QED BY <2>2, <2>3, ZenonT(40)
<1>2. Terminated(b.data) /\ l \in 0 .. n /\ l \in Nat /\ (\A j \in 1 .. l : b.data[j] # NUL)
  BY SoundTerminated, StrlenIs, WrittenChars, ZenonT(40)
<1>3. \A j \in 1 .. l : b.data[j] # Unset
  <2>1. PICK k \in 1 .. n + 1 : b.data[k] = NUL /\ \A j \in 1 .. k : b.data[j] # Unset
    BY <1>1, ZenonT(40) DEF Written
  <2> HIDE DEF l, n
  <2>2. l < k
    <3> SUFFICES ASSUME ~(l < k) PROVE FALSE
      BY SMTT(30)
    <3>1. k \in 1 .. l
      BY <1>1, <1>2, SMTT(30)
    <3> QED BY <1>2, <2>1, <3>1, SMTT(30)
  <2>3. \A j \in 1 .. l : j \in 1 .. k
    BY <1>2, <2>2, SMTT(30)
  <2> QED BY <2>1, <2>3
<1>4. Len(Abstract!Shown(s)) = l
  BY <1>2, ShownIs, TextIs, SMTT(30)
<1>5. new = [b EXCEPT !.data = data] /\ Sound(new)
  BY InPlaceSound, ZenonT(40) DEF InPlace
<1>6. new.len = n /\ new.data = data
  BY <1>5, ZenonT(40) DEF Sound
<1>7. Said(new) = [k \in 1 .. n |-> data[k]]
  <2>1. Said(new) = [k \in 1 .. new.len |-> new.data[k]]
    BY <1>5, SaidIs, ZenonT(40)
  <2> HIDE DEF data, new
  <2> QED BY <1>6, <2>1, SMTT(30)
<1> HIDE DEF new, s, n, l
<1>8. \A k \in 1 .. n : data[k] = IF k <= l /\ s[k] # Unset THEN case[s[k]] ELSE s[k]
  <2> SUFFICES ASSUME NEW k \in 1 .. n
               PROVE  data[k] = IF k <= l /\ s[k] # Unset THEN case[s[k]] ELSE s[k]
    OBVIOUS
  <2>1. k \in 1 .. n + 1 /\ s[k] = b.data[k] /\ (k <= l => k \in 1 .. l)
    <3>1. n \in Nat /\ l \in 0 .. n /\ s[k] = b.data[k]
      BY <1>1, <1>2, ZenonT(40)
    <3> QED BY ONLY <3>1, k \in 1 .. n
  <2>2. k <= l => s[k] # Unset
    BY <1>3, <2>1, SMTT(30)
  <2> QED BY <1>1, <2>1, <2>2
<1> HIDE DEF data
<1>9. Abstract!Cased(s, case) =
        [k \in 1 .. n |-> IF k <= l /\ s[k] # Unset THEN case[s[k]] ELSE s[k]]
  BY <1>1, <1>4, SMTT(30) DEF Abstract!Cased
<1>10. Said(new) = Abstract!Cased(s, case)
  BY <1>7, <1>8, <1>9
<1> QED BY <1>10 DEF new, s

\* Both directions.
LEMMA CasesText ==
  ASSUME NEW b, Sound(b), Written(b.data)
  PROVE  /\ Said(String_toUpper(b)) = Abstract!Cased(Said(b), Abstract!Upper)
         /\ Said(String_toLower(b)) = Abstract!Cased(Said(b), Abstract!Lower)
<1>1. toupper \in [0 .. 127 -> 0 .. 127] /\ tolower \in [0 .. 127 -> 0 .. 127]
  BY DEF toupper, tolower
<1>2. toupper = Abstract!Upper /\ tolower = Abstract!Lower
  BY DEF toupper, tolower, Abstract!Upper, Abstract!Lower
<1> QED BY <1>1, <1>2, CasedText, Zenon DEF String_toUpper, String_toLower

\* One String changes its case.
LEMMA ChangeCaseText ==
  ASSUME Owners, SoundBlocks, NEW x \in held, ChangeCase(x)
  PROVE  Abstract!ChangeCase(x)
<1>1. Sound(heap[x]) /\ Written(heap[x].data)
  BY OwnersSay DEF SoundBlocks, ChangeCase, Data
<1>2. UNCHANGED <<list, letters>>
  BY DEF ChangeCase, Lists
<1>3. [p \in held |-> Chars(p)][x] = Said(heap[x])
  BY TextAt
<1>4. ASSUME NEW b, Changes(x, b), NEW case \in {Abstract!Upper, Abstract!Lower},
             Said(b) = Abstract!Cased(Said(heap[x]), case)
      PROVE  Abstract!ChangeCase(x)
  <2>1. Abstract!Has(x) /\ Abstract!Bind(x, Said(b)) /\ UNCHANGED Abstract!Lists
    BY <1>2, <1>4, ChangesText
  <2> QED BY <1>3, <1>4, <2>1 DEF Abstract!ChangeCase
<1>5. CASE Changes(x, String_toUpper(heap[x]))
  BY <1>1, <1>4, <1>5, CasesText
<1>6. CASE Changes(x, String_toLower(heap[x]))
  BY <1>1, <1>4, <1>6, CasesText
<1> QED BY <1>5, <1>6 DEF ChangeCase

\* Every String of the list does.
LEMMA ListChangeCaseText ==
  ASSUME Owners, SoundBlocks, ListChangeCase
  PROVE  Abstract!ListChangeCase
<1> DEFINE e == list.elems
<1>1. list.held /\ UNCHANGED <<held, list, letters>>
  BY DEF ListChangeCase, Lists
<1>2. \A k \in DOMAIN e : /\ e[k] \in DOMAIN heap /\ e[k] \notin held /\ e[k] \in Range(e)
                          /\ Sound(heap[e[k]]) /\ Written(heap[e[k]].data)
  BY OwnersSay DEF ListChangeCase, SoundBlocks, Range
<1>3. ASSUME NEW case \in {Abstract!Upper, Abstract!Lower},
             \A p \in DOMAIN heap : p \notin Range(e) => heap'[p] = heap[p],
             \A k \in DOMAIN e : Said(heap'[e[k]]) = Abstract!Cased(Said(heap[e[k]]), case)
      PROVE  Abstract!ListChangeCase
  <2>2. ListText.held /\ DOMAIN ListText.elems = DOMAIN e
        /\ \A k \in DOMAIN e : ListText.elems[k] = Said(heap[e[k]])
    BY <1>1 DEF ListText
  <2>3. ListText' = [held |-> TRUE, elems |-> [k \in DOMAIN e |-> Said(heap'[e[k]])]]
    <3>1. ListText' = [held |-> list.held, elems |-> [k \in DOMAIN e |-> Said(heap'[e[k]])]]
      BY <1>1 DEF ListText
    <3>2. list.held = TRUE
      BY <1>1 DEF Owners, Listed
    <3> QED BY <3>1, <3>2
  <2>4. ListText' = Abstract!Held([k \in DOMAIN ListText.elems |->
                                     Abstract!Cased(ListText.elems[k], case)])
    <3>1. [k \in DOMAIN e |-> Said(heap'[e[k]])] =
            [k \in DOMAIN ListText.elems |-> Abstract!Cased(ListText.elems[k], case)]
      BY <1>3, <2>2
    <3> QED BY <2>3, <3>1 DEF Abstract!Held
  <2>5. [p \in held |-> Chars(p)]' = [p \in held |-> Chars(p)]
    <3>1. \A p \in held : heap'[p] = heap[p]
      <4>1. \A p \in held : p \in DOMAIN heap /\ p \notin Range(e)
        BY OwnersSay DEF Owners, Ownership
      <4> QED BY <1>3, <4>1
    <3> QED BY <1>1, <3>1 DEF Chars
  <2>6. letters' = letters
    BY <1>1
  <2> HIDE DEF e
  <2>7. \E c \in {Abstract!Upper, Abstract!Lower} :
          ListText' = Abstract!Held([k \in DOMAIN ListText.elems |-> Abstract!Cased(ListText.elems[k], c)])
    BY <2>4, Zenon
  <2> QED BY <2>2, <2>5, <2>6, <2>7, ListIs DEF Abstract!ListChangeCase
<1>4. CASE heap' = [p \in DOMAIN heap |-> IF p \in Range(e) THEN String_toUpper(heap[p]) ELSE heap[p]]
  <2>1. \A k \in DOMAIN e : heap'[e[k]] = String_toUpper(heap[e[k]])
    BY <1>2, <1>4
  <2>2. \A k \in DOMAIN e : Said(heap'[e[k]]) = Abstract!Cased(Said(heap[e[k]]), Abstract!Upper)
    BY <1>2, <2>1, CasesText
  <2> QED BY <1>3, <1>4, <2>2
<1>5. CASE heap' = [p \in DOMAIN heap |-> IF p \in Range(e) THEN String_toLower(heap[p]) ELSE heap[p]]
  <2>1. \A k \in DOMAIN e : heap'[e[k]] = String_toLower(heap[e[k]])
    BY <1>2, <1>5
  <2>2. \A k \in DOMAIN e : Said(heap'[e[k]]) = Abstract!Cased(Said(heap[e[k]]), Abstract!Lower)
    BY <1>2, <2>1, CasesText
  <2> QED BY <1>3, <1>5, <2>2
<1> QED BY <1>4, <1>5 DEF ListChangeCase

\* A String is destroyed.
LEMMA DestroyText ==
  ASSUME Owners, NEW x \in held, Destroy(x)
  PROVE  Abstract!Destroy(x)
<1>1. Abstract!Has(x) /\ Abstract!Only(held \ {x}) /\ UNCHANGED Abstract!Lists
  BY GoneText DEF Destroy, Lists
<1>2. DOMAIN [p \in held |-> Chars(p)] = held
  OBVIOUS
<1> QED BY <1>1, <1>2 DEF Abstract!Destroy

\* A list takes over a String.
LEMMA ListAddText ==
  ASSUME Owners, NEW x \in held, ListAdd(x)
  PROVE  Abstract!ListAdd(x)
<1> DEFINE e == list.elems
<1> DEFINE t == ListText.elems
<1>1. /\ list.held /\ list' = Held(Append(e, x)) /\ held' = held \ {x}
      /\ heap' = heap /\ letters' = letters
  BY DEF ListAdd
<1>2. e \in Seq(1 .. MaxBlocks) /\ list.held = TRUE
  BY <1>1 DEF Owners, Listed
<1>3. Abstract!Has(x) /\ Abstract!Only(held \ {x})
  <2>1. \A p \in held \ {x} : Said(heap'[p]) = Said(heap[p])
    BY <1>1
  <2> QED BY <1>1, <2>1, HasIs, OnlyIs
<1>4. /\ t = [k \in 1 .. Len(e) |-> Said(heap[e[k]])] /\ ListText.held
      /\ Len(e) \in Nat
  BY <1>1, <1>2 DEF ListText
<1>5. Append(t, Said(heap[x])) =
        [k \in 1 .. Len(e) + 1 |-> IF k = Len(e) + 1 THEN Said(heap[x]) ELSE Said(heap[e[k]])]
  <2> DEFINE v == Said(heap[x])
  <2> DEFINE S == {v} \cup {Said(heap[e[k]]) : k \in 1 .. Len(e)}
  <2>1. t \in Seq(S) /\ Len(t) = Len(e) /\ (\A k \in 1 .. Len(e) : t[k] = Said(heap[e[k]])) /\ v \in S
    BY <1>4
  <2> DEFINE u == Append(t, v)
  <2> HIDE DEF v, S, t
  <2>2. /\ u \in Seq(S) /\ Len(u) = Len(e) + 1 /\ u[Len(e) + 1] = v
        /\ \A k \in 1 .. Len(e) : u[k] = t[k]
    BY <2>1
  <2> HIDE DEF u
  <2>3. u = [k \in 1 .. Len(e) + 1 |-> u[k]]
    BY <2>2
  <2>4. \A k \in 1 .. Len(e) + 1 : u[k] = IF k = Len(e) + 1 THEN v ELSE Said(heap[e[k]])
    <3> DEFINE n == Len(e)
    <3>1. n \in Nat
      BY <1>4
    <3> HIDE DEF n
    <3>2. \A k \in 1 .. n + 1 : k = n + 1 \/ k \in 1 .. n
      BY <3>1
    <3>3. \A k \in 1 .. n : u[k] = Said(heap[e[k]])
      BY <2>1, <2>2, Zenon DEF n
    <3> QED BY <2>2, <3>2, <3>3, Zenon DEF n
  <2>5. u = [k \in 1 .. Len(e) + 1 |-> IF k = Len(e) + 1 THEN v ELSE Said(heap[e[k]])]
    BY <2>3, <2>4
  <2> QED BY <2>5 DEF u, v
<1>6. ListText' = [held |-> TRUE, elems |->
        [k \in 1 .. Len(e) + 1 |-> IF k = Len(e) + 1 THEN Said(heap[x]) ELSE Said(heap[e[k]])]]
  <2> DEFINE u == Append(e, x)
  <2>1. DOMAIN u = 1 .. Len(e) + 1 /\ u[Len(e) + 1] = x /\ \A k \in 1 .. Len(e) : u[k] = e[k]
    <3>1. x \in 1 .. MaxBlocks
      BY OwnersSay
    <3> QED BY <1>2, <3>1
  <2>2. list' = [held |-> TRUE, elems |-> u] /\ heap' = heap
    BY <1>1 DEF Held
  <2> HIDE DEF u
  <2>3. ListText' = [held |-> TRUE, elems |-> [k \in DOMAIN u |-> Said(heap[u[k]])]]
    BY <2>2 DEF ListText
  <2>4. \A k \in 1 .. Len(e) + 1 :
          Said(heap[u[k]]) = IF k = Len(e) + 1 THEN Said(heap[x]) ELSE Said(heap[e[k]])
    <3> DEFINE n == Len(e)
    <3>1. n \in Nat /\ u[n + 1] = x /\ \A k \in 1 .. n : u[k] = e[k]
      BY <1>4, <2>1
    <3> HIDE DEF n, e
    <3>2. \A k \in 1 .. n + 1 : k = n + 1 \/ (k \in 1 .. n /\ k # n + 1)
      BY <3>1
    <3>3. \A k \in 1 .. n + 1 : u[k] = IF k = n + 1 THEN x ELSE e[k]
      BY <3>1, <3>2, Zenon
    <3>4. \A k \in 1 .. n + 1 :
            Said(heap[u[k]]) = IF k = n + 1 THEN Said(heap[x]) ELSE Said(heap[e[k]])
      BY <3>3, Zenon
    <3> QED BY <3>4 DEF n
  <2> HIDE DEF e
  <2> QED BY <2>1, <2>3, <2>4
<1>7. ListText' = Abstract!Held(Append(t, Said(heap[x])))
  BY <1>5, <1>6, Zenon DEF Abstract!Held
<1>8. /\ [p \in held |-> Chars(p)][x] = Said(heap[x]) /\ DOMAIN [p \in held |-> Chars(p)] = held
  BY TextAt
<1> HIDE DEF e
<1> QED BY <1>1, <1>3, <1>4, <1>7, <1>8, ListIs DEF Abstract!ListAdd

\* The list and its Strings are destroyed.
LEMMA ListDestroyText ==
  ASSUME Owners, ListDestroy
  PROVE  Abstract!ListDestroy
<1>1. /\ list.held /\ heap' = Without(heap, Range(list.elems)) /\ list' = None
      /\ held' = held /\ letters' = letters
  BY DEF ListDestroy
<1>2. [p \in held |-> Chars(p)]' = [p \in held |-> Chars(p)]
  <2>1. \A p \in held : p \in DOMAIN heap /\ p \notin Range(list.elems)
    BY OwnersSay DEF Owners, Ownership
  <2>2. \A p \in held : heap'[p] = heap[p]
    BY <1>1, <2>1 DEF Without, Restrict
  <2> QED BY <1>1, <2>2 DEF Chars
<1>3. ListText.held
  BY <1>1 DEF ListText
<1>4. ListText' = Abstract!None
  <2>1. ListText' = [held |-> FALSE, elems |-> [k \in DOMAIN <<>> |-> Said(heap'[(<<>>)[k]])]]
    BY <1>1 DEF ListText, None
  <2>2. [k \in DOMAIN <<>> |-> Said(heap'[(<<>>)[k]])] = <<>>
    OBVIOUS
  <2> QED BY <2>1, <2>2 DEF Abstract!None
<1> QED BY <1>1, <1>2, <1>3, <1>4, ListIs DEF Abstract!ListDestroy

\* A String becomes a List_char.
LEMMA ToLettersText ==
  ASSUME Owners, NEW x \in held, String_to_List_char(x)
  PROVE  Abstract!ToLetters(x)
<1>1. /\ ~letters.held /\ letters' = Held(Said(heap[x])) /\ Gone(x) /\ list' = list
  BY DEF String_to_List_char, Said, Data, String_len
<1>2. Abstract!Has(x) /\ Abstract!Only(held \ {x}) /\ ListText' = ListText
  BY <1>1, GoneText
<1>3. [p \in held |-> Chars(p)][x] = Said(heap[x]) /\ DOMAIN [p \in held |-> Chars(p)] = held
  BY TextAt
<1>4. letters' = Abstract!Held(Said(heap[x]))
  BY <1>1 DEF Held, Abstract!Held
<1> QED BY <1>1, <1>2, <1>3, <1>4, ListIs DEF Abstract!ToLetters

\* A List_char becomes a String.
LEMMA FromLettersText ==
  ASSUME Owners, SoundBlocks, List_char_to_String
  PROVE  \E x \in 1 .. MaxBlocks : Abstract!FromLetters(x)
<1> DEFINE e == letters.elems
<1>1. letters.held /\ Gets(_String_new_of(e, Len(e))) /\ letters' = None /\ list' = list
  BY DEF List_char_to_String
<1>2. Said(_String_new_of(e, Len(e))) = e
  <2>1. e \in Seq(Char)
    BY DEF SoundBlocks
  <2> HIDE DEF e
  <2>2. Len(e) \in 0 .. Len(e) /\ SubSeq(e, 1, Len(e)) = e
    BY <2>1
  <2> QED BY <2>1, <2>2, NewOfText
<1>3. PICK x \in 1 .. MaxBlocks :
        ~Abstract!Has(x) /\ Abstract!Bind(x, e) /\ ListText' = ListText
  BY <1>1, <1>2, GetsText
<1>4. letters' = Abstract!None
  BY <1>1 DEF None, Abstract!None
<1>5. Abstract!FromLetters(x)
  BY <1>1, <1>3, <1>4, ListIs DEF Abstract!FromLetters
<1> QED BY <1>5

-------------------------------------------------------------------------
(* String_split.                                                           *)

\* Two neighbouring parts of a text.
LEMMA Neighbours ==
  ASSUME NEW S, NEW t \in Seq(S), NEW a \in Nat, NEW b \in Nat, NEW c \in Nat,
         a <= b, b <= c, c <= Len(t)
  PROVE  SubSeq(t, a + 1, b) \o SubSeq(t, b + 1, c) = SubSeq(t, a + 1, c)
<1> DEFINE u == SubSeq(t, a + 1, b)
<1> DEFINE v == SubSeq(t, b + 1, c)
<1> DEFINE w == SubSeq(t, a + 1, c)
<1>1. u \in Seq(S) /\ Len(u) = b - a /\ \A k \in 1 .. b - a : u[k] = t[k + a]
  OBVIOUS
<1>2. v \in Seq(S) /\ Len(v) = c - b /\ \A k \in 1 .. c - b : v[k] = t[k + b]
  OBVIOUS
<1>3. w \in Seq(S) /\ Len(w) = c - a /\ \A k \in 1 .. c - a : w[k] = t[k + a]
  OBVIOUS
<1> HIDE DEF u, v, w
<1>4. /\ u \o v \in Seq(S) /\ Len(u \o v) = Len(u) + Len(v)
      /\ \A k \in 1 .. Len(u) + Len(v) : (u \o v)[k] = IF k <= Len(u) THEN u[k] ELSE v[k - Len(u)]
  <2>1. /\ u \o v \in Seq(S) /\ Len(u \o v) = Len(u) + Len(v)
        /\ u \o v = [k \in 1 .. Len(u) + Len(v) |-> IF k <= Len(u) THEN u[k] ELSE v[k - Len(u)]]
    BY <1>1, <1>2, Joined, ZenonT(40)
  <2> QED BY <2>1, Zenon
<1> DEFINE z == u \o v
<1>5. z \in Seq(S) /\ Len(z) = c - a
  BY <1>1, <1>2, <1>4
<1>6. \A k \in 1 .. Len(z) : z[k] = w[k]
  <2> SUFFICES ASSUME NEW k \in 1 .. c - a PROVE z[k] = w[k]
    BY <1>5
  <2>1. z[k] = IF k <= b - a THEN u[k] ELSE v[k - (b - a)]
    <3>1. z[k] = IF k <= Len(u) THEN u[k] ELSE v[k - Len(u)]
      <4>1. k \in 1 .. Len(u) + Len(v)
        BY <1>1, <1>2
      <4> QED BY <1>4, <4>1, Zenon
    <3>2. Len(u) = b - a
      BY <1>1
    <3> QED BY <3>1, <3>2, Zenon
  <2> HIDE DEF z
  <2>2. w[k] = t[k + a]
    BY <1>3
  <2>3. CASE k <= b - a
    <3>1. k \in 1 .. b - a
      BY <2>3
    <3> QED BY <1>1, <2>1, <2>2, <2>3, <3>1
  <2>4. CASE ~(k <= b - a)
    <3>1. k - (b - a) \in 1 .. c - b /\ (k - (b - a)) + b = k + a
      BY <2>4
    <3> QED BY <1>2, <2>1, <2>2, <2>4, <3>1
  <2> QED BY <2>3, <2>4
<1> HIDE DEF z
<1>7. z = w
  BY <1>3, <1>5, <1>6, SameSeq
<1> QED BY <1>7 DEF z, u, v, w

\* The loop of FlattenSeq.
JoinLoop(f, seqs) ==
  f = [i \in 1 .. Len(seqs) |-> IF i = 1 THEN seqs[i] ELSE f[i - 1] \o seqs[i]]

LEMMA JoinRounds ==
  ASSUME NEW seqs, Len(seqs) # 0, \E f : JoinLoop(f, seqs)
  PROVE  \E f : JoinLoop(f, seqs) /\ FlattenSeq(seqs) = f[Len(seqs)]
  BY Zenon DEF JoinLoop, FlattenSeq

\* A text that is cut into pieces is these pieces together.
LEMMA JoinIs ==
  ASSUME NEW S, NEW t \in Seq(S), NEW m \in Nat, m > 0,
         NEW c, \A i \in 1 .. m + 1 : c[i] \in Nat /\ c[i] <= Len(t),
         \A i \in 1 .. m : c[i] <= c[i + 1],
         NEW seqs \in Seq(Seq(S)), Len(seqs) = m,
         \A i \in 1 .. m : seqs[i] = SubSeq(t, c[i] + 1, c[i + 1])
  PROVE  FlattenSeq(seqs) = SubSeq(t, c[1] + 1, c[m + 1])
<1> DEFINE g == [i \in 1 .. m |-> SubSeq(t, c[1] + 1, c[i + 1])]
<1>1. \A i \in 1 .. m : c[1] <= c[i + 1] /\ c[1] <= c[i]
  <2> DEFINE A == {i \in 0 .. m : c[1] <= c[i + 1]}
  <2>1. 0 \in A
    BY SMT
  <2>2. \A i \in 1 .. m : i - 1 \in A => i \in A
    <3> SUFFICES ASSUME NEW i \in 1 .. m, i - 1 \in A PROVE i \in A
      OBVIOUS
    <3>1. c[1] <= c[i] /\ c[i] <= c[i + 1] /\ c[1] \in Nat /\ c[i] \in Nat /\ c[i + 1] \in Nat
      BY SMTT(30)
    <3> QED BY <3>1, SMTT(30)
  <2>3. \A i \in 0 .. m : i \in A
    <3> HIDE DEF A
    <3> QED BY <2>1, <2>2, Induct
  <2>4. \A i \in 1 .. m : i \in 0 .. m /\ i - 1 \in 0 .. m /\ (i - 1) + 1 = i
    OBVIOUS
  <2> QED BY <2>3, <2>4
<1>2. \A i \in 2 .. m : g[i - 1] \o seqs[i] = g[i]
  <2> SUFFICES ASSUME NEW i \in 2 .. m PROVE g[i - 1] \o seqs[i] = g[i]
    OBVIOUS
  <2>1. /\ i \in 1 .. m /\ i - 1 \in 1 .. m /\ (i - 1) + 1 = i
        /\ 1 \in 1 .. m + 1 /\ i \in 1 .. m + 1 /\ i + 1 \in 1 .. m + 1
    OBVIOUS
  <2>2. c[1] \in Nat /\ c[i] \in Nat /\ c[i + 1] \in Nat /\ c[1] <= c[i] /\ c[i] <= c[i + 1]
        /\ c[i + 1] <= Len(t)
    BY <1>1, <2>1
  <2>3. SubSeq(t, c[1] + 1, c[i]) \o SubSeq(t, c[i] + 1, c[i + 1]) = SubSeq(t, c[1] + 1, c[i + 1])
    <3> DEFINE x == c[1]
    <3> DEFINE y == c[i]
    <3> DEFINE z == c[i + 1]
    <3>1. x \in Nat /\ y \in Nat /\ z \in Nat /\ x <= y /\ y <= z /\ z <= Len(t)
      BY <2>2, Zenon
    <3> HIDE DEF x, y, z
    <3>2. SubSeq(t, x + 1, y) \o SubSeq(t, y + 1, z) = SubSeq(t, x + 1, z)
      BY <3>1, Neighbours, SMTT(30)
    <3> QED BY <3>2 DEF x, y, z
  <2>4. g[i - 1] = SubSeq(t, c[1] + 1, c[i]) /\ g[i] = SubSeq(t, c[1] + 1, c[i + 1])
    BY <2>1
  <2> QED BY <2>1, <2>3, <2>4
<1>3. g[1] = seqs[1] /\ g[m] = SubSeq(t, c[1] + 1, c[m + 1])
  <2>1. 1 \in 1 .. m /\ m \in 1 .. m
    OBVIOUS
  <2> QED BY <2>1, Zenon
<1>4. JoinLoop(g, seqs)
  <2>1. g = [i \in 1 .. m |-> g[i]]
    BY Zenon
  <2> HIDE DEF g
  <2>2. \A i \in 1 .. m : g[i] = IF i = 1 THEN seqs[i] ELSE g[i - 1] \o seqs[i]
    <3>1. \A i \in 1 .. m : i = 1 \/ i \in 2 .. m
      OBVIOUS
    <3>2. \A i \in 2 .. m : i # 1
      OBVIOUS
    <3> QED BY <1>2, <1>3, <3>1, <3>2, Zenon
  <2>3. g = [i \in 1 .. m |-> IF i = 1 THEN seqs[i] ELSE g[i - 1] \o seqs[i]]
    BY <2>1, <2>2, Zenon
  <2> QED BY <2>3 DEF JoinLoop
<1> HIDE DEF g
<1>5. PICK f : JoinLoop(f, seqs) /\ FlattenSeq(seqs) = f[m]
  <2>1. Len(seqs) # 0
    OBVIOUS
  <2> QED BY <1>4, <2>1, JoinRounds, Zenon
<1>6. \A i \in 1 .. m : f[i] = IF i = 1 THEN seqs[i] ELSE f[i - 1] \o seqs[i]
  BY <1>5, Zenon DEF JoinLoop
<1>7. f[m] = g[m]
  <2> DEFINE A == {i \in 0 .. m : i = 0 \/ f[i] = g[i]}
  <2>1. 0 \in A
    OBVIOUS
  <2>2. \A i \in 1 .. m : i - 1 \in A => i \in A
    <3> SUFFICES ASSUME NEW i \in 1 .. m, i - 1 \in A PROVE f[i] = g[i]
      OBVIOUS
    <3>1. CASE i = 1
      BY <1>3, <1>6, <3>1
    <3>2. CASE i # 1
      <4>1. i \in 2 .. m /\ f[i - 1] = g[i - 1]
        BY <3>2
      <4> QED BY <1>2, <1>6, <3>2, <4>1, Zenon
    <3> QED BY <3>1, <3>2
  <2>3. \A i \in 0 .. m : i \in A
    <3> HIDE DEF A
    <3> QED BY <2>1, <2>2, Induct
  <2>4. m \in 0 .. m /\ m # 0
    OBVIOUS
  <2> QED BY <2>3, <2>4
<1> QED BY <1>3, <1>5, <1>7

\* A delimiter that is found ends in the text.
LEMMA MatchInside ==
  ASSUME NEW str, Terminated(str), NEW delim, Terminated(delim), NEW k \in 0 .. apaz_strlen(str),
         apaz_strstr(From(str, k), delim) # NotFound
  PROVE  /\ apaz_strstr(From(str, k), delim) \in Nat /\ apaz_strlen(delim) \in Nat
         /\ apaz_strlen(delim) > 0 /\ Onward(str, delim, k) \in k + 1 .. apaz_strlen(str)
<1> DEFINE rest == From(str, k)
<1> DEFINE l == apaz_strlen(str)
<1> DEFINE m == apaz_strstr(rest, delim)
<1> DEFINE d == apaz_strlen(delim)
<1>1. l \in Nat /\ d \in Nat
  BY StrlenIs
<1>2. Terminated(rest) /\ apaz_strlen(rest) = l - k
  BY StrlenFrom
<1>3. m \in 0 .. apaz_strlen(rest) - 1 /\ apaz_str_startsWith(From(rest, m), delim)
  BY <1>2, StrstrIs
<1>4. m \in 0 .. apaz_strlen(rest)
  <2> HIDE DEF m, rest, l
  <2> QED BY <1>1, <1>2, <1>3
<1>5. Terminated(From(rest, m)) /\ apaz_strlen(From(rest, m)) = apaz_strlen(rest) - m
  BY <1>2, <1>4, StrlenFrom
<1>6. d > 0 /\ d <= apaz_strlen(From(rest, m))
  BY <1>3, <1>5, StartsWithIs
<1>7. Onward(str, delim, k) = k + m + d
  BY DEF Onward
<1> HIDE DEF m, d, rest, l
<1>8. m \in Nat /\ k + m + d \in k + 1 .. l
  BY <1>1, <1>2, <1>3, <1>5, <1>6
<1> QED BY <1>1, <1>6, <1>7, <1>8 DEF m, d, l, rest

\* Where a part may begin, and where the one behind it does.
Ends(str, delim, k) == apaz_strstr(From(str, k), delim) = NotFound

Chain(s, str, delim) ==
  /\ Len(s) > 0 /\ s \in Seq(0 .. apaz_strlen(str))
  /\ \A j \in 1 .. Len(s) - 1 : ~Ends(str, delim, s[j]) /\ s[j + 1] = Onward(str, delim, s[j])
  /\ Ends(str, delim, s[Len(s)])

\* The parts of String_split begin at 0 and behind each delimiter, as long as there is one.
LEMMA StartsChain ==
  ASSUME NEW str, Terminated(str), NEW delim, Terminated(delim)
  PROVE  Chain(Starts(str, delim), str, delim) /\ Starts(str, delim)[1] = 0
<1> DEFINE n == Len(str) - 1
<1> DEFINE l == apaz_strlen(str)
<1> DEFINE ends(k) == Ends(str, delim, k)
<1> DEFINE next(k) == Onward(str, delim, k)
<1>1. n \in Nat /\ l \in 0 .. n
  BY StrlenIs DEF Terminated
<1>2. ASSUME NEW k \in 0 .. l, ~ends(k)
      PROVE  next(k) \in k + 1 .. l
  BY <1>2, MatchInside DEF Ends
<1>3. PICK f : PartsLoop(f, str, delim) /\ Starts(str, delim) = f[0]
  BY PartsRuns, PartsRounds
<1>4. \A k \in 0 .. n : f[k] = IF ends(k) THEN <<k>> ELSE <<k>> \o f[next(k)]
  BY <1>3, Zenon DEF PartsLoop, Ends, Onward
<1> HIDE DEF n, l, ends, next
<1> DEFINE Right(s) == /\ Len(s) > 0 /\ s \in Seq(0 .. l)
                       /\ \A j \in 1 .. Len(s) - 1 : ~ends(s[j]) /\ s[j + 1] = next(s[j])
                       /\ ends(s[Len(s)])
<1> DEFINE S == {k \in 0 .. l : Right(f[k]) /\ f[k][1] = k}
<1>5. ASSUME NEW k \in 0 .. l, \A j \in k + 1 .. l : j \in S
      PROVE  k \in S
  <2>0. k \in 0 .. n
    BY <1>1
  <2>1. CASE ends(k)
    <3> DEFINE t == <<k>>
    <3>1. f[k] = t
      BY <1>4, <2>0, <2>1
    <3>2. t \in Seq(0 .. l) /\ Len(t) = 1 /\ t[1] = k
      OBVIOUS
    <3> HIDE DEF t
    <3>3. Right(t)
      BY <2>1, <3>2
    <3> HIDE DEF Right
    <3> QED BY <3>1, <3>2, <3>3
  <2>2. CASE ~ends(k)
    <3> DEFINE s == f[next(k)]
    <3> DEFINE t == <<k>> \o s
    <3>1. next(k) \in k + 1 .. l
      BY <1>2, <2>2
    <3>2. f[k] = t
      BY <1>4, <2>0, <2>2
    <3>3. Right(s) /\ s[1] = next(k)
      <4>1. next(k) \in S
        BY <1>5, <3>1
      <4> HIDE DEF Right
      <4> QED BY <4>1
    <3> HIDE DEF s
    <3>4. s \in Seq(0 .. l) /\ Len(s) \in Nat /\ Len(s) > 0 /\ ends(s[Len(s)])
      BY <3>3
    <3>5. \A j \in 1 .. Len(s) - 1 : ~ends(s[j]) /\ s[j + 1] = next(s[j])
      BY <3>3
    <3>6. t \in Seq(0 .. l) /\ Len(t) = Len(s) + 1 /\ t[1] = k /\ \A j \in 1 .. Len(s) : t[j + 1] = s[j]
      BY <3>4
    <3> HIDE DEF t
    <3>7. ASSUME NEW j \in 1 .. Len(t) - 1
          PROVE  ~ends(t[j]) /\ t[j + 1] = next(t[j])
      <4>1. j \in 1 .. Len(s) /\ t[j + 1] = s[j]
        BY <3>4, <3>6
      <4>2. CASE j = 1
        BY <2>2, <3>3, <3>6, <4>1, <4>2
      <4>3. CASE j # 1
        <5>1. j - 1 \in 1 .. Len(s) - 1 /\ j - 1 \in 1 .. Len(s) /\ (j - 1) + 1 = j
          BY <3>4, <4>1, <4>3
        <5>2. ~ends(s[j - 1]) /\ s[j] = next(s[j - 1])
          BY <3>5, <5>1
        <5>3. t[j] = s[j - 1]
          BY <3>6, <5>1
        <5> QED BY <4>1, <5>2, <5>3
      <4> QED BY <4>2, <4>3
    <3>8. ends(t[Len(t)])
      <4>1. t[Len(t)] = s[Len(s)]
        BY <3>4, <3>6
      <4> QED BY <3>4, <4>1
    <3>9. Right(t)
      BY <3>4, <3>6, <3>7, <3>8
    <3> HIDE DEF Right
    <3> QED BY <3>2, <3>6, <3>9
  <2> QED BY <2>1, <2>2
<1>6. Right(f[0]) /\ f[0][1] = 0
  <2>1. l \in Nat
    BY <1>1
  <2>2. \A k \in 0 .. l : k \in S
    <3> HIDE DEF S
    <3> QED BY <1>5, <2>1, Downward
  <2>3. 0 \in S
    <3> HIDE DEF S
    <3> QED BY <2>1, <2>2
  <2> HIDE DEF Right
  <2> QED BY <2>3
<1> QED BY <1>3, <1>6 DEF Chain, l, ends, next

\* What stands in the text behind its first k chars.
LEMMA TextFrom ==
  ASSUME NEW str, Terminated(str), NEW k \in 0 .. apaz_strlen(str)
  PROVE  /\ Text(From(str, k)) = SubSeq(Text(str), k + 1, apaz_strlen(str))
         /\ Len(Text(From(str, k))) = apaz_strlen(str) - k
         /\ apaz_strlen(str) \in Nat
<1> DEFINE l == apaz_strlen(str)
<1> DEFINE t == Text(str)
<1> DEFINE u == Text(From(str, k))
<1>1. l \in Nat /\ t \in Seq(Char) /\ Len(t) = l /\ \A j \in 1 .. l : t[j] = str[j]
  BY StrlenIs, TextIs
<1>2. /\ Terminated(From(str, k)) /\ apaz_strlen(From(str, k)) = l - k
      /\ \A j \in 1 .. l - k : From(str, k)[j] = str[j + k]
  BY StrlenFrom
<1>3. u \in Seq(Char) /\ Len(u) = l - k /\ \A j \in 1 .. l - k : u[j] = From(str, k)[j]
  BY <1>2, TextIs
<1> HIDE DEF t, u, l
<1> DEFINE v == SubSeq(t, k + 1, l)
<1>4. v \in Seq(Char) /\ Len(v) = l - k /\ \A j \in 1 .. l - k : v[j] = t[j + k]
  BY <1>1, k \in 0 .. l DEF l
<1> HIDE DEF v
<1>5. \A j \in 1 .. l - k : u[j] = v[j]
  <2>1. k \in 0 .. l
    BY DEF l
  <2>2. \A j \in 1 .. l - k : j + k \in 1 .. l
    BY <1>1, <2>1
  <2> QED BY <1>1, <1>2, <1>3, <1>4, <2>2, ZenonT(40)
<1>6. u = v
  BY <1>3, <1>4, <1>5, SameSeq
<1> QED BY <1>1, <1>3, <1>6 DEF u, v, t, l

\* A part of a part.
LEMMA PartOfPart ==
  ASSUME NEW S, NEW t \in Seq(S), NEW a \in Nat, NEW x \in Nat, NEW y \in Nat,
         x <= y, a + y <= Len(t)
  PROVE  SubSeq(SubSeq(t, a + 1, Len(t)), x + 1, y) = SubSeq(t, a + x + 1, a + y)
<1> DEFINE r == SubSeq(t, a + 1, Len(t))
<1> DEFINE u == SubSeq(r, x + 1, y)
<1> DEFINE v == SubSeq(t, a + x + 1, a + y)
<1>1. r \in Seq(S) /\ Len(r) = Len(t) - a /\ \A j \in 1 .. Len(t) - a : r[j] = t[j + a]
  OBVIOUS
<1>2. v \in Seq(S) /\ Len(v) = y - x /\ \A j \in 1 .. y - x : v[j] = t[j + (a + x)]
  OBVIOUS
<1> HIDE DEF r, v
<1>3. u \in Seq(S) /\ Len(u) = y - x /\ \A j \in 1 .. y - x : u[j] = r[j + x]
  BY <1>1
<1> HIDE DEF u
<1>4. \A j \in 1 .. y - x : u[j] = v[j]
  <2>1. \A j \in 1 .. y - x : j + x \in 1 .. Len(t) - a /\ (j + x) + a = j + (a + x)
    OBVIOUS
  <2> QED BY <1>1, <1>2, <1>3, <2>1
<1>5. u = v
  BY <1>2, <1>3, <1>4, SameSeq
<1> QED BY <1>5 DEF u, v, r

\* What a delimiter of d chars, found behind m more chars, makes of a text from a on.
LEMMA Pieces ==
  ASSUME NEW S, NEW t \in Seq(S), NEW a \in Nat, NEW m \in Nat, NEW d \in Nat, NEW b \in Nat,
         NEW l \in Nat, l = Len(t), b = a + m + d, b <= l
  PROVE  /\ SubSeq(SubSeq(t, a + 1, l), m + 1, m + d) = SubSeq(t, a + m + 1, b)
         /\ SubSeq(SubSeq(t, a + 1, l), 1, m) = SubSeq(t, a + 1, a + m)
         /\ SubSeq(t, a + 1, a + m) \o SubSeq(t, a + m + 1, b) = SubSeq(t, a + 1, b)
         /\ Len(SubSeq(t, a + 1, a + m)) = m
<1> DEFINE e == m + d
<1>1. e \in Nat /\ m <= e /\ a + e <= Len(t) /\ a + e = b
  OBVIOUS
<1> HIDE DEF e
<1>2. SubSeq(SubSeq(t, a + 1, Len(t)), m + 1, e) = SubSeq(t, a + m + 1, a + e)
  BY <1>1, PartOfPart
<1>3. SubSeq(SubSeq(t, a + 1, Len(t)), 0 + 1, m) = SubSeq(t, a + 0 + 1, a + m)
  <2> DEFINE z == 0
  <2>1. z \in Nat /\ z <= m /\ a + m <= Len(t)
    OBVIOUS
  <2> HIDE DEF z
  <2>2. SubSeq(SubSeq(t, a + 1, Len(t)), z + 1, m) = SubSeq(t, a + z + 1, a + m)
    BY <2>1, PartOfPart
  <2> QED BY <2>2 DEF z
<1>4. SubSeq(t, a + 1, a + m) \o SubSeq(t, a + m + 1, b) = SubSeq(t, a + 1, b)
  <2> DEFINE g == a + m
  <2>1. g \in Nat /\ a <= g /\ g <= b /\ b <= Len(t)
    OBVIOUS
  <2> HIDE DEF g
  <2>2. SubSeq(t, a + 1, g) \o SubSeq(t, g + 1, b) = SubSeq(t, a + 1, b)
    BY <2>1, Neighbours
  <2> QED BY <2>2 DEF g
<1>5. Len(SubSeq(t, a + 1, a + m)) = m
  OBVIOUS
<1>6. 0 + 1 = 1 /\ a + 0 + 1 = a + 1
  OBVIOUS
<1> QED BY <1>1, <1>2, <1>3, <1>4, <1>5, <1>6 DEF e

\* A part that ends with the delimiter: the text in front of it, and no delimiter earlier.
LEMMA InnerPart ==
  ASSUME NEW str, Terminated(str), NEW delim, Terminated(delim), NEW a \in 0 .. apaz_strlen(str),
         ~Ends(str, delim, a)
  PROVE  LET t == Text(str)
             D == Text(delim)
             l == apaz_strlen(str)
             m == apaz_strstr(From(str, a), delim)
             b == Onward(str, delim, a)
         IN
         /\ a \in Nat /\ m \in Nat /\ a + m <= b /\ b \in a + 1 .. l /\ l \in Nat
         /\ b - apaz_strlen(delim) = a + m
         /\ Said(_String_new_of(From(str, a), (b - apaz_strlen(delim)) - a)) = SubSeq(t, a + 1, a + m)
         /\ Len(SubSeq(t, a + 1, a + m)) = m
         /\ SubSeq(t, a + 1, a + m) \o D = SubSeq(t, a + 1, b)
         /\ D # <<>> /\ \A at \in 0 .. m - 1 : ~OccursAt(SubSeq(t, a + 1, l), D, at)
<1> DEFINE t == Text(str)
<1> DEFINE D == Text(delim)
<1> DEFINE l == apaz_strlen(str)
<1> DEFINE m == apaz_strstr(From(str, a), delim)
<1> DEFINE b == Onward(str, delim, a)
<1>0. /\ t = Text(str) /\ D = Text(delim) /\ l = apaz_strlen(str)
      /\ m = apaz_strstr(From(str, a), delim) /\ b = Onward(str, delim, a)
  OBVIOUS
<1> HIDE DEF t, D, l, m, b
<1> DEFINE rest == From(str, a)
<1> DEFINE d == apaz_strlen(delim)
<1>1. /\ l \in Nat /\ t \in Seq(Char) /\ Len(t) = l
      /\ d \in Nat /\ D \in Seq(Char) /\ Len(D) = d
  BY <1>0, StrlenIs, TextIs
<1>2. m \in Nat /\ d > 0 /\ b \in a + 1 .. l /\ b = a + m + d
  BY <1>0, MatchInside DEF Ends, Onward
<1>3. Terminated(rest) /\ apaz_strlen(rest) = l - a /\ Text(rest) = SubSeq(t, a + 1, l)
      /\ rest \in Seq(Char)
  BY <1>0, StrlenFrom, TextFrom DEF Terminated
<1>4. OccursAt(Text(rest), D, m) /\ \A at \in 0 .. m - 1 : ~OccursAt(Text(rest), D, at)
  <2>1. apaz_strstr(rest, delim) # NotFound
    BY DEF Ends
  <2> QED BY <1>0, <1>3, <2>1, FoundIs
<1>5. D # <<>>
  BY <1>1, <1>2
<1> HIDE DEF d
<1>6. a \in Nat /\ a + m <= b /\ b - d = a + m /\ (b - d) - a = m /\ m + d <= l - a /\ a + m <= l
  BY <1>1, <1>2
<1>7. /\ SubSeq(SubSeq(t, a + 1, l), m + 1, m + d) = SubSeq(t, a + m + 1, b)
      /\ SubSeq(SubSeq(t, a + 1, l), 1, m) = SubSeq(t, a + 1, a + m)
      /\ SubSeq(t, a + 1, a + m) \o SubSeq(t, a + m + 1, b) = SubSeq(t, a + 1, b)
      /\ Len(SubSeq(t, a + 1, a + m)) = m
  <2>1. a \in Nat /\ b \in Nat /\ l \in Nat /\ m \in Nat /\ d \in Nat /\ l = Len(t) /\ b = a + m + d /\ b <= l
    BY ONLY <1>1, <1>2, <1>6
  <2> QED BY ONLY <1>1, <2>1, Pieces
<1>8. SubSeq(t, a + 1, a + m) \o D = SubSeq(t, a + 1, b)
  <2>1. SubSeq(SubSeq(t, a + 1, l), m + 1, m + d) = D
    BY <1>1, <1>3, <1>4, Zenon DEF OccursAt
  <2> QED BY <1>7, <2>1, Zenon
<1>9. Len(SubSeq(t, a + 1, a + m)) = m
  BY <1>7
<1>10. Said(_String_new_of(rest, m)) = SubSeq(t, a + 1, a + m)
  <2>1. m \in 0 .. Len(rest) /\ m <= apaz_strlen(rest) /\ Len(rest) \in Nat
    <3>1. apaz_strlen(rest) \in 0 .. Len(rest) - 1 /\ Len(rest) \in Nat
      BY <1>3, StrlenIs
    <3> HIDE DEF rest
    <3>2. m \in Nat /\ apaz_strlen(rest) = l - a /\ m + d <= l - a /\ d \in Nat /\ l \in Nat /\ a \in Nat
      BY <1>1, <1>2, <1>3, <1>6
    <3> QED BY ONLY <3>1, <3>2
  <2>2. Said(_String_new_of(rest, m)) = SubSeq(rest, 1, m)
    BY <1>3, <2>1, NewOfText
  <2>3. SubSeq(rest, 1, m) = SubSeq(Text(rest), 1, m)
    <3>1. /\ Text(rest) \in Seq(Char) /\ Len(Text(rest)) = apaz_strlen(rest)
          /\ \A j \in 1 .. apaz_strlen(rest) : Text(rest)[j] = rest[j]
      BY <1>3, TextIs
    <3> DEFINE u == Text(rest)
    <3> DEFINE k == apaz_strlen(rest)
    <3>2. /\ u \in Seq(Char) /\ Len(u) = k /\ (\A j \in 1 .. k : u[j] = rest[j]) /\ m <= k
          /\ k \in Nat
      BY <1>3, <2>1, <3>1, StrlenIs
    <3> HIDE DEF u, k, rest
    <3>3. m <= Len(rest) /\ m <= Len(u) /\ \A j \in 1 .. m : rest[j] = u[j]
      BY <1>2, <2>1, <3>2
    <3>4. SubSeq(rest, 1, m) = SubSeq(u, 1, m)
      BY <1>2, <1>3, <3>2, <3>3, SameBeginning
    <3> QED BY <3>4 DEF u
  <2> HIDE DEF rest
  <2> QED BY <1>3, <1>7, <2>2, <2>3, Zenon
<1> HIDE DEF rest
<1>11. (b - apaz_strlen(delim)) - a = m /\ b - apaz_strlen(delim) = a + m
  BY <1>6 DEF d
<1>12. \A at \in 0 .. m - 1 : ~OccursAt(SubSeq(t, a + 1, l), D, at)
  BY <1>3, <1>4
<1>13. Said(_String_new_of(From(str, a), (b - apaz_strlen(delim)) - a)) = SubSeq(t, a + 1, a + m)
  BY <1>10, <1>11 DEF rest
<1> QED BY <1>1, <1>2, <1>5, <1>6, <1>8, <1>9, <1>11, <1>12, <1>13, Zenon DEF t, D, l, m, b

\* The last part: all that is left, and no delimiter in it.
LEMMA LastPart ==
  ASSUME NEW str, Terminated(str), NEW delim, Terminated(delim), NEW a \in 0 .. apaz_strlen(str),
         Ends(str, delim, a)
  PROVE  LET t == Text(str)
             D == Text(delim)
             l == apaz_strlen(str)
         IN
         /\ Said(_String_new_of_strlen(From(str, a))) = SubSeq(t, a + 1, l)
         /\ Len(SubSeq(t, a + 1, l)) = l - a
         /\ D # <<>> => \A at \in 0 .. l - a : ~OccursAt(SubSeq(t, a + 1, l), D, at)
<1> DEFINE t == Text(str)
<1> DEFINE D == Text(delim)
<1> DEFINE l == apaz_strlen(str)
<1> DEFINE rest == From(str, a)
<1>1. /\ Terminated(rest) /\ apaz_strlen(rest) = l - a
      /\ Text(rest) = SubSeq(t, a + 1, l) /\ Len(Text(rest)) = l - a /\ rest \in Seq(Char)
  BY StrlenFrom, TextFrom DEF Terminated
<1>2. Said(_String_new_of_strlen(rest)) = Text(rest)
  <2>1. apaz_strlen(rest) \in 0 .. Len(rest)
    <3>1. apaz_strlen(rest) \in 0 .. Len(rest) - 1 /\ Len(rest) \in Nat
      BY <1>1, StrlenIs
    <3> HIDE DEF rest
    <3> QED BY <3>1
  <2>2. Said(_String_new_of_strlen(rest)) = SubSeq(rest, 1, apaz_strlen(rest))
    BY <1>1, <2>1, NewOfText DEF _String_new_of_strlen
  <2> QED BY <1>1, <2>2, TextIs
<1>3. ~apaz_str_contains(rest, delim)
  BY DEF Ends, apaz_str_contains
<1>4. D # <<>> => \A at \in 0 .. Len(Text(rest)) : ~OccursAt(Text(rest), D, at)
  BY <1>1, <1>3, FoundIs
<1> QED BY <1>1, <1>2, <1>4

\* From any of its cuts on a text is the pieces behind that cut.
LEMMA Tails ==
  ASSUME NEW S, NEW t \in Seq(S), NEW n \in Nat, n > 0,
         NEW s \in Seq(0 .. Len(t)), Len(s) = n,
         NEW e \in Seq(Seq(S)), Len(e) = n,
         \A k \in 1 .. n - 1 : s[k] <= s[k + 1] /\ e[k] = SubSeq(t, s[k] + 1, s[k + 1]),
         e[n] = SubSeq(t, s[n] + 1, Len(t)),
         NEW k \in 1 .. n
  PROVE  FlattenSeq(SubSeq(e, k, n)) = SubSeq(t, s[k] + 1, Len(t))
<1> DEFINE l == Len(t)
<1> DEFINE m == n - k + 1
<1> DEFINE c == [i \in 1 .. m + 1 |-> IF i <= m THEN s[k + i - 1] ELSE l]
<1> DEFINE q == SubSeq(e, k, n)
<1>1. l \in Nat /\ m \in Nat /\ m > 0
  OBVIOUS
<1>2. q \in Seq(Seq(S)) /\ Len(q) = m /\ \A i \in 1 .. m : q[i] = e[k + i - 1]
  OBVIOUS
<1>3. \A i \in 1 .. m + 1 : c[i] = IF i <= m THEN s[k + i - 1] ELSE l
  BY Zenon
<1>4. \A i \in 1 .. n : s[i] \in Nat /\ s[i] <= l
  <2>1. \A i \in 1 .. n : s[i] \in 0 .. l
    BY ONLY s \in Seq(0 .. l), Len(s) = n
  <2> HIDE DEF l
  <2> QED BY ONLY <1>1, <2>1
<1>5. \A i \in 1 .. m : k + i - 1 \in 1 .. n /\ (k + i - 1) + 1 = k + (i + 1) - 1
  BY ONLY n \in Nat, k \in 1 .. n
<1>6. \A i \in 1 .. m - 1 : k + i - 1 \in 1 .. n - 1
  OBVIOUS
<1>7. k + m - 1 = n /\ k + 1 - 1 = k
  OBVIOUS
<1> HIDE DEF c, q, l
<1>8. \A i \in 1 .. m + 1 : c[i] \in Nat /\ c[i] <= l
  <2> TAKE i \in 1 .. m + 1
  <2>1. CASE i <= m
    <3>1. i \in 1 .. m
      BY <2>1
    <3> QED BY <1>3, <1>4, <1>5, <2>1, <3>1
  <2>2. CASE ~(i <= m)
    BY <1>1, <1>3, <2>2, SMTT(30)
  <2> QED BY <2>1, <2>2
<1>9. \A i \in 1 .. m : c[i] <= c[i + 1] /\ q[i] = SubSeq(t, c[i] + 1, c[i + 1])
  <2> TAKE i \in 1 .. m
  <2>1. i \in 1 .. m + 1 /\ i + 1 \in 1 .. m + 1 /\ i <= m
    BY <1>1
  <2>2. c[i] = s[k + i - 1] /\ q[i] = e[k + i - 1]
    BY <1>2, <1>3, <2>1
  <2>3. CASE i = m
    <3>1. c[i + 1] = l
      BY <1>3, <2>1, <2>3
    <3>2. c[i] = s[n] /\ q[i] = e[n]
      BY <1>7, <2>2, <2>3
    <3>3. s[n] <= l
      BY <1>4
    <3> QED BY <3>1, <3>2, <3>3 DEF l
  <2>4. CASE i # m
    <3>1. i + 1 <= m /\ i \in 1 .. m - 1
      BY <2>1, <2>4
    <3>2. c[i + 1] = s[(k + i - 1) + 1]
      BY <1>3, <1>5, <2>1, <3>1
    <3> QED BY <1>6, <2>2, <3>1, <3>2
  <2> QED BY <2>3, <2>4
<1>10. c[1] = s[k] /\ c[m + 1] = l
  <2>1. 1 \in 1 .. m + 1 /\ 1 <= m /\ m + 1 \in 1 .. m + 1 /\ ~(m + 1 <= m)
    BY <1>1
  <2> QED BY <1>3, <1>7, <2>1
<1> HIDE DEF m
<1>11. FlattenSeq(q) = SubSeq(t, c[1] + 1, c[m + 1])
  <2>1. \A i \in 1 .. m + 1 : c[i] \in Nat /\ c[i] <= Len(t)
    BY <1>8 DEF l
  <2>2. \A i \in 1 .. m : c[i] <= c[i + 1]
    BY <1>9, Zenon
  <2>3. \A i \in 1 .. m : q[i] = SubSeq(t, c[i] + 1, c[i + 1])
    BY <1>9, Zenon
  <2>4. q \in Seq(Seq(S)) /\ Len(q) = m
    BY <1>2, Zenon
  <2> QED BY ONLY t \in Seq(S), <1>1, <2>1, <2>2, <2>3, <2>4, JoinIs, ZenonT(120)
<1> QED BY <1>10, <1>11, Zenon DEF q, l

\* Parts that are put together, as the two modules define it.
LEMMA SameJoin == \A seqs : Abstract!FlattenSeq(seqs) = FlattenSeq(seqs)
  BY DEF FlattenSeq, Abstract!FlattenSeq

\* String_split cuts a text where the delimiter first occurs behind the beginning of each part.
LEMMA SplitIs ==
  ASSUME NEW str, Terminated(str), NEW delim, Terminated(delim), NEW P, NEW n,
         n = Len(Parts(str, delim)), P \in Seq(Seq(Char)), Len(P) = n,
         \A k \in 1 .. n : P[k] = Said(Parts(str, delim)[k])
  PROVE  Abstract!IsSplit(P, Text(str), Text(delim))
<1> DEFINE s == Starts(str, delim)
<1> DEFINE t == Text(str)
<1> DEFINE D == Text(delim)
<1> DEFINE l == apaz_strlen(str)
<1> DEFINE Seen(a) == SubSeq(t, a + 1, l)
<1> DEFINE e == [k \in 1 .. n |-> IF k = n THEN P[k] ELSE P[k] \o D]
<1>1. l \in Nat /\ t \in Seq(Char) /\ Len(t) = l /\ D \in Seq(Char) /\ Len(D) \in Nat
  BY StrlenIs, TextIs
<1>2. n = Len(s)
  BY PartsSound
<1>3. /\ Len(s) > 0 /\ s \in Seq(0 .. l) /\ s[1] = 0
      /\ \A j \in 1 .. Len(s) - 1 : ~Ends(str, delim, s[j]) /\ s[j + 1] = Onward(str, delim, s[j])
      /\ Ends(str, delim, s[Len(s)])
  BY StartsChain DEF Chain
<1>5. \A k \in 1 .. n : Parts(str, delim)[k] =
        IF k < n THEN _String_new_of(From(str, s[k]), (s[k + 1] - apaz_strlen(delim)) - s[k])
        ELSE _String_new_of_strlen(From(str, s[k]))
  BY <1>2, Zenon DEF Parts
<1> HIDE DEF s, t, D, l
<1>4. n \in Nat /\ n > 0 /\ \A k \in 1 .. n : s[k] \in 0 .. l
  <2>1. s \in Seq(0 .. l) /\ Len(s) > 0
    BY <1>3
  <2> DEFINE T == 0 .. l
  <2>2. Len(s) \in Nat /\ \A k \in 1 .. Len(s) : s[k] \in T
    <3>1. s \in Seq(T)
      BY <2>1
    <3> HIDE DEF T
    <3> QED BY ONLY <3>1
  <2> QED BY ONLY <1>2, <2>1, <2>2
<1>6. ASSUME NEW k \in 1 .. n - 1
      PROVE  /\ s[k] <= s[k + 1] /\ P[k] \o D = SubSeq(t, s[k] + 1, s[k + 1])
             /\ D # <<>> /\ \A at \in 0 .. Len(P[k]) - 1 : ~OccursAt(Seen(s[k]), D, at)
  <2> DEFINE a == s[k]
  <2> DEFINE b == s[k + 1]
  <2> DEFINE m == apaz_strstr(From(str, a), delim)
  <2>1. k \in 1 .. n /\ k < n /\ k \in 1 .. Len(s) - 1 /\ k + 1 \in 1 .. n
    BY <1>2, <1>4
  <2>2. a \in 0 .. l /\ ~Ends(str, delim, a) /\ b = Onward(str, delim, a)
    BY <1>3, <1>4, <2>1
  <2>3. P[k] = Said(_String_new_of(From(str, a), (b - apaz_strlen(delim)) - a))
    BY <1>5, <2>1
  <2> HIDE DEF a, b, m
  <2>4. /\ a \in Nat /\ m \in Nat /\ a + m <= b /\ b \in a + 1 .. l /\ l \in Nat
        /\ b - apaz_strlen(delim) = a + m
        /\ Said(_String_new_of(From(str, a), (b - apaz_strlen(delim)) - a)) = SubSeq(t, a + 1, a + m)
        /\ Len(SubSeq(t, a + 1, a + m)) = m
        /\ SubSeq(t, a + 1, a + m) \o D = SubSeq(t, a + 1, b)
        /\ D # <<>> /\ \A at \in 0 .. m - 1 : ~OccursAt(SubSeq(t, a + 1, l), D, at)
    <3>1. t = Text(str) /\ D = Text(delim) /\ l = apaz_strlen(str) /\ m = apaz_strstr(From(str, a), delim)
      BY DEF t, D, l, m
    <3>2. a \in 0 .. apaz_strlen(str) /\ ~Ends(str, delim, a) /\ b = Onward(str, delim, a)
      BY <2>2, <3>1
    <3> QED BY ONLY Terminated(str), Terminated(delim), <3>1, <3>2, InnerPart
  <2>5. a <= b
    BY <2>4
  <2>6. P[k] \o D = SubSeq(t, a + 1, b) /\ Len(P[k]) = m
    BY <2>3, <2>4, Zenon
  <2>7. \A at \in 0 .. Len(P[k]) - 1 : ~OccursAt(SubSeq(t, a + 1, l), D, at)
    BY <2>4, <2>6, Zenon
  <2> QED BY <2>4, <2>5, <2>6, <2>7, Zenon DEF a, b
<1>7. /\ P[n] = SubSeq(t, s[n] + 1, l)
      /\ \A at \in 0 .. Len(P[n]) - 1 : D # <<>> => ~OccursAt(Seen(s[n]), D, at)
  <2> DEFINE a == s[n]
  <2>1. n \in 1 .. n /\ ~(n < n)
    BY <1>4
  <2>2. P[n] = Said(_String_new_of_strlen(From(str, a)))
    BY <1>5, <2>1
  <2>3. a \in 0 .. l /\ Ends(str, delim, a)
    BY <1>2, <1>3, <1>4, <2>1
  <2> HIDE DEF a
  <2>4. /\ Said(_String_new_of_strlen(From(str, a))) = SubSeq(t, a + 1, l)
        /\ Len(SubSeq(t, a + 1, l)) = l - a
        /\ D # <<>> => \A at \in 0 .. l - a : ~OccursAt(SubSeq(t, a + 1, l), D, at)
    BY <2>3, LastPart DEF t, D, l
  <2>5. P[n] = SubSeq(t, a + 1, l) /\ Len(P[n]) = l - a
    BY <2>2, <2>4, Zenon
  <2>6. \A at \in 0 .. (l - a) - 1 : at \in 0 .. l - a
    BY <1>1, <2>3
  <2>7. \A at \in 0 .. Len(P[n]) - 1 : D # <<>> => ~OccursAt(SubSeq(t, a + 1, l), D, at)
    BY <2>4, <2>5, <2>6, Zenon
  <2> QED BY <2>5, <2>7 DEF a
<1>8. e \in Seq(Seq(Char)) /\ Len(e) = n /\ \A k \in 1 .. n : e[k] = IF k = n THEN P[k] ELSE P[k] \o D
  <2>1. \A k \in 1 .. n : P[k] \in Seq(Char) /\ P[k] \o D \in Seq(Char)
    BY <1>1
  <2>2. \A k \in 1 .. n : e[k] = IF k = n THEN P[k] ELSE P[k] \o D
    BY Zenon
  <2>3. e \in [1 .. n -> Seq(Char)]
    BY <2>1
  <2> DEFINE T == Seq(Char)
  <2>4. e \in Seq(T) /\ Len(e) = n
    <3>1. n \in Nat /\ e \in [1 .. n -> T]
      BY <1>4, <2>3
    <3> HIDE DEF e, T
    <3> QED BY ONLY <3>1
  <2> HIDE DEF e
  <2> QED BY <2>2, <2>4
<1>9. e = [k \in 1 .. n |-> IF k = n THEN P[k] ELSE P[k] \o D]
  OBVIOUS
<1> HIDE DEF e
<1>10. /\ \A k \in 1 .. n - 1 : s[k] <= s[k + 1] /\ e[k] = SubSeq(t, s[k] + 1, s[k + 1])
       /\ e[n] = SubSeq(t, s[n] + 1, Len(t))
  <2>1. \A k \in 1 .. n - 1 : k \in 1 .. n /\ k # n
    BY <1>4
  <2>2. n \in 1 .. n
    BY <1>4
  <2> QED BY <1>1, <1>6, <1>7, <1>8, <2>1, <2>2, Zenon
<1>11. \A k \in 1 .. n : FlattenSeq(SubSeq(e, k, n)) = Seen(s[k])
  <2> TAKE k \in 1 .. n
  <2>1. s \in Seq(0 .. Len(t)) /\ Len(s) = n
    BY <1>1, <1>2, <1>3
  <2>2. FlattenSeq(SubSeq(e, k, n)) = SubSeq(t, s[k] + 1, Len(t))
    BY ONLY <1>1, <1>4, <1>8, <1>10, <2>1, k \in 1 .. n, Tails, ZenonT(40)
  <2> QED BY <1>1, <2>2
<1>12. FlattenSeq(e) = t
  <2>1. 1 \in 1 .. n /\ SubSeq(e, 1, n) = e
    BY <1>4, <1>8
  <2>2. Seen(s[1]) = t
    <3>1. SubSeq(t, 1, l) = t /\ 0 + 1 = 1
      BY <1>1
    <3> QED BY <1>3, <3>1
  <2> QED BY <1>11, <2>1, <2>2
<1>13. \A k \in 1 .. n : \A at \in 0 .. Len(P[k]) - 1 :
         D # <<>> => ~OccursAt(FlattenSeq(SubSeq(e, k, n)), D, at)
  <2> TAKE k \in 1 .. n
  <2>1. k = n \/ k \in 1 .. n - 1
    BY <1>4
  <2> QED BY <1>6, <1>7, <1>11, <2>1, Zenon
<1>14. D = <<>> => n = 1
  <2>1. n = 1 \/ 1 \in 1 .. n - 1
    BY <1>4
  <2> QED BY <1>6, <2>1
<1>15. Abstract!FlattenSeq(e) = t
  BY <1>12, SameJoin, Zenon
<1>16. \A k \in 1 .. n : Abstract!FlattenSeq(SubSeq(e, k, n)) = FlattenSeq(SubSeq(e, k, n))
  BY SameJoin, Zenon
<1>17. \A u, at : Abstract!OccursAt(u, D, at) <=> OccursAt(u, D, at)
  BY Zenon DEF OccursAt, Abstract!OccursAt
<1>18. Abstract!IsSplit(P, t, D)
  <2>1. \A k \in 1 .. n : \A at \in 0 .. Len(P[k]) - 1 :
          ~(D # <<>> /\ Abstract!OccursAt(Abstract!FlattenSeq(SubSeq(e, k, n)), D, at))
    BY <1>13, <1>16, <1>17, Zenon
  <2> QED BY <1>4, <1>9, <1>14, <1>15, <2>1, Zenon DEF Abstract!IsSplit
<1> QED BY <1>18 DEF t, D

\* The new blocks hold the parts.
LEMMA SplitBlocks ==
  ASSUME Owners, NEW x, Split(x)
  PROVE  \E a \in Arrays :
           LET parts == Parts(Data(x), a)
               n == Len(parts)
           IN  /\ DOMAIN list'.elems = 1 .. n /\ list'.held = TRUE /\ n \in Nat
               /\ \A k \in 1 .. n : heap'[list'.elems[k]] = parts[k]
               /\ \A p \in DOMAIN heap : heap'[p] = heap[p]
<1>1. PICK a \in Arrays, n \in 1 .. MaxBlocks :
        /\ Len(Parts(Data(x), a)) = n
        /\ \E new \in [1 .. n -> Addresses(heap)] :
             /\ \A j, k \in DOMAIN new : j < k => new[j] < new[k]
             /\ \A p \in Range(new), c \in Addresses(heap) : c < p => c \in Range(new)
             /\ heap' = [p \in DOMAIN heap \cup Range(new) |->
                  IF p \in DOMAIN heap THEN heap[p]
                  ELSE Parts(Data(x), a)[CHOOSE k \in DOMAIN new : new[k] = p]]
             /\ list' = Held(new)
  BY DEF Split
<1>2. PICK new \in [1 .. n -> Addresses(heap)] :
        /\ \A j, k \in DOMAIN new : j < k => new[j] < new[k]
        /\ heap' = [p \in DOMAIN heap \cup Range(new) |->
             IF p \in DOMAIN heap THEN heap[p]
             ELSE Parts(Data(x), a)[CHOOSE k \in DOMAIN new : new[k] = p]]
        /\ list' = Held(new)
  BY <1>1, Zenon
<1>3. n \in Nat /\ DOMAIN new = 1 .. n
  BY BoundsAssumption, <1>2
<1>4. list'.elems = new /\ list'.held = TRUE
  BY <1>2 DEF Held
<1>5. \A k \in 1 .. n : new[k] \in Range(new) /\ new[k] \notin DOMAIN heap /\ new[k] \in Nat
  <2>1. \A k \in 1 .. n : new[k] \in Addresses(heap)
    BY <1>2
  <2>2. \A k \in 1 .. n : new[k] \in Range(new)
    BY <1>3 DEF Range
  <2> QED BY <2>1, <2>2 DEF Addresses
<1>6. \A j, k \in 1 .. n : new[j] = new[k] => j = k
  <2>1. \A j, k \in 1 .. n : j < k => new[j] < new[k]
    BY <1>2, <1>3, Zenon
  <2>2. \A j, k \in 1 .. n : j = k \/ j < k \/ k < j
    BY <1>3
  <2>3. \A j, k \in 1 .. n : new[j] < new[k] => new[j] # new[k]
    BY <1>5
  <2> QED BY <2>1, <2>2, <2>3, Zenon
<1>7. \A k \in 1 .. n : heap'[new[k]] = Parts(Data(x), a)[k]
  <2> TAKE k \in 1 .. n
  <2> DEFINE j == CHOOSE i \in DOMAIN new : new[i] = new[k]
  <2>1. \E i \in 1 .. n : new[i] = new[k]
    BY Zenon
  <2>2. j \in 1 .. n /\ new[j] = new[k]
    BY <1>3, <2>1, Zenon
  <2>3. j = k
    <3> HIDE DEF j
    <3> QED BY <1>6, <2>2
  <2>4. heap'[new[k]] = Parts(Data(x), a)[j]
    <3>1. new[k] \in DOMAIN heap \cup Range(new) /\ new[k] \notin DOMAIN heap
      BY <1>5
    <3> QED BY <1>2, <3>1, Zenon
  <2> QED BY <2>3, <2>4, Zenon
<1>8. \A p \in DOMAIN heap : heap'[p] = heap[p]
  BY <1>2, Zenon
<1> QED BY <1>1, <1>3, <1>4, <1>7, <1>8, Zenon

\* String_split leaves the String alone and lists its parts.
LEMMA SplitText ==
  ASSUME Owners, SoundBlocks, NEW x \in held, Split(x)
  PROVE  Abstract!Split(x)
<1> DEFINE str == heap[x].data
<1>1. PICK a \in Arrays :
        /\ DOMAIN list'.elems = 1 .. Len(Parts(str, a)) /\ list'.held = TRUE
        /\ Len(Parts(str, a)) \in Nat
        /\ \A k \in 1 .. Len(Parts(str, a)) : heap'[list'.elems[k]] = Parts(str, a)[k]
        /\ \A p \in DOMAIN heap : heap'[p] = heap[p]
  BY SplitBlocks, Zenon DEF Data
<1> DEFINE parts == Parts(str, a)
<1> DEFINE n == Len(parts)
<1> DEFINE P == [k \in 1 .. n |-> Said(parts[k])]
<1>2. Sound(heap[x])
  BY OwnersSay DEF SoundBlocks
<1>3. Terminated(str) /\ Terminated(a)
  BY <1>2, SoundTerminated, ArraysTerminated
<1>4. \A k \in 1 .. n : Said(parts[k]) \in Seq(Char)
  <2>1. \A k \in 1 .. n : Sound(parts[k])
    BY <1>3, PartsSound
  <2> HIDE DEF parts
  <2> QED BY <2>1, SaidIs
<1>5. P \in Seq(Seq(Char)) /\ Len(P) = n /\ \A k \in 1 .. n : P[k] = Said(parts[k])
  <2> HIDE DEF parts
  <2>1. n \in Nat
    BY <1>1 DEF parts
  <2> HIDE DEF n
  <2> QED BY <1>4, <2>1
<1>6. Abstract!IsSplit(P, Text(str), Text(a))
  <2> HIDE DEF P
  <2> QED BY <1>3, <1>5, SplitIs
<1>7. ListText' = [held |-> TRUE, elems |-> P]
  <2>1. ListText' = [held |-> list'.held, elems |-> [k \in DOMAIN list'.elems |-> Said(heap'[list'.elems[k]])]]
    BY DEF ListText
  <2>2. [k \in DOMAIN list'.elems |-> Said(heap'[list'.elems[k]])] = P
    BY <1>1, Zenon
  <2> HIDE DEF P
  <2> QED BY <1>1, <2>1, <2>2
<1>8. ~list.held /\ held' = held /\ letters' = letters
  BY DEF Split
<1>9. [p \in held |-> Chars(p)]' = [p \in held |-> Chars(p)]
  <2>1. \A p \in held : heap'[p] = heap[p]
    BY <1>1, OwnersSay
  <2> QED BY <1>8, <2>1 DEF Chars
<1>10. Abstract!Shown([p \in held |-> Chars(p)][x]) = Text(str) /\ Abstract!Text(a) = Text(a)
  BY <1>2, TextAt, ShownIs, SameTextOf
<1> HIDE DEF P
<1>11. ListText'.elems = P /\ ListText' = Abstract!Held(ListText'.elems)
  BY <1>7 DEF Abstract!Held
<1>12. \E b \in Arrays : Abstract!IsSplit(ListText'.elems, Abstract!Shown([p \in held |-> Chars(p)][x]),
                                          Abstract!Text(b))
  BY <1>6, <1>10, <1>11
<1> QED BY <1>8, <1>9, <1>11, <1>12, HasIs, ListIs DEF Abstract!Split

-------------------------------------------------------------------------
(* The refinement.                                                         *)

\* A step that changes neither a variable nor a list says nothing new.
LEMMA TextsSame ==
  ASSUME UNCHANGED <<heap, held, list, letters>>
  PROVE  UNCHANGED Abstract!vars
  BY DEF Abstract!vars, Chars

\* Each step is one of the abstract Strings.
LEMMA TextsStep ==
  ASSUME ~AnyJoins, PartStarts = {0}, Owners, SoundBlocks, [StringsNext]_stringVars
  PROVE  [Abstract!Next]_(Abstract!vars)
<1>1. held \subseteq 1 .. MaxBlocks
  BY OwnersSay
<1>2. CASE UNCHANGED stringVars
  BY <1>2, TextsSame DEF stringVars
<1>3. CASE New
  BY <1>3, NewText DEF Abstract!Next
<1>4. CASE ListChangeCase
  BY <1>4, ListChangeCaseText DEF Abstract!Next
<1>5. CASE ListDestroy
  BY <1>5, ListDestroyText DEF Abstract!Next
<1>6. CASE List_char_to_String
  BY <1>6, FromLettersText DEF Abstract!Next
<1>7. ASSUME NEW x \in held,
             Fill(x) \/ Resize(x) \/ ChangeCase(x) \/ Destroy(x) \/ Split(x) \/ ListAdd(x)
               \/ String_to_List_char(x)
      PROVE  Abstract!Next
  <2>1. \/ Abstract!Fill(x) \/ Abstract!Resize(x) \/ Abstract!ChangeCase(x) \/ Abstract!Destroy(x)
        \/ Abstract!Split(x) \/ Abstract!ListAdd(x) \/ Abstract!ToLetters(x)
    BY <1>7, FillText, ResizeText, ChangeCaseText, DestroyText, SplitText, ListAddText, ToLettersText
  <2>2. x \in 1 .. MaxBlocks
    BY <1>1
  <2> QED BY <2>1, <2>2, Zenon DEF Abstract!Next
<1>8. ASSUME NEW y \in held, Clone(y) \/ Substring(y)
      PROVE  Abstract!Next
  <2>1. \E x \in 1 .. MaxBlocks : Abstract!Clone(x, y) \/ Abstract!Substring(x, y)
    BY <1>8, CloneText, SubstringText
  <2> QED BY <1>1, <2>1, Zenon DEF Abstract!Next
<1>9. ASSUME NEW y \in held, NEW z \in held, Add(y, z)
      PROVE  Abstract!Next
  <2>1. \E x \in 1 .. MaxBlocks : Abstract!Add(x, y, z)
    BY <1>9, AddText
  <2>2. y \in 1 .. MaxBlocks /\ z \in 1 .. MaxBlocks
    BY <1>1
  <2> QED BY <2>1, <2>2, Zenon DEF Abstract!Next
<1>10. ASSUME NEW x \in held, NEW y \in held, AddDestroy(x, y) \/ Copy(x, y)
       PROVE  [Abstract!Next]_(Abstract!vars)
  <2>1. x \in 1 .. MaxBlocks /\ y \in 1 .. MaxBlocks
    BY <1>1
  <2>2. CASE AddDestroy(x, y) /\ ~AddDestroyInBounds(heap[x], heap[y])
    BY <2>2 DEF AddDestroy
  <2>3. CASE AddDestroy(x, y) /\ AddDestroyInBounds(heap[x], heap[y])
    <3>1. Abstract!AddDestroy(x, y)
      BY <2>3, AddDestroyText
    <3> QED BY <2>1, <3>1, Zenon DEF Abstract!Next
  <2>4. CASE Copy(x, y)
    <3>1. Abstract!Copy(x, y)
      BY <2>4, CopyText
    <3> QED BY <2>1, <3>1, Zenon DEF Abstract!Next
  <2> QED BY <1>10, <2>2, <2>3, <2>4
<1> QED
  BY <1>2, <1>3, <1>4, <1>5, <1>6, <1>7, <1>8, <1>9, <1>10, Zenon DEF StringsNext

\* At first there is no String and no list.
LEMMA TextsInit == StringsInit => Abstract!Init
<1> SUFFICES ASSUME StringsInit PROVE Abstract!Init
  OBVIOUS
<1>1. heap = <<>> /\ held = {} /\ list = None /\ letters = None
  BY DEF StringsInit
<1>2. [p \in held |-> Chars(p)] = <<>>
  BY <1>1
<1>3. ListText = Abstract!None
  BY <1>1 DEF ListText, None, Abstract!None
<1>4. letters = Abstract!None
  BY <1>1 DEF None, Abstract!None
<1> QED BY <1>2, <1>3, <1>4, ListIs DEF Abstract!Init

-------------------------------------------------------------------------
(* Theorems.                                                               *)

\* Whatever the operations of string.h are called with, each String has one owner, and
\* nothing is allocated that has none.
THEOREM OneOwner == StringsSpec => []Ownership
<1>1. Owners => Ownership
  BY DEF Owners
<1> QED BY <1>1, OwnersInit, OwnersStep, PTL DEF StringsSpec

\* Whatever the operations of string.h are called with, each block has the length that it
\* says and a terminator behind it (string.h:97-134).
THEOREM StringsTypes == StringsSpec => []StringsTypeOK
<1> QED BY OwnersInit, OwnersStep, BlocksInit, BlocksStep, BlocksTypeOK, PTL DEF StringsSpec

\* For every array of chars the comparisons and searches agree with the texts.
THEOREM ComparisonsHold == StringsSpec => []Comparisons
<1> QED BY OwnersInit, OwnersStep, BlocksInit, BlocksStep, BlocksCompare, PTL DEF StringsSpec

\* Whatever arrays there are and however many Strings: each operation of string.h is that
\* on the sequences of chars, "Returns str1str2, destroying neither" (string.h:210) and what
\* String_split makes of the first occurrences of its delimiter (string.h:299-365) included.
\* For two operations that takes a program that knows them: one that joins no Strings that
\* String_add_destroy overruns (string.h:234), and that takes parts of a String from its
\* beginning only (string.h:256-263).
THEOREM TextsImplemented ==
  ASSUME ~AnyJoins, PartStarts = {0}
  PROVE  StringsSpec => ImplementsTexts
<1> QED BY OwnersInit, OwnersStep, BlocksInit, BlocksStep, TextsInit, TextsStep, PTL
        DEF StringsSpec, ImplementsTexts, Abstract!Spec
===========================================================================
