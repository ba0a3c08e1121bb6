-------------------------- MODULE ListBufferProofs --------------------------
(* list.h for any number of lists and buffers, any elements, lengths and    *)
(* capacities, and every function passed to map, filter and flatmap: who     *)
(* owns which buffer, what is in the buffers, and what the loops compute.    *)
EXTENDS ListBuffer, Loops, FiniteSetTheorems

-------------------------------------------------------------------------
(* Buffers                                                                 *)

\* A buffer as every operation leaves it.
Sound(b) == b \in Buffer /\ Len(b.item) <= b.cap /\ b.cap = b.room

\* A sequence is a function on its indexes.
LEMMA Indexed ==
  ASSUME NEW S, NEW n \in Nat, NEW s \in [1 .. n -> S]
  PROVE  s \in Seq(S) /\ Len(s) = n
<1>1. s \in Seq(S)
  OBVIOUS
<1> QED BY <1>1

\* What a sound buffer is made of.
LEMMA ItemFacts ==
  ASSUME NEW b, Sound(b)
  PROVE  /\ b = [cap |-> b.cap, room |-> b.cap, item |-> b.item]
         /\ b.cap \in Nat /\ Len(b.item) \in 0 .. b.cap
         /\ DOMAIN b.item = 1 .. Len(b.item) /\ b.item \in [1 .. Len(b.item) -> Elements]
         /\ b.item \in Seq(Elements)
  BY DEF Sound, Buffer

\* What makes a buffer sound.
LEMMA MadeSound ==
  ASSUME NEW c \in Nat, NEW n \in 0 .. c, NEW s \in [1 .. n -> Elements]
  PROVE  Sound([cap |-> c, room |-> c, item |-> s]) /\ Len(s) = n
<1>1. s \in Seq(Elements) /\ Len(s) = n
  BY Indexed
<1> QED BY <1>1 DEF Sound, Buffer

\* The same, of a sequence.
LEMMA SeqSound ==
  ASSUME NEW c \in Nat, NEW s \in Seq(Elements), Len(s) <= c
  PROVE  Sound([cap |-> c, room |-> c, item |-> s])
  BY DEF Sound, Buffer

-------------------------------------------------------------------------
(* What the operations make of a buffer                                    *)

\* A new length leaves the elements below it alone.
LEMMA SetLength ==
  ASSUME NEW b, b \in Buffer, NEW n \in Nat
  PROVE  setlen(b, n) =
           [b EXCEPT !.item = [i \in 1 .. n |-> IF i <= Len(b.item) THEN b.item[i] ELSE Unset]]
<1>0. b.item \in Seq(Elements) /\ Len(b.item) \in Nat
  BY DEF Buffer
<1>1. Blank(n) \in Seq(Elements) /\ Len(Blank(n)) = n
  BY Indexed DEF Blank, Elements
<1>2. SubSeq(b.item \o Blank(n), 1, n) = [i \in 1 .. n |-> (b.item \o Blank(n))[i]]
  BY <1>0, <1>1
<1>3. ASSUME NEW i \in 1 .. n
      PROVE  (b.item \o Blank(n))[i] = IF i <= Len(b.item) THEN b.item[i] ELSE Unset
  <2>1. i \in 1 .. Len(b.item) + Len(Blank(n))
    BY <1>0, <1>1
  <2>2. CASE i <= Len(b.item)
    BY <1>0, <1>1, <2>1, <2>2
  <2>3. CASE i > Len(b.item)
    <3>1. (b.item \o Blank(n))[i] = Blank(n)[i - Len(b.item)]
      BY <1>0, <1>1, <2>1, <2>3
    <3> QED BY <3>1, <1>0, <2>3 DEF Blank
  <2> QED BY <2>1, <2>2, <2>3
<1> QED BY <1>2, <1>3 DEF setlen

\* realloc keeps what fits.
LEMMA Resized ==
  ASSUME NEW b, b \in Buffer, NEW c \in Nat
  PROVE  resized(b, c) =
           [cap |-> c, room |-> c, item |-> [i \in 1 .. Min2(c, Len(b.item)) |-> b.item[i]]]
<1>1. b.item \in Seq(Elements) /\ Len(b.item) \in Nat
  BY DEF Buffer
<1>2. Min2(c, Len(b.item)) \in 0 .. Len(b.item)
  BY <1>1 DEF Min2
<1>3. SubSeq(b.item, 1, Min2(c, Len(b.item))) = [i \in 1 .. Min2(c, Len(b.item)) |-> b.item[i]]
  BY <1>1, <1>2
<1> QED BY <1>3 DEF resized

\* The capacity really grows.
LEMMA GrowMore ==
  ASSUME NEW n \in Nat
  PROVE  Grow(n) \in Nat /\ Grow(n) > n
<1>1. (3 * n) \div 2 \in Nat /\ (3 * n) \div 2 >= n
  OBVIOUS
<1> QED BY <1>1, ListAssumption DEF Grow

\* One more element, whether the buffer is full or not.
LEMMA AddedIs ==
  ASSUME NEW b, Sound(b), NEW v \in Elements
  PROVE  \E c \in Nat :
           /\ Len(b.item) + 1 <= c
           /\ added(b, v) = [cap |-> c, room |-> c, item |-> Append(b.item, v)]
           /\ Len(b.item) # b.cap => c = b.cap
<1> DEFINE n == Len(b.item)
<1> DEFINE longer == setlen(b, n + 1)
<1> DEFINE items == [i \in 1 .. n + 1 |-> IF i <= n THEN b.item[i] ELSE Unset]
<1>1. n \in Nat /\ n <= b.cap /\ b.item \in [1 .. n -> Elements] /\ b.item \in Seq(Elements)
      /\ b = [cap |-> b.cap, room |-> b.cap, item |-> b.item] /\ b.cap \in Nat
  BY ItemFacts
<1>2. longer = [cap |-> b.cap, room |-> b.cap, item |-> items]
  <2>1. longer = [b EXCEPT !.item = items]
    <3>1. n + 1 \in Nat /\ b \in Buffer
      BY <1>1 DEF Sound
    <3> QED BY <3>1, SetLength
  <2> HIDE DEF longer, items
  <2> QED BY <1>1, <2>1
<1>3. items \in Seq(Elements) /\ Len(items) = n + 1
  BY <1>1, Indexed DEF Elements
<1>4. Append(b.item, v) = [items EXCEPT ![n + 1] = v]
  BY <1>1
<1> DEFINE c == IF n = b.cap THEN Grow(b.cap) ELSE b.cap
<1>5. c \in Nat /\ n + 1 <= c
  BY <1>1, GrowMore
<1> DEFINE grown == IF n = b.cap THEN resized(longer, Grow(b.cap)) ELSE longer
<1>6. grown = [cap |-> c, room |-> c, item |-> items]
  <2>1. CASE n = b.cap
    <3>1. longer \in Buffer
      BY <1>1, <1>2, <1>3 DEF Buffer
    <3>2. longer.item = items
      BY <1>2
    <3> HIDE DEF items, longer
    <3>3. Min2(Grow(b.cap), n + 1) = n + 1
      BY <1>1, <2>1, GrowMore DEF Min2
    <3>4. resized(longer, Grow(b.cap)) =
            [cap |-> c, room |-> c, item |-> [i \in 1 .. n + 1 |-> items[i]]]
      BY <1>1, <2>1, <3>1, <3>2, <3>3, <1>3, GrowMore, Resized
    <3>5. items = [i \in 1 .. n + 1 |-> items[i]]
      BY <1>1 DEF items
    <3> QED BY <2>1, <3>4, <3>5
  <2>2. CASE n # b.cap
    BY <1>2, <2>2
  <2> QED BY <2>1, <2>2
<1>7. added(b, v) = [grown EXCEPT !.item[n + 1] = v]
  BY DEF added
<1>8. added(b, v) = [cap |-> c, room |-> c, item |-> Append(b.item, v)]
  <2> HIDE DEF items, c, grown
  <2> QED BY <1>4, <1>6, <1>7
<1> QED BY <1>1, <1>5, <1>8

\* The elements of another list, behind those that are there.
LEMMA AddedAllIs ==
  ASSUME NEW b, Sound(b), NEW s \in Seq(Elements)
  PROVE  \E c \in Nat :
           /\ Len(b.item) + Len(s) <= c
           /\ addedAll(b, s) = [cap |-> c, room |-> c, item |-> b.item \o s]
           /\ Len(b.item) + Len(s) <= b.cap => c = b.cap
<1> DEFINE n == Len(b.item)
<1> DEFINE m == n + Len(s)
<1> DEFINE grown == IF m > b.cap THEN resized(b, Grow(m)) ELSE b
<1> DEFINE c == IF m > b.cap THEN Grow(m) ELSE b.cap
<1>1. n \in Nat /\ n <= b.cap /\ b.item \in [1 .. n -> Elements] /\ b.item \in Seq(Elements)
      /\ b = [cap |-> b.cap, room |-> b.cap, item |-> b.item] /\ b.cap \in Nat /\ b \in Buffer
  BY ItemFacts DEF Sound
<1>2. m \in Nat /\ Len(s) \in Nat
  BY <1>1
<1>3. c \in Nat /\ m <= c
  BY <1>1, <1>2, GrowMore
<1>4. grown = [cap |-> c, room |-> c, item |-> b.item]
  <2>1. CASE m > b.cap
    <3>1. Min2(Grow(m), n) = n
      BY <1>1, <1>2, GrowMore DEF Min2
    <3>2. [i \in 1 .. n |-> b.item[i]] = b.item
      BY <1>1
    <3>3. Grow(m) \in Nat
      BY <1>2, GrowMore
    <3> QED BY <1>1, <2>1, <3>1, <3>2, <3>3, Resized
  <2>2. CASE ~(m > b.cap)
    BY <1>1, <2>2
  <2> QED BY <2>1, <2>2
<1> HIDE DEF c
<1> DEFINE items == [i \in 1 .. m |-> IF i <= n THEN b.item[i] ELSE Unset]
<1>5. setlen(grown, m) = [cap |-> c, room |-> c, item |-> items]
  <2>1. grown \in Buffer /\ grown.item = b.item
    BY <1>1, <1>3, <1>4 DEF Buffer
  <2>2. setlen(grown, m) = [grown EXCEPT !.item = items]
    <3> HIDE DEF grown, m
    <3> QED BY <1>2, <2>1, SetLength
  <2> HIDE DEF grown, items
  <2> QED BY <1>4, <2>2
<1>6. [i \in DOMAIN items |-> IF i > n THEN s[i - n] ELSE items[i]] = b.item \o s
  <2>1. b.item \o s = [i \in 1 .. m |-> IF i <= n THEN b.item[i] ELSE s[i - n]]
    BY <1>1, <1>2
  <2>2. \A i \in 1 .. m :
          (IF i > n THEN s[i - n] ELSE items[i]) = (IF i <= n THEN b.item[i] ELSE s[i - n])
    BY <1>1, <1>2
  <2>3. DOMAIN items = 1 .. m
    OBVIOUS
  <2> HIDE DEF items, m
  <2> QED BY <2>1, <2>2, <2>3
<1> DEFINE longer == setlen(grown, m)
<1>7. addedAll(b, s) = [longer EXCEPT !.item =
        [i \in DOMAIN longer.item |-> IF i > n THEN s[i - n] ELSE longer.item[i]]]
  BY Zenon DEF addedAll
<1>8. addedAll(b, s) = [cap |-> c, room |-> c, item |-> b.item \o s]
  <2>1. longer = [cap |-> c, room |-> c, item |-> items] /\ longer.item = items
    BY <1>5
  <2> HIDE DEF items, longer, n
  <2> QED BY <1>6, <1>7, <2>1
<1>9. n + Len(s) <= b.cap => c = b.cap
  BY <1>1, <1>2 DEF c
<1> QED BY <1>3, <1>8, <1>9

\* A part of a list, or all of it.
LEMMA SublistIs ==
  ASSUME NEW b, Sound(b), NEW from \in 0 .. Len(b.item), NEW to \in 0 .. Len(b.item)
  PROVE  \E f, n \in Nat :
           /\ f + n <= Len(b.item) /\ Len(SubSeq(b.item, f + 1, f + n)) = n
           /\ sublist(b, from, to) = [cap |-> n, room |-> n, item |-> SubSeq(b.item, f + 1, f + n)]
<1> DEFINE f == Min2(from, to)
<1> DEFINE n == (from + to) - 2 * f
<1>1. Len(b.item) \in Nat /\ b.item \in Seq(Elements)
  BY ItemFacts
<1>2. f \in Nat /\ n \in Nat /\ f + n <= Len(b.item)
  <2>0. from \in Nat /\ to \in Nat /\ from <= Len(b.item) /\ to <= Len(b.item)
    BY <1>1
  <2>1. CASE from <= to
    <3>1. f = from
      BY <2>0, <2>1 DEF Min2
    <3> HIDE DEF f
    <3>2. n = to - from
      BY <2>0, <3>1
    <3> HIDE DEF n
    <3> QED BY <1>1, <2>0, <2>1, <3>1, <3>2
  <2>2. CASE ~(from <= to)
    <3>1. f = to
      BY <2>0, <2>2 DEF Min2
    <3> HIDE DEF f
    <3>2. n = from - to
      BY <2>0, <3>1
    <3> HIDE DEF n
    <3> QED BY <1>1, <2>0, <2>2, <3>1, <3>2
  <2> QED BY <2>1, <2>2
<1>3. sublist(b, from, to) = [new_len(n) EXCEPT !.item = [i \in 1 .. n |-> b.item[i + f]]]
  BY DEF sublist
<1> HIDE DEF f, n
<1>4. sublist(b, from, to) = [cap |-> n, room |-> n, item |-> [i \in 1 .. n |-> b.item[i + f]]]
  BY <1>3 DEF new_len
<1>5. SubSeq(b.item, f + 1, f + n) = [i \in 1 .. n |-> b.item[i + f]]
  BY <1>1, <1>2
<1>6. Len(SubSeq(b.item, f + 1, f + n)) = n
  BY <1>1, <1>2
<1> QED BY <1>2, <1>4, <1>5, <1>6

-------------------------------------------------------------------------
(* filter                                                                  *)

\* The rounds of filter, as the loop runs through them.
FilterLoop(r, b, keep) ==
  r = [i \in 0 .. Len(b.item) |->
        IF i = 0 THEN [item |-> b.item, retained |-> 0]
        ELSE LET s == r[i - 1]
             IN  IF s.item[i] \in keep
                 THEN [item |-> [s.item EXCEPT ![s.retained + 1] = s.item[i]],
                       retained |-> s.retained + 1]
                 ELSE s]

\* What filter returns is what its last round leaves,
LEMMA FilterRounds ==
  ASSUME NEW b, NEW keep, \E r : FilterLoop(r, b, keep)
  PROVE  \E r : /\ FilterLoop(r, b, keep)
                /\ filtered(b, keep) =
                     setlen([b EXCEPT !.item = r[Len(b.item)].item], r[Len(b.item)].retained)
  BY Zenon DEF FilterLoop, filtered

\* and there are such rounds.
LEMMA FilterRuns ==
  ASSUME NEW b, Sound(b), NEW keep
  PROVE  \E r : FilterLoop(r, b, keep)
<1> DEFINE n == Len(b.item)
<1> DEFINE X == [item : [1 .. n -> Elements], retained : Nat]
<1> DEFINE Round(i, s) ==
      IF s.item[i] \in keep
      THEN [item |-> [s.item EXCEPT ![s.retained + 1] = s.item[i]], retained |-> s.retained + 1]
      ELSE s
<1> DEFINE first == [item |-> b.item, retained |-> 0]
<1> DEFINE step == [i \in 1 .. n |-> [s \in X |-> Round(i, s)]]
<1>1. n \in Nat /\ first \in X
  BY ItemFacts
<1>2. ASSUME NEW i \in 1 .. n, NEW s \in X
      PROVE  Round(i, s) \in X
  <2>1. s.item \in [1 .. n -> Elements] /\ s.retained \in Nat /\ s.item[i] \in Elements
    OBVIOUS
  <2>2. [s.item EXCEPT ![s.retained + 1] = s.item[i]] \in [1 .. n -> Elements]
    BY <2>1
  <2> QED BY <2>1, <2>2
<1>3. step \in [1 .. n -> [X -> X]]
  <2> HIDE DEF X, Round
  <2> QED BY <1>2
<1>4. PICK r : Runs(r, n, X, first, step)
  <2> HIDE DEF X, step, first, n
  <2> QED BY <1>1, <1>3, Rounds
<1>5. ASSUME NEW i \in 1 .. n
      PROVE  r[i] = Round(i, r[i - 1])
  <2>1. i - 1 \in 0 .. n
    BY <1>1
  <2>2. r[i - 1] \in X /\ r[i] = step[i][r[i - 1]]
    BY <1>4, <2>1 DEF Runs
  <2>3. step[i][r[i - 1]] = Round(i, r[i - 1])
    <3> HIDE DEF X, Round
    <3> QED BY <2>2
  <2> QED BY <2>2, <2>3
<1>6. r = [i \in 0 .. n |-> IF i = 0 THEN first ELSE Round(i, r[i - 1])]
  <2>1. \A i \in 0 .. n : r[i] = IF i = 0 THEN first ELSE Round(i, r[i - 1])
    <3>1. \A i \in 0 .. n : i # 0 => i \in 1 .. n
      BY <1>1
    <3> HIDE DEF Round, first, X, n
    <3> QED BY <1>4, <1>5, <3>1 DEF Runs
  <2>2. r = [i \in 0 .. n |-> r[i]]
    BY <1>4 DEF Runs
  <2> HIDE DEF Round, first, X, n
  <2> QED BY <2>1, <2>2
<1>7. FilterLoop(r, b, keep)
  BY <1>6, Zenon DEF FilterLoop
<1> QED BY <1>7

\* The increasing sequence of the m indexes up to i where keep holds.
Picks(at, m, item, keep, i) ==
  /\ at \in [1 .. m -> 1 .. i]
  /\ \A j, k \in 1 .. m : j < k => at[j] < at[k]
  /\ \A k \in 1 .. m : item[at[k]] \in keep
  /\ \A j \in 1 .. i : item[j] \in keep => \E k \in 1 .. m : at[k] = j

\* After i rounds of filter the elements up to i that are kept are at the front, and
\* those behind i are where they were.
AfterRound(s, item, keep, i) ==
  /\ s.item \in [1 .. Len(item) -> Elements]
  /\ s.retained \in 0 .. i
  /\ \A j \in i + 1 .. Len(item) : s.item[j] = item[j]
  /\ \E at : /\ Picks(at, s.retained, item, keep, i)
             /\ \A k \in 1 .. s.retained : s.item[k] = item[at[k]]

\* The next element is kept,
LEMMA PickNext ==
  ASSUME NEW item, NEW keep, NEW i \in Nat \ {0}, NEW m \in 0 .. i - 1, NEW at,
         Picks(at, m, item, keep, i - 1), item[i] \in keep
  PROVE  Picks([k \in 1 .. m + 1 |-> IF k = m + 1 THEN i ELSE at[k]], m + 1, item, keep, i)
<1> DEFINE new == [k \in 1 .. m + 1 |-> IF k = m + 1 THEN i ELSE at[k]]
<1>1. /\ at \in [1 .. m -> 1 .. i - 1] /\ new[m + 1] = i
      /\ \A k \in 1 .. m : new[k] = at[k] /\ at[k] \in 1 .. i - 1
  BY DEF Picks
<1>2. new \in [1 .. m + 1 -> 1 .. i]
  BY <1>1
<1> HIDE DEF new
<1>3. ASSUME NEW j \in 1 .. m + 1, NEW k \in 1 .. m + 1, j < k
      PROVE  new[j] < new[k]
  <2>1. j \in 1 .. m
    BY <1>3
  <2>2. CASE k = m + 1
    BY <1>1, <2>1, <2>2
  <2>3. CASE k # m + 1
    <3>1. k \in 1 .. m
      BY <2>3
    <3>2. at[j] < at[k]
      BY <1>3, <2>1, <3>1 DEF Picks
    <3> QED BY <1>1, <2>1, <3>1, <3>2
  <2> QED BY <2>2, <2>3
<1>4. ASSUME NEW k \in 1 .. m + 1
      PROVE  item[new[k]] \in keep
  <2>1. CASE k = m + 1
    BY <1>1, <2>1
  <2>2. CASE k # m + 1
    <3>1. k \in 1 .. m
      BY <2>2
    <3> QED BY <1>1, <3>1 DEF Picks
  <2> QED BY <2>1, <2>2
<1>5. ASSUME NEW j \in 1 .. i, item[j] \in keep
      PROVE  \E k \in 1 .. m + 1 : new[k] = j
  <2>1. CASE j = i
    <3>1. m + 1 \in 1 .. m + 1
      OBVIOUS
    <3> QED BY <1>1, <2>1, <3>1
  <2>2. CASE j # i
    <3>1. j \in 1 .. i - 1
      BY <2>2
    <3>2. PICK k \in 1 .. m : at[k] = j
      BY <1>5, <3>1 DEF Picks
    <3>3. k \in 1 .. m + 1
      OBVIOUS
    <3> QED BY <1>1, <3>2, <3>3
  <2> QED BY <2>1, <2>2
<1>6. Picks(new, m + 1, item, keep, i)
  BY <1>2, <1>3, <1>4, <1>5 DEF Picks
<1> QED BY <1>6 DEF new

\* or it is not.
LEMMA PickNone ==
  ASSUME NEW item, NEW keep, NEW i \in Nat \ {0}, NEW m \in 0 .. i - 1, NEW at,
         Picks(at, m, item, keep, i - 1), item[i] \notin keep
  PROVE  Picks(at, m, item, keep, i)
<1>1. at \in [1 .. m -> 1 .. i]
  BY DEF Picks
<1>2. \A j \in 1 .. i : item[j] \in keep => j \in 1 .. i - 1
  OBVIOUS
<1> QED BY <1>1, <1>2 DEF Picks

\* One more round of filter.
LEMMA NextRound ==
  ASSUME NEW item \in Seq(Elements), NEW keep, NEW i \in 1 .. Len(item), NEW s,
         AfterRound(s, item, keep, i - 1)
  PROVE  AfterRound(IF s.item[i] \in keep
                    THEN [item |-> [s.item EXCEPT ![s.retained + 1] = s.item[i]],
                          retained |-> s.retained + 1]
                    ELSE s, item, keep, i)
<1> DEFINE n == Len(item)
<1> DEFINE m == s.retained
<1>1. /\ n \in Nat /\ s.item \in [1 .. n -> Elements] /\ m \in 0 .. i - 1 /\ m + 1 \in 1 .. n
      /\ \A j \in i .. n : s.item[j] = item[j]
  BY DEF AfterRound
<1>2. s.item[i] = item[i] /\ item[i] \in Elements
  BY <1>1
<1>3. PICK at : Picks(at, m, item, keep, i - 1) /\ \A k \in 1 .. m : s.item[k] = item[at[k]]
  BY DEF AfterRound
<1>4. CASE s.item[i] \in keep
  <2> DEFINE t == [s.item EXCEPT ![m + 1] = s.item[i]]
  <2> DEFINE new == [k \in 1 .. m + 1 |-> IF k = m + 1 THEN i ELSE at[k]]
  <2>1. /\ t \in [1 .. n -> Elements] /\ t[m + 1] = item[i]
        /\ \A j \in 1 .. n : j # m + 1 => t[j] = s.item[j]
    BY <1>1, <1>2
  <2>2. Picks(new, m + 1, item, keep, i)
    <3>1. i \in Nat \ {0} /\ m \in 0 .. i - 1 /\ item[i] \in keep /\ Picks(at, m, item, keep, i - 1)
      BY <1>1, <1>2, <1>3, <1>4
    <3> HIDE DEF m
    <3> QED BY <3>1, PickNext
  <2>3. new[m + 1] = i /\ \A k \in 1 .. m : new[k] = at[k]
    BY <1>1
  <2> HIDE DEF t, new
  <2>4. \A k \in 1 .. m + 1 : t[k] = item[new[k]]
    <3> TAKE k \in 1 .. m + 1
    <3>1. CASE k = m + 1
      BY <2>1, <2>3, <3>1
    <3>2. CASE k # m + 1
      <4>1. k \in 1 .. m /\ k \in 1 .. n
        BY <1>1, <3>2
      <4> QED BY <1>3, <2>1, <2>3, <3>2, <4>1
    <3> QED BY <3>1, <3>2
  <2>5. \A j \in i + 1 .. n : t[j] = item[j]
    BY <1>1, <2>1
  <2>6. m + 1 \in 0 .. i
    BY <1>1
  <2> HIDE DEF n, m
  <2>7. AfterRound([item |-> t, retained |-> m + 1], item, keep, i)
    BY <2>1, <2>2, <2>4, <2>5, <2>6 DEF AfterRound, n
  <2> QED BY <1>4, <2>7 DEF t, m
<1>5. CASE s.item[i] \notin keep
  <2>1. Picks(at, m, item, keep, i)
    BY <1>1, <1>2, <1>3, <1>5, PickNone
  <2>2. m \in 0 .. i /\ \A j \in i + 1 .. n : s.item[j] = item[j]
    BY <1>1
  <2>3. AfterRound(s, item, keep, i)
    BY <1>1, <1>3, <2>1, <2>2 DEF AfterRound
  <2> QED BY <1>5, <2>3
<1> QED BY <1>4, <1>5

\* The elements that filter keeps, as the loop leaves them.
LEMMA FilteredIs ==
  ASSUME NEW b, Sound(b), NEW keep
  PROVE  \E m \in 0 .. Len(b.item) : \E at :
           /\ Picks(at, m, b.item, keep, Len(b.item))
           /\ filtered(b, keep) =
                [cap |-> b.cap, room |-> b.cap, item |-> [k \in 1 .. m |-> b.item[at[k]]]]
<1> DEFINE n == Len(b.item)
<1>1. /\ n \in Nat /\ b.item \in Seq(Elements) /\ b.item \in [1 .. n -> Elements]
      /\ b = [cap |-> b.cap, room |-> b.cap, item |-> b.item] /\ b.cap \in Nat
  BY ItemFacts
<1>2. PICK r : /\ FilterLoop(r, b, keep)
               /\ filtered(b, keep) = setlen([b EXCEPT !.item = r[n].item], r[n].retained)
  BY FilterRuns, FilterRounds
<1> DEFINE S == {i \in 0 .. n : AfterRound(r[i], b.item, keep, i)}
<1>3. 0 \in S
  <2>1. r[0] = [item |-> b.item, retained |-> 0]
    BY <1>1, <1>2 DEF FilterLoop
  <2>2. Picks(<<>>, 0, b.item, keep, 0)
    BY DEF Picks
  <2>3. \E at : Picks(at, 0, b.item, keep, 0) /\ \A k \in 1 .. 0 : b.item[k] = b.item[at[k]]
    BY <2>2
  <2>4. AfterRound(r[0], b.item, keep, 0)
    BY <1>1, <2>1, <2>3 DEF AfterRound
  <2> QED BY <1>1, <2>4
<1>4. ASSUME NEW i \in 1 .. n, i - 1 \in S
      PROVE  i \in S
  <2> DEFINE s == r[i - 1]
  <2>1. AfterRound(s, b.item, keep, i - 1) /\ i \in 0 .. n /\ i # 0
    BY <1>1, <1>4
  <2>2. r[i] = IF s.item[i] \in keep
               THEN [item |-> [s.item EXCEPT ![s.retained + 1] = s.item[i]],
                     retained |-> s.retained + 1]
               ELSE s
    BY <1>2, <2>1, Zenon DEF FilterLoop
  <2> HIDE DEF s
  <2>3. AfterRound(r[i], b.item, keep, i)
    BY <1>1, <2>1, <2>2, NextRound
  <2> QED BY <2>1, <2>3
<1>5. n \in S
  <2> HIDE DEF S
  <2>1. \A i \in 1 .. n : i - 1 \in S => i \in S
    BY <1>4
  <2>2. \A i \in 0 .. n : i \in S
    <3> HIDE DEF n
    <3> QED BY <1>1, <1>3, <2>1, Induct
  <2> QED BY <1>1, <2>2
<1> DEFINE t == r[n].item
<1> DEFINE m == r[n].retained
<1>6. AfterRound(r[n], b.item, keep, n)
  BY <1>5
<1>7. t \in [1 .. n -> Elements] /\ m \in 0 .. n
  BY <1>6 DEF AfterRound
<1>8. PICK at : Picks(at, m, b.item, keep, n) /\ \A k \in 1 .. m : t[k] = b.item[at[k]]
  BY <1>6 DEF AfterRound
<1> DEFINE c == [b EXCEPT !.item = t]
<1>9. filtered(b, keep) = setlen(c, m)
  BY <1>2
<1> HIDE DEF t, m
<1>10. c = [cap |-> b.cap, room |-> b.cap, item |-> t] /\ t \in Seq(Elements) /\ Len(t) = n
  <2>1. t \in Seq(Elements) /\ Len(t) = n
    BY <1>1, <1>7, Indexed
  <2>2. c = [cap |-> b.cap, room |-> b.cap, item |-> t]
    BY <1>1
  <2> QED BY <2>1, <2>2
<1>11. setlen(c, m) = [cap |-> b.cap, room |-> b.cap, item |-> [k \in 1 .. m |-> b.item[at[k]]]]
  <2>1. c \in Buffer /\ c.item = t
    BY <1>1, <1>10 DEF Buffer
  <2>2. setlen(c, m) = [c EXCEPT !.item = [k \in 1 .. m |-> IF k <= Len(t) THEN t[k] ELSE Unset]]
    <3> HIDE DEF c
    <3> QED BY <1>7, <2>1, SetLength
  <2>3. \A k \in 1 .. m : (IF k <= Len(t) THEN t[k] ELSE Unset) = b.item[at[k]]
    BY <1>1, <1>7, <1>8, <1>10
  <2>4. setlen(c, m) = [cap |-> b.cap, room |-> b.cap,
                        item |-> [k \in 1 .. m |-> IF k <= Len(t) THEN t[k] ELSE Unset]]
    BY <1>10, <2>2
  <2> QED BY <2>3, <2>4
<1> QED BY <1>7, <1>8, <1>9, <1>11

\* The indexes that were picked are all those that are kept.
LEMMA PickedAll ==
  ASSUME NEW item \in Seq(Elements), NEW keep, NEW m \in 0 .. Len(item), NEW at,
         Picks(at, m, item, keep, Len(item))
  PROVE  LET kept == {i \in DOMAIN item : item[i] \in keep}
         IN  Cardinality(kept) = m /\ at \in Bijection(1 .. m, kept) /\ DOMAIN at = 1 .. m
<1> DEFINE kept == {i \in DOMAIN item : item[i] \in keep}
<1>1. at \in [1 .. m -> kept] /\ DOMAIN item = 1 .. Len(item) /\ m \in Nat
  BY DEF Picks
<1>2. \A j, k \in 1 .. m : at[j] = at[k] => j = k
  BY <1>1 DEF Picks
<1>3. \A i \in kept : \E k \in 1 .. m : at[k] = i
  BY <1>1 DEF Picks
<1> HIDE DEF kept
<1>4. at \in Bijection(1 .. m, kept)
  BY <1>1, <1>2, <1>3 DEF Bijection, Injection, Surjection, IsInjective
<1>5. Cardinality(kept) = m
  BY <1>1, <1>4, FS_CountingElements DEF ExistsBijection
<1> QED BY <1>1, <1>4, <1>5 DEF kept

-------------------------------------------------------------------------
(* map and flatmap                                                         *)

\* A new list with the image of each element.
LEMMA MappedIs ==
  ASSUME NEW b, Sound(b), NEW f \in Maps
  PROVE  LET n == Len(b.item)
         IN  /\ mapped(b, f) = [cap |-> n, room |-> n, item |-> [i \in 1 .. n |-> f[b.item[i]]]]
             /\ [i \in 1 .. n |-> f[b.item[i]]] \in [1 .. n -> Elements]
<1> DEFINE n == Len(b.item)
<1>1. n \in Nat /\ b.item \in [1 .. n -> Elements] /\ b.item \in Seq(Elements)
  BY ItemFacts
<1>2. f \in [Elements -> Elements]
  BY ListAssumption DEF Elements
<1>3. Blank(n) \in [1 .. n -> Elements]
  BY DEF Blank, Elements
<1>4. mapped(b, f) = [cap |-> n, room |-> n, item |-> [i \in 1 .. n |-> f[b.item[i]]]]
  <2>1. DOMAIN new_len(n).item = 1 .. n
    BY <1>3 DEF new_len
  <2>2. mapped(b, f) = [new_len(n) EXCEPT !.item = [i \in DOMAIN new_len(n).item |-> f[b.item[i]]]]
    BY Zenon DEF mapped
  <2> HIDE DEF n
  <2> QED BY <2>1, <2>2 DEF new_len
<1>5. [i \in 1 .. n |-> f[b.item[i]]] \in [1 .. n -> Elements]
  BY <1>1, <1>2
<1> QED BY <1>4, <1>5

\* Joining lists, as FlattenSeq runs through them.
Joining(r, s) == r = [i \in 1 .. Len(s) |-> IF i = 1 THEN s[i] ELSE r[i - 1] \o s[i]]

\* FlattenSeq returns what its last round leaves.
LEMMA FlattenRounds ==
  ASSUME NEW s, Len(s) # 0, \E r : Joining(r, s)
  PROVE  \E r : Joining(r, s) /\ FlattenSeq(s) = r[Len(s)]
  BY Zenon DEF Joining, FlattenSeq

\* Lists of elements are joined to a list of elements.
LEMMA FlattenType ==
  ASSUME NEW n \in Nat, NEW s \in [1 .. n -> Seq(Elements)], Len(s) = n
  PROVE  FlattenSeq(s) \in Seq(Elements)
<1>1. CASE n = 0
  <2>1. s = <<>>
    BY <1>1
  <2> QED BY <1>1, <2>1 DEF FlattenSeq
<1>2. CASE n # 0
  <2> DEFINE X == Seq(Elements)
  <2> DEFINE step == [i \in 1 .. n |-> [t \in X |-> IF i = 1 THEN s[i] ELSE t \o s[i]]]
  <2>1. step \in [1 .. n -> [X -> X]]
    OBVIOUS
  <2>2. PICK r : Runs(r, n, X, <<>>, step)
    <3>1. <<>> \in X
      OBVIOUS
    <3> HIDE DEF X, step
    <3> QED BY <2>1, <3>1, Rounds
  <2>3. r \in [0 .. n -> X]
    BY <2>2 DEF Runs
  <2>4. \A i \in 1 .. n : r[i] = IF i = 1 THEN s[i] ELSE r[i - 1] \o s[i]
    <3> TAKE i \in 1 .. n
    <3>1. i - 1 \in 0 .. n
      OBVIOUS
    <3>2. r[i] = step[i][r[i - 1]]
      <4> HIDE DEF X, step
      <4> QED BY <2>2 DEF Runs
    <3>3. r[i - 1] \in X
      <4> HIDE DEF X
      <4> QED BY <2>3, <3>1
    <3> HIDE DEF X
    <3> QED BY <3>2, <3>3
  <2> DEFINE q == [i \in 1 .. n |-> r[i]]
  <2>5. \A i \in 1 .. n : q[i] = IF i = 1 THEN s[i] ELSE q[i - 1] \o s[i]
    <3> TAKE i \in 1 .. n
    <3>1. q[i] = r[i] /\ (i # 1 => q[i - 1] = r[i - 1])
      OBVIOUS
    <3> HIDE DEF q
    <3> QED BY <2>4, <3>1
  <2>6. Joining(q, s)
    <3>1. q = [i \in 1 .. n |-> q[i]]
      OBVIOUS
    <3> HIDE DEF q
    <3>2. q = [i \in 1 .. n |-> IF i = 1 THEN s[i] ELSE q[i - 1] \o s[i]]
      BY <2>5, <3>1
    <3> QED BY <3>2, Zenon DEF Joining
  <2>7. PICK p : Joining(p, s) /\ FlattenSeq(s) = p[n]
    BY <1>2, <2>6, FlattenRounds
  <2>8. FlattenSeq(s) \in X
    <3> DEFINE S == {i \in 0 .. n : i # 0 => p[i] \in X}
    <3>1. 0 \in S
      OBVIOUS
    <3>2. ASSUME NEW i \in 1 .. n, i - 1 \in S
          PROVE  i \in S
      <4>1. p[i] = IF i = 1 THEN s[i] ELSE p[i - 1] \o s[i]
        BY <2>7 DEF Joining
      <4>2. CASE i = 1
        BY <4>1, <4>2
      <4>3. CASE i # 1
        <5>1. p[i - 1] \in X /\ s[i] \in X
          BY <3>2, <4>3
        <5>2. p[i] \in X
          BY <4>1, <4>3, <5>1
        <5> HIDE DEF X
        <5> QED BY <5>2
      <4> QED BY <4>2, <4>3
    <3>3. \A i \in 1 .. n : i - 1 \in S => i \in S
      BY <3>2
    <3> HIDE DEF S
    <3>4. \A i \in 0 .. n : i \in S
      BY <3>1, <3>3, Induct
    <3>5. n \in S
      BY <3>4
    <3> QED BY <1>2, <2>7, <3>5 DEF S
  <2> QED BY <2>8
<1> QED BY <1>1, <1>2

\* The lists of flatmap, and where its output goes.
Results(b, f) == [i \in DOMAIN b.item |-> f[b.item[i]]]
Output(b, f) == IF Reuses(b, f) THEN b ELSE new_len(Len(FlattenSeq(Results(b, f))))

\* The rounds of flatmap: one list after the other is copied to the start.
FlattenLoop(r, lists, out) ==
  r = [i \in 0 .. Len(lists) |->
        IF i = 0 THEN out.item
        ELSE [j \in DOMAIN out.item |->
                IF j <= Len(lists[i]) THEN lists[i][j] ELSE r[i - 1][j]]]

\* What flatmap returns is what its last round leaves,
LEMMA FlattenedRounds ==
  ASSUME NEW b, NEW f, \E r : FlattenLoop(r, Results(b, f), Output(b, f))
  PROVE  \E r : /\ FlattenLoop(r, Results(b, f), Output(b, f))
                /\ flattened(b, f) = [Output(b, f) EXCEPT !.item = r[Len(Results(b, f))]]
  BY Zenon DEF FlattenLoop, flattened, Results, Output

\* and there are such rounds.
LEMMA FlattenedRuns ==
  ASSUME NEW n \in Nat, NEW lists \in [1 .. n -> Seq(Elements)], Len(lists) = n,
         NEW out, NEW m \in Nat, out.item \in [1 .. m -> Elements]
  PROVE  \E r : FlattenLoop(r, lists, out)
<1> DEFINE X == [1 .. m -> Elements]
<1> DEFINE Round(i, t) == [j \in 1 .. m |-> IF j <= Len(lists[i]) THEN lists[i][j] ELSE t[j]]
<1> DEFINE step == [i \in 1 .. n |-> [t \in X |-> Round(i, t)]]
<1> DEFINE first == out.item
<1>1. first \in X /\ DOMAIN out.item = 1 .. m
  OBVIOUS
<1>2. ASSUME NEW i \in 1 .. n, NEW t \in X
      PROVE  Round(i, t) \in X
  <2>1. ASSUME NEW j \in 1 .. m, j <= Len(lists[i])
        PROVE  lists[i][j] \in Elements
    <3>1. lists[i] \in Seq(Elements) /\ j \in 1 .. Len(lists[i])
      BY <2>1
    <3> QED BY <3>1
  <2>2. \A j \in 1 .. m : (IF j <= Len(lists[i]) THEN lists[i][j] ELSE t[j]) \in Elements
    BY <2>1
  <2> QED BY <2>2
<1>3. step \in [1 .. n -> [X -> X]]
  <2> HIDE DEF X, Round
  <2> QED BY <1>2
<1>4. PICK r : Runs(r, n, X, first, step)
  <2> HIDE DEF X, step, first
  <2> QED BY <1>1, <1>3, Rounds
<1>5. ASSUME NEW i \in 1 .. n
      PROVE  r[i] = Round(i, r[i - 1])
  <2>1. i - 1 \in 0 .. n
    OBVIOUS
  <2>2. r[i - 1] \in X /\ r[i] = step[i][r[i - 1]]
    <3> HIDE DEF X, step
    <3> QED BY <1>4, <2>1 DEF Runs
  <2>3. step[i][r[i - 1]] = Round(i, r[i - 1])
    <3> HIDE DEF X, Round
    <3> QED BY <2>2
  <2> QED BY <2>2, <2>3
<1>6. r = [i \in 0 .. n |-> IF i = 0 THEN first ELSE Round(i, r[i - 1])]
  <2>1. \A i \in 0 .. n : r[i] = IF i = 0 THEN first ELSE Round(i, r[i - 1])
    <3>1. \A i \in 0 .. n : i # 0 => i \in 1 .. n
      OBVIOUS
    <3> HIDE DEF Round, first, X
    <3> QED BY <1>4, <1>5, <3>1 DEF Runs
  <2>2. r = [i \in 0 .. n |-> r[i]]
    BY <1>4 DEF Runs
  <2> HIDE DEF Round, first, X
  <2> QED BY <2>1, <2>2
<1>7. FlattenLoop(r, lists, out)
  BY <1>1, <1>6, Zenon DEF FlattenLoop
<1> QED BY <1>7

\* What every round leaves is a sequence of elements as long as the output.
LEMMA FlattenedType ==
  ASSUME NEW n \in Nat, NEW lists \in [1 .. n -> Seq(Elements)], Len(lists) = n,
         NEW out, NEW m \in Nat, out.item \in [1 .. m -> Elements],
         NEW r, FlattenLoop(r, lists, out)
  PROVE  r[n] \in [1 .. m -> Elements]
<1> DEFINE S == {i \in 0 .. n : r[i] \in [1 .. m -> Elements]}
<1>1. 0 \in S
  <2>1. r[0] = out.item
    BY DEF FlattenLoop
  <2> QED BY <2>1
<1>2. ASSUME NEW i \in 1 .. n, i - 1 \in S
      PROVE  i \in S
  <2>1. r[i] = [j \in 1 .. m |-> IF j <= Len(lists[i]) THEN lists[i][j] ELSE r[i - 1][j]]
    <3>1. i \in 0 .. n /\ i # 0 /\ DOMAIN out.item = 1 .. m
      OBVIOUS
    <3> HIDE DEF S
    <3> QED BY <3>1 DEF FlattenLoop
  <2>2. ASSUME NEW j \in 1 .. m
        PROVE  (IF j <= Len(lists[i]) THEN lists[i][j] ELSE r[i - 1][j]) \in Elements
    <3>1. CASE j <= Len(lists[i])
      <4>1. lists[i] \in Seq(Elements) /\ j \in 1 .. Len(lists[i])
        BY <3>1
      <4>2. lists[i][j] \in Elements
        BY <4>1
      <4> QED BY <3>1, <4>2
    <3>2. CASE ~(j <= Len(lists[i]))
      <4>1. r[i - 1] \in [1 .. m -> Elements]
        BY <1>2
      <4>2. r[i - 1][j] \in Elements
        BY <4>1
      <4> QED BY <3>2, <4>2
    <3> QED BY <3>1, <3>2
  <2>3. r[i] \in [1 .. m -> Elements]
    BY <2>1, <2>2
  <2> QED BY <2>3
<1>3. \A i \in 1 .. n : i - 1 \in S => i \in S
  BY <1>2
<1>4. \A i \in 0 .. n : i \in S
  <2> HIDE DEF S
  <2> QED BY <1>1, <1>3, Induct
<1> QED BY <1>4

\* The types of what flatmap works with.
LEMMA ResultsType ==
  ASSUME NEW b, Sound(b), NEW f \in Mappers
  PROVE  LET n == Len(b.item) IN
         /\ n \in Nat /\ Results(b, f) \in [1 .. n -> Seq(Elements)] /\ Len(Results(b, f)) = n
         /\ FlattenSeq(Results(b, f)) \in Seq(Elements)
         /\ Sound(Output(b, f))
         /\ Len(Output(b, f).item) = IF Reuses(b, f) THEN n ELSE Len(FlattenSeq(Results(b, f)))
<1> DEFINE n == Len(b.item)
<1> DEFINE s == Results(b, f)
<1>1. n \in Nat /\ b.item \in [1 .. n -> Elements] /\ DOMAIN b.item = 1 .. n
  BY ItemFacts
<1>2. f \in [Elements -> Seq(Elements)]
  BY ListAssumption DEF Elements
<1>3. s \in [1 .. n -> Seq(Elements)]
  BY <1>1, <1>2 DEF Results
<1>4. Len(s) = n
  <2> HIDE DEF s, n
  <2> QED BY <1>1, <1>3, Indexed
<1>5. FlattenSeq(s) \in Seq(Elements)
  <2> HIDE DEF s, n
  <2> QED BY <1>1, <1>3, <1>4, FlattenType
<1>6. Sound(Output(b, f)) /\ Len(Output(b, f).item) = IF Reuses(b, f) THEN n ELSE Len(FlattenSeq(s))
  <2>1. CASE Reuses(b, f)
    BY <2>1 DEF Output
  <2>2. CASE ~Reuses(b, f)
    <3> DEFINE m == Len(FlattenSeq(s))
    <3>1. m \in Nat /\ m \in 0 .. m
      BY <1>5
    <3>2. Output(b, f) = new_len(m)
      BY <2>2 DEF Output
    <3> HIDE DEF m
    <3>3. Blank(m) \in [1 .. m -> Elements]
      BY DEF Blank, Elements
    <3>4. Sound(new_len(m)) /\ Len(new_len(m).item) = m
      BY <3>1, <3>3, MadeSound DEF new_len
    <3> QED BY <2>2, <3>2, <3>4 DEF m
  <2> QED BY <2>1, <2>2
<1> QED BY <1>1, <1>3, <1>4, <1>5, <1>6

\* Flatmap of any list leaves a sound buffer, as long as its output.
LEMMA FlattenedSound ==
  ASSUME NEW b, Sound(b), NEW f \in Mappers
  PROVE  /\ Sound(flattened(b, f))
         /\ Reuses(b, f) => flattened(b, f).cap = b.cap
<1> DEFINE n == Len(b.item)
<1> DEFINE s == Results(b, f)
<1> DEFINE out == Output(b, f)
<1> DEFINE m == Len(out.item)
<1>1. n \in Nat /\ s \in [1 .. n -> Seq(Elements)] /\ Len(s) = n /\ Sound(out)
  BY ResultsType
<1>2. m \in 0 .. out.cap /\ m \in Nat /\ out.cap \in Nat /\ out.item \in [1 .. m -> Elements]
      /\ out = [cap |-> out.cap, room |-> out.cap, item |-> out.item]
  <2> HIDE DEF out
  <2> QED BY <1>1, ItemFacts
<1>3. \E r : FlattenLoop(r, s, out)
  <2> HIDE DEF s, out, n, m
  <2> QED BY <1>1, <1>2, FlattenedRuns
<1>4. PICK r : FlattenLoop(r, s, out) /\ flattened(b, f) = [out EXCEPT !.item = r[Len(s)]]
  BY <1>3, FlattenedRounds
<1> HIDE DEF s, out, n, m
<1>5. r[n] \in [1 .. m -> Elements]
  BY <1>1, <1>2, <1>4, FlattenedType
<1>6. flattened(b, f) = [cap |-> out.cap, room |-> out.cap, item |-> r[n]]
  BY <1>1, <1>2, <1>4
<1>7. Sound(flattened(b, f))
  BY <1>2, <1>5, <1>6, MadeSound
<1>8. Reuses(b, f) => out = b
  BY DEF out, Output
<1> QED BY <1>6, <1>7, <1>8

\* A single list, joined.
LEMMA FlattenOne ==
  ASSUME NEW s, Len(s) = 1
  PROVE  FlattenSeq(s) = s[1]
<1> DEFINE q == [i \in 1 .. 1 |-> s[1]]
<1>1. q = [i \in 1 .. Len(s) |-> IF i = 1 THEN s[i] ELSE q[i - 1] \o s[i]]
  <2>1. \A i \in 1 .. 1 : q[i] = IF i = 1 THEN s[i] ELSE q[i - 1] \o s[i]
    OBVIOUS
  <2>2. q = [i \in 1 .. 1 |-> q[i]]
    OBVIOUS
  <2> HIDE DEF q
  <2> QED BY <2>1, <2>2
<1>2. Joining(q, s)
  <2> HIDE DEF q
  <2> QED BY <1>1, Zenon DEF Joining
<1> HIDE DEF q
<1>3. PICK p : Joining(p, s) /\ FlattenSeq(s) = p[1]
  <2>1. Len(s) # 0 /\ \E p : Joining(p, s)
    BY <1>2
  <2>2. \E p : Joining(p, s) /\ FlattenSeq(s) = p[Len(s)]
    BY <2>1, FlattenRounds
  <2> QED BY <2>2
<1>4. p[1] = s[1]
  BY <1>3 DEF Joining
<1> QED BY <1>3, <1>4

\* Of one element and a list that is not empty, flatmap makes that list.
LEMMA FlattenedIs ==
  ASSUME NEW b, Sound(b), NEW f \in Mappers, FirstOnly(b, f)
  PROVE  flattened(b, f).item = FlattenSeq(Results(b, f))
<1> DEFINE n == Len(b.item)
<1> DEFINE s == Results(b, f)
<1> DEFINE out == Output(b, f)
<1> DEFINE m == Len(out.item)
<1>1. /\ n \in Nat /\ s \in [1 .. n -> Seq(Elements)] /\ Len(s) = n /\ Sound(out)
      /\ FlattenSeq(s) \in Seq(Elements)
      /\ m = IF Reuses(b, f) THEN n ELSE Len(FlattenSeq(s))
  BY ResultsType
<1>2. m \in Nat /\ out.item \in [1 .. m -> Elements] /\ DOMAIN out.item = 1 .. m
      /\ out = [cap |-> out.cap, room |-> out.cap, item |-> out.item]
  <2> HIDE DEF out
  <2> QED BY <1>1, ItemFacts
<1>3. \E r : FlattenLoop(r, s, out)
  <2> HIDE DEF s, out, n, m
  <2> QED BY <1>1, <1>2, FlattenedRuns
<1>4. PICK r : FlattenLoop(r, s, out) /\ flattened(b, f) = [out EXCEPT !.item = r[Len(s)]]
  BY <1>3, FlattenedRounds
<1>5. Reuses(b, f) <=> Len(FlattenSeq(s)) <= n
  BY DEF Reuses, Results
<1>6. n = 0 \/ n = 1
  <2>1. n <= 1
    BY DEF FirstOnly
  <2> HIDE DEF n
  <2> QED BY <1>1, <2>1
<1>7. flattened(b, f).item = r[n]
  <2> HIDE DEF s, out, n
  <2>1. flattened(b, f) = [[cap |-> out.cap, room |-> out.cap, item |-> out.item] EXCEPT !.item = r[n]]
    BY <1>1, <1>2, <1>4
  <2> QED BY <2>1
<1>8. CASE n = 0
  <2>1. s = <<>> /\ FlattenSeq(s) = <<>>
    <3>1. s = <<>>
      BY <1>1, <1>8
    <3> HIDE DEF s
    <3> QED BY <3>1 DEF FlattenSeq
  <2>2. m = 0
    <3> HIDE DEF n, m, s
    <3> QED BY <1>1, <1>5, <1>8, <2>1
  <2>3. r[0] = out.item
    <3> HIDE DEF n, m, s, out
    <3> QED BY <1>1, <1>4 DEF FlattenLoop
  <2>4. out.item = <<>>
    <3> HIDE DEF m, out
    <3> QED BY <1>2, <2>2
  <2> QED BY <1>7, <1>8, <2>1, <2>3, <2>4
<1>9. CASE n = 1
  <2>1. FlattenSeq(s) = s[1]
    <3> HIDE DEF n, s
    <3> QED BY <1>1, <1>9, FlattenOne
  <2>2. s[1] \in Seq(Elements) /\ Len(s[1]) \in Nat
    <3> HIDE DEF s
    <3> QED BY <1>1, <2>1
  <2>3. s[1] # <<>>
    <3>1. 1 \in DOMAIN b.item
      BY <1>9, ItemFacts
    <3> QED BY <3>1 DEF FirstOnly, Results
  <2>4. m = Len(s[1])
    <3> HIDE DEF n, m, s, out
    <3>1. Len(s[1]) >= 1
      BY <2>2, <2>3
    <3> QED BY <1>1, <1>5, <1>9, <2>1, <2>2, <3>1
  <2>5. r[1] = [j \in 1 .. m |-> IF j <= Len(s[1]) THEN s[1][j] ELSE r[0][j]]
    <3> HIDE DEF n, m, s, out
    <3>1. 1 \in 0 .. Len(s) /\ 1 # 0 /\ 1 - 1 = 0
      BY <1>1, <1>9
    <3>2. r[1] = [j \in DOMAIN out.item |-> IF j <= Len(s[1]) THEN s[1][j] ELSE r[1 - 1][j]]
      BY <1>4, <3>1, Zenon DEF FlattenLoop
    <3>3. r[1 - 1] = r[0]
      BY <3>1
    <3> QED BY <1>2, <3>2, <3>3
  <2>6. r[1] = s[1]
    <3> HIDE DEF n, m, s, out
    <3>1. \A j \in 1 .. m : j <= Len(s[1])
      BY <2>4, <2>2
    <3>2. r[1] = [j \in 1 .. m |-> s[1][j]]
      BY <2>5, <3>1
    <3> QED BY <2>2, <2>4, <3>2
  <2> QED BY <1>7, <1>9, <2>1, <2>6
<1> QED BY <1>6, <1>8, <1>9

-------------------------------------------------------------------------
(* The inductive invariant: the owners, and what is in the buffers         *)

\* Ownership, and addresses that are never Null.
Owners ==
  /\ DOMAIN heap \subseteq Blocks
  /\ ref \in [Names -> Blocks \cup {Null}]
  /\ Ownership

Sizes == \A p \in DOMAIN heap : Sound(heap[p])
IInv == Owners /\ Sizes

-------------------------------------------------------------------------
(* What malloc, realloc and free do to the owners                          *)

\* A list that stays in its buffer keeps it.
LEMMA WriteStep ==
  ASSUME Owners, NEW x \in Names, NEW b, Write(x, b)
  PROVE  Owners'
<1>1. DOMAIN heap' = DOMAIN heap /\ ref' = ref
  BY DEF Write
<1> QED BY <1>1 DEF Owners, Ownership, Live

\* A buffer that nobody has goes to x, and what x had goes.
LEMMA PlaceStep ==
  ASSUME Owners, NEW x \in Names, NEW old, NEW p \in Blocks, NEW b, Place(x, old, p, b),
         old = (IF Live(x) THEN {ref[x]} ELSE {}), p \notin DOMAIN heap \/ p \in old
  PROVE  Owners'
<1>1. DOMAIN heap' = (DOMAIN heap \ old) \cup {p} /\ ref' = [ref EXCEPT ![x] = p]
  BY DEF Place
<1>2. ref'[x] = p /\ \A y \in Names : y # x => ref'[y] = ref[y]
  BY <1>1 DEF Owners
<1>3. ASSUME NEW y \in Names, y # x, Live(y)
      PROVE  ref[y] \in DOMAIN heap /\ ref[y] \notin old /\ ref[y] # p
  BY <1>3 DEF Owners, Ownership
<1>4. ASSUME NEW y \in Names, ref'[y] # Null
      PROVE  ref'[y] \in DOMAIN heap'
  BY <1>1, <1>2, <1>3, <1>4 DEF Live
<1>5. ASSUME NEW y \in Names, NEW z \in Names, ref'[y] # Null, ref'[y] = ref'[z]
      PROVE  y = z
  BY <1>2, <1>3, <1>5 DEF Owners, Ownership, Live
<1>6. ASSUME NEW q \in DOMAIN heap'
      PROVE  \E y \in Names : ref'[y] = q
  <2>1. CASE q = p
    BY <1>2, <2>1
  <2>2. CASE q # p
    <3>1. q \in DOMAIN heap /\ q \notin old
      BY <1>1, <2>2
    <3>2. PICK y \in Names : ref[y] = q
      BY <3>1 DEF Owners, Ownership
    <3>3. ref[y] # Null
      BY <3>1, <3>2, ListAssumption DEF Owners
    <3>4. y # x
      BY <3>1, <3>2, <3>3 DEF Live
    <3> QED BY <1>2, <3>2, <3>4
  <2> QED BY <2>1, <2>2
<1>7. DOMAIN heap' \subseteq Blocks /\ ref' \in [Names -> Blocks \cup {Null}]
  BY <1>1 DEF Owners
<1> QED BY <1>4, <1>5, <1>6, <1>7 DEF Owners, Ownership, Live

\* An operation that returns a new list.
LEMMA MallocStep ==
  ASSUME Owners, NEW x \in Names, NEW b, Malloc(x, b)
  PROVE  Owners'
<1>1. PICK p \in FreeBlocks : Place(x, {}, p, b)
  BY DEF Malloc
<1> QED BY <1>1, PlaceStep DEF Malloc, FreeBlocks

\* An operation that moves a list, or may move it.
LEMMA MoveStep ==
  ASSUME Owners, NEW x \in Names, Live(x), NEW b, Realloc(x, b) \/ Renew(x, b)
  PROVE  Owners'
<1>1. PICK p \in FreeBlocks \cup {ref[x]} : Place(x, {ref[x]}, p, b)
  BY DEF Realloc, Renew
<1>2. p \in Blocks /\ (p \notin DOMAIN heap \/ p = ref[x])
  BY DEF FreeBlocks, Owners, Ownership
<1> QED BY <1>1, <1>2, PlaceStep

\* A list that is destroyed.
LEMMA DestroyStep ==
  ASSUME Owners, NEW x \in Names, Destroy(x)
  PROVE  Owners'
<1>1. /\ Live(x) /\ DOMAIN heap' = DOMAIN heap \ {ref[x]} /\ ref' = [ref EXCEPT ![x] = Null]
  BY DEF Destroy, Restrict
<1>2. ref'[x] = Null /\ \A y \in Names : y # x => ref'[y] = ref[y]
  BY <1>1 DEF Owners
<1>3. ASSUME NEW y \in Names, ref'[y] # Null
      PROVE  ref'[y] \in DOMAIN heap' /\ \A z \in Names : ref'[y] = ref'[z] => y = z
  BY <1>1, <1>2, <1>3 DEF Owners, Ownership, Live
<1>4. ASSUME NEW q \in DOMAIN heap'
      PROVE  \E y \in Names : ref'[y] = q
  BY <1>1, <1>2 DEF Owners, Ownership
<1>5. DOMAIN heap' \subseteq Blocks /\ ref' \in [Names -> Blocks \cup {Null}]
  BY <1>1 DEF Owners
<1> QED BY <1>3, <1>4, <1>5 DEF Owners, Ownership, Live

-------------------------------------------------------------------------
(* What they do to the lists                                               *)

\* x gets the buffer b, where it is or at another address.
Gets(x, b) == Malloc(x, b) \/ (Live(x) /\ (Write(x, b) \/ Realloc(x, b) \/ Renew(x, b)))

\* What the program sees of a list.
LEMMA Seen ==
  ASSUME IInv, NEW x \in Names
  PROVE  /\ Live(x) => /\ ref[x] \in DOMAIN heap /\ Sound(Buf(x))
                       /\ Val[x] = Buf(x).item /\ Val[x] \in Seq(Elements)
                       /\ Abstract!Live(x) /\ Abstract!Length(x) = Len(Buf(x).item)
         /\ ~Live(x) => Val[x] = Null /\ ~Abstract!Live(x)
         /\ Val \in [Names -> Seq(Elements) \cup {Null}]
<1>1. ASSUME NEW y \in Names, Live(y)
      PROVE  ref[y] \in DOMAIN heap /\ Sound(Buf(y)) /\ Buf(y).item \in Seq(Elements)
  <2>1. ref[y] \in DOMAIN heap
    BY <1>1 DEF IInv, Owners, Ownership
  <2>2. Sound(Buf(y))
    BY <2>1 DEF IInv, Sizes, Buf
  <2> QED BY <2>1, <2>2 DEF Sound, Buffer
<1>2. Null \notin Seq(Elements)
  BY ListAssumption DEF Elements
<1>3. Val \in [Names -> Seq(Elements) \cup {Null}]
  BY <1>1 DEF Val
<1>4. Val[x] = IF Live(x) THEN Buf(x).item ELSE Null
  BY DEF Val
<1> QED BY <1>1, <1>2, <1>3, <1>4 DEF Abstract!Live, Abstract!Length

\* Where the buffers are after x got one.
LEMMA Placed ==
  ASSUME IInv, NEW x \in Names, NEW b, Gets(x, b)
  PROVE  /\ Owners'
         /\ ref'[x] # Null /\ ref'[x] \in DOMAIN heap' /\ heap'[ref'[x]] = b
         /\ \A q \in DOMAIN heap' : q # ref'[x] => q \in DOMAIN heap /\ heap'[q] = heap[q]
         /\ \A y \in Names : y # x => ref'[y] = ref[y] /\ (Live(y) => heap'[ref[y]] = heap[ref[y]])
<1>1. Owners'
  BY MallocStep, WriteStep, MoveStep DEF IInv, Gets
<1>2. CASE Live(x) /\ Write(x, b)
  <2>1. ref[x] \in DOMAIN heap /\ \A y \in Names : y # x /\ Live(y) => ref[y] # ref[x]
    BY <1>2 DEF IInv, Owners, Ownership
  <2>2. heap' = [heap EXCEPT ![ref[x]] = b] /\ ref' = ref
    BY <1>2 DEF Write
  <2> QED BY <1>1, <1>2, <2>1, <2>2 DEF Live, IInv, Owners, Ownership
<1>3. CASE Malloc(x, b) \/ (Live(x) /\ (Realloc(x, b) \/ Renew(x, b)))
  <2> DEFINE old == IF Live(x) THEN {ref[x]} ELSE {}
  <2>1. PICK p \in Blocks : Place(x, old, p, b) /\ (p \notin DOMAIN heap \/ p \in old)
    <3>1. CASE Malloc(x, b)
      BY <3>1 DEF Malloc, FreeBlocks
    <3>2. CASE Live(x) /\ (Realloc(x, b) \/ Renew(x, b))
      <4>1. ref[x] \in Blocks
        BY <3>2 DEF IInv, Owners, Live
      <4> QED BY <3>2, <4>1 DEF Realloc, Renew, FreeBlocks
    <3> QED BY <1>3, <3>1, <3>2
  <2>2. /\ heap' = [q \in (DOMAIN heap \ old) \cup {p} |-> IF q = p THEN b ELSE heap[q]]
        /\ ref'[x] = p /\ \A y \in Names : y # x => ref'[y] = ref[y]
    BY <2>1 DEF Place, IInv, Owners
  <2>3. ASSUME NEW y \in Names, y # x, Live(y)
        PROVE  ref[y] \in DOMAIN heap /\ ref[y] \notin old /\ ref[y] # p
    BY <2>1, <2>3 DEF IInv, Owners, Ownership
  <2>4. p # Null
    BY ListAssumption
  <2> HIDE DEF old
  <2>5. DOMAIN heap' = (DOMAIN heap \ old) \cup {p}
        /\ \A q \in DOMAIN heap' : heap'[q] = IF q = p THEN b ELSE heap[q]
    BY <2>2
  <2>6. \A q \in DOMAIN heap' : q # p => q \in DOMAIN heap /\ heap'[q] = heap[q]
    BY <2>5
  <2>7. \A y \in Names : y # x => (Live(y) => heap'[ref[y]] = heap[ref[y]])
    BY <2>3, <2>5
  <2>8. p \in DOMAIN heap' /\ heap'[p] = b
    BY <2>5
  <2> QED BY <1>1, <2>2, <2>4, <2>6, <2>7, <2>8
<1> QED BY <1>2, <1>3 DEF Gets

\* A sound buffer in the place of another keeps the invariant; one list has changed.
LEMMA Turned ==
  ASSUME IInv, NEW x \in Names, NEW b, Gets(x, b), Sound(b)
  PROVE  IInv' /\ Abstract!Become(x, b.item)
<1>1. /\ Owners'
      /\ ref'[x] # Null /\ ref'[x] \in DOMAIN heap' /\ heap'[ref'[x]] = b
      /\ \A q \in DOMAIN heap' : q # ref'[x] => q \in DOMAIN heap /\ heap'[q] = heap[q]
      /\ \A y \in Names : y # x => ref'[y] = ref[y] /\ (Live(y) => heap'[ref[y]] = heap[ref[y]])
  BY Placed
<1>2. Sizes'
  BY <1>1 DEF IInv, Sizes
<1>3. Val' = [y \in Names |-> IF ref'[y] # Null THEN heap'[ref'[y]].item ELSE Null]
  BY DEF Val, Live, Buf
<1>4. \A y \in Names : (IF ref'[y] # Null THEN heap'[ref'[y]].item ELSE Null)
                        = IF y = x THEN b.item ELSE Val[y]
  BY <1>1 DEF Val, Live, Buf
<1>5. Val' = [Val EXCEPT ![x] = b.item]
  BY <1>3, <1>4 DEF Val
<1> QED BY <1>1, <1>2, <1>5 DEF IInv, Abstract!Become

-------------------------------------------------------------------------
(* The operations: each keeps the invariant, and is one of the abstract list *)

\* The value of a list after it changed.
LEMMA Became ==
  ASSUME IInv, NEW x \in Names, NEW s, Abstract!Become(x, s)
  PROVE  Val'[x] = s
<1>1. x \in DOMAIN Val
  BY DEF Val
<1> QED BY <1>1 DEF Abstract!Become

\* A new list, of elements that are given or of none that was written.
LEMMA MallocIsNew ==
  ASSUME IInv, NEW x \in Names, NEW b, Malloc(x, b), Sound(b),
         b.item \in Seq(Values) \cup Seq({Unset})
  PROVE  IInv' /\ Abstract!New(x)
<1>1. IInv' /\ Abstract!Become(x, b.item)
  BY Turned DEF Gets
<1>2. Val'[x] = b.item
  BY <1>1, Became
<1>3. ~Abstract!Live(x)
  BY Seen DEF Malloc
<1> QED BY <1>1, <1>2, <1>3 DEF Abstract!New

\* new_cap and new_len.
LEMMA BlankStep ==
  ASSUME IInv, NEW x \in Names, NEW n \in Nat, New_cap(x, n) \/ New_len(x, n)
  PROVE  IInv' /\ Abstract!New(x)
<1>1. CASE New_cap(x, n)
  <2>1. <<>> \in [1 .. 0 -> Elements] /\ 0 \in 0 .. n
    OBVIOUS
  <2>2. Sound(new_cap(n)) /\ new_cap(n).item = <<>>
    BY <2>1, MadeSound DEF new_cap
  <2>3. new_cap(n).item \in Seq(Values)
    BY <2>2
  <2> QED BY <1>1, <2>2, <2>3, MallocIsNew DEF New_cap
<1>2. CASE New_len(x, n)
  <2>1. Blank(n) \in [1 .. n -> Elements] /\ n \in 0 .. n /\ Blank(n) \in [1 .. n -> {Unset}]
    BY DEF Blank, Elements
  <2>2. Sound(new_len(n)) /\ new_len(n).item = Blank(n)
    BY <2>1, MadeSound DEF new_len
  <2>3. Blank(n) \in Seq({Unset})
    BY <2>1, Indexed
  <2> QED BY <1>2, <2>2, <2>3, MallocIsNew DEF New_len
<1> QED BY <1>1, <1>2

\* new_of copies the elements it is given.
LEMMA FilledStep ==
  ASSUME IInv, NEW x \in Names, NEW n \in Nat, NEW c \in Nat, n <= c,
         NEW items \in [1 .. n -> Values], New_of(x, items, c)
  PROVE  IInv' /\ Abstract!New(x)
<1>1. items \in [1 .. n -> Elements] /\ n \in 0 .. c
  BY DEF Elements
<1>2. new_of(items, c) = [cap |-> c, room |-> c, item |-> items]
  BY DEF new_of, new_cap
<1>3. Sound(new_of(items, c)) /\ new_of(items, c).item = items
  BY <1>1, <1>2, MadeSound
<1>4. items \in Seq(Values)
  BY Indexed
<1> QED BY <1>3, <1>4, MallocIsNew DEF New_of

\* The program writes an element.
LEMMA AssignStep ==
  ASSUME IInv, NEW x \in Names, NEW v \in Values, NEW i, Assign(x, i, v)
  PROVE  IInv' /\ Abstract!Assign(x, i, v) /\ i \in 1 .. Abstract!Length(x)
<1> DEFINE b == Buf(x)
<1>1. Live(x) /\ i \in DOMAIN b.item /\ Write(x, [b EXCEPT !.item[i] = v])
  BY DEF Assign
<1>2. Sound(b) /\ Val[x] = b.item /\ Abstract!Live(x) /\ Abstract!Length(x) = Len(b.item)
  BY <1>1, Seen
<1> HIDE DEF b
<1> DEFINE t == [b.item EXCEPT ![i] = v]
<1>3. b = [cap |-> b.cap, room |-> b.cap, item |-> b.item] /\ b.cap \in Nat
      /\ Len(b.item) \in 0 .. b.cap /\ b.item \in [1 .. Len(b.item) -> Elements]
  BY <1>2, ItemFacts
<1>4. t \in [1 .. Len(b.item) -> Elements]
  BY <1>3 DEF Elements
<1>5. [b EXCEPT !.item[i] = v] = [cap |-> b.cap, room |-> b.cap, item |-> t]
  BY <1>3
<1> HIDE DEF t
<1>6. Sound([b EXCEPT !.item[i] = v]) /\ [b EXCEPT !.item[i] = v].item = t
  BY <1>3, <1>4, <1>5, MadeSound
<1>7. IInv' /\ Abstract!Become(x, t)
  BY <1>1, <1>6, Turned DEF Gets
<1>8. i \in 1 .. Len(b.item)
  BY <1>1, <1>3
<1> QED BY <1>1, <1>2, <1>7, <1>8 DEF Abstract!Assign, t

\* The smaller of two numbers, as the abstract list takes it.
LEMMA MinIs ==
  ASSUME NEW c \in Nat, NEW n \in Nat
  PROVE  Abstract!Min({c, n}) = Min2(c, n) /\ Min2(c, n) \in 0 .. n /\ Min2(c, n) \in 0 .. c
<1>1. Min2(c, n) \in {c, n} /\ \A y \in {c, n} : Min2(c, n) =< y
  BY DEF Min2
<1>2. \A z \in {c, n} : (\A y \in {c, n} : z =< y) => z = Min2(c, n)
  BY <1>1
<1>3. Min2(c, n) \in 0 .. n /\ Min2(c, n) \in 0 .. c
  BY DEF Min2
<1>4. Abstract!Min({c, n}) = Min2(c, n)
  <2>1. (CHOOSE z \in {c, n} : \A y \in {c, n} : z =< y) = Min2(c, n)
    BY <1>1, <1>2, Zenon
  <2> QED BY <2>1 DEF Abstract!Min
<1> QED BY <1>3, <1>4

\* realloc for another capacity, or for the length.
LEMMA ResizeStep ==
  ASSUME IInv, NEW x \in Names, NEW c \in Nat, Resize(x, c) \/ (Trim(x) /\ c = Len(Buf(x).item))
  PROVE  IInv' /\ Abstract!Resize(x, c) /\ \E n \in 0 .. Abstract!Length(x) : Abstract!Resize(x, n)
<1> DEFINE b == Buf(x)
<1>1. Live(x) /\ Realloc(x, resized(b, c))
  BY DEF Resize, Trim
<1>2. Sound(b) /\ Val[x] = b.item /\ Abstract!Live(x) /\ Abstract!Length(x) = Len(b.item)
  BY <1>1, Seen
<1> HIDE DEF b
<1> DEFINE n == Len(b.item)
<1> DEFINE m == Min2(c, n)
<1> DEFINE t == [i \in 1 .. m |-> b.item[i]]
<1>3. n \in Nat /\ b.item \in [1 .. n -> Elements] /\ b.item \in Seq(Elements) /\ b \in Buffer
  BY <1>2, ItemFacts DEF Sound
<1>4. Abstract!Min({c, n}) = m /\ m \in 0 .. n /\ m \in 0 .. c /\ m \in Nat
  <2> HIDE DEF n
  <2> QED BY <1>3, MinIs
<1>5. resized(b, c) = [cap |-> c, room |-> c, item |-> t]
  BY <1>3, Resized
<1>6. SubSeq(b.item, 1, m) = t
  <2> HIDE DEF m
  <2> QED BY <1>3, <1>4
<1>7. t \in [1 .. m -> Elements]
  <2> HIDE DEF m
  <2> QED BY <1>3, <1>4
<1> HIDE DEF t
<1>8. Sound(resized(b, c)) /\ resized(b, c).item = t
  <2> HIDE DEF m
  <2> QED BY <1>4, <1>5, <1>7, MadeSound
<1>9. IInv' /\ Abstract!Become(x, t)
  BY <1>1, <1>8, Turned DEF Gets
<1>10. Abstract!Resize(x, c)
  <2> HIDE DEF m
  <2> QED BY <1>2, <1>4, <1>6, <1>9 DEF Abstract!Resize
<1>11. Abstract!Resize(x, m)
  <2>1. Min2(m, n) = m
    <3> HIDE DEF n, m
    <3> QED BY <1>3, <1>4 DEF Min2
  <2>2. Abstract!Min({m, n}) = m
    <3> HIDE DEF n, m
    <3> QED BY <1>3, <1>4, <2>1, MinIs
  <2> HIDE DEF m
  <2> QED BY <1>2, <2>2, <1>6, <1>9 DEF Abstract!Resize
<1> QED BY <1>2, <1>4, <1>9, <1>10, <1>11

\* add writes in the buffer or in one that has grown.
LEMMA AddStep ==
  ASSUME IInv, NEW x \in Names, NEW v \in Values, Add(x, v)
  PROVE  IInv' /\ Abstract!Add(x, v)
<1> DEFINE b == Buf(x)
<1>1. Live(x) /\ (Realloc(x, added(b, v)) \/ Write(x, added(b, v)))
  BY DEF Add
<1>2. Sound(b) /\ Val[x] = b.item /\ Abstract!Live(x)
  BY <1>1, Seen
<1> HIDE DEF b
<1>3. PICK c \in Nat : /\ Len(b.item) + 1 <= c
                       /\ added(b, v) = [cap |-> c, room |-> c, item |-> Append(b.item, v)]
  BY <1>2, AddedIs DEF Elements
<1> DEFINE t == Append(b.item, v)
<1>4. Len(b.item) \in Nat /\ b.item \in Seq(Elements) /\ v \in Elements
  BY <1>2, ItemFacts DEF Elements
<1>5. t \in Seq(Elements) /\ Len(t) = Len(b.item) + 1
  BY <1>3, <1>4
<1> HIDE DEF t
<1>6. added(b, v) = [cap |-> c, room |-> c, item |-> t]
  BY <1>3 DEF t
<1>7. Sound(added(b, v)) /\ added(b, v).item = t
  <2>1. Len(t) <= c
    BY <1>3, <1>5
  <2> QED BY <1>5, <1>6, <2>1, SeqSound
<1>8. IInv' /\ Abstract!Become(x, t)
  BY <1>1, <1>7, Turned DEF Gets
<1> QED BY <1>2, <1>8 DEF Abstract!Add, t

\* addAlleq puts as many elements behind the list as it copies.
LEMMA AppendStep ==
  ASSUME IInv, NEW x \in Names, Live(x), NEW s \in Seq(Elements),
         Realloc(x, addedAll(Buf(x), s)) \/ Write(x, addedAll(Buf(x), s))
  PROVE  IInv' /\ Abstract!Become(x, Val[x] \o s)
<1> DEFINE b == Buf(x)
<1>1. Realloc(x, addedAll(b, s)) \/ Write(x, addedAll(b, s))
  OBVIOUS
<1>2. Sound(b) /\ Val[x] = b.item
  BY Seen
<1> HIDE DEF b
<1>3. PICK c \in Nat : /\ Len(b.item) + Len(s) <= c
                       /\ addedAll(b, s) = [cap |-> c, room |-> c, item |-> b.item \o s]
  BY <1>2, AddedAllIs
<1> DEFINE t == b.item \o s
<1>4. Len(b.item) \in Nat /\ b.item \in Seq(Elements) /\ Len(s) \in Nat
  BY <1>2, ItemFacts
<1>5. t \in Seq(Elements) /\ Len(t) = Len(b.item) + Len(s)
  BY <1>2, <1>3, <1>4
<1> HIDE DEF t
<1>6. addedAll(b, s) = [cap |-> c, room |-> c, item |-> t]
  BY <1>3 DEF t
<1>7. Sound(addedAll(b, s)) /\ addedAll(b, s).item = t
  <2>1. Len(t) <= c
    BY <1>3, <1>5
  <2> QED BY <1>5, <1>6, <2>1, SeqSound
<1>8. IInv' /\ Abstract!Become(x, t)
  BY <1>1, <1>7, Turned DEF Gets
<1> QED BY <1>2, <1>8 DEF t

\* addAlleq of any two lists keeps the buffers sound; what it appends are the elements of the
\* second list, unless a list is added to itself and moves.
LEMMA AddAllStep ==
  ASSUME IInv, NEW x \in Names, NEW y \in Names, AddAll(x, y)
  PROVE  IInv' /\ (~SelfAppend => Abstract!AddAll(x, y))
<1>1. /\ Live(x) /\ Live(y)
      /\ \/ Realloc(x, addedAll(Buf(x), Buf(y).item)) \/ Write(x, addedAll(Buf(x), Buf(y).item))
         \/ SelfAppend /\ AppendsFreed(x)
  BY DEF AddAll
<1>2. /\ Abstract!Live(x) /\ Abstract!Live(y)
      /\ Buf(y).item \in Seq(Elements) /\ Val[y] = Buf(y).item
  BY <1>1, Seen
<1>3. CASE Realloc(x, addedAll(Buf(x), Buf(y).item)) \/ Write(x, addedAll(Buf(x), Buf(y).item))
  <2>1. IInv' /\ Abstract!Become(x, Val[x] \o Val[y])
    BY <1>1, <1>2, <1>3, AppendStep
  <2> QED BY <1>2, <2>1 DEF Abstract!AddAll
<1>4. CASE SelfAppend /\ AppendsFreed(x)
  <2>1. PICK p \in FreeBlocks \cup {ref[x]}, s \in [DOMAIN Buf(x).item -> Elements] :
          Place(x, {ref[x]}, p, addedAll(Buf(x), s))
    BY <1>4 DEF AppendsFreed
  <2>2. Realloc(x, addedAll(Buf(x), s))
    BY <2>1 DEF Realloc
  <2>3. s \in Seq(Elements)
    <3>1. Buf(x).item \in Seq(Elements)
      BY <1>1, Seen
    <3>2. DOMAIN Buf(x).item = 1 .. Len(Buf(x).item) /\ Len(Buf(x).item) \in Nat
      BY <3>1
    <3> QED BY <3>2
  <2> QED BY <1>1, <1>4, <2>2, <2>3, AppendStep
<1> QED BY <1>1, <1>3, <1>4

\* pop shortens the list by one.
LEMMA PopStep ==
  ASSUME IInv, NEW x \in Names, Pop(x)
  PROVE  IInv' /\ Abstract!Pop(x)
<1> DEFINE b == Buf(x)
<1> DEFINE n == Len(b.item)
<1>1. Live(x) /\ b.item # <<>> /\ Write(x, setlen(b, n - 1))
  BY DEF Pop
<1>2. Sound(b) /\ Val[x] = b.item /\ Abstract!Live(x)
  BY <1>1, Seen
<1> HIDE DEF b
<1>3. n \in 1 .. b.cap /\ n - 1 \in Nat /\ b.item \in [1 .. n -> Elements] /\ b.item \in Seq(Elements)
      /\ b \in Buffer /\ b.cap \in Nat /\ b = [cap |-> b.cap, room |-> b.cap, item |-> b.item]
  BY <1>1, <1>2, ItemFacts DEF Sound
<1> DEFINE t == [i \in 1 .. n - 1 |-> b.item[i]]
<1>4. setlen(b, n - 1) = [cap |-> b.cap, room |-> b.cap, item |-> t]
  <2> DEFINE u == [i \in 1 .. n - 1 |-> IF i <= Len(b.item) THEN b.item[i] ELSE Unset]
  <2>1. setlen(b, n - 1) = [b EXCEPT !.item = u]
    <3> HIDE DEF n
    <3> QED BY <1>3, SetLength
  <2>2. u = t
    BY <1>3
  <2> HIDE DEF u, t, n
  <2>3. [b EXCEPT !.item = t] = [cap |-> b.cap, room |-> b.cap, item |-> t]
    BY <1>3
  <2> QED BY <2>1, <2>2, <2>3
<1>5. t \in [1 .. n - 1 -> Elements] /\ n - 1 \in 0 .. b.cap
  BY <1>3
<1>6. SubSeq(b.item, 1, n - 1) = t
  BY <1>3
<1> HIDE DEF t
<1>7. Sound(setlen(b, n - 1)) /\ setlen(b, n - 1).item = t
  <2> HIDE DEF n
  <2> QED BY <1>3, <1>4, <1>5, MadeSound
<1>8. IInv' /\ Abstract!Become(x, t)
  BY <1>1, <1>7, Turned DEF Gets
<1> QED BY <1>1, <1>2, <1>6, <1>8 DEF Abstract!Pop, Abstract!Front

\* A part of a list is copied to a new one.
LEMMA SublistStep ==
  ASSUME IInv, NEW x \in Names, NEW y \in Names, NEW from, NEW to,
         Sublist(x, y, from, to) \/ (Clone(x, y) /\ from = 0 /\ to = Len(Buf(y).item))
  PROVE  IInv' /\ \E i, j \in 0 .. Abstract!Length(y) : Abstract!Sublist(x, y, i, j)
<1> DEFINE b == Buf(y)
<1>1. Live(y) /\ Malloc(x, sublist(b, from, to))
  BY DEF Sublist, Clone
<1>2. Sound(b) /\ Val[y] = b.item /\ Abstract!Live(y) /\ Abstract!Length(y) = Len(b.item)
  BY <1>1, Seen
<1>3. Len(b.item) \in Nat /\ b.item \in Seq(Elements)
  BY <1>2, ItemFacts
<1>4. from \in 0 .. Len(b.item) /\ to \in 0 .. Len(b.item)
  BY <1>3 DEF Sublist
<1> HIDE DEF b
<1>5. PICK f, n \in Nat :
        /\ f + n <= Len(b.item) /\ Len(SubSeq(b.item, f + 1, f + n)) = n
        /\ sublist(b, from, to) = [cap |-> n, room |-> n, item |-> SubSeq(b.item, f + 1, f + n)]
  BY <1>2, <1>4, SublistIs
<1> DEFINE t == SubSeq(b.item, f + 1, f + n)
<1>6. t \in Seq(Elements) /\ Len(t) = n /\ sublist(b, from, to) = [cap |-> n, room |-> n, item |-> t]
  BY <1>3, <1>5
<1> HIDE DEF t
<1>7. Sound(sublist(b, from, to)) /\ sublist(b, from, to).item = t
  BY <1>6, SeqSound
<1>8. IInv' /\ Abstract!Become(x, t) /\ ~Abstract!Live(x)
  BY <1>1, <1>7, Turned, Seen DEF Gets, Malloc
<1>9. Abstract!Sublist(x, y, f, f + n)
  BY <1>2, <1>8 DEF Abstract!Sublist, t
<1>10. f \in 0 .. Len(b.item) /\ f + n \in 0 .. Len(b.item)
  BY <1>3, <1>5
<1> QED BY <1>2, <1>8, <1>9, <1>10

\* qsort changes the order only.
LEMMA SortStep ==
  ASSUME IInv, NEW x \in Names, Sort(x)
  PROVE  IInv' /\ Abstract!Sort(x)
<1> DEFINE b == Buf(x)
<1> DEFINE D == DOMAIN b.item
<1>1. Live(x) /\ b.item \in Seq(Values)
  BY DEF Sort
<1>2. PICK order \in Bijection(D, D) :
        LET s == [i \in D |-> b.item[order[i]]]
        IN  (\A i, j \in DOMAIN s : i < j => s[i] <= s[j]) /\ Write(x, [b EXCEPT !.item = s])
  BY DEF Sort
<1> DEFINE s == [i \in D |-> b.item[order[i]]]
<1>3. (\A i, j \in DOMAIN s : i < j => s[i] <= s[j]) /\ Write(x, [b EXCEPT !.item = s])
  BY <1>2
<1>4. Sound(b) /\ Val[x] = b.item /\ Abstract!Live(x)
  BY <1>1, Seen
<1>5. order \in [D -> D]
  BY <1>2 DEF Bijection, Injection
<1> HIDE DEF b
<1>6. b = [cap |-> b.cap, room |-> b.cap, item |-> b.item] /\ b.cap \in Nat
      /\ Len(b.item) \in 0 .. b.cap /\ b.item \in [1 .. Len(b.item) -> Elements] /\ D = 1 .. Len(b.item)
  BY <1>4, ItemFacts
<1>7. s \in [1 .. Len(b.item) -> Elements]
  BY <1>5, <1>6
<1> HIDE DEF D
<1>8. [b EXCEPT !.item = s] = [cap |-> b.cap, room |-> b.cap, item |-> s]
  <2> HIDE DEF s
  <2> QED BY <1>6
<1>9. Sound([b EXCEPT !.item = s]) /\ [b EXCEPT !.item = s].item = s
  <2> HIDE DEF s
  <2> QED BY <1>6, <1>7, <1>8, MadeSound
<1>10. IInv' /\ Abstract!Become(x, s)
  <2> HIDE DEF s
  <2> QED BY <1>1, <1>3, <1>9, Turned DEF Gets
<1>11. DOMAIN Val[x] = D /\ s = [i \in D |-> Val[x][order[i]]]
  BY <1>4 DEF D
<1>12. Abstract!Sort(x)
  <2> HIDE DEF s
  <2>1. order \in Bijection(D, D) /\ Val[x] \in Seq(Values)
    BY <1>1, <1>2, <1>4 DEF b
  <2>2. \E o \in Abstract!Bijection(DOMAIN Val[x], DOMAIN Val[x]) :
          LET t == [i \in DOMAIN Val[x] |-> Val[x][o[i]]]
          IN  (\A i, j \in DOMAIN t : i < j => t[i] <= t[j]) /\ Abstract!Become(x, t)
    <3>1. order \in Abstract!Bijection(D, D)
      BY <2>1 DEF Bijection, Abstract!Bijection, Injection, Abstract!Injection, Surjection,
                  Abstract!Surjection, IsInjective, Abstract!IsInjective
    <3> QED BY <1>3, <1>10, <1>11, <3>1
  <2> QED BY <1>4, <2>1, <2>2 DEF Abstract!Sort
<1> QED BY <1>10, <1>12

\* filter works in place.
LEMMA FilterStep ==
  ASSUME IInv, NEW x \in Names, NEW keep, Filter(x, keep)
  PROVE  IInv' /\ Abstract!Filter(x, keep)
<1> DEFINE b == Buf(x)
<1>1. Live(x) /\ Write(x, filtered(b, keep))
  BY DEF Filter
<1>2. Sound(b) /\ Val[x] = b.item /\ Abstract!Live(x)
  BY <1>1, Seen
<1> HIDE DEF b
<1>0. PICK m \in 0 .. Len(b.item) : \E at :
           /\ Picks(at, m, b.item, keep, Len(b.item))
           /\ filtered(b, keep) =
                [cap |-> b.cap, room |-> b.cap, item |-> [k \in 1 .. m |-> b.item[at[k]]]]
  BY <1>2, FilteredIs
<1>3. PICK at :
           /\ Picks(at, m, b.item, keep, Len(b.item))
           /\ filtered(b, keep) =
                [cap |-> b.cap, room |-> b.cap, item |-> [k \in 1 .. m |-> b.item[at[k]]]]
  BY <1>0
<1> DEFINE kept == {i \in DOMAIN b.item : b.item[i] \in keep}
<1> DEFINE s == [k \in 1 .. m |-> b.item[at[k]]]
<1>4. b.cap \in Nat /\ Len(b.item) \in 0 .. b.cap /\ b.item \in [1 .. Len(b.item) -> Elements]
      /\ b.item \in Seq(Elements)
  BY <1>2, ItemFacts
<1>5. Cardinality(kept) = m /\ at \in Bijection(1 .. m, kept) /\ DOMAIN at = 1 .. m
  BY <1>3, <1>4, PickedAll
<1>6. s \in [1 .. m -> Elements] /\ m \in 0 .. b.cap
  BY <1>3, <1>4 DEF Picks
<1>7. Sound(filtered(b, keep)) /\ filtered(b, keep).item = s
  <2>1. filtered(b, keep) = [cap |-> b.cap, room |-> b.cap, item |-> s]
    BY <1>3
  <2> HIDE DEF s
  <2> QED BY <1>4, <1>6, <2>1, MadeSound
<1>8. IInv' /\ Abstract!Become(x, s)
  <2> HIDE DEF s
  <2> QED BY <1>1, <1>7, Turned DEF Gets
<1>9. \A j, k \in DOMAIN at : j < k => at[j] < at[k]
  BY <1>3, <1>5 DEF Picks
<1>10. Abstract!Filter(x, keep)
  <2>1. kept = {i \in DOMAIN Val[x] : Val[x][i] \in keep} /\ s = [k \in DOMAIN at |-> Val[x][at[k]]]
    BY <1>2, <1>5
  <2> HIDE DEF kept, s
  <2>3. Abstract!Cardinality(kept) = Cardinality(kept)
    BY DEF Cardinality, Abstract!Cardinality
  <2>2. at \in Abstract!Bijection(1 .. Abstract!Cardinality(kept), kept)
    BY <1>5, <2>3 DEF Bijection, Abstract!Bijection, Injection, Abstract!Injection, Surjection,
                Abstract!Surjection, IsInjective, Abstract!IsInjective
  <2> QED BY <1>2, <1>8, <1>9, <2>1, <2>2 DEF Abstract!Filter
<1> QED BY <1>8, <1>10

\* map makes a new list.
LEMMA MapStep ==
  ASSUME IInv, NEW x \in Names, NEW f \in Maps, Map(x, f)
  PROVE  IInv' /\ Abstract!Map(x, f)
<1> DEFINE b == Buf(x)
<1>1. Live(x) /\ Renew(x, mapped(b, f))
  BY DEF Map
<1>2. Sound(b) /\ Val[x] = b.item /\ Abstract!Live(x)
  BY <1>1, Seen
<1> HIDE DEF b
<1> DEFINE n == Len(b.item)
<1> DEFINE s == [i \in 1 .. n |-> f[b.item[i]]]
<1>3. mapped(b, f) = [cap |-> n, room |-> n, item |-> s] /\ s \in [1 .. n -> Elements]
  BY <1>2, MappedIs
<1>4. n \in Nat /\ n \in 0 .. n /\ DOMAIN b.item = 1 .. n
  BY <1>2, ItemFacts
<1>5. s = [i \in DOMAIN Val[x] |-> f[Val[x][i]]]
  BY <1>2, <1>4
<1> HIDE DEF n, s
<1>6. Sound(mapped(b, f)) /\ mapped(b, f).item = s
  BY <1>3, <1>4, MadeSound
<1>7. IInv' /\ Abstract!Become(x, s)
  BY <1>1, <1>6, Turned DEF Gets
<1> QED BY <1>2, <1>5, <1>7 DEF Abstract!Map

\* flatmap, of any list: the buffer stays sound.  Of one element at most: the join.
LEMMA FlatmapStep ==
  ASSUME IInv, NEW x \in Names, NEW f \in Mappers, Flatmap(x, f)
  PROVE  IInv' /\ (~FlatmapAny => Abstract!Flatmap(x, f))
<1> DEFINE b == Buf(x)
<1>1. Live(x) /\ (FlatmapAny \/ FirstOnly(b, f))
      /\ (Write(x, flattened(b, f)) \/ Renew(x, flattened(b, f)))
  BY DEF Flatmap
<1>2. Sound(b) /\ Val[x] = b.item /\ Abstract!Live(x)
  BY <1>1, Seen
<1> HIDE DEF b
<1>3. Sound(flattened(b, f))
  BY <1>2, FlattenedSound
<1>4. IInv' /\ Abstract!Become(x, flattened(b, f).item)
  BY <1>1, <1>3, Turned DEF Gets
<1>5. ASSUME ~FlatmapAny
      PROVE  Abstract!Flatmap(x, f)
  <2>1. flattened(b, f).item = FlattenSeq(Results(b, f))
    BY <1>1, <1>2, <1>5, FlattenedIs
  <2>2. Results(b, f) = [i \in DOMAIN Val[x] |-> f[Val[x][i]]]
    BY <1>2 DEF Results
  <2>3. FlattenSeq(Results(b, f)) = Abstract!FlattenSeq(Results(b, f))
    BY DEF FlattenSeq, Abstract!FlattenSeq
  <2> QED BY <1>2, <1>4, <2>1, <2>2, <2>3 DEF Abstract!Flatmap
<1> QED BY <1>4, <1>5

\* A list that is destroyed, and nothing else.
LEMMA GoneStep ==
  ASSUME IInv, NEW x \in Names, Destroy(x)
  PROVE  IInv' /\ Abstract!Destroy(x)
<1>1. Live(x) /\ heap' = Restrict(heap, DOMAIN heap \ {ref[x]}) /\ ref' = [ref EXCEPT ![x] = Null]
  BY DEF Destroy
<1>2. Owners'
  BY DestroyStep DEF IInv
<1>3. DOMAIN heap' = DOMAIN heap \ {ref[x]} /\ \A q \in DOMAIN heap' : heap'[q] = heap[q]
  BY <1>1 DEF Restrict
<1>4. Sizes'
  BY <1>3 DEF IInv, Sizes
<1>5. ref'[x] = Null /\ \A y \in Names : y # x => ref'[y] = ref[y]
  BY <1>1 DEF IInv, Owners
<1>6. \A y \in Names : y # x /\ Live(y) => ref[y] \in DOMAIN heap'
  BY <1>1, <1>3 DEF IInv, Owners, Ownership
<1>7. Val' = [y \in Names |-> IF ref'[y] # Null THEN heap'[ref'[y]].item ELSE Null]
  BY DEF Val, Live, Buf
<1>8. \A y \in Names : (IF ref'[y] # Null THEN heap'[ref'[y]].item ELSE Null)
                        = IF y = x THEN Null ELSE Val[y]
  BY <1>3, <1>5, <1>6 DEF Val, Live, Buf
<1>9. Val' = [Val EXCEPT ![x] = Null]
  BY <1>7, <1>8 DEF Val
<1>10. Abstract!Live(x)
  BY <1>1, Seen
<1> QED BY <1>2, <1>4, <1>9, <1>10 DEF IInv, Abstract!Destroy, Abstract!Become

-------------------------------------------------------------------------
(* The theorems                                                            *)

\* Nothing happens.
LEMMA IdleStep == IInv /\ UNCHANGED vars => IInv' /\ Val' = Val
  BY DEF vars, IInv, Owners, Ownership, Sizes, Live, Val, Buf

\* Every step keeps the invariant, and is a step of the abstract lists.
LEMMA ListStep ==
  ASSUME IInv, [Next]_vars
  PROVE  IInv' /\ (~FlatmapAny /\ ~SelfAppend => [Abstract!Next]_Val)
<1>1. CASE UNCHANGED vars
  BY <1>1, IdleStep
<1>2. CASE Next
  <2> SUFFICES IInv' /\ (~FlatmapAny /\ ~SelfAppend => Abstract!Next)
    OBVIOUS
  <2>1. PICK x \in Names :
          \/ \E n \in 0 .. MaxCap : New_cap(x, n) \/ New_len(x, n) \/ Resize(x, n)
          \/ \E n \in 0 .. MaxCap : \E items \in [1 .. n -> Values], c \in n .. MaxCap :
               New_of(x, items, c)
          \/ \E v \in Values : Add(x, v) \/ \E i \in 1 .. MaxLen : Assign(x, i, v)
          \/ \E y \in Names : AddAll(x, y) \/ Clone(x, y)
          \/ \E y \in Names : \E from, to \in 0 .. MaxLen : Sublist(x, y, from, to)
          \/ Trim(x) \/ Pop(x) \/ Sort(x) \/ Foreach(x) \/ Destroy(x)
          \/ \E keep \in SUBSET Elements : Filter(x, keep)
          \/ \E f \in Maps : Map(x, f)
          \/ \E f \in Mappers : Flatmap(x, f)
    BY <1>2 DEF Next
  <2>2. CASE \E n \in 0 .. MaxCap : New_cap(x, n) \/ New_len(x, n)
    <3>1. PICK n \in 0 .. MaxCap : New_cap(x, n) \/ New_len(x, n)
      BY <2>2
    <3>2. n \in Nat
      OBVIOUS
    <3>3. IInv' /\ Abstract!New(x)
      BY <3>1, <3>2, BlankStep
    <3> QED BY <3>3 DEF Abstract!Next
  <2>3. CASE \E n \in 0 .. MaxCap : \E items \in [1 .. n -> Values], c \in n .. MaxCap :
               New_of(x, items, c)
    <3>1. PICK n \in 0 .. MaxCap : \E items \in [1 .. n -> Values], c \in n .. MaxCap :
                 New_of(x, items, c)
      BY <2>3
    <3>0. PICK items \in [1 .. n -> Values], c \in n .. MaxCap : New_of(x, items, c)
      BY <3>1
    <3>2. n \in Nat /\ c \in Nat /\ n <= c
      BY ListAssumption
    <3>3. IInv' /\ Abstract!New(x)
      BY <3>0, <3>2, FilledStep
    <3> QED BY <3>3 DEF Abstract!Next
  <2>4. CASE Trim(x) \/ \E n \in 0 .. MaxCap : Resize(x, n)
    <3>1. PICK n \in Nat : Resize(x, n) \/ (Trim(x) /\ n = Len(Buf(x).item))
      <4>1. Trim(x) => Len(Buf(x).item) \in Nat
        BY Seen, ItemFacts DEF Trim
      <4> QED BY <2>4, <4>1
    <3>2. IInv' /\ \E i \in 0 .. Abstract!Length(x) : Abstract!Resize(x, i)
      BY <3>1, ResizeStep
    <3> QED BY <3>2 DEF Abstract!Next
  <2>5. CASE \E v \in Values : Add(x, v)
    BY <2>5, AddStep DEF Abstract!Next
  <2>6. CASE \E v \in Values : \E i \in 1 .. MaxLen : Assign(x, i, v)
    <3>1. PICK v \in Values, i \in 1 .. MaxLen : Assign(x, i, v)
      BY <2>6
    <3>2. IInv' /\ Abstract!Assign(x, i, v) /\ i \in 1 .. Abstract!Length(x)
      BY <3>1, AssignStep
    <3> QED BY <3>2 DEF Abstract!Next
  <2>7. CASE \E y \in Names : AddAll(x, y)
    BY <2>7, AddAllStep DEF Abstract!Next
  <2>8. CASE \E y \in Names : Clone(x, y) \/ \E from, to \in 0 .. MaxLen : Sublist(x, y, from, to)
    <3>1. PICK y \in Names : Clone(x, y) \/ \E from, to \in 0 .. MaxLen : Sublist(x, y, from, to)
      BY <2>8
    <3>2. \E from, to : Sublist(x, y, from, to) \/ (Clone(x, y) /\ from = 0 /\ to = Len(Buf(y).item))
      BY <3>1
    <3>3. IInv' /\ \E i, j \in 0 .. Abstract!Length(y) : Abstract!Sublist(x, y, i, j)
      BY <3>2, SublistStep
    <3> QED BY <3>3 DEF Abstract!Next
  <2>9. CASE Pop(x) \/ Sort(x) \/ Foreach(x) \/ Destroy(x)
    BY <2>9, PopStep, SortStep, GoneStep DEF Abstract!Next, Foreach
  <2>10. CASE \E keep \in SUBSET Elements : Filter(x, keep)
    <3>1. Elements = Abstract!Elements
      BY DEF Elements, Abstract!Elements
    <3> QED BY <2>10, <3>1, FilterStep DEF Abstract!Next
  <2>11. CASE \E f \in Maps : Map(x, f)
    BY <2>11, MapStep DEF Abstract!Next
  <2>12. CASE \E f \in Mappers : Flatmap(x, f)
    BY <2>12, FlatmapStep DEF Abstract!Next
  <2> QED BY <2>1, <2>2, <2>3, <2>4, <2>5, <2>6, <2>7, <2>8, <2>9, <2>10, <2>11, <2>12
<1> QED BY <1>1, <1>2

\* Before anything was made.
LEMMA ListInit == Init => IInv /\ Abstract!Init
<1> SUFFICES ASSUME Init PROVE IInv /\ Abstract!Init
  OBVIOUS
<1>1. DOMAIN heap = {} /\ ref = [x \in Names |-> Null]
  BY DEF Init
<1>2. Owners /\ Sizes
  BY <1>1 DEF Owners, Ownership, Live, Sizes
<1>3. Val = [x \in Names |-> Null]
  <2>1. \A x \in Names : ref[x] = Null
    BY <1>1
  <2> QED BY <2>1 DEF Val, Live, Buf
<1> QED BY <1>2, <1>3 DEF IInv, Abstract!Init

\* The invariant holds in every state.
THEOREM ListInvariance == Spec => []IInv
<1>1. Init => IInv
  BY ListInit
<1>2. IInv /\ [Next]_vars => IInv'
  BY ListStep
<1> QED BY <1>1, <1>2, PTL DEF Spec

\* Every list has a buffer of its own, and every buffer has a list: no operation leaks the
\* list it is given, frees it twice or returns it freed.
THEOREM OneOwner == Spec => []Ownership
<1>1. IInv => Ownership
  BY DEF IInv, Owners
<1> QED BY <1>1, ListInvariance, PTL

\* Every buffer that is allocated is a capacity, the room malloc gave, and elements; and
\* every pointer is Null or an address.
THEOREM TypeCorrect == Spec => []TypeOK
<1>1. IInv => TypeOK
  BY DEF IInv, Owners, Sizes, Sound, TypeOK
<1> QED BY <1>1, ListInvariance, PTL

\* The elements of a list are inside the memory behind its pointer and the stored capacity
\* is what was asked of malloc, whatever is passed to flatmap, and through every realloc.
THEOREM LayoutKept == Spec => []Layout
<1>1. IInv => Layout
  BY Seen DEF Layout, Sound
<1> QED BY <1>1, ListInvariance, PTL

\* The loops of filter, map, flatmap (of one element at most), addAlleq (of a list to itself
\* only where it fits) and resize compute what they are named for: the elements kept, in
\* their order, and so on.
THEOREM LoopsKept == ASSUME ~FlatmapAny, ~SelfAppend PROVE Spec => LoopsCorrect
<1>1. IInv => RightLoops
  <2> SUFFICES ASSUME IInv PROVE RightLoops
    OBVIOUS
  <2>1. \A x \in Names : \A keep \in SUBSET Elements : Filter(x, keep) => Abstract!Filter(x, keep)
    BY FilterStep
  <2>2. \A x \in Names : \A f \in Mappers : Flatmap(x, f) => Abstract!Flatmap(x, f)
    BY FlatmapStep
  <2>3. \A x \in Names : \A f \in Maps : Map(x, f) => Abstract!Map(x, f)
    BY MapStep
  <2>4. \A x \in Names : \A n \in 0 .. MaxCap : Resize(x, n) => Abstract!Resize(x, n)
    <3>1. \A n \in 0 .. MaxCap : n \in Nat
      OBVIOUS
    <3> QED BY <3>1, ResizeStep
  <2>5. \A x, y \in Names : AddAll(x, y) => Abstract!AddAll(x, y)
    BY AddAllStep
  <2> QED BY <2>1, <2>2, <2>3, <2>4, <2>5 DEF RightLoops
<1> QED BY <1>1, ListInvariance, PTL DEF LoopsCorrect

\* The buffers implement the sequences of Lists: growing, moving and re-using buffers changes
\* no element, and no operation touches another list; flatmap and addAlleq as in LoopsKept.
THEOREM Refinement == ASSUME ~FlatmapAny, ~SelfAppend PROVE Spec => ImplementsLists
<1>1. Init => Abstract!Init
  BY ListInit
<1>2. IInv /\ [Next]_vars => [Abstract!Next]_Val
  BY ListStep
<1> QED BY <1>1, <1>2, ListInvariance, PTL DEF Spec, ImplementsLists, Abstract!Spec
=========================================================================
