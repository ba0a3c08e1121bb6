-------------------------- MODULE MemDebugProofs --------------------------
(* Theorems about the allocation tracker, for any number of threads, any     *)
(* finite set of addresses, every hash function and every choice of failing  *)
(* calls of libc.                                                            *)
EXTENDS MemDebug, FiniteSetTheorems, TLAPS

-------------------------------------------------------------------------
(* The inductive invariant.                                                *)

Record == [ptr : Addrs, site : Sites]

\* No pointer has two records in the chain c.
Distinct(c) == \A i, j \in DOMAIN c : c[i].ptr = c[j].ptr => i = j

Elems(c) == {c[i] : i \in DOMAIN c}

\* The chains are those of a hash map: a record is in the bucket of its pointer.
Hashed ==
  \A b \in Buckets :
    Distinct(chain[b]) /\ \A i \in DOMAIN chain[b] : Hash[chain[b][i].ptr] = b

\* What the map contains.
Table == UNION {Elems(chain[b]) : b \in Buckets}

Recorded(p) == \E r \in Table : r.ptr = p

\* The thread t has an address that is allocated and not in the map.
InFlight(t) == Releasing(t) \/ pc[t] = "register"

\* Every allocated address is in the map, in flight in one thread, or lost to the map
\* when it ran out of memory.
Tracked ==
  /\ \A r \in Table : r.ptr \in heap
  /\ \A t \in Threads : InFlight(t) => ptr[t] \in heap /\ ~Recorded(ptr[t])
  /\ \A s, t \in Threads : InFlight(s) /\ InFlight(t) /\ ptr[s] = ptr[t] => s = t

\* What the threads know inside of the library.
Inside ==
  /\ \A t \in Threads : pc[t] = "realloc" => lock = t
  /\ \A t \in Threads : pc[t] \in {"register", "realloc"} => site[t] \in Sites
  /\ \A t \in Threads : pc[t] = "panic" => status = "panic"
  /\ ~initialized => Table = {}

\* The map contains the pointers of the program, with their calls.
Noted == \A r \in Record : r \in Table <=> held[r.ptr] = r.site

\* The count is right unless the program freed NULL, or ran out of memory inside the mutex,
\* after alloc_add has counted a record that it cannot insert.
Counted ==
  ~NullFree /\ (\A t \in Threads : lock = t => pc[t] # "oom") =>
    num_allocs = Cardinality(Records)

IInv == TypeOK /\ Hashed /\ Tracked /\ Inside /\ Noted /\ Counted

-------------------------------------------------------------------------
(* Numbers.                                                                *)

\* What a size_t does when it is incremented and decremented.
LEMMA Wraps ==
  ASSUME NEW n \in 0 .. SizeMax
  PROVE  /\ (n + 1) % (SizeMax + 1) \in 0 .. SizeMax
         /\ n < SizeMax => (n + 1) % (SizeMax + 1) = n + 1
         /\ (n + SizeMax) % (SizeMax + 1) \in 0 .. SizeMax
         /\ n > 0 => (n + SizeMax) % (SizeMax + 1) = n - 1
<1> DEFINE m == SizeMax + 1
<1>1. SizeMax \in Nat
  BY BoundsAssumption
<1>2. m \in Nat /\ m > 0 /\ n \in Nat /\ n < m
  BY <1>1
<1>3. \A k \in Nat : k % m \in 0 .. m - 1
  BY <1>2
<1>4. \A k \in Nat : k < m => k % m = k
  BY <1>2
<1>5. \A k \in Nat : k < m => (k + m) % m = k
  BY <1>2, Z3
<1> QED
  <2>1. (n + 1) % m \in 0 .. SizeMax /\ (n + SizeMax) % m \in 0 .. SizeMax
    <3>1. n + 1 \in Nat /\ n + SizeMax \in Nat /\ m - 1 = SizeMax
      BY <1>1
    <3> QED BY <3>1, <1>3
  <2>2. n < SizeMax => (n + 1) % m = n + 1
    <3>1. n < SizeMax => n + 1 \in Nat /\ n + 1 < m
      BY <1>1
    <3> QED BY <3>1, <1>4
  <2>3. n > 0 => (n + SizeMax) % m = n - 1
    <3>1. n > 0 => n - 1 \in Nat /\ n - 1 < m /\ n + SizeMax = (n - 1) + m
      BY <1>1
    <3> QED BY <3>1, <1>5
  <2> QED BY <2>1, <2>2, <2>3

-------------------------------------------------------------------------
(* The map.                                                                *)

\* A record that is appended to its chain.
LEMMA Appended ==
  ASSUME NEW c \in Seq(Record), Distinct(c), NEW r \in Record, \A i \in DOMAIN c : c[i].ptr # r.ptr
  PROVE  /\ Append(c, r) \in Seq(Record) /\ Len(Append(c, r)) = Len(c) + 1
         /\ Distinct(Append(c, r)) /\ Elems(Append(c, r)) = Elems(c) \cup {r}
<1> DEFINE d == Append(c, r)
<1>1. d \in Seq(Record) /\ Len(d) = Len(c) + 1 /\ DOMAIN d = 1 .. Len(c) + 1
  OBVIOUS
<1>2. d[Len(c) + 1] = r /\ \A i \in DOMAIN c : i \in DOMAIN d /\ d[i] = c[i]
  OBVIOUS
<1>3. \A i \in DOMAIN d : i \in DOMAIN c \/ i = Len(c) + 1
  BY <1>1
<1>4. Len(c) + 1 \in DOMAIN d
  BY <1>1
<1> HIDE DEF d
<1>5. Distinct(d)
  BY <1>2, <1>3 DEF Distinct
<1>6. Elems(d) = Elems(c) \cup {r}
  BY <1>2, <1>3, <1>4 DEF Elems
<1> QED BY <1>1, <1>5, <1>6 DEF d

\* Two chains with the same records in the same order are one.
LEMMA SameChain ==
  ASSUME NEW c \in Seq(Record), NEW d \in Seq(Record), Len(c) = Len(d),
         \A i \in 1 .. Len(c) : c[i] = d[i]
  PROVE  c = d
<1>1. c = [i \in 1 .. Len(c) |-> c[i]] /\ d = [i \in 1 .. Len(d) |-> d[i]]
  OBVIOUS
<1> QED BY <1>1

\* A sequence and another behind it.
LEMMA Joined ==
  ASSUME NEW S, NEW s \in Seq(S), NEW t \in Seq(S)
  PROVE  /\ s \o t \in Seq(S) /\ Len(s \o t) = Len(s) + Len(t)
         /\ s \o t = [k \in 1 .. Len(s) + Len(t) |-> IF k <= Len(s) THEN s[k] ELSE t[k - Len(s)]]
<1>1. s \o t \in Seq(S) /\ Len(s \o t) = Len(s) + Len(t) /\ Len(s) \in Nat /\ Len(t) \in Nat
  OBVIOUS
<1> DEFINE u == s \o t
<1>2. \A k \in 1 .. Len(s) + Len(t) : u[k] = IF k <= Len(s) THEN s[k] ELSE t[k - Len(s)]
  OBVIOUS
<1>3. u \in Seq(S) /\ Len(u) = Len(s) + Len(t)
  BY <1>1
<1> HIDE DEF u
<1>4. u = [k \in 1 .. Len(s) + Len(t) |-> u[k]]
  <2>1. u \in [1 .. Len(u) -> S]
    BY <1>3
  <2> QED BY <1>3, <2>1
<1>5. u = [k \in 1 .. Len(s) + Len(t) |-> IF k <= Len(s) THEN s[k] ELSE t[k - Len(s)]]
  BY <1>2, <1>4
<1>6. s \o t = u
  BY DEF u
<1> QED BY <1>3, <1>5, <1>6

\* Whether the record is in the array slot or in a node, the others stay in their order.
LEMMA WithoutAt ==
  ASSUME NEW c \in Seq(Record), NEW p, NEW k \in 1 .. Len(c), c[k].ptr = p,
         First(c, p) = k
  PROVE  Without(c, p) = SubSeq(c, 1, k - 1) \o SubSeq(c, k + 1, Len(c))
<1> DEFINE n == Len(c)
           left == SubSeq(c, 1, k - 1)
           right == SubSeq(c, k + 1, n)
<1>1. n \in Nat /\ k \in 1 .. n /\ DOMAIN c = 1 .. n
  OBVIOUS
<1>2. ~(\A i \in DOMAIN c : c[i].ptr # p)
  BY <1>1
<1>3. CASE k = 1 /\ n > 1
  <2> DEFINE slot == <<c[2]>>
             rest == SubSeq(c, 3, n)
             tail == SubSeq(c, 2, n)
  <2>1. Without(c, p) = slot \o rest
    BY <1>1, <1>2, <1>3 DEF Without
  <2>2. slot \in Seq(Record) /\ Len(slot) = 1 /\ slot[1] = c[2]
    <3>1. c[2] \in Record
      BY <1>1, <1>3
    <3> QED BY <3>1
  <2>3. left \in Seq(Record) /\ Len(left) = 0 /\ right = tail
    BY <1>1, <1>3
  <2>4. rest \in Seq(Record) /\ Len(rest) = n - 2 /\ \A i \in 1 .. n - 2 : rest[i] = c[i + 2]
    <3>1. rest \in Seq(Record) /\ Len(rest) = n - 2
      BY <1>1, <1>3
    <3>2. ASSUME NEW i \in 1 .. n - 2
          PROVE  rest[i] = c[i + 2]
      <4>1. 3 + i - 1 = i + 2 /\ i \in 1 .. n - 3 + 1
        BY <1>1
      <4> QED BY <4>1, <1>1
    <3> QED BY <3>1, <3>2
  <2>5. tail \in Seq(Record) /\ Len(tail) = n - 1 /\ \A i \in 1 .. n - 1 : tail[i] = c[i + 1]
    BY <1>1, <1>3
  <2> HIDE DEF slot, rest, tail, left, right, n
  <2>6. /\ slot \o rest \in Seq(Record) /\ Len(slot \o rest) = n - 1
        /\ \A i \in 1 .. n - 1 : (slot \o rest)[i] = IF i = 1 THEN slot[1] ELSE rest[i - 1]
    <3>1. slot \o rest \in Seq(Record)
      BY <2>2, <2>4
    <3>2. slot \o rest = [i \in 1 .. Len(slot) + Len(rest) |->
                            IF i <= Len(slot) THEN slot[i] ELSE rest[i - Len(slot)]]
      BY <2>2, <2>4, Joined, Zenon
    <3>3. Len(slot) + Len(rest) = n - 1 /\ n - 1 \in Nat
      BY <2>2, <2>4, <1>1, <1>3
    <3>4. slot \o rest = [i \in 1 .. n - 1 |-> IF i <= 1 THEN slot[i] ELSE rest[i - 1]]
      BY <3>2, <3>3, <2>2, Zenon
    <3>5. Len(slot \o rest) = n - 1
      BY <3>1, <3>3, <3>4
    <3>6. ASSUME NEW i \in 1 .. n - 1
          PROVE  (slot \o rest)[i] = IF i = 1 THEN slot[1] ELSE rest[i - 1]
      <4>1. (slot \o rest)[i] = IF i <= 1 THEN slot[i] ELSE rest[i - 1]
        BY <3>4, Zenon
      <4>2. i <= 1 <=> i = 1
        BY <3>3
      <4> QED BY <4>1, <4>2, Zenon
    <3> QED BY <3>1, <3>5, <3>6, Zenon
  <2>7. left \o tail \in Seq(Record) /\ Len(left \o tail) = n - 1
    BY <2>3, <2>5, <1>1
  <2>8. \A i \in 1 .. n - 1 : (left \o tail)[i] = tail[i]
    BY <2>3, <2>5, <1>1
  <2>9. ASSUME NEW i \in 1 .. n - 1
        PROVE  (slot \o rest)[i] = (left \o tail)[i]
    <3>1. CASE i = 1
      <4>1. (slot \o rest)[i] = slot[1]
        BY ONLY <2>6, <2>9, <3>1, Zenon
      <4>2. (left \o tail)[i] = tail[i] /\ tail[i] = c[i + 1]
        BY ONLY <2>5, <2>8, <2>9, Zenon
      <4>3. c[i + 1] = slot[1]
        BY ONLY <2>2, <3>1
      <4> QED BY ONLY <4>1, <4>2, <4>3
    <3>2. CASE i # 1
      <4>1. i - 1 \in 1 .. n - 2 /\ (i - 1) + 2 = i + 1
        BY <1>1, <3>2
      <4>2. (slot \o rest)[i] = rest[i - 1]
        BY ONLY <2>6, <2>9, <3>2, Zenon
      <4>3. (left \o tail)[i] = tail[i] /\ tail[i] = c[i + 1]
        BY ONLY <2>5, <2>8, <2>9, Zenon
      <4>4. rest[i - 1] = c[(i - 1) + 2]
        BY ONLY <2>4, <4>1, Zenon
      <4> QED BY ONLY <4>1, <4>2, <4>3, <4>4
    <3> QED BY <3>1, <3>2
  <2>10. slot \o rest = left \o tail
    BY <2>6, <2>7, <2>9, SameChain
  <2> QED BY <2>1, <2>3, <2>10 DEF left, right, n
<1>4. CASE k = 1 /\ n = 1
  <2>1. n = 1
    BY <1>4
  <2>2. Without(c, p) = <<>>
    BY <1>1, <1>2, <1>4 DEF Without
  <2>3. left \in Seq(Record) /\ Len(left) = 0 /\ right \in Seq(Record) /\ Len(right) = 0
    BY <1>1, <1>4, <2>1
  <2>4. left = <<>> /\ right = <<>>
    <3> HIDE DEF left, right
    <3> QED BY <2>3
  <2> HIDE DEF left, right
  <2>5. left \o right = <<>>
    BY <2>4
  <2> QED BY <2>2, <2>5 DEF left, right
<1>5. CASE k > 1
  BY <1>2, <1>5 DEF Without
<1>6. (k = 1 /\ n > 1) \/ (k = 1 /\ n = 1) \/ k > 1
  BY <1>1
<1> HIDE DEF left, right
<1> QED BY <1>3, <1>4, <1>5, <1>6

\* alloc_remove takes the record of a pointer out of its chain, and no other.
LEMMA Removed ==
  ASSUME NEW c \in Seq(Record), Distinct(c), NEW p
  PROVE  /\ Without(c, p) \in Seq(Record)
         /\ Distinct(Without(c, p)) /\ Elems(Without(c, p)) = {r \in Elems(c) : r.ptr # p}
         /\ Len(Without(c, p)) = IF \E i \in DOMAIN c : c[i].ptr = p THEN Len(c) - 1 ELSE Len(c)
<1>1. CASE \A i \in DOMAIN c : c[i].ptr # p
  <2>1. Without(c, p) = c
    BY <1>1 DEF Without
  <2>2. Elems(c) = {r \in Elems(c) : r.ptr # p}
    BY <1>1 DEF Elems
  <2> QED BY <1>1, <2>1, <2>2
<1>2. CASE \E i \in DOMAIN c : c[i].ptr = p
  <2>1. PICK k \in DOMAIN c : c[k].ptr = p
    BY <1>2
  <2>2. k \in 1 .. Len(c) /\ \A i \in DOMAIN c : c[i].ptr = p => i = k
    BY <2>1 DEF Distinct
  <2>3. First(c, p) = k
    <3>1. \A j \in 1 .. k - 1 : c[j].ptr # p
      BY <2>2
    <3> QED BY <2>1, <2>2, <3>1 DEF First
  <2> DEFINE left == SubSeq(c, 1, k - 1)
             right == SubSeq(c, k + 1, Len(c))
             w == left \o right
  <2>4. Without(c, p) = w
    BY <1>2, <2>2, <2>3, WithoutAt
  <2>l. left \in Seq(Record) /\ Len(left) = k - 1 /\ \A i \in 1 .. k - 1 : left[i] = c[i]
    BY <2>2
  <2>r. /\ right \in Seq(Record) /\ Len(right) = Len(c) - k
        /\ \A i \in 1 .. Len(c) - k : right[i] = c[i + k]
    BY <2>2
  <2>n. Len(c) \in Nat /\ k \in Nat
    BY <2>2
  <2> HIDE DEF left, right
  <2>5. w \in Seq(Record) /\ Len(w) = Len(c) - 1
    BY <2>l, <2>r, <2>n
  <2>6. \A i \in 1 .. Len(c) - 1 : w[i] = IF i < k THEN c[i] ELSE c[i + 1]
    <3> SUFFICES ASSUME NEW i \in 1 .. Len(c) - 1
                 PROVE  w[i] = IF i < k THEN c[i] ELSE c[i + 1]
      OBVIOUS
    <3>1. CASE i < k
      BY <3>1, <2>l, <2>r, <2>n
    <3>2. CASE ~(i < k)
      <4> DEFINE j == i - (k - 1)
      <4>1. j \in 1 .. Len(c) - k /\ j + k = i + 1
        BY <3>2, <2>2, <2>n
      <4>2. w[i] = right[j]
        <5>1. left \in Seq(Record) /\ right \in Seq(Record) /\ i > Len(left)
          BY <3>2, <2>l, <2>r, <2>n
        <5>2. i \in 1 .. Len(left) + Len(right) /\ j = i - Len(left)
          BY <3>2, <2>l, <2>r, <2>n
        <5> QED BY ONLY <5>1, <5>2
      <4> HIDE DEF j
      <4>3. w[i] = c[i + 1]
        BY <4>1, <4>2, <2>r
      <4> QED BY <3>2, <4>3
    <3> QED BY <3>1, <3>2
  <2>7. DOMAIN w = 1 .. Len(c) - 1
    BY <2>5
  <2> HIDE DEF w
  <2>8. Distinct(w)
    <3>1. ASSUME NEW i \in DOMAIN w
          PROVE  \E j \in DOMAIN c : w[i] = c[j] /\ j = IF i < k THEN i ELSE i + 1
      BY <2>2, <2>6, <2>7, <2>n
    <3>2. \A i \in DOMAIN w : i \in Nat
      BY <2>7
    <3>3. \A i, j \in DOMAIN c : c[i].ptr = c[j].ptr => i = j
      BY DEF Distinct
    <3> QED BY ONLY <2>n, <3>1, <3>2, <3>3 DEF Distinct
  <2>9. ASSUME NEW i \in DOMAIN w
        PROVE  w[i] \in Elems(c) /\ w[i].ptr # p
    <3>1. CASE i < k
      BY <3>1, <2>2, <2>6, <2>7 DEF Elems
    <3>2. CASE ~(i < k)
      BY <3>2, <2>2, <2>6, <2>7 DEF Elems
    <3> QED BY <3>1, <3>2
  <2>10. ASSUME NEW i \in DOMAIN c, i # k
         PROVE  c[i] \in Elems(w)
    <3>1. CASE i < k
      <4>1. i \in DOMAIN w /\ w[i] = c[i]
        BY <3>1, <2>2, <2>6, <2>7
      <4> QED BY <4>1 DEF Elems
    <3>2. CASE i > k
      <4>1. i - 1 \in DOMAIN w /\ w[i - 1] = c[i]
        BY <3>2, <2>2, <2>6, <2>7
      <4> QED BY <4>1 DEF Elems
    <3> QED BY <2>2, <2>10, <3>1, <3>2
  <2>11. Elems(w) = {r \in Elems(c) : r.ptr # p}
    BY <2>1, <2>9, <2>10 DEF Elems
  <2> QED BY <1>2, <2>4, <2>5, <2>8, <2>11
<1> QED BY <1>1, <1>2

\* alloc_add puts one record into the table.
LEMMA TableAdd ==
  ASSUME chain \in [Buckets -> Seq(Record)], Hashed, NEW p \in Addrs, NEW s \in Sites,
         ~Recorded(p), chain' = [chain EXCEPT ![Hash[p]] = Append(@, [ptr |-> p, site |-> s])]
  PROVE  /\ chain' \in [Buckets -> Seq(Record)] /\ Hashed'
         /\ Table' = Table \cup {[ptr |-> p, site |-> s]}
         /\ \E x : x \notin Records /\ Records' = Records \cup {x}
<1> DEFINE h == Hash[p]
           r == [ptr |-> p, site |-> s]
           c == chain[h]
           d == Append(c, r)
<1>1. h \in Buckets
  BY PointersAssumption DEF Pointers
<1>2. c \in Seq(Record) /\ Distinct(c) /\ \A i \in DOMAIN c : c[i].ptr # r.ptr
  BY <1>1 DEF Hashed, Recorded, Table, Elems
<1>3. r \in Record /\ r.ptr = p
  BY DEF Record
<1>4. /\ DOMAIN chain' = Buckets /\ chain'[h] = d
      /\ \A b \in Buckets : b # h => chain'[b] = chain[b]
  BY <1>1
<1> HIDE DEF r, c
<1>5. d \in Seq(Record) /\ Len(d) = Len(c) + 1 /\ Distinct(d) /\ Elems(d) = Elems(c) \cup {r}
  BY <1>2, <1>3, Appended
<1>6. Len(c) \in Nat /\ DOMAIN c = 1 .. Len(c) /\ DOMAIN d = 1 .. Len(c) + 1
  BY <1>2, <1>5
<1> HIDE DEF d
<1>7. chain' \in [Buckets -> Seq(Record)]
  <2>1. chain' = [b \in Buckets |-> chain'[b]]
    BY <1>4
  <2> QED BY <1>4, <1>5, <2>1
<1>8. Hashed'
  <2>1. \A i \in DOMAIN d : d[i] \in Elems(c) \cup {r}
    BY <1>5 DEF Elems
  <2>2. \A q \in Elems(c) : Hash[q.ptr] = h
    BY <1>1 DEF Hashed, Elems, c
  <2>3. \A i \in DOMAIN d : Hash[d[i].ptr] = h
    BY <1>3, <2>1, <2>2 DEF h
  <2> HIDE DEF h
  <2>4. ASSUME NEW b \in Buckets
        PROVE  Distinct(chain'[b]) /\ \A i \in DOMAIN chain'[b] : Hash[chain'[b][i].ptr] = b
    <3>1. CASE b = h
      BY <1>4, <1>5, <2>3, <3>1
    <3>2. CASE b # h
      BY <1>4, <3>2 DEF Hashed
    <3> QED BY <3>1, <3>2
  <2> QED BY <2>4 DEF Hashed
<1>9. Table' = Table \cup {r}
  <2>1. \A q : q \in Table' <=> \E b \in Buckets : q \in Elems(chain'[b])
    BY DEF Table
  <2>2. \A q : q \in Table <=> \E b \in Buckets : q \in Elems(chain[b])
    BY DEF Table
  <2> HIDE DEF h
  <2>3. \A q : q \in Table' <=> q \in Table \/ q = r
    BY <1>1, <1>4, <1>5, <2>1, <2>2 DEF c
  <2> QED BY <2>3
<1>10. \E x : x \notin Records /\ Records' = Records \cup {x}
  <2> DEFINE x == <<h, Len(c) + 1>>
  <2>1. \A y : y \in Records' <=> \E b \in Buckets : \E i \in DOMAIN chain'[b] : y = <<b, i>>
    BY DEF Records
  <2>2. \A y : y \in Records <=> \E b \in Buckets : \E i \in DOMAIN chain[b] : y = <<b, i>>
    BY DEF Records
  <2> HIDE DEF h
  <2>3. x \notin Records
    BY <1>6, <2>2 DEF c
  <2>4. \A i : i \in DOMAIN d <=> i \in DOMAIN c \/ i = Len(c) + 1
    BY <1>6
  <2>5. \A y : y \in Records' <=> y \in Records \/ y = x
    BY <1>1, <1>4, <2>1, <2>2, <2>4 DEF c
  <2> QED BY <2>3, <2>5
<1> QED BY <1>7, <1>8, <1>9, <1>10 DEF r

\* alloc_remove takes at most one record out of the table.
LEMMA TableRemove ==
  ASSUME chain \in [Buckets -> Seq(Record)], Hashed, NEW p \in Pointers,
         chain' = [chain EXCEPT ![Hash[p]] = Without(@, p)]
  PROVE  /\ chain' \in [Buckets -> Seq(Record)] /\ Hashed'
         /\ Table' = {r \in Table : r.ptr # p}
         /\ Recorded(p) => \E x \in Records : Records' = Records \ {x}
<1> DEFINE h == Hash[p]
           c == chain[h]
           d == Without(c, p)
<1>1. h \in Buckets
  BY PointersAssumption
<1>2. c \in Seq(Record) /\ Distinct(c)
  BY <1>1 DEF Hashed
<1>3. \A b \in Buckets : \A q \in Elems(chain[b]) : q.ptr = p => b = h
  BY DEF Hashed, Elems
<1>4. /\ DOMAIN chain' = Buckets /\ chain'[h] = d
      /\ \A b \in Buckets : b # h => chain'[b] = chain[b]
  BY <1>1
<1> HIDE DEF c
<1>5. /\ d \in Seq(Record) /\ Distinct(d) /\ Elems(d) = {r \in Elems(c) : r.ptr # p}
      /\ Len(d) = IF \E i \in DOMAIN c : c[i].ptr = p THEN Len(c) - 1 ELSE Len(c)
  BY <1>2, Removed
<1>6. Len(c) \in Nat /\ DOMAIN c = 1 .. Len(c) /\ DOMAIN d = 1 .. Len(d)
  BY <1>2, <1>5
<1> HIDE DEF d
<1>7. chain' \in [Buckets -> Seq(Record)]
  <2>1. chain' = [b \in Buckets |-> chain'[b]]
    BY <1>4
  <2> QED BY <1>4, <1>5, <2>1
<1>8. Hashed'
  <2>1. \A i \in DOMAIN d : d[i] \in Elems(c)
    BY <1>5 DEF Elems
  <2>2. \A q \in Elems(c) : Hash[q.ptr] = h
    BY <1>1 DEF Hashed, Elems, c
  <2>3. \A i \in DOMAIN d : Hash[d[i].ptr] = h
    BY <2>1, <2>2
  <2> HIDE DEF h
  <2>4. ASSUME NEW b \in Buckets
        PROVE  Distinct(chain'[b]) /\ \A i \in DOMAIN chain'[b] : Hash[chain'[b][i].ptr] = b
    <3>1. CASE b = h
      BY <1>4, <1>5, <2>3, <3>1
    <3>2. CASE b # h
      BY <1>4, <3>2 DEF Hashed
    <3> QED BY <3>1, <3>2
  <2> QED BY <2>4 DEF Hashed
<1>9. Table' = {r \in Table : r.ptr # p}
  <2>1. \A q : q \in Table' <=> \E b \in Buckets : q \in Elems(chain'[b])
    BY DEF Table
  <2>2. \A q : q \in Table <=> \E b \in Buckets : q \in Elems(chain[b])
    BY DEF Table
  <2> HIDE DEF h
  <2>3. ASSUME NEW q, NEW b \in Buckets
        PROVE  q \in Elems(chain'[b]) <=> q \in Elems(chain[b]) /\ q.ptr # p
    <3>1. CASE b = h
      BY <1>4, <1>5, <3>1 DEF c
    <3>2. CASE b # h
      BY <1>3, <1>4, <3>2
    <3> QED BY <3>1, <3>2
  <2>4. \A q : q \in Table' <=> q \in Table /\ q.ptr # p
    BY <2>1, <2>2, <2>3
  <2> QED BY <2>4
<1>10. ASSUME Recorded(p)
       PROVE  \E x \in Records : Records' = Records \ {x}
  <2> DEFINE x == <<h, Len(c)>>
  <2>1. \A y : y \in Records' <=> \E b \in Buckets : \E i \in DOMAIN chain'[b] : y = <<b, i>>
    BY DEF Records
  <2>2. \A y : y \in Records <=> \E b \in Buckets : \E i \in DOMAIN chain[b] : y = <<b, i>>
    BY DEF Records
  <2>3. \E i \in DOMAIN c : c[i].ptr = p
    <3>1. PICK q \in Table : q.ptr = p
      BY <1>10 DEF Recorded
    <3>2. PICK b \in Buckets : q \in Elems(chain[b])
      BY DEF Table
    <3>3. b = h
      BY <1>3, <3>1, <3>2
    <3>4. q \in Elems(c)
      BY <3>2, <3>3 DEF c
    <3> QED BY ONLY <3>1, <3>4 DEF Elems
  <2>4. Len(d) = Len(c) - 1 /\ Len(c) \in DOMAIN c
    <3>1. Len(d) = Len(c) - 1
      BY ONLY <1>5, <2>3
    <3>2. \E i \in 1 .. Len(c) : TRUE
      BY <1>6, <2>3
    <3> QED BY ONLY <1>6, <3>1, <3>2
  <2> HIDE DEF h
  <2>5. x \in Records
    BY <1>1, <2>2, <2>4 DEF c
  <2>6. \A i : i \in DOMAIN d <=> i \in DOMAIN c /\ i # Len(c)
    BY <1>6, <2>4
  <2>7. \A y : y \in Records' <=> y \in Records /\ y # x
    BY <1>1, <1>4, <2>1, <2>2, <2>6 DEF c
  <2> QED BY <2>5, <2>7
<1> QED BY <1>7, <1>8, <1>9, <1>10

\* There are fewer records than a size_t can count.
LEMMA RecordsCount ==
  ASSUME chain \in [Buckets -> Seq(Record)], Hashed
  PROVE  IsFiniteSet(Records) /\ Cardinality(Records) \in Nat /\ Cardinality(Records) < SizeMax
<1> DEFINE f == [x \in Records |-> chain[x[1]][x[2]].ptr]
<1>1. \A y : y \in Records <=> \E b \in Buckets : \E i \in DOMAIN chain[b] : y = <<b, i>>
  BY DEF Records
<1>2. ASSUME NEW x \in Records
      PROVE  /\ x = <<x[1], x[2]>> /\ x[1] \in Buckets /\ x[2] \in DOMAIN chain[x[1]]
             /\ f[x] \in Addrs /\ Hash[f[x]] = x[1]
  <2>1. PICK b \in Buckets : \E i \in DOMAIN chain[b] : x = <<b, i>>
    BY <1>1
  <2>2. PICK i \in DOMAIN chain[b] : x = <<b, i>>
    BY <2>1
  <2>3. chain[b] \in Seq(Record) /\ chain[b][i] \in Record
    BY <2>2
  <2>4. f[x] = chain[b][i].ptr
    BY <2>2
  <2>5. Hash[chain[b][i].ptr] = b
    BY DEF Hashed
  <2> HIDE DEF f
  <2> QED BY <2>2, <2>3, <2>4, <2>5 DEF Record
<1>3. ASSUME NEW x \in Records, NEW y \in Records, f[x] = f[y]
      PROVE  x = y
  <2>1. x[1] = y[1] /\ chain[x[1]][x[2]].ptr = chain[x[1]][y[2]].ptr
    BY <1>2, <1>3
  <2>2. x[2] = y[2]
    BY <1>2, <2>1 DEF Hashed, Distinct
  <2> QED BY <1>2, <2>1, <2>2
<1>4. f \in Injection(Records, Addrs)
  <2>1. f \in [Records -> Addrs]
    BY <1>2
  <2>2. IsInjective(f)
    BY <1>3 DEF IsInjective
  <2> QED BY <2>1, <2>2 DEF Injection
<1>5. IsFiniteSet(Records) /\ Cardinality(Records) <= Cardinality(Addrs)
  BY <1>4, BoundsAssumption, FS_Injection
<1>6. Cardinality(Records) \in Nat /\ Cardinality(Addrs) \in Nat
  BY <1>5, BoundsAssumption, FS_CardinalityType
<1> QED BY <1>5, <1>6, BoundsAssumption

\* What alloc_remove finds is what the map contains; NULL is never in it.
LEMMA FoundRecord ==
  ASSUME TypeOK, Hashed, Inside, NEW p \in Pointers
  PROVE  /\ p # Null => (Found(p) <=> Recorded(p))
         /\ Recorded(p) => p \in Addrs
<1>1. Hash[p] \in Buckets /\ chain \in [Buckets -> Seq(Record)]
  BY PointersAssumption DEF TypeOK, Record
<1>2. \A q : q \in Table <=> \E b \in Buckets : \E i \in DOMAIN chain[b] : chain[b][i] = q
  BY DEF Table, Elems
<1>3. \A b \in Buckets : \A i \in DOMAIN chain[b] : chain[b][i] \in Record
  BY <1>1
<1>4. Recorded(p) => p \in Addrs
  BY <1>2, <1>3 DEF Recorded, Record
<1>5. Recorded(p) <=> \E i \in DOMAIN chain[Hash[p]] : chain[Hash[p]][i].ptr = p
  <2>1. ASSUME NEW q \in Table, q.ptr = p
        PROVE  \E i \in DOMAIN chain[Hash[p]] : chain[Hash[p]][i].ptr = p
    <3>1. PICK b \in Buckets : \E i \in DOMAIN chain[b] : chain[b][i] = q
      BY <1>2
    <3>2. b = Hash[p]
      BY <2>1, <3>1 DEF Hashed
    <3> QED BY <2>1, <3>1, <3>2
  <2>2. ASSUME NEW i \in DOMAIN chain[Hash[p]], chain[Hash[p]][i].ptr = p
        PROVE  Recorded(p)
    BY <1>1, <1>2, <2>2 DEF Recorded
  <2> QED BY <2>1, <2>2 DEF Recorded
<1>6. Recorded(p) => initialized
  BY DEF Inside, Recorded
<1> QED BY <1>4, <1>5, <1>6 DEF Found

\* alloc_add on a pointer that has no record.
LEMMA AddPointer ==
  ASSUME TypeOK, Hashed, NEW p \in Addrs, NEW s \in Sites, ~Recorded(p), alloc_add(p, s)
  PROVE  /\ initialized' /\ num_allocs' \in 0 .. SizeMax
         /\ chain' \in [Buckets -> Seq(Record)] /\ Hashed'
         /\ Table' = Table \cup {[ptr |-> p, site |-> s]}
         /\ num_allocs = Cardinality(Records) => num_allocs' = Cardinality(Records')
<1>1. chain \in [Buckets -> Seq(Record)] /\ num_allocs \in 0 .. SizeMax
  BY DEF TypeOK, Record
<1>2. /\ initialized' /\ num_allocs' = (num_allocs + 1) % (SizeMax + 1)
      /\ chain' = [chain EXCEPT ![Hash[p]] = Append(@, [ptr |-> p, site |-> s])]
  BY DEF alloc_add
<1>3. /\ chain' \in [Buckets -> Seq(Record)] /\ Hashed'
      /\ Table' = Table \cup {[ptr |-> p, site |-> s]}
      /\ \E x : x \notin Records /\ Records' = Records \cup {x}
  BY <1>1, <1>2, TableAdd
<1>4. IsFiniteSet(Records) /\ Cardinality(Records) < SizeMax
  BY <1>1, RecordsCount
<1>5. Cardinality(Records') = Cardinality(Records) + 1
  BY <1>3, <1>4, FS_AddElement
<1>6. num_allocs' \in 0 .. SizeMax /\ (num_allocs < SizeMax => num_allocs' = num_allocs + 1)
  BY <1>1, <1>2, Wraps
<1> QED BY <1>2, <1>3, <1>4, <1>5, <1>6

\* alloc_remove on any pointer.
LEMMA RemovePointer ==
  ASSUME TypeOK, Hashed, Inside, NEW p \in Pointers, alloc_remove(p)
  PROVE  /\ initialized' /\ num_allocs' \in 0 .. SizeMax
         /\ chain' \in [Buckets -> Seq(Record)] /\ Hashed'
         /\ Table' = {r \in Table : r.ptr # p}
         /\ p # Null /\ num_allocs = Cardinality(Records) => num_allocs' = Cardinality(Records')
<1>1. chain \in [Buckets -> Seq(Record)] /\ num_allocs \in 0 .. SizeMax
  BY DEF TypeOK, Record
<1>2. initialized'
  BY DEF alloc_remove
<1>3. CASE Found(p)
  <2>1. /\ chain' = [chain EXCEPT ![Hash[p]] = Without(@, p)]
        /\ num_allocs' = (num_allocs + SizeMax) % (SizeMax + 1)
    BY <1>3 DEF alloc_remove
  <2>2. /\ chain' \in [Buckets -> Seq(Record)] /\ Hashed'
        /\ Table' = {r \in Table : r.ptr # p}
        /\ Recorded(p) => \E x \in Records : Records' = Records \ {x}
    BY <1>1, <2>1, TableRemove
  <2>3. num_allocs' \in 0 .. SizeMax /\ (num_allocs > 0 => num_allocs' = num_allocs - 1)
    BY <1>1, <2>1, Wraps
  <2>4. ASSUME p # Null, num_allocs = Cardinality(Records)
        PROVE  num_allocs' = Cardinality(Records')
    <3>1. PICK x \in Records : Records' = Records \ {x}
      BY <1>3, <2>2, <2>4, FoundRecord
    <3>2. IsFiniteSet(Records) /\ Cardinality(Records) \in Nat
      BY <1>1, RecordsCount
    <3>3. Cardinality(Records') = Cardinality(Records) - 1
      BY <3>1, <3>2, FS_RemoveElement
    <3>4. Cardinality(Records) > 0
      BY <3>1, <3>2, FS_EmptySet
    <3> QED BY ONLY <2>3, <2>4, <3>3, <3>4
  <2> QED BY <1>2, <2>2, <2>3, <2>4
<1>4. CASE ~Found(p)
  <2>1. chain' = chain /\ num_allocs' = num_allocs
    BY <1>4 DEF alloc_remove
  <2>2. Hashed' /\ Table' = Table /\ Records' = Records
    BY <2>1 DEF Hashed, Table, Records
  <2>3. \A r \in Table : r.ptr # p
    <3>1. CASE p = Null
      BY <3>1, FoundRecord, PointersAssumption DEF Recorded
    <3>2. CASE p # Null
      BY <1>4, <3>2, FoundRecord DEF Recorded
    <3> QED BY <3>1, <3>2
  <2> QED BY <1>1, <1>2, <2>1, <2>2, <2>3
<1> QED BY <1>3, <1>4

-------------------------------------------------------------------------
(* The invariant holds initially.                                          *)

\* No memory is allocated, and every thread is in the program.
LEMMA InitIInv == Init => IInv
<1> SUFFICES ASSUME Init PROVE IInv
  OBVIOUS
<1>1. TypeOK
  <2>1. Null \in Pointers /\ "idle" \in Labels
    BY DEF Pointers, Labels
  <2>2. 0 \in 0 .. SizeMax /\ 0 \in Nat
    BY BoundsAssumption
  <2>3. <<>> \in Seq(Record)
    OBVIOUS
  <2>4. chain \in [Buckets -> Seq(Record)]
    BY <2>3 DEF Init
  <2>5. /\ pc \in [Threads -> Labels] /\ ptr \in [Threads -> Pointers]
        /\ site \in [Threads -> Sites \cup {NoSite}] /\ capacity \in [Threads -> 0 .. SizeMax]
        /\ packed \in [Threads -> Nat] /\ held \in [Addrs -> Sites \cup {NoSite}]
    BY <2>1, <2>2 DEF Init
  <2> QED BY <2>2, <2>4, <2>5 DEF Init, TypeOK, Record
<1>2. \A b \in Buckets : chain[b] = <<>>
  BY DEF Init
<1>3. Table = {} /\ Records = {}
  BY <1>2 DEF Table, Elems, Records
<1>4. Hashed
  BY <1>2 DEF Hashed, Distinct
<1>5. Tracked
  BY <1>3 DEF Init, Tracked, InFlight, Releasing
<1>6. Inside
  BY <1>3 DEF Init, Inside
<1>7. Noted
  BY <1>3, SitesAssumption DEF Init, Noted, Record
<1>8. Counted
  <2>1. Cardinality(Records) = 0
    <3> HIDE DEF Records
    <3> QED BY <1>3, FS_EmptySet
  <2>2. num_allocs = 0
    BY DEF Init
  <2> QED BY ONLY <2>1, <2>2 DEF Counted
<1> QED BY <1>1, <1>4, <1>5, <1>6, <1>7, <1>8 DEF IInv

-------------------------------------------------------------------------
(* What a step of the thread t leaves alone, and what follows from it.     *)

Others(t) ==
  \A u \in Threads : u # t => pc'[u] = pc[u] /\ ptr'[u] = ptr[u] /\ site'[u] = site[u]

\* A step that neither adds nor removes a record keeps what the map contains.
LEMMA SameMap ==
  ASSUME chain' = chain
  PROVE  Table' = Table /\ Records' = Records /\ (Hashed => Hashed')
BY DEF Table, Records, Hashed

\* Types of the variables that hold a thread's locals.
LEMMA LocalTypes ==
  ASSUME TypeOK, NEW t \in Threads, NEW l \in Labels, NEW p \in Pointers, NEW s \in Sites \cup {NoSite}
  PROVE  /\ [pc EXCEPT ![t] = l] \in [Threads -> Labels]
         /\ [ptr EXCEPT ![t] = p] \in [Threads -> Pointers]
         /\ [site EXCEPT ![t] = s] \in [Threads -> Sites \cup {NoSite}]
BY DEF TypeOK

\* A step of t keeps Tracked if nothing in the map was released, what t has in flight is
\* allocated and in nobody else's hands, and t took nothing away from another thread.
LEMMA TrackedStep ==
  ASSUME Tracked, NEW t \in Threads, Others(t),
         \A r \in Table' : r.ptr \in heap',
         InFlight(t)' => ptr'[t] \in heap' /\ \A r \in Table' : r.ptr # ptr'[t],
         \A u \in Threads : u # t /\ InFlight(u) =>
            /\ ptr[u] \in heap' /\ \A r \in Table' : r.ptr # ptr[u]
            /\ InFlight(t)' => ptr'[t] # ptr[u]
  PROVE  Tracked'
<1>1. \A u \in Threads : u # t => (InFlight(u)' <=> InFlight(u)) /\ ptr'[u] = ptr[u]
  BY DEF Others, InFlight, Releasing
<1>2. \A u \in Threads : InFlight(u)' => ptr'[u] \in heap' /\ \A r \in Table' : r.ptr # ptr'[u]
  BY <1>1
<1>3. ASSUME NEW u \in Threads, NEW v \in Threads, InFlight(u)', InFlight(v)', ptr'[u] = ptr'[v]
      PROVE  u = v
  BY <1>1, <1>3 DEF Tracked
<1>4. \A u \in Threads : Recorded(ptr[u])' <=> \E r \in Table' : r.ptr = ptr'[u]
  BY DEF Recorded
<1>5. /\ \A r \in Table' : r.ptr \in heap'
      /\ \A u \in Threads : InFlight(u)' => ptr'[u] \in heap' /\ ~Recorded(ptr[u])'
      /\ \A u, v \in Threads : InFlight(u)' /\ InFlight(v)' /\ ptr'[u] = ptr'[v] => u = v
  BY <1>2, <1>3, <1>4
<1> QED BY <1>5 DEF Tracked

\* The map and the program agree after an insertion.
LEMMA NotedAdd ==
  ASSUME Noted, held \in [Addrs -> Sites \cup {NoSite}], NEW p \in Addrs, NEW s \in Sites,
         ~Recorded(p), Table' = Table \cup {[ptr |-> p, site |-> s]},
         held' = [held EXCEPT ![p] = s]
  PROVE  Noted'
<1>1. ASSUME NEW r \in Record
      PROVE  r \in Table' <=> held'[r.ptr] = r.site
  <2>1. CASE r.ptr = p
    <3>1. r \notin Table
      BY <2>1 DEF Recorded
    <3>2. r = [ptr |-> p, site |-> s] <=> r.site = s
      BY <2>1 DEF Record
    <3> QED BY <2>1, <3>1, <3>2
  <2>2. CASE r.ptr # p
    <3>1. r \in Table' <=> r \in Table
      BY <2>2
    <3>2. held'[r.ptr] = held[r.ptr]
      BY <2>2 DEF Record
    <3> QED BY <3>1, <3>2 DEF Noted
  <2> QED BY <2>1, <2>2
<1> QED BY <1>1 DEF Noted

\* The map and the program agree after a removal.
LEMMA NotedRemove ==
  ASSUME Noted, held \in [Addrs -> Sites \cup {NoSite}], NEW p,
         Table' = {r \in Table : r.ptr # p},
         held' = IF p \in Addrs /\ Recorded(p) THEN [held EXCEPT ![p] = NoSite] ELSE held
  PROVE  Noted'
<1>1. ASSUME NEW r \in Record
      PROVE  r \in Table' <=> held'[r.ptr] = r.site
  <2>1. r.ptr \in Addrs /\ r.site \in Sites
    BY DEF Record
  <2>2. CASE r.ptr = p /\ Recorded(p)
    BY <2>1, <2>2, SitesAssumption
  <2>3. CASE r.ptr = p /\ ~Recorded(p)
    BY <2>3 DEF Noted, Recorded
  <2>4. CASE r.ptr # p
    <3>1. held'[r.ptr] = held[r.ptr]
      BY <2>1, <2>4
    <3> QED BY <2>4, <3>1 DEF Noted
  <2> QED BY <2>2, <2>3, <2>4
<1> QED BY <1>1 DEF Noted

\* What the threads know survives a step of t that takes no mutex from another thread.
LEMMA InsideStep ==
  ASSUME Inside, NEW t \in Threads, Others(t), status = "running",
         lock' = lock \/ lock = Nobody \/ lock = t,
         pc'[t] = "realloc" => lock' = t,
         pc'[t] \in {"register", "realloc"} => site'[t] \in Sites,
         pc'[t] = "panic" => status' = "panic",
         initialized' \/ (initialized' = initialized /\ Table' = Table)
  PROVE  Inside'
<1>1. ASSUME NEW u \in Threads
      PROVE  /\ pc'[u] = "realloc" => lock' = u
             /\ pc'[u] \in {"register", "realloc"} => site'[u] \in Sites
             /\ pc'[u] = "panic" => status' = "panic"
  <2>1. CASE u = t
    BY <2>1
  <2>2. CASE u # t
    <3>1. pc'[u] = pc[u] /\ site'[u] = site[u]
      BY <2>2 DEF Others
    <3>2. pc[u] = "realloc" => lock' = lock
      BY <2>2, PointersAssumption DEF Inside
    <3>3. pc[u] # "panic"
      BY DEF Inside
    <3> QED BY <3>1, <3>2, <3>3 DEF Inside
  <2> QED BY <2>1, <2>2
<1>2. ~initialized' => Table' = {}
  BY DEF Inside
<1> QED BY <1>1, <1>2 DEF Inside

\* The count of a map that does not change stays right.
LEMMA CountedStep ==
  ASSUME Counted, chain' = chain, num_allocs' = num_allocs, NEW t \in Threads, Others(t),
         lock = Nobody \/ (lock' = lock /\ pc[t] # "oom")
  PROVE  Counted'
<1>1. Records' = Records
  BY SameMap
<1>2. (\A u \in Threads : lock' = u => pc'[u] # "oom") => \A u \in Threads : lock = u => pc[u] # "oom"
  BY PointersAssumption DEF Others
<1> QED BY <1>1, <1>2 DEF Counted

\* A step that leaves the map and the program's pointers alone.
LEMMA KeepsMap ==
  ASSUME IInv, UNCHANGED <<chain, num_allocs, held>>, NEW t \in Threads, Others(t), status = "running",
         lock = Nobody \/ (lock' = lock /\ pc[t] # "oom"),
         pc'[t] = "realloc" => lock' = t,
         pc'[t] \in {"register", "realloc"} => site'[t] \in Sites,
         pc'[t] = "panic" => status' = "panic",
         initialized' \/ initialized' = initialized
  PROVE  Table' = Table /\ Hashed' /\ Inside' /\ Noted' /\ Counted'
<1>1. chain' = chain /\ num_allocs' = num_allocs /\ held' = held
  OBVIOUS
<1>2. Table' = Table /\ Hashed'
  BY <1>1, SameMap DEF IInv
<1>3. Inside'
  <2>1. Inside
    BY DEF IInv
  <2>2. lock' = lock \/ lock = Nobody \/ lock = t
    OBVIOUS
  <2> QED BY <1>2, <2>1, <2>2, InsideStep
<1>4. Noted'
  BY <1>1, <1>2 DEF IInv, Noted
<1>5. Counted'
  <2>1. Counted
    BY DEF IInv
  <2> QED BY <1>1, <2>1, CountedStep
<1> QED BY <1>2, <1>3, <1>4, <1>5

-------------------------------------------------------------------------
(* One step of each kind.                                                  *)

\* libc's malloc returns an address that nobody has.
LEMMA StepMalloc ==
  ASSUME IInv, NEW t \in Threads, NEW s \in Sites, Malloc(t, s)
  PROVE  IInv'
<1>1. TypeOK /\ Tracked /\ status = "running" /\ pc[t] = "idle"
  BY DEF IInv, Malloc, Idle
<1>2. PICK a \in Addrs \ heap : heap' = heap \cup {a} /\ ptr' = [ptr EXCEPT ![t] = a]
  BY DEF Malloc
<1>3. /\ pc' = [pc EXCEPT ![t] = "register"] /\ site' = [site EXCEPT ![t] = s]
      /\ lock' = lock /\ initialized' = initialized /\ chain' = chain /\ num_allocs' = num_allocs
      /\ capacity' = capacity /\ packed' = packed /\ status' = status /\ held' = held
  BY DEF Malloc, Goto, map
<1>4. pc'[t] = "register" /\ ptr'[t] = a /\ site'[t] = s /\ Others(t)
  BY <1>1, <1>2, <1>3 DEF TypeOK, Others
<1>5. TypeOK'
  <2>1. "register" \in Labels /\ a \in Pointers /\ s \in Sites \cup {NoSite}
    BY DEF Labels, Pointers
  <2>2. pc' \in [Threads -> Labels] /\ ptr' \in [Threads -> Pointers] /\ site' \in [Threads -> Sites \cup {NoSite}]
    BY <1>1, <1>2, <1>3, <2>1, LocalTypes
  <2> QED BY <1>1, <1>2, <1>3, <2>2 DEF TypeOK
<1>6. Table' = Table /\ Hashed' /\ Inside' /\ Noted' /\ Counted'
  BY <1>1, <1>3, <1>4, KeepsMap
<1>7. Tracked'
  <2>1. \A r \in Table' : r.ptr \in heap' /\ r.ptr # a
    BY <1>1, <1>2, <1>6 DEF Tracked
  <2>2. \A u \in Threads : InFlight(u) => ptr[u] \in heap' /\ (\A r \in Table' : r.ptr # ptr[u]) /\ a # ptr[u]
    BY <1>1, <1>2, <1>6 DEF Tracked, Recorded
  <2> QED BY <1>1, <1>2, <1>4, <2>1, <2>2, TrackedStep
<1> QED BY <1>5, <1>6, <1>7 DEF IInv

\* A step of t that neither touches libc's heap nor the map, and leaves t with nothing in flight.
LEMMA TrackedSame ==
  ASSUME Tracked, NEW t \in Threads, Others(t), Table' = Table, heap' = heap, ~InFlight(t)'
  PROVE  Tracked'
<1>1. \A r \in Table' : r.ptr \in heap'
  BY DEF Tracked
<1>2. \A u \in Threads : InFlight(u) => ptr[u] \in heap' /\ \A r \in Table' : r.ptr # ptr[u]
  BY DEF Tracked, Recorded
<1> QED BY <1>1, <1>2, TrackedStep

\* A step that only moves t to a place where it has nothing in flight.
LEMMA StepMoves ==
  ASSUME IInv, NEW t \in Threads, NEW l \in Labels, l \notin {"register", "realloc", "free", "panic"},
         status = "running", status' \in {"running", "panic", "oom"}, initialized' \in BOOLEAN,
         initialized' \/ initialized' = initialized,
         lock = Nobody \/ pc[t] # "oom",
         pc' = [pc EXCEPT ![t] = l],
         capacity' \in [Threads -> 0 .. SizeMax], packed' \in [Threads -> Nat],
         UNCHANGED <<lock, chain, num_allocs, heap, ptr, site, held>>
  PROVE  IInv'
<1>1. TypeOK /\ Tracked
  BY DEF IInv
<1>2. /\ lock' = lock /\ chain' = chain /\ num_allocs' = num_allocs /\ heap' = heap
      /\ ptr' = ptr /\ site' = site /\ held' = held
  OBVIOUS
<1>3. pc'[t] = l /\ Others(t)
  BY <1>1, <1>2 DEF TypeOK, Others
<1>4. TypeOK'
  BY <1>1, <1>2 DEF TypeOK
<1>5. Table' = Table /\ Hashed' /\ Inside' /\ Noted' /\ Counted'
  BY <1>2, <1>3, KeepsMap
<1>6. ~InFlight(t)'
  BY <1>3 DEF InFlight, Releasing
<1>7. Tracked'
  BY <1>1, <1>2, <1>3, <1>5, <1>6, TrackedSame
<1> QED BY <1>4, <1>5, <1>7 DEF IInv

\* The calls that fail before or after they have touched anything, and print_heap.
LEMMA StepPrint ==
  ASSUME IInv, NEW t \in Threads,
         MallocFails(t) \/ DumpCall(t) \/ DumpFails(t) \/ DumpPack(t) \/ DumpPrint(t) \/ OOM(t)
  PROVE  IInv'
<1>1. TypeOK /\ Hashed
  BY DEF IInv
<1>2. CASE MallocFails(t) \/ DumpFails(t)
  <2>1. /\ status = "running" /\ pc[t] # "oom" /\ pc' = [pc EXCEPT ![t] = "oom"]
        /\ initialized' = initialized /\ status' = status /\ capacity' = capacity /\ packed' = packed
        /\ UNCHANGED <<lock, chain, num_allocs, heap, ptr, site, held>>
    BY <1>2 DEF MallocFails, DumpFails, Idle, Goto, map
  <2> QED BY <1>1, <2>1, StepMoves DEF TypeOK, Labels
<1>3. CASE DumpCall(t)
  <2>1. /\ status = "running" /\ pc[t] # "oom" /\ pc' = [pc EXCEPT ![t] = "dump"]
        /\ initialized' = initialized /\ status' = status /\ packed' = packed
        /\ UNCHANGED <<lock, chain, num_allocs, heap, ptr, site, held>>
    BY <1>3 DEF DumpCall, Idle, Goto, map
  <2>2. capacity' \in [Threads -> 0 .. SizeMax]
    BY <1>1, <1>3 DEF DumpCall, TypeOK
  <2> QED BY <1>1, <2>1, <2>2, StepMoves DEF TypeOK, Labels
<1>4. CASE DumpPack(t)
  <2>1. /\ status = "running" /\ pc[t] # "oom" /\ pc' = [pc EXCEPT ![t] = "print"]
        /\ initialized' = TRUE /\ status' = status /\ capacity' = capacity
        /\ UNCHANGED <<lock, chain, num_allocs, heap, ptr, site, held>>
    BY <1>4 DEF DumpPack, Goto
  <2>2. Cardinality(Records) \in Nat
    BY <1>1, RecordsCount DEF TypeOK, Record
  <2>3. packed' \in [Threads -> Nat]
    BY <1>1, <1>4, <2>2 DEF DumpPack, TypeOK
  <2> QED BY <1>1, <2>1, <2>3, StepMoves DEF TypeOK, Labels
<1>5. CASE DumpPrint(t)
  <2>1. /\ status = "running" /\ pc[t] # "oom" /\ pc' = [pc EXCEPT ![t] = "idle"]
        /\ initialized' = initialized /\ status' = status
        /\ UNCHANGED <<lock, chain, num_allocs, heap, ptr, site, held>>
    BY <1>5 DEF DumpPrint, Goto, map
  <2>2. capacity' \in [Threads -> 0 .. SizeMax] /\ packed' \in [Threads -> Nat]
    BY <1>1, <1>5, BoundsAssumption DEF DumpPrint, TypeOK
  <2> QED BY <1>1, <2>1, <2>2, StepMoves DEF TypeOK, Labels
<1>6. CASE OOM(t)
  <2>1. /\ status = "running" /\ lock = Nobody /\ pc[t] = "oom" /\ pc' = pc
        /\ initialized' = TRUE /\ status' = "oom" /\ capacity' = capacity /\ packed' = packed
        /\ UNCHANGED <<lock, chain, num_allocs, heap, ptr, site, held>>
    BY <1>6 DEF OOM, locals
  <2>2. pc' = [pc EXCEPT ![t] = "oom"]
    BY <1>1, <2>1 DEF TypeOK
  <2> QED BY <1>1, <2>1, <2>2, StepMoves DEF TypeOK, Labels
<1> QED BY <1>2, <1>3, <1>4, <1>5, <1>6

\* The fresh address of an allocation is recorded: malloc's is in flight until then, and a
\* realloc has the mutex.
LEMMA StepRegister ==
  ASSUME IInv, NEW t \in Threads, Register(t)
  PROVE  IInv'
<1>1. TypeOK /\ Hashed /\ Tracked /\ Inside /\ Noted /\ Counted
  BY DEF IInv
<1>2. /\ pc[t] = "register" /\ status = "running" /\ lock = Nobody /\ alloc_add(ptr[t], site[t])
      /\ held' = [held EXCEPT ![ptr[t]] = site[t]] /\ pc' = [pc EXCEPT ![t] = "idle"]
      /\ ptr' = [ptr EXCEPT ![t] = Null] /\ site' = [site EXCEPT ![t] = NoSite]
      /\ lock' = lock /\ heap' = heap /\ capacity' = capacity /\ packed' = packed /\ status' = status
  BY DEF Register, Return, Goto
<1>3. pc'[t] = "idle" /\ Others(t)
  BY <1>1, <1>2 DEF TypeOK, Others
<1>4. ptr[t] \in heap /\ ptr[t] \in Addrs /\ ~Recorded(ptr[t]) /\ site[t] \in Sites
  BY <1>1, <1>2 DEF TypeOK, Tracked, InFlight, Inside
<1>5. /\ initialized' /\ num_allocs' \in 0 .. SizeMax
      /\ chain' \in [Buckets -> Seq(Record)] /\ Hashed'
      /\ Table' = Table \cup {[ptr |-> ptr[t], site |-> site[t]]}
      /\ num_allocs = Cardinality(Records) => num_allocs' = Cardinality(Records')
  BY <1>1, <1>2, <1>4, AddPointer
<1>6. TypeOK'
  <2>1. "idle" \in Labels /\ Null \in Pointers /\ NoSite \in Sites \cup {NoSite}
    BY DEF Labels, Pointers
  <2>2. pc' \in [Threads -> Labels] /\ ptr' \in [Threads -> Pointers] /\ site' \in [Threads -> Sites \cup {NoSite}]
    BY <1>1, <1>2, <2>1, LocalTypes
  <2>3. held' \in [Addrs -> Sites \cup {NoSite}]
    BY <1>1, <1>2, <1>4 DEF TypeOK
  <2>4. initialized' \in BOOLEAN
    BY <1>2 DEF alloc_add
  <2> QED BY <1>1, <1>2, <1>5, <2>2, <2>3, <2>4 DEF TypeOK, Record
<1>7. Tracked'
  <2>1. ~InFlight(t)'
    BY <1>3 DEF InFlight, Releasing
  <2>2. \A r \in Table' : r.ptr \in heap'
    BY <1>1, <1>2, <1>4, <1>5 DEF Tracked
  <2>3. ASSUME NEW u \in Threads, u # t, InFlight(u)
        PROVE  ptr[u] \in heap' /\ \A r \in Table' : r.ptr # ptr[u]
    <3>1. ptr[u] \in heap /\ ~Recorded(ptr[u]) /\ ptr[u] # ptr[t]
      BY <1>1, <1>2, <2>3 DEF Tracked, InFlight
    <3> QED BY <1>2, <1>5, <3>1 DEF Recorded
  <2> QED BY <1>1, <1>3, <2>1, <2>2, <2>3, TrackedStep
<1>8. Inside'
  BY <1>1, <1>2, <1>3, <1>5, InsideStep
<1>9. Noted'
  BY <1>1, <1>2, <1>4, <1>5, NotedAdd DEF TypeOK
<1>10. Counted'
  BY <1>1, <1>2, <1>5, PointersAssumption DEF Counted
<1> QED BY <1>5, <1>6, <1>7, <1>8, <1>9, <1>10 DEF IInv

\* What t gives back to libc belongs neither to the map nor to another thread.
LEMMA OnlyMine ==
  ASSUME TypeOK, Tracked, NEW t \in Threads, pc[t] \in {"realloc", "free"}
  PROVE  /\ \A r \in Table : r.ptr \in heap \ {ptr[t]}
         /\ \A u \in Threads : u # t /\ InFlight(u) => ptr[u] \in heap \ {ptr[t]}
<1>1. ptr[t] = Null => ptr[t] \notin heap
  BY PointersAssumption DEF TypeOK
<1>2. ptr[t] # Null => InFlight(t)
  BY DEF InFlight, Releasing
<1>3. \A r \in Table : r.ptr \in heap /\ (InFlight(t) => r.ptr # ptr[t])
  BY DEF Tracked, Recorded
<1>4. \A u \in Threads : u # t /\ InFlight(u) => ptr[u] \in heap /\ (InFlight(t) => ptr[u] # ptr[t])
  BY DEF Tracked
<1> QED BY <1>1, <1>2, <1>3, <1>4

\* An insertion that fails leaves the record out, and the mutex locked.
LEMMA StepAddFails ==
  ASSUME IInv, NEW t \in Threads, NEW p, AddFails(t, p), status = "running",
         lock = Nobody \/ lock = t, heap' \subseteq Addrs,
         \A r \in Table : r.ptr \in heap',
         \A u \in Threads : u # t /\ InFlight(u) => ptr[u] \in heap'
  PROVE  IInv'
<1>1. TypeOK /\ Hashed /\ Tracked /\ Inside /\ Noted
  BY DEF IInv
<1>2. /\ num_allocs' = (num_allocs + 1) % (SizeMax + 1) /\ lock' = t
      /\ pc' = [pc EXCEPT ![t] = "oom"] /\ initialized' = initialized /\ chain' = chain
      /\ ptr' = ptr /\ site' = site /\ capacity' = capacity /\ packed' = packed
      /\ status' = status /\ held' = held
  BY DEF AddFails, Goto
<1>3. pc'[t] = "oom" /\ Others(t)
  BY <1>1, <1>2 DEF TypeOK, Others
<1>4. TypeOK'
  <2>1. num_allocs' \in 0 .. SizeMax
    BY <1>1, <1>2, Wraps DEF TypeOK
  <2>2. pc' \in [Threads -> Labels]
    BY <1>1, <1>2 DEF TypeOK, Labels
  <2>3. lock' \in Threads \cup {Nobody}
    BY <1>2
  <2> QED BY <1>1, <1>2, <2>1, <2>2, <2>3 DEF TypeOK
<1>5. Table' = Table /\ Hashed'
  BY <1>1, <1>2, SameMap
<1>6. Tracked'
  <2>1. ~InFlight(t)'
    BY <1>3 DEF InFlight, Releasing
  <2>2. \A u \in Threads : InFlight(u) => \A r \in Table' : r.ptr # ptr[u]
    BY <1>1, <1>5 DEF Tracked, Recorded
  <2> QED BY <1>1, <1>3, <1>5, <2>1, <2>2, TrackedStep
<1>7. Inside'
  BY <1>1, <1>2, <1>3, <1>5, InsideStep
<1>8. Noted'
  BY <1>1, <1>2, <1>5 DEF Noted
<1>9. Counted'
  BY <1>2, <1>3 DEF Counted
<1> QED BY <1>4, <1>5, <1>6, <1>7, <1>8, <1>9 DEF IInv

\* Memory runs out inside the mutex.
LEMMA StepFails ==
  ASSUME IInv, NEW t \in Threads, RegisterFails(t) \/ ReallocFails(t) \/ ReallocAddFails(t)
  PROVE  IInv'
<1>1. TypeOK /\ Tracked /\ Inside
  BY DEF IInv
<1>2. CASE RegisterFails(t)
  <2>1. AddFails(t, ptr[t]) /\ status = "running" /\ lock = Nobody /\ heap' = heap
    BY <1>2 DEF RegisterFails
  <2>2. heap' \subseteq Addrs /\ (\A r \in Table : r.ptr \in heap')
    BY <1>1, <2>1 DEF TypeOK, Tracked
  <2>3. \A u \in Threads : u # t /\ InFlight(u) => ptr[u] \in heap'
    BY <1>1, <2>1 DEF Tracked
  <2> QED BY <2>1, <2>2, <2>3, StepAddFails
<1>3. CASE ReallocFails(t)
  <2>1. /\ pc[t] = "realloc" /\ status = "running" /\ pc' = [pc EXCEPT ![t] = "oom"]
        /\ heap' \in {heap, heap \ {ptr[t]}}
        /\ initialized' = initialized /\ status' = status /\ capacity' = capacity /\ packed' = packed
        /\ lock' = lock /\ chain' = chain /\ num_allocs' = num_allocs
        /\ ptr' = ptr /\ site' = site /\ held' = held
    BY <1>3 DEF ReallocFails, Goto, map
  <2>2. pc'[t] = "oom" /\ Others(t)
    BY <1>1, <2>1 DEF TypeOK, Others
  <2>3. TypeOK'
    <3>1. pc' \in [Threads -> Labels] /\ heap' \subseteq Addrs
      BY <1>1, <2>1 DEF TypeOK, Labels
    <3> QED BY <1>1, <2>1, <3>1 DEF TypeOK
  <2>4. Table' = Table /\ Hashed' /\ Inside' /\ Noted' /\ Counted'
    BY <2>1, <2>2, KeepsMap
  <2>5. Tracked'
    <3>1. ~InFlight(t)'
      BY <2>2 DEF InFlight, Releasing
    <3>2. /\ \A r \in Table' : r.ptr \in heap'
          /\ \A u \in Threads : u # t /\ InFlight(u) => ptr[u] \in heap'
      BY <1>1, <2>1, <2>4, OnlyMine
    <3>3. \A u \in Threads : InFlight(u) => \A r \in Table' : r.ptr # ptr[u]
      BY <1>1, <2>4 DEF Tracked, Recorded
    <3> QED BY <1>1, <2>2, <2>4, <3>1, <3>2, <3>3, TrackedStep
  <2> QED BY <2>3, <2>4, <2>5 DEF IInv
<1>4. CASE ReallocAddFails(t)
  <2>1. pc[t] = "realloc" /\ status = "running" /\ lock = t
    BY <1>1, <1>4 DEF ReallocAddFails, Inside
  <2>2. PICK a \in Addrs \ (heap \ {ptr[t]}) : heap' = (heap \ {ptr[t]}) \cup {a} /\ AddFails(t, a)
    BY <1>4 DEF ReallocAddFails
  <2>3. heap' \subseteq Addrs
    BY <1>1, <2>2 DEF TypeOK
  <2>4. \A r \in Table : r.ptr \in heap'
    BY <1>1, <2>1, <2>2, OnlyMine
  <2>5. \A u \in Threads : u # t /\ InFlight(u) => ptr[u] \in heap'
    BY <1>1, <2>1, <2>2, OnlyMine
  <2> QED BY <2>1, <2>2, <2>3, <2>4, <2>5, StepAddFails
<1> QED BY <1>2, <1>3, <1>4

\* realloc records the address that libc moved the block to.
LEMMA StepReallocLibc ==
  ASSUME IInv, NEW t \in Threads, ReallocLibc(t)
  PROVE  IInv'
<1>1. TypeOK /\ Hashed /\ Tracked /\ Inside /\ Noted /\ Counted
  BY DEF IInv
<1>2. PICK a \in Addrs \ (heap \ {ptr[t]}) :
        /\ heap' = (heap \ {ptr[t]}) \cup {a} /\ alloc_add(a, site[t])
        /\ held' = [held EXCEPT ![a] = site[t]]
  BY DEF ReallocLibc
<1>3. /\ pc[t] = "realloc" /\ status = "running" /\ pc' = [pc EXCEPT ![t] = "idle"]
      /\ ptr' = [ptr EXCEPT ![t] = Null] /\ site' = [site EXCEPT ![t] = NoSite]
      /\ lock' = Nobody /\ capacity' = capacity /\ packed' = packed /\ status' = status
  BY DEF ReallocLibc, Return, Goto
<1>4. pc'[t] = "idle" /\ Others(t)
  BY <1>1, <1>3 DEF TypeOK, Others
<1>5. lock = t /\ site[t] \in Sites
  BY <1>1, <1>3 DEF Inside
<1>6. /\ \A r \in Table : r.ptr \in heap \ {ptr[t]}
      /\ \A u \in Threads : u # t /\ InFlight(u) => ptr[u] \in heap \ {ptr[t]}
  BY <1>1, <1>3, OnlyMine
<1>7. ~Recorded(a)
  BY <1>6 DEF Recorded
<1>8. /\ initialized' /\ num_allocs' \in 0 .. SizeMax
      /\ chain' \in [Buckets -> Seq(Record)] /\ Hashed'
      /\ Table' = Table \cup {[ptr |-> a, site |-> site[t]]}
      /\ num_allocs = Cardinality(Records) => num_allocs' = Cardinality(Records')
  BY <1>1, <1>2, <1>5, <1>7, AddPointer
<1>9. TypeOK'
  <2>1. "idle" \in Labels /\ Null \in Pointers /\ NoSite \in Sites \cup {NoSite}
    BY DEF Labels, Pointers
  <2>2. pc' \in [Threads -> Labels] /\ ptr' \in [Threads -> Pointers] /\ site' \in [Threads -> Sites \cup {NoSite}]
    BY <1>1, <1>3, <2>1, LocalTypes
  <2>3. held' \in [Addrs -> Sites \cup {NoSite}] /\ heap' \subseteq Addrs
    BY <1>1, <1>2, <1>5 DEF TypeOK
  <2>4. initialized' \in BOOLEAN
    BY <1>2 DEF alloc_add
  <2> QED BY <1>1, <1>3, <1>8, <2>2, <2>3, <2>4 DEF TypeOK, Record
<1>10. Tracked'
  <2>1. ~InFlight(t)'
    BY <1>4 DEF InFlight, Releasing
  <2>2. \A r \in Table' : r.ptr \in heap'
    BY <1>2, <1>6, <1>8
  <2>3. ASSUME NEW u \in Threads, u # t, InFlight(u)
        PROVE  ptr[u] \in heap' /\ \A r \in Table' : r.ptr # ptr[u]
    <3>1. ptr[u] \in heap \ {ptr[t]} /\ ~Recorded(ptr[u])
      BY <1>1, <1>6, <2>3 DEF Tracked
    <3> QED BY <1>2, <1>8, <3>1 DEF Recorded
  <2> QED BY <1>1, <1>4, <2>1, <2>2, <2>3, TrackedStep
<1>11. Inside'
  BY <1>1, <1>3, <1>4, <1>5, <1>8, InsideStep
<1>12. Noted'
  BY <1>1, <1>2, <1>5, <1>7, <1>8, NotedAdd DEF TypeOK
<1>13. Counted'
  <2>1. \A u \in Threads : lock = u => pc[u] # "oom"
    BY <1>3, <1>5
  <2> QED BY <1>1, <1>8, <2>1 DEF Counted
<1> QED BY <1>8, <1>9, <1>10, <1>11, <1>12, <1>13 DEF IInv

\* libc's free gets an address that the map has already forgotten.
LEMMA StepFreeLibc ==
  ASSUME IInv, NEW t \in Threads, FreeLibc(t)
  PROVE  IInv'
<1>1. TypeOK /\ Tracked
  BY DEF IInv
<1>2. /\ pc[t] = "free" /\ status = "running" /\ heap' = heap \ {ptr[t]}
      /\ pc' = [pc EXCEPT ![t] = "idle"]
      /\ ptr' = [ptr EXCEPT ![t] = Null] /\ site' = [site EXCEPT ![t] = NoSite]
      /\ lock' = lock /\ initialized' = initialized /\ chain' = chain /\ num_allocs' = num_allocs
      /\ capacity' = capacity /\ packed' = packed /\ status' = status /\ held' = held
  BY DEF FreeLibc, Return, Goto, map
<1>3. pc'[t] = "idle" /\ Others(t)
  BY <1>1, <1>2 DEF TypeOK, Others
<1>4. TypeOK'
  <2>1. "idle" \in Labels /\ Null \in Pointers /\ NoSite \in Sites \cup {NoSite}
    BY DEF Labels, Pointers
  <2>2. pc' \in [Threads -> Labels] /\ ptr' \in [Threads -> Pointers] /\ site' \in [Threads -> Sites \cup {NoSite}]
    BY <1>1, <1>2, <2>1, LocalTypes
  <2>3. heap' \subseteq Addrs
    BY <1>1, <1>2 DEF TypeOK
  <2> QED BY <1>1, <1>2, <2>2, <2>3 DEF TypeOK
<1>5. Table' = Table /\ Hashed' /\ Inside' /\ Noted' /\ Counted'
  BY <1>2, <1>3, KeepsMap
<1>6. Tracked'
  <2>1. ~InFlight(t)'
    BY <1>3 DEF InFlight, Releasing
  <2>2. /\ \A r \in Table : r.ptr \in heap \ {ptr[t]}
        /\ \A u \in Threads : u # t /\ InFlight(u) => ptr[u] \in heap \ {ptr[t]}
    BY <1>1, <1>2, OnlyMine
  <2>3. \A u \in Threads : InFlight(u) => \A r \in Table' : r.ptr # ptr[u]
    BY <1>1, <1>5 DEF Tracked, Recorded
  <2> QED BY <1>1, <1>2, <1>3, <1>5, <2>1, <2>2, <2>3, TrackedStep
<1> QED BY <1>4, <1>5, <1>6 DEF IInv

\* free and realloc forget a pointer before libc gets it, or panic if it has no record.
LEMMA StepForget ==
  ASSUME IInv, NEW t \in Threads, NEW p \in Pointers, NEW l \in {"realloc", "free"},
         NEW s \in Sites \cup {NoSite},
         status = "running", lock = Nobody, lock' \in {t, Nobody},
         l = "realloc" => lock' = t /\ s \in Sites,
         p = Null => NullFree, alloc_remove(p),
         IF p = Null \/ Found(p)
         THEN pc' = [pc EXCEPT ![t] = l] /\ status' = status
         ELSE pc' = [pc EXCEPT ![t] = "panic"] /\ status' = "panic",
         ptr' = [ptr EXCEPT ![t] = p], site' = [site EXCEPT ![t] = s],
         held' = IF p \in Addrs /\ Found(p) THEN [held EXCEPT ![p] = NoSite] ELSE held,
         UNCHANGED <<heap, capacity, packed>>
  PROVE  IInv'
<1>1. TypeOK /\ Hashed /\ Tracked /\ Inside /\ Noted /\ Counted
  BY DEF IInv
<1>2. heap' = heap /\ capacity' = capacity /\ packed' = packed
  OBVIOUS
<1>3. /\ Others(t) /\ ptr'[t] = p /\ site'[t] = s
      /\ pc'[t] \in {l, "panic"} /\ (pc'[t] = l => p = Null \/ Found(p))
      /\ (pc'[t] = "panic" => status' = "panic")
  BY <1>1 DEF TypeOK, Others
<1>4. /\ initialized' /\ num_allocs' \in 0 .. SizeMax
      /\ chain' \in [Buckets -> Seq(Record)] /\ Hashed'
      /\ Table' = {r \in Table : r.ptr # p}
      /\ p # Null /\ num_allocs = Cardinality(Records) => num_allocs' = Cardinality(Records')
  BY <1>1, RemovePointer
<1>5. (p # Null => (Found(p) <=> Recorded(p))) /\ (Recorded(p) => p \in Addrs)
  BY <1>1, FoundRecord
<1>6. TypeOK'
  <2>1. l \in Labels /\ "panic" \in Labels
    BY DEF Labels
  <2>2. pc' \in [Threads -> Labels] /\ ptr' \in [Threads -> Pointers] /\ site' \in [Threads -> Sites \cup {NoSite}]
    <3>1. CASE p = Null \/ Found(p)
      BY <1>1, <2>1, <3>1, LocalTypes
    <3>2. CASE ~(p = Null \/ Found(p))
      BY <1>1, <2>1, <3>2, LocalTypes
    <3> QED BY <3>1, <3>2
  <2>3. held' \in [Addrs -> Sites \cup {NoSite}]
    BY <1>1 DEF TypeOK
  <2>4. initialized' \in BOOLEAN /\ status' \in {"running", "panic", "oom"}
    BY DEF alloc_remove
  <2> QED BY <1>1, <1>2, <1>4, <2>2, <2>3, <2>4 DEF TypeOK, Record
<1>7. Tracked'
  <2>1. \A r \in Table' : r.ptr \in heap' /\ r.ptr # p
    BY <1>1, <1>2, <1>4 DEF Tracked
  <2>2. ASSUME InFlight(t)'
        PROVE  Recorded(p)
    <3>1. pc'[t] = l /\ p # Null
      BY <1>3, <2>2 DEF InFlight, Releasing
    <3> QED BY <1>3, <1>5, <3>1
  <2>3. Recorded(p) => p \in heap
    BY <1>1 DEF Tracked, Recorded
  <2>4. ASSUME NEW u \in Threads, InFlight(u)
        PROVE  /\ ptr[u] \in heap' /\ \A r \in Table' : r.ptr # ptr[u]
               /\ InFlight(t)' => p # ptr[u]
    <3>1. ptr[u] \in heap /\ ~Recorded(ptr[u])
      BY <1>1, <2>4 DEF Tracked
    <3> QED BY <1>2, <1>4, <2>2, <3>1 DEF Recorded
  <2> QED BY <1>1, <1>2, <1>3, <2>1, <2>2, <2>3, <2>4, TrackedStep
<1>8. Inside'
  <2>1. lock' = lock \/ lock = Nobody \/ lock = t
    OBVIOUS
  <2>2. pc'[t] = "realloc" => lock' = t /\ site'[t] \in Sites
    BY <1>3
  <2>3. pc'[t] # "register"
    BY <1>3
  <2> QED BY <1>1, <1>3, <1>4, <2>1, <2>2, <2>3, InsideStep
<1>9. Noted'
  <2>1. p \in Addrs => p # Null
    BY PointersAssumption
  <2>2. held' = IF p \in Addrs /\ Recorded(p) THEN [held EXCEPT ![p] = NoSite] ELSE held
    BY <1>5, <2>1
  <2> QED BY <1>1, <1>4, <2>2, NotedRemove DEF TypeOK
<1>10. Counted'
  BY <1>1, <1>4, PointersAssumption DEF Counted
<1> QED BY <1>4, <1>6, <1>7, <1>8, <1>9, <1>10 DEF IInv

\* The first part of realloc; realloc(NULL) forgets nothing.
LEMMA StepRealloc ==
  ASSUME IInv, NEW t \in Threads, NEW p \in Pointers, NEW s \in Sites, Realloc(t, p, s)
  PROVE  IInv'
<1>1. /\ status = "running" /\ pc[t] = "idle" /\ lock = Nobody /\ lock' = t
      /\ ptr' = [ptr EXCEPT ![t] = p] /\ site' = [site EXCEPT ![t] = s]
      /\ held' = IF p \in Addrs /\ Found(p) THEN [held EXCEPT ![p] = NoSite] ELSE held
      /\ heap' = heap /\ capacity' = capacity /\ packed' = packed
  BY DEF Realloc, Idle
<1>2. CASE p # Null
  <2>1. /\ alloc_remove(p)
        /\ IF p = Null \/ Found(p)
           THEN pc' = [pc EXCEPT ![t] = "realloc"] /\ status' = status
           ELSE pc' = [pc EXCEPT ![t] = "panic"] /\ status' = "panic"
    BY <1>2 DEF Realloc, Goto, mempanic
  <2>2. s \in Sites \cup {NoSite} /\ UNCHANGED <<heap, capacity, packed>>
    BY <1>1
  <2> QED BY <1>1, <1>2, <2>1, <2>2, StepForget
<1>3. CASE p = Null
  <2>1. TypeOK /\ Tracked
    BY DEF IInv
  <2>2. /\ pc' = [pc EXCEPT ![t] = "realloc"] /\ status' = status
        /\ initialized' = initialized /\ chain' = chain /\ num_allocs' = num_allocs
    BY <1>3 DEF Realloc, Goto, map
  <2>3. held' = held
    BY <1>1, <1>3, PointersAssumption
  <2>4. pc'[t] = "realloc" /\ ptr'[t] = Null /\ site'[t] = s /\ Others(t)
    BY <1>1, <1>3, <2>1, <2>2 DEF TypeOK, Others
  <2>5. TypeOK'
    <3>1. "realloc" \in Labels /\ s \in Sites \cup {NoSite}
      BY DEF Labels
    <3>2. pc' \in [Threads -> Labels] /\ ptr' \in [Threads -> Pointers] /\ site' \in [Threads -> Sites \cup {NoSite}]
      BY <1>1, <2>1, <2>2, <3>1, LocalTypes
    <3>3. lock' \in Threads \cup {Nobody}
      BY <1>1
    <3> QED BY <1>1, <2>1, <2>2, <2>3, <3>2, <3>3 DEF TypeOK
  <2>6. Table' = Table /\ Hashed' /\ Inside' /\ Noted' /\ Counted'
    BY <1>1, <2>2, <2>3, <2>4, KeepsMap
  <2>7. Tracked'
    <3>1. ~InFlight(t)'
      BY <2>4 DEF InFlight, Releasing
    <3> QED BY <1>1, <2>1, <2>4, <2>6, <3>1, TrackedSame
  <2> QED BY <2>5, <2>6, <2>7 DEF IInv
<1> QED BY <1>2, <1>3

\* The first part of free.
LEMMA StepFreeCall ==
  ASSUME IInv, NEW t \in Threads, NEW p \in Pointers, FreeCall(t, p)
  PROVE  IInv'
<1>1. /\ status = "running" /\ pc[t] = "idle" /\ lock = Nobody /\ lock' = lock
      /\ (p = Null => NullFree) /\ alloc_remove(p)
      /\ IF p = Null \/ Found(p)
         THEN pc' = [pc EXCEPT ![t] = "free"] /\ status' = status
         ELSE pc' = [pc EXCEPT ![t] = "panic"] /\ status' = "panic"
      /\ ptr' = [ptr EXCEPT ![t] = p]
      /\ held' = IF p \in Addrs /\ Found(p) THEN [held EXCEPT ![p] = NoSite] ELSE held
      /\ UNCHANGED <<heap, site, capacity, packed>>
  BY DEF FreeCall, Idle, Goto, mempanic
<1>2. site[t] \in Sites \cup {NoSite} /\ site' = [site EXCEPT ![t] = site[t]]
  BY <1>1 DEF IInv, TypeOK
<1> QED BY <1>1, <1>2, StepForget

\* The steps together.
LEMMA NextIInv == IInv /\ [Next]_vars => IInv'
<1> SUFFICES ASSUME IInv, [Next]_vars PROVE IInv'
  OBVIOUS
<1>1. ASSUME NEW t \in Threads, Call(t)
      PROVE  IInv'
  BY <1>1, StepMalloc, StepRealloc, StepFreeCall, StepPrint DEF Call
<1>2. ASSUME NEW t \in Threads, Continue(t)
      PROVE  IInv'
  BY <1>2, StepRegister, StepReallocLibc, StepFreeLibc, StepPrint DEF Continue
<1>3. ASSUME NEW t \in Threads, Fail(t)
      PROVE  IInv'
  BY <1>3, StepPrint, StepFails DEF Fail
<1>4. CASE UNCHANGED vars
  <2>1. /\ chain' = chain /\ lock' = lock /\ initialized' = initialized /\ num_allocs' = num_allocs
        /\ heap' = heap /\ pc' = pc /\ ptr' = ptr /\ site' = site /\ capacity' = capacity
        /\ packed' = packed /\ status' = status /\ held' = held
    BY <1>4 DEF vars, map, locals
  <2>2. Table' = Table /\ Records' = Records /\ (Hashed => Hashed')
    BY <2>1, SameMap
  <2>3. TypeOK' /\ Inside' /\ Noted' /\ Counted'
    BY <2>1, <2>2 DEF IInv, TypeOK, Inside, Noted, Counted
  <2>4. Tracked'
    BY <2>1, <2>2 DEF IInv, Tracked, Recorded, InFlight, Releasing
  <2> QED BY <2>2, <2>3, <2>4 DEF IInv
<1> QED BY <1>1, <1>2, <1>3, <1>4 DEF Next, Exited

-------------------------------------------------------------------------
(* The theorems.                                                           *)

\* Every reachable state of the tracker satisfies the inductive invariant.
THEOREM Invariance == Spec => []IInv
<1>1. Init => IInv
  BY InitIInv
<1>2. IInv /\ [Next]_vars => IInv'
  BY NextIInv
<1> QED BY <1>1, <1>2, PTL DEF Spec

\* Every variable of the tracker keeps its type.
THEOREM TypeCorrect == Spec => []TypeOK
<1>1. IInv => TypeOK
  BY DEF IInv
<1> QED BY <1>1, Invariance, PTL

\* libc's free and realloc never get an address that is not allocated, nor two threads the
\* same one: whatever the program frees, and from however many threads.
THEOREM ReleasesAllocated == Spec => []LibcContract
<1>1. IInv => LibcContract
  BY DEF IInv, LibcContract, Tracked, InFlight
<1> QED BY <1>1, Invariance, PTL

\* A record is found where it was put.
LEMMA RecordAt ==
  ASSUME IInv
  PROVE  /\ \A x \in Records : chain[x[1]][x[2]] \in Table /\ Hash[chain[x[1]][x[2]].ptr] = x[1]
         /\ \A r \in Table : \E x \in Records : chain[x[1]][x[2]] = r
         /\ \A x, y \in Records : chain[x[1]][x[2]].ptr = chain[y[1]][y[2]].ptr => x = y
         /\ Table \subseteq Record
<1>1. chain \in [Buckets -> Seq(Record)] /\ Hashed
  BY DEF IInv, TypeOK, Record
<1>2. \A y : y \in Records <=> \E b \in Buckets : \E i \in DOMAIN chain[b] : y = <<b, i>>
  BY DEF Records
<1>3. \A r : r \in Table <=> \E b \in Buckets : \E i \in DOMAIN chain[b] : chain[b][i] = r
  BY DEF Table, Elems
<1>4. ASSUME NEW x \in Records
      PROVE  /\ x = <<x[1], x[2]>> /\ x[1] \in Buckets /\ x[2] \in DOMAIN chain[x[1]]
             /\ chain[x[1]][x[2]] \in Table /\ Hash[chain[x[1]][x[2]].ptr] = x[1]
  <2>1. PICK b \in Buckets : \E i \in DOMAIN chain[b] : x = <<b, i>>
    BY <1>2
  <2>2. PICK i \in DOMAIN chain[b] : x = <<b, i>>
    BY <2>1
  <2>3. chain[b][i] \in Table
    BY <1>3
  <2> QED BY <1>1, <2>2, <2>3 DEF Hashed
<1>5. ASSUME NEW r \in Table
      PROVE  \E x \in Records : chain[x[1]][x[2]] = r
  <2>1. PICK b \in Buckets : \E i \in DOMAIN chain[b] : chain[b][i] = r
    BY <1>3
  <2>2. PICK i \in DOMAIN chain[b] : chain[b][i] = r
    BY <2>1
  <2>3. <<b, i>> \in Records
    BY <1>2
  <2> QED BY <2>2, <2>3
<1>6. ASSUME NEW x \in Records, NEW y \in Records,
             chain[x[1]][x[2]].ptr = chain[y[1]][y[2]].ptr
      PROVE  x = y
  <2>1. x[1] = y[1]
    BY <1>4, <1>6
  <2>2. x[2] = y[2]
    BY <1>1, <1>4, <1>6, <2>1 DEF Hashed, Distinct
  <2> QED BY <1>4, <2>1, <2>2
<1>7. Table \subseteq Record
  BY <1>1, <1>3
<1> QED BY <1>4, <1>5, <1>6, <1>7

\* A record is of memory that libc has allocated and that nobody is giving back; no pointer
\* has two records, and each record is in the bucket of its pointer.
THEOREM RecordsAreLive == Spec => []RecordsLive
<1>1. ASSUME IInv
      PROVE  RecordsLive
  <2>1. ASSUME NEW x \in Records, NEW t \in Threads, Releasing(t)
        PROVE  ptr[t] # chain[x[1]][x[2]].ptr
    BY <2>1, <1>1, RecordAt DEF IInv, Tracked, InFlight, Recorded
  <2>2. \A x \in Records : chain[x[1]][x[2]].ptr \in heap
    BY <1>1, RecordAt DEF IInv, Tracked
  <2> QED BY <1>1, <2>1, <2>2, RecordAt DEF RecordsLive
<1> QED BY <1>1, Invariance, PTL

\* The map contains exactly the pointers of the program, each with the call that last
\* returned it.
THEOREM MapIsProgram == Spec => []MapMatchesProgram
<1>1. ASSUME IInv
      PROVE  MapMatchesProgram
  <2> DEFINE L == {<<chain[x[1]][x[2]].ptr, chain[x[1]][x[2]].site>> : x \in Records}
             R == {<<a, held[a]>> : a \in {b \in Addrs : held[b] # NoSite}}
  <2>1. held \in [Addrs -> Sites \cup {NoSite}] /\ Noted
    BY <1>1 DEF IInv, TypeOK
  <2>2. ASSUME NEW x \in Records
        PROVE  <<chain[x[1]][x[2]].ptr, chain[x[1]][x[2]].site>> \in R
    <3> DEFINE r == chain[x[1]][x[2]]
    <3>1. r \in Table /\ r \in Record
      BY <1>1, RecordAt
    <3> HIDE DEF r
    <3>2. r.ptr \in Addrs /\ held[r.ptr] = r.site /\ r.site # NoSite
      BY <2>1, <3>1, SitesAssumption DEF Noted, Record
    <3> QED BY <3>2 DEF r
  <2>3. ASSUME NEW a \in Addrs, held[a] # NoSite
        PROVE  <<a, held[a]>> \in L
    <3> DEFINE r == [ptr |-> a, site |-> held[a]]
    <3>1. r \in Record /\ r.ptr = a /\ r.site = held[a]
      BY <2>1, <2>3 DEF Record
    <3> HIDE DEF r
    <3>2. r \in Table
      BY <2>1, <3>1 DEF Noted
    <3>3. PICK x \in Records : chain[x[1]][x[2]] = r
      BY <1>1, <3>2, RecordAt
    <3> QED BY <3>1, <3>3
  <2>4. L = R
    BY <2>2, <2>3
  <2> QED BY <2>4 DEF MapMatchesProgram
<1> QED BY <1>1, Invariance, PTL

\* In a program that never frees NULL, the total that print_heap prints is the number of
\* records whenever the mutex is free.
THEOREM CountIsExact == ASSUME ~NullFree PROVE Spec => []CountExact
<1>1. ASSUME IInv
      PROVE  CountExact
  BY <1>1, PointersAssumption DEF IInv, Counted, CountExact
<1> QED BY <1>1, Invariance, PTL

\* The program panics only over a pointer that it does not own.
THEOREM PanicsJustified == Spec => []NoFalsePanic
<1>1. Init => NoFalsePanic
  BY DEF Init, NoFalsePanic
<1>2. ASSUME IInv, NoFalsePanic, [Next]_vars
      PROVE  NoFalsePanic'
  <2>1. TypeOK /\ Hashed /\ Inside /\ Noted
    BY <1>2 DEF IInv
  <2>2. SUFFICES ASSUME NEW t \in Threads, pc'[t] = "panic"
                 PROVE  ptr'[t] \notin {a \in Addrs : held'[a] # NoSite}
    BY DEF NoFalsePanic
  <2>3. CASE UNCHANGED vars
    <3>1. pc' = pc /\ ptr' = ptr /\ held' = held
      BY <2>3 DEF vars, locals
    <3> QED BY <1>2, <2>2, <3>1 DEF NoFalsePanic
  <2>4. CASE \E u \in Threads : Call(u) \/ Continue(u) \/ Fail(u)
    <3>1. PICK u \in Threads : Call(u) \/ Continue(u) \/ Fail(u)
      BY <2>4
    <3>2. \E p \in Pointers : \/ \E s \in Sites : Realloc(u, p, s)
                              \/ FreeCall(u, p)
      <4>1. pc[t] = "panic" => status # "running"
        BY <2>1 DEF Inside
      <4>2. ASSUME NEW s \in Sites
            PROVE  ~Malloc(u, s)
        BY <2>1, <2>2, <4>1 DEF Malloc, Idle, Goto, TypeOK
      <4>3. ~DumpCall(u) /\ ~DumpPack(u) /\ ~DumpPrint(u) /\ ~OOM(u)
        BY <2>1, <2>2, <4>1 DEF DumpCall, DumpPack, DumpPrint, OOM, Idle, Goto, TypeOK, locals
      <4>4. ~Register(u) /\ ~ReallocLibc(u) /\ ~FreeLibc(u)
        BY <2>1, <2>2, <4>1 DEF Register, ReallocLibc, FreeLibc, Return, Goto, TypeOK
      <4>5. ~Fail(u)
        BY <2>1, <2>2, <4>1
           DEF Fail, MallocFails, RegisterFails, ReallocFails, ReallocAddFails, AddFails, DumpFails,
               Idle, Goto, TypeOK
      <4> QED BY <3>1, <4>2, <4>3, <4>4, <4>5 DEF Call, Continue
    <3>3. PICK p \in Pointers : \/ \E s \in Sites : Realloc(u, p, s)
                                \/ FreeCall(u, p)
      BY <3>2
    <3>4. /\ status = "running" /\ ptr' = [ptr EXCEPT ![u] = p]
          /\ p = Null \/ Found(p) => pc' = [pc EXCEPT ![u] = "realloc"] \/ pc' = [pc EXCEPT ![u] = "free"]
          /\ pc' = [pc EXCEPT ![u] = pc'[u]]
          /\ held' = IF p \in Addrs /\ Found(p) THEN [held EXCEPT ![p] = NoSite] ELSE held
      BY <2>1, <3>3 DEF Realloc, FreeCall, Idle, Goto, mempanic, TypeOK
    <3>5. u = t /\ ptr'[t] = p /\ p # Null /\ ~Found(p)
      BY <2>1, <2>2, <3>4 DEF Inside, TypeOK
    <3>6. ~Recorded(p)
      BY <2>1, <3>5, FoundRecord
    <3>7. ASSUME p \in Addrs
          PROVE  held[p] = NoSite
      <4> DEFINE r == [ptr |-> p, site |-> held[p]]
      <4>1. held[p] \in Sites => r \in Record /\ r.ptr = p /\ r.site = held[p]
        BY <3>7 DEF Record
      <4> HIDE DEF r
      <4>2. held[p] \notin Sites
        BY <2>1, <3>6, <4>1 DEF Noted, Recorded
      <4> QED BY <2>1, <3>7, <4>2 DEF TypeOK
    <3> QED BY <3>4, <3>5, <3>7
  <2> QED BY <1>2, <2>3, <2>4 DEF Next, Exited
<1> QED BY <1>1, <1>2, Invariance, PTL DEF Spec
=========================================================================
