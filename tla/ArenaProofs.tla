---------------------------- MODULE ArenaProofs ----------------------------
(* Proofs about Arena, for all sizes that SizesAssumption allows.           *)
EXTENDS Arena, TLAPS

Record == [buf_size : 0 .. SizeMax, buf_cap : 0 .. SizeMax, room : Nat,
           base : Nat, given : SUBSET Block]

InUse == status \in {"open", "exit"}
End(b) == b.start + b.size
InFirst(i) == live[i].arena = 1

\* Types, and which arenas there are in which state.
Base ==
  /\ chain \in Seq(Record) /\ Len(chain) <= MaxArenas
  /\ heap \subseteq {"buffer", "arena", "given"} \X (1 .. MaxArenas)
  /\ live \in Seq(Block)
  /\ strayed \in BOOLEAN /\ cursor \in Nat
  /\ status \in {"none", "open", "destroying", "exit"}
  /\ InUse => chain # <<>>
  /\ status \in {"none", "destroying"} => live = <<>>

\* The sizes of the arenas: what is used of the first one is within its capacity.
Sized ==
  InUse =>
    /\ chain[1].buf_cap \in HeadCaps \cup {ARENA_SIZE}
    /\ chain[1].buf_size <= chain[1].buf_cap
    /\ \A k \in DOMAIN chain : k # 1 => chain[k].buf_cap = ChainedCap

\* A block is within the first arena, or alone in a chained one.
Placed ==
  /\ \A i \in DOMAIN live :
       /\ live[i].arena \in DOMAIN chain
       /\ InFirst(i) => End(live[i]) <= chain[1].buf_cap
       /\ ~InFirst(i) => live[i].start = 0
  /\ \A i, j \in DOMAIN live : i < j /\ live[i].arena = live[j].arena => InFirst(i)

\* Unless a pop went astray the blocks of the first arena are in the order of live,
\* and in its used part.
InOrder ==
  ~strayed =>
    /\ \A i \in DOMAIN live : InFirst(i) => End(live[i]) <= chain[1].buf_size
    /\ \A i, j \in DOMAIN live :
         i < j /\ InFirst(i) /\ InFirst(j) => End(live[i]) <= live[j].start

\* The blocks of the first arena follow each other without gaps, from its start
\* to buf_size: a pop of the last one frees what it took and nothing else.
Gapless ==
  InUse /\ ~strayed =>
    /\ \A j \in DOMAIN live :
         InFirst(j) /\ (\A i \in 1 .. j - 1 : ~InFirst(i)) => live[j].start = 0
    /\ \A i, j \in DOMAIN live :
         i < j /\ InFirst(i) /\ InFirst(j) /\ (\A k \in i + 1 .. j - 1 : ~InFirst(k)) =>
           live[j].start = End(live[i])
    /\ \A i \in DOMAIN live :
         InFirst(i) /\ (\A k \in i + 1 .. Len(live) : ~InFirst(k)) =>
           End(live[i]) = chain[1].buf_size
    /\ (\A i \in DOMAIN live : ~InFirst(i)) => chain[1].buf_size = 0

IInv == Base /\ Sized /\ Placed /\ InOrder /\ Gapless /\ Recorded /\ HeapExact
-------------------------------------------------------------------------
(* Sizes *)

\* A rounded request is a size.
LEMMA RoundType ==
  ASSUME NEW n \in Requests
  PROVE  Round(n) \in 0 .. SizeMax
<1> USE SizesAssumption
<1> DEFINE a == (n + Align - 1) % (SizeMax + 1)
<1>1. n + Align - 1 \in Nat /\ SizeMax + 1 \in Nat \ {0} /\ SizeMax \in Nat
  OBVIOUS
<1>2. a \in Nat
  BY <1>1
<1> HIDE DEF a
<1>3. (a \div Align) \in Nat
  BY <1>2
<1> DEFINE q == a \div Align
<1> HIDE DEF q
<1>4. (q * Align) \in Nat
  BY <1>3 DEF q
<1>5. (q * Align) % (SizeMax + 1) \in 0 .. SizeMax
  <2> DEFINE p == q * Align
  <2>1. p \in Nat
    BY <1>4
  <2> HIDE DEF p
  <2> QED BY ONLY <1>1, <2>1 DEF p
<1> QED BY <1>5 DEF Round, _roundToAlignment, a, q

\* Sums and differences of multiples of the alignment are multiples of it.
LEMMA Multiples ==
  ASSUME NEW x \in Int, NEW y \in Int, x % Align = 0, y % Align = 0
  PROVE  (x + y) % Align = 0 /\ (x - y) % Align = 0
<1>0. Align \in Nat /\ Align > 0
  BY SizesAssumption
<1> DEFINE j == x \div Align
           k == y \div Align
<1>1. j \in Int /\ x = j * Align + (x % Align)
  BY <1>0, Z3
<1>2. k \in Int /\ y = k * Align + (y % Align)
  BY <1>0, Z3
<1> HIDE DEF j, k
<1>3. x + y = (j + k) * Align /\ x - y = (j - k) * Align
  BY <1>0, <1>1, <1>2, Z3
<1>4. \A m \in Int : (m * Align) % Align = 0
  BY <1>0, Z3
<1>5. j + k \in Int /\ j - k \in Int
  BY <1>1, <1>2
<1>6. ((j + k) * Align) % Align = 0 /\ ((j - k) * Align) % Align = 0
  BY ONLY <1>4, <1>5
<1> QED BY <1>3, <1>6

\* A rounded request is a multiple of the alignment.
LEMMA RoundedMultiple ==
  ASSUME NEW n \in Requests
  PROVE  Round(n) % Align = 0
<1>0. /\ Align \in Nat /\ Align > 0 /\ SizeMax \in Nat /\ n \in Nat /\ n + Align <= SizeMax
  BY SizesAssumption
<1> DEFINE a == n + Align - 1
           q == a \div Align
<1>1. a \in Nat /\ a < SizeMax + 1
  BY <1>0
<1>2. a % (SizeMax + 1) = a
  BY <1>0, <1>1
<1> HIDE DEF a
<1>3. q \in Nat /\ q * Align <= a /\ q * Align \in Nat
  BY <1>0, <1>1, Z3
<1>4. \A k \in Nat : (k * Align) % Align = 0
  BY <1>0, Z3
<1> HIDE DEF q
<1> DEFINE b == q * Align
<1>5. Round(n) = b % (SizeMax + 1)
  BY <1>2 DEF Round, _roundToAlignment, a, q
<1>6. b \in Nat /\ b < SizeMax + 1 /\ b % Align = 0
  BY <1>0, <1>1, <1>3, <1>4
<1> HIDE DEF b
<1>7. b % (SizeMax + 1) = b
  BY <1>0, <1>6
<1> QED BY <1>5, <1>6, <1>7

-------------------------------------------------------------------------
(* Sequences, and what claiming a block does to one arena                  *)

\* Replacing an element changes only that one.
LEMMA UpdateElement ==
  ASSUME NEW S, NEW s \in Seq(S), NEW k \in DOMAIN s, NEW x \in S,
         NEW t, t = [s EXCEPT ![k] = x]
  PROVE  /\ t \in Seq(S) /\ Len(t) = Len(s) /\ t[k] = x
         /\ \A i \in DOMAIN s : i # k => t[i] = s[i]
OBVIOUS

\* Appending keeps the elements and puts the new one behind them.
LEMMA AppendElement ==
  ASSUME NEW S, NEW s \in Seq(S), NEW x \in S, NEW t, t = Append(s, x)
  PROVE  /\ t \in Seq(S) /\ Len(t) = Len(s) + 1 /\ t[Len(s) + 1] = x
         /\ \A i \in DOMAIN s : t[i] = s[i]
OBVIOUS

\* The arena stays within its type and records the block.
LEMMA ClaimedArena ==
  ASSUME NEW a \in Record, NEW b \in Block, a.buf_size + b.size \in 0 .. SizeMax,
         NEW c, c = Claimed(a, b)
  PROVE  /\ c \in Record
         /\ c.buf_size = a.buf_size + b.size /\ c.buf_cap = a.buf_cap /\ c.base = a.base
         /\ a.given \subseteq c.given /\ (MEMDEBUG => b \in c.given)
<1>1. a.given \cup {b} \in SUBSET Block
  BY DEF Record
<1> QED BY <1>1 DEF Record, Claimed

\* Every number in an arena and in a block is a natural number.
LEMMA ArenaNumbers ==
  ASSUME NEW c \in Seq(Record)
  PROVE  \A k \in DOMAIN c : c[k].buf_size \in Nat /\ c[k].buf_cap \in Nat
<1>1. ASSUME NEW k \in DOMAIN c PROVE c[k] \in Record
  OBVIOUS
<1>2. \A a \in Record : a.buf_size \in Nat /\ a.buf_cap \in Nat
  BY DEF Record
<1> QED BY <1>1, <1>2

\* The fields of the live blocks are natural numbers.
LEMMA BlockNumbers ==
  ASSUME NEW l \in Seq(Block)
  PROVE  \A i \in DOMAIN l : l[i].arena \in Nat /\ l[i].start \in Nat /\ l[i].size \in Nat
<1>1. ASSUME NEW i \in DOMAIN l PROVE l[i] \in Block
  OBVIOUS
<1>2. \A b \in Block : b.arena \in Nat /\ b.start \in Nat /\ b.size \in Nat
  BY DEF Block
<1> QED BY <1>1, <1>2

\* What a request of r words does to a first arena it fits in.
FitsStep(r) ==
  LET blk == [arena |-> 1, start |-> chain[1].buf_size, size |-> r]
  IN  /\ chain[1].buf_size + r < chain[1].buf_cap
      /\ chain' \in Seq(Record) /\ Len(chain') = Len(chain)
      /\ \A k \in DOMAIN chain :
           /\ chain'[k].buf_cap = chain[k].buf_cap /\ chain'[k].base = chain[k].base
           /\ chain[k].given \subseteq chain'[k].given
           /\ k # 1 => chain'[k].buf_size = chain[k].buf_size
      /\ chain'[1].buf_size = chain[1].buf_size + r
      /\ blk \in Block /\ live' = Append(live, blk)
      /\ MEMDEBUG => blk \in chain'[1].given
      /\ heap' = heap /\ strayed' = strayed

\* And to a chain whose first arena it does not fit in.
ChainsStep(r) ==
  LET k == Len(chain) + 1
      blk == [arena |-> k, start |-> 0, size |-> r]
  IN  /\ chain' \in Seq(Record) /\ Len(chain') = k /\ k <= MaxArenas
      /\ \A i \in DOMAIN chain : chain'[i] = chain[i]
      /\ chain'[k].buf_size = r /\ chain'[k].buf_cap = ChainedCap /\ chain'[k].base = Header
      /\ blk \in Block /\ live' = Append(live, blk)
      /\ MEMDEBUG => blk \in chain'[k].given
      /\ heap' = heap \cup Parts(k) /\ strayed' = strayed

\* A request fits one of the arenas or chains a new one (arena.h:141).
LEMMA MallocCases ==
  ASSUME IInv, NEW n \in Requests, Arena_malloc(n)
  PROVE  \E r \in 0 .. SizeMax : r = Round(n) /\ (FitsStep(r) \/ ChainsStep(r))
<1> DEFINE r == Round(n)
<1> DEFINE half == SizeMax \div 2
<1>0. SizeMax \in Nat /\ half \in 0 .. SizeMax /\ half + half <= SizeMax
  BY SizesAssumption
<1> HIDE DEF half
<1>1. /\ r \in 0 .. SizeMax /\ ChainedCap \in 0 .. SizeMax /\ SizeMax \in Nat
      /\ \A c \in HeadCaps \cup {ARENA_SIZE} : c \in 0 .. half
  BY <1>0, RoundType, SizesAssumption DEF ChainedCap, half
<1>2. /\ status = "open" /\ chain \in Seq(Record) /\ chain # <<>> /\ Len(chain) <= MaxArenas
      /\ chain[1] \in Record /\ chain[1].buf_cap \in HeadCaps \cup {ARENA_SIZE}
      /\ chain[1].buf_size <= chain[1].buf_cap /\ 1 \in DOMAIN chain
  BY DEF IInv, Base, Sized, InUse, Arena_malloc
<1>r. r \in 0 .. half
  <2>1. MEMDEBUG => r <= chain[1].buf_cap
    <3>1. chain[1].buf_cap \in Nat /\ r \in Nat
      BY <1>1, <1>2, <1>0
    <3> QED BY <3>1 DEF Arena_malloc, Refused
  <2>2. ~MEMDEBUG => r <= half
    BY SizesAssumption DEF half
  <2> QED BY <1>0, <1>1, <1>2, <2>1, <2>2
<1> HIDE DEF r
<1>3. chain[1].buf_size + r \in 0 .. SizeMax
  <2>1. chain[1].buf_size \in Nat
    BY <1>2 DEF Record
  <2>2. r \in 0 .. half /\ chain[1].buf_cap \in 0 .. half
    BY <1>1, <1>2, <1>r
  <2>3. chain[1].buf_size <= chain[1].buf_cap
    BY <1>2
  <2> QED BY ONLY <1>0, <2>1, <2>2, <2>3
<1>4. Full(r) <=> chain[1].buf_size + r >= chain[1].buf_cap
  <2>1. \A m \in 0 .. SizeMax : m % (SizeMax + 1) = m
    BY SizesAssumption
  <2> QED BY <2>1, <1>3 DEF Full
<1>5. CASE ~Full(r)
  <2> DEFINE blk == [arena |-> 1, start |-> chain[1].buf_size, size |-> r]
             new == Claimed(chain[1], blk)
  <2>1. /\ chain' = [chain EXCEPT ![1] = new]
        /\ live' = Append(live, blk) /\ heap' = heap /\ strayed' = strayed
    BY <1>5, <1>2 DEF Arena_malloc, r
  <2>2. blk \in Block /\ blk.size = r
    <3>1. 1 \in 1 .. MaxArenas
      BY <1>2, SizesAssumption
    <3>2. chain[1].buf_size \in 0 .. SizeMax
      BY <1>2 DEF Record
    <3> QED BY <3>1, <3>2, <1>1 DEF Block
  <2>3. /\ new \in Record
        /\ new.buf_size = chain[1].buf_size + r /\ new.buf_cap = chain[1].buf_cap
        /\ new.base = chain[1].base
        /\ chain[1].given \subseteq new.given /\ (MEMDEBUG => blk \in new.given)
    <3> HIDE DEF blk
    <3> QED BY <2>2, <1>2, <1>3, ClaimedArena
  <2> HIDE DEF new
  <2>4. /\ chain' \in Seq(Record) /\ Len(chain') = Len(chain) /\ chain'[1] = new
        /\ \A k \in DOMAIN chain : k # 1 => chain'[k] = chain[k]
    BY <2>1, <2>3, <1>2, UpdateElement
  <2>5. \A k \in DOMAIN chain :
          /\ chain'[k].buf_cap = chain[k].buf_cap /\ chain'[k].base = chain[k].base
          /\ chain[k].given \subseteq chain'[k].given
          /\ k # 1 => chain'[k].buf_size = chain[k].buf_size
    BY <2>3, <2>4
  <2>6. chain[1].buf_size + r < chain[1].buf_cap
    <3>1. chain[1].buf_size + r \in Int /\ chain[1].buf_cap \in Int
      BY <1>2, <1>3, <1>1
    <3> QED BY <3>1, <1>4, <1>5
  <2>7. FitsStep(r)
    BY <2>1, <2>2, <2>3, <2>4, <2>5, <2>6, <1>1 DEF FitsStep
  <2> QED BY <1>1, <2>7 DEF r
<1>6. CASE Full(r)
  <2> DEFINE k == Len(chain) + 1
             blk == [arena |-> k, start |-> 0, size |-> r]
             new == Claimed(_Arena_new_on, blk)
             arenas == Append(chain, _Arena_new_on)
  <2>1. /\ _Arena_new_on \in Record /\ _Arena_new_on.buf_cap = ChainedCap
        /\ _Arena_new_on.buf_size = 0 /\ _Arena_new_on.base = Header
    BY <1>1, SizesAssumption DEF Record, _Arena_new_on, Arena_init
  <2>2. /\ arenas \in Seq(Record) /\ Len(arenas) = k /\ arenas[k] = _Arena_new_on
        /\ \A i \in DOMAIN chain : arenas[i] = chain[i]
    BY <1>2, <2>1, AppendElement
  <2>3. LET block == [arena |-> k, start |-> arenas[k].buf_size, size |-> r]
        IN  /\ chain' = [arenas EXCEPT ![k] = Claimed(@, block)]
            /\ live' = Append(live, block)
            /\ heap' = heap \cup Parts(k) /\ strayed' = strayed /\ k <= MaxArenas
    BY <1>6, <2>2 DEF Arena_malloc, r
  <2>4. /\ chain' = [arenas EXCEPT ![k] = new] /\ live' = Append(live, blk)
        /\ heap' = heap \cup Parts(k) /\ strayed' = strayed /\ k <= MaxArenas
    BY <2>1, <2>2, <2>3
  <2>5. blk \in Block /\ blk.size = r
    BY <1>1, <1>2, <2>4 DEF Block
  <2>6. 0 + r \in 0 .. SizeMax /\ 0 + r = r
    BY <1>1
  <2>7. /\ new \in Record /\ new.buf_size = r /\ new.buf_cap = ChainedCap /\ new.base = Header
        /\ MEMDEBUG => blk \in new.given
    <3> HIDE DEF blk
    <3> QED BY <2>1, <2>5, <2>6, ClaimedArena
  <2> HIDE DEF new, arenas
  <2>8. k \in DOMAIN arenas /\ k = Len(chain) + 1 /\ \A i \in DOMAIN chain : i \in DOMAIN arenas /\ i # k
    BY <2>2, <1>2
  <2>9. /\ chain' \in Seq(Record) /\ Len(chain') = k /\ chain'[k] = new
        /\ \A i \in DOMAIN arenas : i # k => chain'[i] = arenas[i]
    <3> HIDE DEF k
    <3> QED BY <2>2, <2>4, <2>7, <2>8, UpdateElement
  <2>10. \A i \in DOMAIN chain : chain'[i] = chain[i]
    BY <2>2, <2>8, <2>9
  <2>11. ChainsStep(r)
    BY <2>4, <2>5, <2>7, <2>9, <2>10, <1>1 DEF ChainsStep
  <2> QED BY <1>1, <2>11 DEF r
<1> QED BY <1>5, <1>6
-------------------------------------------------------------------------
(* Each action keeps the invariant                                         *)

\* The arena that the program makes first satisfies the invariant.
LEMMA InitIInv == Init => IInv
<1> SUFFICES ASSUME Init PROVE IInv
  OBVIOUS
<1>0. MaxArenas \in Nat
  BY SizesAssumption
<1>1. Base
  <2>1. /\ chain = <<>> /\ heap = {} /\ live = <<>> /\ strayed = FALSE
        /\ cursor = 0 /\ status = "none"
    BY DEF Init
  <2>2. chain \in Seq(Record) /\ Len(chain) <= MaxArenas /\ live \in Seq(Block)
    BY <1>0, <2>1
  <2> QED BY <2>1, <2>2 DEF Base, InUse
<1>2. Sized /\ Placed /\ InOrder /\ Gapless /\ Recorded /\ HeapExact
  BY DEF Init, Sized, Placed, InOrder, Gapless, Recorded, HeapExact, InUse, Blocks
<1> QED BY <1>1, <1>2 DEF IInv

\* A request, except for what malloc gave out.
LEMMA MallocPlaced ==
  ASSUME IInv, NEW n \in Requests, Arena_malloc(n)
  PROVE  (Base /\ Sized /\ Placed /\ InOrder /\ Gapless /\ Recorded)'
<1>0. /\ status = "open" /\ status' = "open" /\ cursor' = cursor
      /\ chain \in Seq(Record) /\ chain # <<>> /\ 1 \in DOMAIN chain
      /\ live \in Seq(Block) /\ Len(chain) <= MaxArenas
      /\ MaxArenas \in Nat /\ SizeMax \in Nat /\ ChainedCap \in Nat
  BY SizesAssumption, SMTT(30) DEF IInv, Base, InUse, Arena_malloc, ChainedCap
<1>1. PICK r \in 0 .. SizeMax : FitsStep(r) \/ ChainsStep(r)
  BY MallocCases
<1>2. CASE FitsStep(r)
  <2> DEFINE blk == [arena |-> 1, start |-> chain[1].buf_size, size |-> r]
  <2>n. PICK N \in Nat : N = Len(live) + 1
    BY <1>0
  <2>0. chain[1].buf_size \in Nat /\ r \in Nat /\ DOMAIN chain' = DOMAIN chain
    BY <1>0, <1>2, ArenaNumbers DEF FitsStep
  <2>1. /\ live' \in Seq(Block) /\ Len(live') = N /\ N \in Nat
        /\ live'[N] = blk
        /\ DOMAIN live' = DOMAIN live \cup {N} /\ DOMAIN live = 1 .. N - 1
        /\ \A i \in DOMAIN live : live'[i] = live[i]
    BY <1>0, <1>2, <2>n, AppendElement DEF FitsStep
  <2>2. /\ live'[N].arena = 1 /\ live'[N].start = chain[1].buf_size /\ live'[N].size = r
    BY <2>1
  <2>3. /\ \A i \in DOMAIN chain : chain[i].buf_size \in Nat /\ chain[i].buf_cap \in Nat
        /\ \A i \in DOMAIN live :
             /\ live[i].arena \in DOMAIN chain /\ live[i].start \in Nat /\ live[i].size \in Nat
             /\ End(live[i]) \in Nat
             /\ InFirst(i) => End(live[i]) <= chain[1].buf_cap
             /\ ~InFirst(i) => live[i].start = 0
        /\ \A i, j \in DOMAIN live : i < j /\ live[i].arena = live[j].arena => InFirst(i)
    BY <1>0, ArenaNumbers, BlockNumbers DEF IInv, Placed, End
  <2>f. \A i \in DOMAIN live : InFirst(i)' <=> InFirst(i)
    BY <2>1 DEF InFirst
  <2> HIDE DEF blk
  <2>4. Base'
    BY <1>0, <1>2, <2>0, <2>1 DEF IInv, Base, InUse, FitsStep
  <2>5. Sized'
    <3>1. chain'[1].buf_size <= chain'[1].buf_cap
      <4>1. /\ chain'[1].buf_size = chain[1].buf_size + r
            /\ chain'[1].buf_cap = chain[1].buf_cap
            /\ chain[1].buf_size + r < chain[1].buf_cap
        BY <1>0, <1>2 DEF FitsStep
      <4>2. chain[1].buf_cap \in Nat
        BY <1>0, <2>3
      <4> QED BY <2>0, <4>1, <4>2
    <3>2. /\ chain'[1].buf_cap = chain[1].buf_cap
          /\ \A k \in DOMAIN chain' : k # 1 => chain'[k].buf_cap = ChainedCap
      BY <1>0, <1>2, <2>0 DEF FitsStep, IInv, Sized, InUse
    <3> QED BY <1>0, <3>1, <3>2 DEF IInv, Sized, InUse
  <2>6. Placed'
    <3>1. ASSUME NEW i \in DOMAIN live
          PROVE  /\ live'[i].arena \in DOMAIN chain'
                 /\ InFirst(i)' => End(live'[i]) <= chain'[1].buf_cap
                 /\ ~InFirst(i)' => live'[i].start = 0
      BY <1>0, <1>2, <2>0, <2>1, <2>3, <2>f DEF FitsStep
    <3>2. /\ live'[N].arena \in DOMAIN chain' /\ InFirst(N)'
          /\ End(live'[N]) <= chain'[1].buf_cap
      <4>1. /\ End(live'[N]) = chain[1].buf_size + r
            /\ chain[1].buf_size + r < chain[1].buf_cap /\ chain'[1].buf_cap = chain[1].buf_cap
        BY <1>0, <1>2, <2>2 DEF End, FitsStep
      <4>2. chain[1].buf_cap \in Nat
        BY <1>0, <2>3
      <4>3. End(live'[N]) <= chain'[1].buf_cap
        BY <2>0, <4>1, <4>2
      <4>4. live'[N].arena \in DOMAIN chain'
        BY ONLY <1>0, <2>0, <2>2
      <4>5. InFirst(N)'
        BY <2>2 DEF InFirst
      <4> QED BY ONLY <4>3, <4>4, <4>5
    <3>3. ASSUME NEW i \in DOMAIN live', NEW j \in DOMAIN live', i < j,
                 live'[i].arena = live'[j].arena
          PROVE  InFirst(i)'
      <4>1. i \in DOMAIN live
        BY <2>1, <3>3
      <4>2. CASE j \in DOMAIN live
        BY <2>1, <2>3, <2>f, <3>3, <4>1, <4>2
      <4>3. CASE j = N
        BY <2>2, <3>3, <4>3 DEF InFirst
      <4> QED BY <2>1, <4>2, <4>3
    <3>4. DOMAIN live' = DOMAIN live \cup {N}
      BY <2>1
    <3>5. \A i \in DOMAIN live' :
            /\ live'[i].arena \in DOMAIN chain'
            /\ InFirst(i)' => End(live'[i]) <= chain'[1].buf_cap
            /\ ~InFirst(i)' => live'[i].start = 0
      BY ONLY <3>1, <3>2, <3>4
    <3> QED BY ONLY <3>3, <3>5 DEF Placed, End, InFirst
  <2>7. InOrder'
    <3> SUFFICES ASSUME ~strayed
                 PROVE  /\ \A i \in DOMAIN live' : InFirst(i)' => End(live'[i]) <= chain'[1].buf_size
                        /\ \A i, j \in DOMAIN live' :
                             i < j /\ InFirst(i)' /\ InFirst(j)' => End(live'[i]) <= live'[j].start
      BY <1>2 DEF InOrder, FitsStep, End, InFirst
    <3>1. /\ \A i \in DOMAIN live : InFirst(i) => End(live[i]) <= chain[1].buf_size
          /\ \A i, j \in DOMAIN live :
               i < j /\ InFirst(i) /\ InFirst(j) => End(live[i]) <= live[j].start
      BY DEF IInv, InOrder
    <3>2. chain'[1].buf_size = chain[1].buf_size + r /\ End(live'[N]) = chain[1].buf_size + r
      BY <1>2, <2>2 DEF FitsStep, End
    <3>3. ASSUME NEW i \in DOMAIN live', InFirst(i)'
          PROVE  End(live'[i]) <= chain'[1].buf_size
      <4>1. CASE i \in DOMAIN live
        <5>1. End(live'[i]) <= chain[1].buf_size /\ End(live'[i]) \in Nat
          BY <2>1, <2>3, <2>f, <3>1, <3>3, <4>1
        <5> QED BY <2>0, <3>2, <5>1
      <4>2. CASE i = N
        BY <2>0, <3>2, <4>2
      <4> QED BY <2>1, <4>1, <4>2
    <3>4. ASSUME NEW i \in DOMAIN live', NEW j \in DOMAIN live', i < j, InFirst(i)', InFirst(j)'
          PROVE  End(live'[i]) <= live'[j].start
      <4>1. i \in DOMAIN live /\ InFirst(i) /\ live'[i] = live[i]
        BY <2>1, <2>f, <3>4
      <4>2. CASE j \in DOMAIN live
        BY <2>1, <2>f, <3>1, <3>4, <4>1, <4>2
      <4>3. CASE j = N
        BY <2>2, <3>1, <4>1, <4>3
      <4> QED BY <2>1, <4>2, <4>3
    <3> QED BY <3>3, <3>4
  <2>9. ASSUME ~strayed
        PROVE  Gapless'
    <3>1. \A i \in DOMAIN live : InFirst(i)' <=> InFirst(i)
      BY <2>1 DEF InFirst
    <3>2. \A i \in DOMAIN live' : i = N => InFirst(i)'
      BY <2>2 DEF InFirst
    <3>3. /\ chain'[1].buf_size = chain[1].buf_size + r
          /\ End(live'[N]) = chain'[1].buf_size
      BY <1>2, <2>0, <2>2 DEF FitsStep, End
    <3>4. ASSUME NEW j \in DOMAIN live', InFirst(j)', \A i \in 1 .. j - 1 : ~InFirst(i)'
          PROVE  live'[j].start = 0
      <4>1. CASE j \in DOMAIN live
        <5>1. \A i \in 1 .. j - 1 : ~InFirst(i)
          BY <2>1, <3>1, <3>4, <4>1
        <5> QED BY <2>9, <1>0, <2>1, <3>1, <3>4, <4>1, <5>1 DEF IInv, Gapless, InUse
      <4>2. CASE j = N
        BY <2>9, <1>0, <2>1, <2>2, <3>1, <3>4, <4>2 DEF IInv, Gapless, InUse
      <4> QED BY <2>1, <4>1, <4>2
    <3>5. ASSUME NEW i \in DOMAIN live', NEW j \in DOMAIN live', i < j, InFirst(i)', InFirst(j)',
                 \A m \in i + 1 .. j - 1 : ~InFirst(m)'
          PROVE  live'[j].start = End(live'[i])
      <4>0. i \in DOMAIN live
        BY <2>1, <3>5
      <4>1. CASE j \in DOMAIN live
        <5>1. \A m \in i + 1 .. j - 1 : ~InFirst(m)
          BY <2>1, <3>1, <3>5, <4>0, <4>1
        <5> QED BY <2>9, <1>0, <2>1, <3>1, <3>5, <4>0, <4>1, <5>1 DEF IInv, Gapless, InUse
      <4>2. CASE j = N
        <5>1. \A m \in i + 1 .. Len(live) : ~InFirst(m)
          BY <2>1, <3>1, <3>5, <4>0, <4>2
        <5> QED BY <2>9, <1>0, <2>1, <2>2, <3>1, <3>5, <4>0, <4>2, <5>1 DEF IInv, Gapless, InUse
      <4> QED BY <2>1, <4>1, <4>2
    <3>6. ASSUME NEW i \in DOMAIN live', InFirst(i)', \A m \in i + 1 .. Len(live') : ~InFirst(m)'
          PROVE  End(live'[i]) = chain'[1].buf_size
      BY <2>1, <3>2, <3>3, <3>6
    <3> QED BY <2>1, <3>2, <3>4, <3>5, <3>6 DEF Gapless, End, InFirst
  <2>10. Recorded'
    <3> SUFFICES ASSUME MEMDEBUG, NEW i \in DOMAIN live'
                 PROVE  live'[i] \in chain'[live'[i].arena].given
      BY DEF Recorded, Blocks
    <3>1. CASE i \in DOMAIN live
      BY <1>2, <2>1, <2>3, <3>1 DEF IInv, Recorded, Blocks, FitsStep
    <3>2. CASE i = N
      BY <1>2, <2>1, <2>2, <3>2 DEF FitsStep, blk
    <3> QED BY <2>1, <3>1, <3>2
  <2>11. Gapless'
    BY <1>2, <2>9 DEF FitsStep, Gapless
  <2> QED BY <2>4, <2>5, <2>6, <2>7, <2>10, <2>11
<1>3. CASE ChainsStep(r)
  <2> DEFINE k == Len(chain) + 1
             blk == [arena |-> k, start |-> 0, size |-> r]
  <2>n. PICK N \in Nat : N = Len(live) + 1
    BY <1>0
  <2>0. /\ k \in Nat /\ k > 1 /\ r \in Nat /\ chain'[1] = chain[1]
        /\ DOMAIN chain' = DOMAIN chain \cup {k} /\ k \notin DOMAIN chain
    <3>1. Len(chain) \in Nat /\ Len(chain) > 0 /\ DOMAIN chain = 1 .. Len(chain)
      BY <1>0
    <3>2. chain' \in Seq(Record) /\ Len(chain') = k /\ chain'[1] = chain[1]
      BY <1>0, <1>3 DEF ChainsStep
    <3>3. DOMAIN chain' = 1 .. k
      BY <3>2
    <3>4. k \in Nat /\ k > 1 /\ 1 .. k = (1 .. Len(chain)) \cup {k} /\ k \notin 1 .. Len(chain)
      BY <3>1
    <3> QED BY ONLY <3>1, <3>2, <3>3, <3>4
  <2>1. /\ live' \in Seq(Block) /\ Len(live') = N /\ N \in Nat
        /\ live'[N] = blk
        /\ DOMAIN live' = DOMAIN live \cup {N} /\ DOMAIN live = 1 .. N - 1
        /\ \A i \in DOMAIN live : live'[i] = live[i]
    BY <1>0, <1>3, <2>n, AppendElement DEF ChainsStep
  <2>2. /\ live'[N].arena = k /\ live'[N].start = 0 /\ live'[N].size = r
    BY <2>1
  <2>3. /\ \A i \in DOMAIN chain : chain[i].buf_size \in Nat /\ chain[i].buf_cap \in Nat
        /\ \A i \in DOMAIN live :
             /\ live[i].arena \in DOMAIN chain /\ live[i].start \in Nat /\ live[i].size \in Nat
             /\ End(live[i]) \in Nat
             /\ InFirst(i) => End(live[i]) <= chain[1].buf_cap
             /\ ~InFirst(i) => live[i].start = 0
        /\ \A i, j \in DOMAIN live : i < j /\ live[i].arena = live[j].arena => InFirst(i)
    BY <1>0, ArenaNumbers, BlockNumbers DEF IInv, Placed, End
  <2> HIDE DEF blk, k
  <2>f. /\ \A i \in DOMAIN live : InFirst(i)' <=> InFirst(i)
        /\ ~InFirst(N)'
    <3>1. live'[N].arena # 1
      BY ONLY <2>0, <2>2
    <3>2. \A i \in DOMAIN live : live'[i] = live[i]
      BY <2>1
    <3> QED BY ONLY <3>1, <3>2 DEF InFirst
  <2>4. Base'
    BY <1>0, <1>3, <2>0, <2>1 DEF IInv, Base, InUse, ChainsStep, Parts, k
  <2>5. Sized'
    BY <1>0, <1>3, <2>0, <2>3 DEF IInv, Sized, InUse, ChainsStep, k
  <2>6. Placed'
    <3>1. ASSUME NEW i \in DOMAIN live
          PROVE  /\ live'[i].arena \in DOMAIN chain'
                 /\ InFirst(i)' => End(live'[i]) <= chain'[1].buf_cap
                 /\ ~InFirst(i)' => live'[i].start = 0
      BY <2>0, <2>1, <2>3, <2>f
    <3>2. live'[N].arena \in DOMAIN chain' /\ live'[N].start = 0
      BY <2>0, <2>2
    <3>3. ASSUME NEW i \in DOMAIN live', NEW j \in DOMAIN live', i < j,
                 live'[i].arena = live'[j].arena
          PROVE  InFirst(i)'
      <4>1. i \in DOMAIN live
        BY <2>1, <3>3
      <4>2. CASE j \in DOMAIN live
        BY <2>1, <2>3, <2>f, <3>3, <4>1, <4>2
      <4>3. CASE j = N
        BY <2>0, <2>1, <2>2, <2>3, <3>3, <4>1, <4>3
      <4> QED BY <2>1, <4>2, <4>3
    <3>4. DOMAIN live' = DOMAIN live \cup {N}
      BY <2>1
    <3>5. \A i \in DOMAIN live' :
            /\ live'[i].arena \in DOMAIN chain'
            /\ InFirst(i)' => End(live'[i]) <= chain'[1].buf_cap
            /\ ~InFirst(i)' => live'[i].start = 0
      BY ONLY <2>f, <3>1, <3>2, <3>4
    <3> QED BY ONLY <3>3, <3>5 DEF Placed, End, InFirst
  <2>7. InOrder'
    <3> SUFFICES ASSUME ~strayed
                 PROVE  /\ \A i \in DOMAIN live' : InFirst(i)' => End(live'[i]) <= chain'[1].buf_size
                        /\ \A i, j \in DOMAIN live' :
                             i < j /\ InFirst(i)' /\ InFirst(j)' => End(live'[i]) <= live'[j].start
      BY <1>3 DEF InOrder, ChainsStep, End, InFirst
    <3>1. /\ \A i \in DOMAIN live : InFirst(i) => End(live[i]) <= chain[1].buf_size
          /\ \A i, j \in DOMAIN live :
               i < j /\ InFirst(i) /\ InFirst(j) => End(live[i]) <= live[j].start
      BY DEF IInv, InOrder
    <3>2. ASSUME NEW i \in DOMAIN live', InFirst(i)'
          PROVE  i \in DOMAIN live /\ InFirst(i) /\ live'[i] = live[i]
      <4>1. i \in DOMAIN live \/ i = N
        BY <2>1
      <4>2. i # N
        BY <2>f, <3>2
      <4> QED BY <2>1, <2>f, <3>2, <4>1, <4>2
    <3> QED BY <2>0, <3>1, <3>2
  <2>9. ASSUME ~strayed
        PROVE  Gapless'
    <3>1. \A i \in DOMAIN live : InFirst(i)' <=> InFirst(i)
      BY <2>1 DEF InFirst
    <3>2. \A i \in DOMAIN live' : InFirst(i)' => i \in DOMAIN live
      BY <2>0, <2>1, <2>2 DEF InFirst
    <3>4. ASSUME NEW j \in DOMAIN live', InFirst(j)', \A i \in 1 .. j - 1 : ~InFirst(i)'
          PROVE  live'[j].start = 0
      <4>1. j \in DOMAIN live
        BY <3>2, <3>4
      <4>2. \A i \in 1 .. j - 1 : ~InFirst(i)
        BY <2>1, <3>1, <3>4, <4>1
      <4> QED BY <2>9, <1>0, <2>1, <3>1, <3>4, <4>1, <4>2 DEF IInv, Gapless, InUse
    <3>5. ASSUME NEW i \in DOMAIN live', NEW j \in DOMAIN live', i < j, InFirst(i)', InFirst(j)',
                 \A m \in i + 1 .. j - 1 : ~InFirst(m)'
          PROVE  live'[j].start = End(live'[i])
      <4>1. i \in DOMAIN live /\ j \in DOMAIN live
        BY <2>1, <3>2, <3>5
      <4>2. \A m \in i + 1 .. j - 1 : ~InFirst(m)
        BY <2>1, <3>1, <3>5, <4>1
      <4> QED BY <2>9, <1>0, <2>1, <3>1, <3>5, <4>1, <4>2 DEF IInv, Gapless, InUse
    <3>6. ASSUME NEW i \in DOMAIN live', InFirst(i)', \A m \in i + 1 .. Len(live') : ~InFirst(m)'
          PROVE  End(live'[i]) = chain'[1].buf_size
      <4>1. i \in DOMAIN live
        BY <2>1, <3>2, <3>6
      <4>2. \A m \in i + 1 .. Len(live) : ~InFirst(m)
        BY <2>1, <3>1, <3>6, <4>1
      <4> QED BY <2>9, <1>0, <2>0, <2>1, <3>1, <3>6, <4>1, <4>2 DEF IInv, Gapless, InUse
    <3>7. ASSUME \A i \in DOMAIN live' : ~InFirst(i)'
          PROVE  chain'[1].buf_size = 0
      BY <2>9, <1>0, <2>0, <2>1, <3>1, <3>7 DEF IInv, Gapless, InUse
    <3> QED BY <3>4, <3>5, <3>6, <3>7 DEF Gapless, End, InFirst
  <2>10. Recorded'
    <3> SUFFICES ASSUME MEMDEBUG, NEW i \in DOMAIN live'
                 PROVE  live'[i] \in chain'[live'[i].arena].given
      BY DEF Recorded, Blocks
    <3>1. CASE i \in DOMAIN live
      BY <1>3, <2>1, <2>3, <3>1 DEF IInv, Recorded, Blocks, ChainsStep
    <3>2. CASE i = N
      BY <1>3, <2>1, <2>2, <3>2 DEF ChainsStep, blk, k
    <3> QED BY <2>1, <3>1, <3>2
  <2>11. Gapless'
    BY <1>3, <2>9 DEF ChainsStep, Gapless
  <2> QED BY <2>4, <2>5, <2>6, <2>7, <2>10, <2>11
<1> QED BY <1>1, <1>2, <1>3

\* What malloc gave to one arena is not given to another, nor is it the buffer.
LEMMA PartsFacts ==
  ASSUME NEW i \in Nat, NEW j \in Nat, i # j
  PROVE  /\ Parts(i) \cap Parts(j) = {}
         /\ <<"buffer", 1>> \notin Parts(i)
         /\ j = 1 => <<"arena", 1>> \notin Parts(i)
BY DEF Parts

\* The parts of one arena more.
LEMMA OneMore ==
  ASSUME NEW S, NEW k
  PROVE  PartsOf(S \cup {k}) = PartsOf(S) \cup Parts(k)
<1>1. ASSUME NEW x
      PROVE  x \in PartsOf(S \cup {k}) <=> x \in PartsOf(S) \cup Parts(k)
  BY DEF PartsOf
<1> QED BY <1>1

\* The arenas of a set have nothing in common with one that is not in it.
LEMMA Apart ==
  ASSUME NEW S \in SUBSET Nat, NEW k \in Nat, k \notin S
  PROVE  PartsOf(S) \cap Parts(k) = {} /\ <<"buffer", 1>> \notin PartsOf(S)
<1>1. ASSUME NEW i \in S
      PROVE  Parts(i) \cap Parts(k) = {} /\ <<"buffer", 1>> \notin Parts(i)
  BY PartsFacts
<1> QED BY <1>1 DEF PartsOf

\* A request adds the parts of the arena it makes, if it makes one.
LEMMA MallocHeap ==
  ASSUME IInv, NEW n \in Requests, Arena_malloc(n)
  PROVE  HeapExact'
<1>0. /\ status = "open" /\ status' = "open" /\ Len(chain) \in Nat \ {0}
      /\ heap \ {<<"buffer", 1>>, <<"arena", 1>>}
           = PartsOf(1 .. Len(chain)) \ {<<"arena", 1>>}
  BY DEF IInv, Base, InUse, HeapExact, Arena_malloc
<1>1. PICK r \in 0 .. SizeMax : FitsStep(r) \/ ChainsStep(r)
  BY MallocCases
<1>2. CASE FitsStep(r)
  BY <1>0, <1>2 DEF HeapExact, FitsStep
<1>3. CASE ChainsStep(r)
  <2> DEFINE k == Len(chain) + 1
  <2>1. heap' = heap \cup Parts(k) /\ Len(chain') = k /\ k \in Nat /\ k # 1
    BY <1>0, <1>3 DEF ChainsStep
  <2>2. <<"buffer", 1>> \notin Parts(k) /\ <<"arena", 1>> \notin Parts(k)
    BY <2>1, PartsFacts
  <2>3. PartsOf(1 .. k) = PartsOf(1 .. Len(chain)) \cup Parts(k)
    <3>1. 1 .. k = 1 .. Len(chain) \cup {k}
      BY <1>0
    <3> QED BY <3>1, OneMore
  <2> DEFINE P == Parts(k)
             U == PartsOf(1 .. Len(chain))
             V == PartsOf(1 .. k)
             b == <<"buffer", 1>>
             a == <<"arena", 1>>
  <2>4. heap' \ {b, a} = V \ {a}
    <3>1. heap' = heap \cup P
      BY <2>1
    <3>2. b \notin P /\ a \notin P
      BY <2>2
    <3>3. V = U \cup P
      BY <2>3
    <3>4. heap \ {b, a} = U \ {a}
      BY <1>0
    <3> HIDE DEF P, U, V, b, a
    <3> QED BY <3>1, <3>2, <3>3, <3>4
  <2> HIDE DEF k
  <2>5. heap' \ {b, a} = PartsOf(1 .. Len(chain')) \ {a}
    BY <2>1, <2>4
  <2> QED BY <1>0, <2>5 DEF HeapExact
<1> QED BY <1>1, <1>2, <1>3

\* A pop of what the program got last, or of everything.  Of the first only when the
\* block is in the first arena, and no pop went astray before, is anything said of
\* the order of the blocks.
LEMMA PopStep ==
  ASSUME IInv, NEW n \in Requests, Arena_pop(n)
  PROVE  IInv'
<1> DEFINE r == Round(n)
           size == chain[1].buf_size
           left == IF size > r THEN size - r ELSE 0
<1>0. /\ status = "open" /\ status' = "open" /\ cursor' = cursor /\ heap' = heap
      /\ chain \in Seq(Record) /\ chain # <<>> /\ 1 \in DOMAIN chain
      /\ live \in Seq(Block) /\ DOMAIN live = 1 .. Len(live) /\ Len(live) \in Nat
      /\ chain' = [chain EXCEPT ![1].buf_size = left] /\ strayed \in BOOLEAN
  BY DEF IInv, Base, InUse, Arena_pop
<1>1. r \in Nat /\ size \in 0 .. SizeMax /\ chain[1] \in Record
  <2>1. chain[1] \in Record
    BY <1>0
  <2>2. r \in Nat
    BY RoundType, SizesAssumption
  <2> QED BY <2>1, <2>2 DEF Record
<1>2. left \in 0 .. SizeMax /\ left <= size
  BY <1>1, SizesAssumption
<1> HIDE DEF left
<1>3. /\ chain' \in Seq(Record) /\ Len(chain') = Len(chain) /\ DOMAIN chain' = DOMAIN chain
      /\ chain'[1].buf_size = left
      /\ \A k \in DOMAIN chain :
           /\ chain'[k].buf_cap = chain[k].buf_cap /\ chain'[k].given = chain[k].given
           /\ k # 1 => chain'[k].buf_size = chain[k].buf_size
  <2> DEFINE new == [chain[1] EXCEPT !.buf_size = left]
  <2>1. new \in Record
    BY <1>1, <1>2 DEF Record
  <2>2. /\ new.buf_size = left /\ new.buf_cap = chain[1].buf_cap
        /\ new.given = chain[1].given
    BY <1>1 DEF Record
  <2>3. chain' = [chain EXCEPT ![1] = new]
    BY <1>0
  <2> HIDE DEF new
  <2>4. /\ chain' \in Seq(Record) /\ Len(chain') = Len(chain) /\ chain'[1] = new
        /\ \A i \in DOMAIN chain : i # 1 => chain'[i] = chain[i]
    <3>1. chain \in Seq(Record) /\ 1 \in DOMAIN chain
      BY <1>0
    <3> QED BY ONLY <2>1, <2>3, <3>1, UpdateElement
  <2> QED BY <1>0, <2>2, <2>4
<1>4. /\ \A i \in DOMAIN chain : chain[i].buf_size \in Nat /\ chain[i].buf_cap \in Nat
      /\ \A i \in DOMAIN live :
           /\ live[i].start \in Nat /\ live[i].size \in Nat
           /\ End(live[i]) \in Nat /\ End(live[i]) = live[i].start + live[i].size
  BY <1>0, ArenaNumbers, BlockNumbers DEF End
<1>5. Sized'
  <2>1. chain'[1].buf_size <= chain'[1].buf_cap
    <3>1. size <= chain[1].buf_cap /\ size \in Nat /\ left \in Nat /\ chain[1].buf_cap \in Nat
      BY <1>0, <1>2, <1>4 DEF IInv, Sized, InUse
    <3>2. left <= size /\ chain'[1].buf_size = left /\ chain'[1].buf_cap = chain[1].buf_cap
      BY <1>0, <1>2, <1>3
    <3> HIDE DEF size
    <3> QED BY <3>1, <3>2
  <2> QED BY <1>0, <1>3, <2>1 DEF IInv, Sized, InUse
<1>6. HeapExact'
  BY <1>0, <1>3 DEF IInv, HeapExact
<1>7. CASE /\ live # <<>> /\ Last(live).size = r
           /\ live' = Front(live) /\ strayed' = (strayed \/ Last(live).arena # 1)
  <2> DEFINE L == Len(live)
  <2>1. /\ L \in DOMAIN live /\ live[L].size = r /\ L \in Nat
        /\ live' \in Seq(Block) /\ DOMAIN live' = 1 .. L - 1 /\ Len(live') = L - 1
        /\ \A i \in DOMAIN live' : i \in DOMAIN live /\ i < L /\ live'[i] = live[i]
    BY <1>0, <1>7 DEF Last, Front
  <2>2. strayed' = (strayed \/ live[L].arena # 1) /\ strayed' \in BOOLEAN
    BY <1>0, <1>7 DEF Last
  <2>f. \A i \in DOMAIN live' : InFirst(i)' <=> InFirst(i)
    BY <2>1 DEF InFirst
  <2>4. Base'
    BY <1>0, <1>3, <2>1, <2>2 DEF IInv, Base, InUse
  <2>5. Placed'
    <3>1. ASSUME NEW i \in DOMAIN live'
          PROVE  /\ live'[i].arena \in DOMAIN chain'
                 /\ InFirst(i)' => End(live'[i]) <= chain'[1].buf_cap
                 /\ ~InFirst(i)' => live'[i].start = 0
      BY <1>0, <1>3, <2>1, <2>f DEF IInv, Placed
    <3>2. \A i, j \in DOMAIN live' : i < j /\ live'[i].arena = live'[j].arena => InFirst(i)'
      BY <2>1, <2>f DEF IInv, Placed
    <3> QED BY <3>1, <3>2 DEF Placed, End, InFirst
  <2>6. Recorded'
    <3> SUFFICES ASSUME MEMDEBUG, NEW i \in DOMAIN live'
                 PROVE  live'[i] \in chain'[live'[i].arena].given
      BY DEF Recorded, Blocks
    <3> QED BY <1>3, <2>1 DEF IInv, Placed, Recorded, Blocks
  <2>7. ASSUME ~strayed'
        PROVE  InOrder' /\ Gapless'
    <3>1. ~strayed /\ live[L].arena = 1 /\ InFirst(L)
      BY <2>2, <2>7 DEF InFirst
    <3>2. /\ \A i \in DOMAIN live : InFirst(i) => End(live[i]) <= size
          /\ \A i, j \in DOMAIN live :
               i < j /\ InFirst(i) /\ InFirst(j) => End(live[i]) <= live[j].start
      BY <3>1 DEF IInv, InOrder
    <3>3. End(live[L]) = size
      <4>1. \A m \in L + 1 .. Len(live) : ~InFirst(m)
        BY <1>0
      <4> QED BY <1>0, <2>1, <3>1, <4>1 DEF IInv, Gapless, InUse
    <3>4. left = live[L].start
      <4>1. size = live[L].start + r /\ live[L].start \in Nat
        BY <1>4, <2>1, <3>3
      <4> HIDE DEF size, r
      <4> QED BY <1>1, <4>1 DEF left
    <3>5. InOrder'
      <4>1. \A i \in DOMAIN live' : InFirst(i)' => End(live'[i]) <= chain'[1].buf_size
        BY <1>3, <2>1, <2>f, <3>1, <3>2, <3>4
      <4>2. \A i, j \in DOMAIN live' :
              i < j /\ InFirst(i)' /\ InFirst(j)' => End(live'[i]) <= live'[j].start
        BY <2>1, <2>f, <3>2
      <4> QED BY <4>1, <4>2 DEF InOrder, End, InFirst
    <3>6. Gapless'
      <4>1. \A i \in DOMAIN live' : (InFirst(i)' <=> InFirst(i)) /\ i \in Nat
        BY <1>0, <2>1, <2>f
      <4>4. ASSUME NEW j \in DOMAIN live', InFirst(j)', \A i \in 1 .. j - 1 : ~InFirst(i)'
            PROVE  live'[j].start = 0
        <5>1. \A i \in 1 .. j - 1 : ~InFirst(i)
          BY <2>1, <4>1, <4>4
        <5> QED BY <1>0, <2>1, <3>1, <4>1, <4>4, <5>1 DEF IInv, Gapless, InUse
      <4>5. ASSUME NEW i \in DOMAIN live', NEW j \in DOMAIN live', i < j, InFirst(i)', InFirst(j)',
                   \A m \in i + 1 .. j - 1 : ~InFirst(m)'
            PROVE  live'[j].start = End(live'[i])
        <5>1. \A m \in i + 1 .. j - 1 : ~InFirst(m)
          BY <2>1, <4>1, <4>5, SMTT(30)
        <5> QED BY <1>0, <2>1, <3>1, <4>1, <4>5, <5>1 DEF IInv, Gapless, InUse
      <4>6. ASSUME NEW i \in DOMAIN live', InFirst(i)', \A m \in i + 1 .. Len(live') : ~InFirst(m)'
            PROVE  End(live'[i]) = chain'[1].buf_size
        <5>1. \A m \in i + 1 .. L - 1 : ~InFirst(m)
          BY <2>1, <4>1, <4>6
        <5>2. live[L].start = End(live[i])
          BY <1>0, <2>1, <3>1, <4>1, <4>6, <5>1 DEF IInv, Gapless, InUse
        <5> QED BY <1>3, <2>1, <3>4, <5>2
      <4>7. ASSUME \A i \in DOMAIN live' : ~InFirst(i)'
            PROVE  chain'[1].buf_size = 0
        <5>1. \A i \in 1 .. L - 1 : ~InFirst(i)
          BY <2>1, <4>1, <4>7
        <5>2. live[L].start = 0
          BY <1>0, <2>1, <3>1, <5>1 DEF IInv, Gapless, InUse
        <5> QED BY <1>3, <3>4, <5>2
      <4> QED BY <4>4, <4>5, <4>6, <4>7 DEF Gapless, End, InFirst
    <3> QED BY <3>5, <3>6
  <2>8. InOrder' /\ Gapless'
    <3>1. CASE strayed'
      BY <3>1 DEF InOrder, Gapless
    <3> QED BY <2>7, <3>1
  <2> QED BY <1>5, <1>6, <2>4, <2>5, <2>6, <2>8 DEF IInv
<1>8. CASE r >= size /\ live' = <<>> /\ strayed' = FALSE
  <2>1. left = 0
    BY <1>1, <1>8 DEF left
  <2>2. Base'
    <3>1. /\ Len(chain) <= MaxArenas /\ cursor \in Nat
          /\ heap \subseteq {"buffer", "arena", "given"} \X (1 .. MaxArenas)
      BY DEF IInv, Base
    <3>2. Len(chain') <= MaxArenas /\ chain' # <<>> /\ live' \in Seq(Block)
      BY <1>0, <1>3, <1>8, <3>1
    <3> QED BY <1>0, <1>3, <1>8, <3>1, <3>2 DEF Base, InUse
  <2>3. Placed' /\ InOrder' /\ Recorded'
    BY <1>8 DEF Placed, InOrder, Recorded, Blocks
  <2>4. Gapless'
    BY <1>3, <1>8, <2>1 DEF Gapless, InFirst
  <2> QED BY <1>5, <1>6, <2>2, <2>3, <2>4 DEF IInv
<1> QED BY <1>7, <1>8 DEF Arena_pop, GivesUp

\* A first arena that holds nothing yet: by Arena_new, or by the program's own
\* call of Arena_init.
LEMMA NewStep ==
  ASSUME IInv, Arena_new \/ \E c \in HeadCaps : NewByInit(c)
  PROVE  IInv'
<1>1. PICK c \in HeadCaps \cup {ARENA_SIZE} :
        /\ chain' = <<Arena_init(c, c, 0)>>
        /\ heap' \in {{<<"buffer", 1>>} \cup (Parts(1) \ {<<"arena", 1>>}), Parts(1)}
        /\ status' = "open" /\ cursor' = cursor
  BY DEF Arena_new, NewByInit
<1>2. live' = <<>> /\ strayed' \in BOOLEAN
  BY DEF Arena_new, NewByInit, IInv, Base
<1>3. Arena_init(c, c, 0) \in Record /\ c \in Nat
  BY SizesAssumption DEF Arena_init, Record
<1>4. /\ chain' \in Seq(Record) /\ Len(chain') = 1 /\ DOMAIN chain' = {1}
      /\ chain'[1].buf_cap = c /\ chain'[1].buf_size = 0
  BY <1>1, <1>3 DEF Arena_init
<1>5. Base'
  <2>1. heap' \subseteq {"buffer", "arena", "given"} \X (1 .. MaxArenas)
    BY <1>1, SizesAssumption DEF Parts
  <2>2. Len(chain') <= MaxArenas /\ chain' # <<>> /\ cursor' \in Nat
    BY <1>1, <1>4, SizesAssumption DEF IInv, Base
  <2> QED BY <1>1, <1>2, <1>4, <2>1, <2>2 DEF Base, InUse
<1>6. Sized'
  BY <1>3, <1>4 DEF Sized
<1>7. Placed' /\ InOrder' /\ Recorded' /\ Gapless'
  BY <1>2, <1>4 DEF Placed, InOrder, Recorded, Blocks, Gapless
<1>8. HeapExact'
  <2>1. PartsOf(1 .. Len(chain')) = Parts(1)
    BY <1>4 DEF PartsOf
  <2>2. heap' \ {<<"buffer", 1>>, <<"arena", 1>>} = Parts(1) \ {<<"arena", 1>>}
    <3>1. <<"buffer", 1>> \notin Parts(1)
      BY DEF Parts
    <3> QED BY <1>1, <3>1
  <2> QED BY <1>1, <2>1, <2>2 DEF HeapExact
<1> QED BY <1>5, <1>6, <1>7, <1>8 DEF IInv

\* The steps of Arena_destroy.  From the first one on there are no blocks.
LEMMA DestroyStep ==
  ASSUME IInv, DestroyHead \/ DestroyNext \/ DestroyReturns
  PROVE  IInv'
<1>1. /\ chain \in Seq(Record) /\ Len(chain) \in Nat /\ Len(chain) <= MaxArenas
      /\ cursor \in Nat
      /\ heap \subseteq {"buffer", "arena", "given"} \X (1 .. MaxArenas)
      /\ SizeMax \in Nat /\ MaxArenas \in Nat
  BY SizesAssumption DEF IInv, Base
<1>2. /\ live' = <<>> /\ status' \in {"destroying", "none"}
      /\ heap' \subseteq heap /\ cursor' \in Nat /\ strayed' \in BOOLEAN
  <2>0. (status = "destroying" => live = <<>>) /\ strayed \in BOOLEAN
    BY DEF IInv, Base
  <2>1. CASE DestroyHead
    BY <2>1 DEF DestroyHead
  <2>2. CASE DestroyNext
    <3>1. cursor' \in Nat
      BY <1>1, <2>2 DEF DestroyNext
    <3> QED BY <2>0, <2>2, <3>1 DEF DestroyNext
  <2>3. CASE DestroyReturns
    BY <2>0, <2>3 DEF DestroyReturns
  <2> QED BY <2>1, <2>2, <2>3
<1>3. /\ chain' \in Seq(Record) /\ Len(chain') <= MaxArenas
      /\ status' = "destroying" => Len(chain') = Len(chain)
  <2>1. CASE DestroyHead
    <3> DEFINE new == [[chain[1] EXCEPT !.buf_cap = 0] EXCEPT !.buf_size = SizeMax]
    <3>1. 1 \in DOMAIN chain /\ chain[1] \in Record
      BY <1>1, <2>1 DEF IInv, Base, InUse, DestroyHead
    <3>2. new \in Record
      <4>0. 0 \in 0 .. SizeMax /\ SizeMax \in 0 .. SizeMax
        BY <1>1
      <4>1. \A x \in Record : [x EXCEPT !.buf_cap = 0] \in Record
        BY ONLY <4>0 DEF Record
      <4>2. \A x \in Record : [x EXCEPT !.buf_size = SizeMax] \in Record
        BY ONLY <4>0 DEF Record
      <4> QED BY <3>1, <4>1, <4>2
    <3>3. chain' = [chain EXCEPT ![1] = new]
      BY <1>1, <2>1, <3>1 DEF DestroyHead
    <3> HIDE DEF new
    <3> QED BY <1>1, <3>1, <3>2, <3>3, UpdateElement
  <2>2. CASE DestroyNext
    BY <1>1, <2>2 DEF DestroyNext
  <2>3. CASE DestroyReturns
    BY <1>1, <2>3 DEF DestroyReturns
  <2> QED BY <2>1, <2>2, <2>3
<1>4. Base'
  BY <1>1, <1>2, <1>3 DEF Base, InUse
<1>5. Sized' /\ Placed' /\ InOrder' /\ Gapless' /\ Recorded'
  BY <1>2 DEF Sized, Placed, InOrder, Gapless, Recorded, Blocks, InUse
<1>6. HeapExact'
  <2>1. CASE DestroyHead
    <3> DEFINE L == Len(chain)
               b == <<"buffer", 1>>
               a == <<"arena", 1>>
               F == Parts(1)
               U == PartsOf(2 .. L)
    <3>1. /\ heap' = heap \ (F \cup {b}) /\ cursor' = 2 /\ status' = "destroying"
          /\ chain # <<>> /\ heap \ {b, a} = PartsOf(1 .. L) \ {a}
      BY <2>1 DEF DestroyHead, IInv, Base, InUse, HeapExact
    <3>2. PartsOf(1 .. L) = U \cup F
      <4>1. 1 .. L = 2 .. L \cup {1}
        BY <1>1, <3>1
      <4> QED BY <4>1, OneMore
    <3>3. U \cap F = {} /\ b \notin U
      BY <1>1, Apart
    <3>4. a \in F
      BY DEF Parts
    <3>5. heap' = U
      <4> HIDE DEF F, U, a, b
      <4> QED BY <3>1, <3>2, <3>3, <3>4
    <3>6. Len(chain') = L
      BY <1>3, <3>1
    <3> QED BY <3>1, <3>5, <3>6 DEF HeapExact
  <2>2. CASE DestroyNext
    <3> DEFINE F == Parts(cursor)
               U == PartsOf(cursor + 1 .. Len(chain))
    <3>1. /\ heap' = heap \ F /\ cursor' = cursor + 1 /\ chain' = chain
          /\ status' = "destroying" /\ cursor <= Len(chain)
          /\ heap = PartsOf(cursor .. Len(chain))
      BY <2>2 DEF DestroyNext, IInv, HeapExact
    <3>2. heap = U \cup F
      <4>1. cursor .. Len(chain) = (cursor + 1 .. Len(chain)) \cup {cursor}
        BY <1>1, <3>1
      <4> QED BY <3>1, <4>1, OneMore
    <3>3. U \cap F = {}
      BY <1>1, Apart
    <3>4. heap' = U
      <4> HIDE DEF F, U
      <4> QED BY <3>1, <3>2, <3>3
    <3> QED BY <3>1, <3>4 DEF HeapExact
  <2>3. CASE DestroyReturns
    <3>1. /\ heap' = heap /\ status' = "none" /\ heap = PartsOf(cursor .. Len(chain))
          /\ cursor > Len(chain)
      BY <2>3 DEF DestroyReturns, IInv, HeapExact
    <3>2. cursor .. Len(chain) = {}
      BY <1>1, <3>1
    <3> QED BY <3>1, <3>2 DEF HeapExact, PartsOf
  <2> QED BY <2>1, <2>2, <2>3
<1> QED BY <1>4, <1>5, <1>6 DEF IInv

\* A refused request ends the program and changes nothing else.
LEMMA RefusedStep ==
  ASSUME IInv, NEW n \in Requests, MallocRefused(n)
  PROVE  IInv'
<1>1. /\ status = "open" /\ status' = "exit" /\ chain' = chain /\ heap' = heap
      /\ live' = live /\ strayed' = strayed /\ cursor' = cursor
  BY DEF MallocRefused
<1>2. Base' /\ Sized'
  BY <1>1 DEF IInv, Base, Sized, InUse
<1>3. Placed' /\ InOrder' /\ Recorded'
  BY <1>1 DEF IInv, Placed, InOrder, InFirst, End, Recorded, Blocks
<1>4. Gapless'
  BY <1>1 DEF IInv, Gapless, InFirst, InUse, End
<1>5. HeapExact'
  BY <1>1 DEF IInv, HeapExact
<1> QED BY <1>2, <1>3, <1>4, <1>5 DEF IInv

\* Every operation of arena.h keeps the invariant.
LEMMA NextIInv == IInv /\ [Next]_vars => IInv'
<1> SUFFICES ASSUME IInv, [Next]_vars PROVE IInv'
  OBVIOUS
<1>1. CASE Arena_new \/ \E c \in HeadCaps : NewByInit(c)
  BY <1>1, NewStep
<1>2. ASSUME NEW n \in Requests, Arena_malloc(n) PROVE IInv'
  BY <1>2, MallocPlaced, MallocHeap DEF IInv
<1>3. ASSUME NEW n \in Requests, MallocRefused(n) PROVE IInv'
  BY <1>3, RefusedStep
<1>4. ASSUME NEW n \in Requests, Arena_pop(n) PROVE IInv'
  BY <1>4, PopStep
<1>5. CASE DestroyHead \/ DestroyNext \/ DestroyReturns
  BY <1>5, DestroyStep
<1>6. CASE UNCHANGED vars
  BY <1>6 DEF vars, IInv, Base, Sized, InUse, Placed, InOrder, End, Recorded, Blocks,
              Gapless, InFirst, HeapExact
<1> QED BY <1>1, <1>2, <1>3, <1>4, <1>5, <1>6 DEF Next, Exited
-------------------------------------------------------------------------
(* The theorems                                                            *)

\* The inductive invariant: in addition to the properties below it says that the
\* blocks of the first arena lie without gaps until a pop goes astray, which makes
\* Arena_pop right until then.
THEOREM Invariance == Spec => []IInv
BY InitIInv, NextIInv, PTL DEF Spec

\* Every variable keeps its type: with MEMDEBUG no request, however large, makes the
\* sum buf_size + num_bytes wrap, since the check of line 147 comes before it.
THEOREM TypeCorrect == Spec => []TypeOK
<1>1. IInv => TypeOK
  BY DEF IInv, Base, InUse, TypeOK, Record
<1> QED BY <1>1, Invariance, PTL

\* A block ends where its arena's capacity ends, or before, unless it is larger than
\* a chained arena and was requested of a first one that is larger.
THEOREM WithinCapacity == Spec => []InCapacity
<1>1. ASSUME IInv, NEW i \in DOMAIN live
      PROVE  \/ live[i].start + live[i].size <= chain[live[i].arena].buf_cap
             \/ live[i].arena # 1 /\ live[i].size > ChainedCap
  <2>1. live \in Seq(Block) /\ InUse /\ live[i].start \in Nat /\ live[i].size \in Nat
    BY <1>1, BlockNumbers DEF IInv, Base, InUse
  <2>2. /\ live[i].arena \in DOMAIN chain
        /\ InFirst(i) => live[i].start + live[i].size <= chain[1].buf_cap
        /\ ~InFirst(i) => live[i].start = 0 /\ chain[live[i].arena].buf_cap = ChainedCap
    BY <1>1, <2>1 DEF IInv, Placed, Sized, End, InFirst
  <2>3. ChainedCap \in Nat
    BY SizesAssumption DEF ChainedCap
  <2> QED BY <2>1, <2>2, <2>3 DEF InFirst
<1>2. IInv => InCapacity
  BY <1>1 DEF InCapacity, Blocks
<1> QED BY <1>2, Invariance, PTL

\* Arena_malloc and Arena_pop in any order never give one word to two blocks, as long
\* as no pop gives up a block of a chained arena; those share nothing in any case.
THEOREM BlocksDisjoint == Spec => []Disjoint
<1>1. ASSUME IInv PROVE Disjoint
  BY <1>1 DEF IInv, Placed, InOrder, Disjoint, InFirst, End
<1> QED BY <1>1, Invariance, PTL

\* With MEMDEBUG every block in use is in the list "given" of its own arena.
THEOREM RecordsKept == Spec => []Recorded
<1>1. IInv => Recorded
  BY DEF IInv
<1> QED BY <1>1, Invariance, PTL

\* Arena_destroy frees what malloc gave to the arenas, however many there are,
\* and nothing is left when it returns.
THEOREM NothingLeaked == Spec => []HeapExact
<1>1. IInv => HeapExact
  BY DEF IInv
<1> QED BY <1>1, Invariance, PTL

\* What the program has was given out at a multiple of the alignment, and the next block of
\* the first arena will be.
Steady ==
  /\ InUse => chain[1].buf_size % Align = 0
  /\ \A k \in DOMAIN chain : chain[k].base % Align = 0
  /\ \A i \in DOMAIN live : live[i].start % Align = 0

\* A request begins at buf_size, or at the start of a chained arena, and rounds.
LEMMA MallocSteady ==
  ASSUME IInv, Steady, Header % Align = 0, NEW n \in Requests, Arena_malloc(n)
  PROVE  Steady'
<1>0. /\ status = "open" /\ chain \in Seq(Record) /\ 1 \in DOMAIN chain /\ live \in Seq(Block)
      /\ Align \in Nat /\ Align > 0
  BY SizesAssumption, SMTT(30) DEF IInv, Base, InUse, Arena_malloc
<1>1. PICK r \in 0 .. SizeMax : r = Round(n) /\ (FitsStep(r) \/ ChainsStep(r))
  BY MallocCases
<1>2. r % Align = 0 /\ 0 % Align = 0 /\ r \in Int
  BY <1>0, <1>1, RoundedMultiple
<1>3. ASSUME NEW b \in Block, live' = Append(live, b), b.start % Align = 0
      PROVE  \A i \in DOMAIN live' : live'[i].start % Align = 0
  <2>1. \A i \in DOMAIN live' : i \in DOMAIN live \/ i = Len(live) + 1
    BY <1>0, <1>3, AppendElement
  <2>2. live'[Len(live) + 1] = b /\ \A i \in DOMAIN live : live'[i] = live[i]
    BY <1>0, <1>3, AppendElement
  <2> QED BY <1>3, <2>1, <2>2 DEF Steady
<1>4. CASE FitsStep(r)
  <2>1. chain[1].buf_size \in Int /\ chain[1].buf_size % Align = 0
    BY <1>0, ArenaNumbers DEF Steady, InUse
  <2>2. chain'[1].buf_size % Align = 0
    <3>1. chain'[1].buf_size = chain[1].buf_size + r
      BY <1>4 DEF FitsStep
    <3>2. (chain[1].buf_size + r) % Align = 0
      BY <1>2, <2>1, Multiples
    <3> QED BY ONLY <3>1, <3>2
  <2>3. \A k \in DOMAIN chain' : chain'[k].base % Align = 0
    <3>1. DOMAIN chain' = DOMAIN chain
      BY <1>0, <1>4 DEF FitsStep
    <3>2. \A k \in DOMAIN chain : chain'[k].base = chain[k].base
      BY <1>4 DEF FitsStep
    <3> QED BY <3>1, <3>2 DEF Steady
  <2>4. \A i \in DOMAIN live' : live'[i].start % Align = 0
    BY <1>3, <1>4, <2>1 DEF FitsStep
  <2> QED BY <2>2, <2>3, <2>4 DEF Steady
<1>5. CASE ChainsStep(r)
  <2>1. chain'[1].buf_size % Align = 0
    BY <1>0, <1>5 DEF ChainsStep, Steady, InUse
  <2>2. \A k \in DOMAIN chain' : k \in DOMAIN chain \/ k = Len(chain) + 1
    BY <1>0, <1>5 DEF ChainsStep
  <2>3. \A k \in DOMAIN chain' : chain'[k].base % Align = 0
    BY <1>5, <2>2 DEF ChainsStep, Steady
  <2>4. \A i \in DOMAIN live' : live'[i].start % Align = 0
    BY <1>2, <1>3, <1>5 DEF ChainsStep
  <2> QED BY <2>1, <2>3, <2>4 DEF Steady
<1> QED BY <1>1, <1>4, <1>5

\* A pop takes a rounded size off, or everything.
LEMMA PopSteady ==
  ASSUME IInv, Steady, NEW n \in Requests, Arena_pop(n)
  PROVE  Steady'
<1> DEFINE size == chain[1].buf_size
           left == IF size > Round(n) THEN size - Round(n) ELSE 0
<1>0. /\ status = "open" /\ chain \in Seq(Record) /\ 1 \in DOMAIN chain /\ live \in Seq(Block)
      /\ Align \in Nat /\ Align > 0 /\ chain' = [chain EXCEPT ![1].buf_size = left]
  BY SizesAssumption DEF IInv, Base, InUse, Arena_pop
<1>1. size \in Int /\ size % Align = 0 /\ Round(n) \in Int /\ Round(n) % Align = 0 /\ 0 % Align = 0
  <2>1. size \in Int /\ size % Align = 0 /\ 0 % Align = 0
    BY <1>0, ArenaNumbers DEF Steady, InUse
  <2>2. Round(n) \in 0 .. SizeMax /\ SizeMax \in Nat /\ Round(n) % Align = 0
    BY RoundType, RoundedMultiple, SizesAssumption
  <2> QED BY <2>1, <2>2
<1>2. left % Align = 0
  BY <1>1, Multiples
<1> HIDE DEF left
<1>3. chain'[1].buf_size = left /\ \A k \in DOMAIN chain' : k \in DOMAIN chain /\ chain'[k].base = chain[k].base
  <2> DEFINE new == [chain[1] EXCEPT !.buf_size = left]
  <2>1. chain[1] \in Record
    BY <1>0
  <2>2. new.buf_size = left /\ new.base = chain[1].base
    BY <2>1 DEF Record
  <2>3. chain' = [chain EXCEPT ![1] = new]
    BY <1>0
  <2> HIDE DEF new
  <2> QED BY <1>0, <2>2, <2>3
<1>4. \A i \in DOMAIN live' : i \in DOMAIN live /\ live'[i] = live[i]
  <2>1. CASE live # <<>> /\ live' = Front(live)
    BY <1>0, <2>1 DEF Front
  <2>2. CASE live' = <<>>
    BY <2>2
  <2> QED BY <2>1, <2>2 DEF Arena_pop, GivesUp
<1> QED BY <1>2, <1>3, <1>4 DEF Steady

\* If the struct in front of a chained buffer keeps the alignment, so do the blocks behind it.
THEOREM BlocksAligned == ASSUME Header % Align = 0 PROVE Spec => []Aligned
<1>0. 0 % Align = 0 /\ Align \in Nat
  BY SizesAssumption
<1>1. Init => Steady
  BY DEF Init, Steady, InUse
<1>2. ASSUME IInv, Steady, [Next]_vars
      PROVE  Steady'
  <2>1. CASE UNCHANGED vars
    BY <1>2, <2>1 DEF vars, Steady, InUse
  <2>2. CASE Arena_new \/ \E c \in HeadCaps : NewByInit(c)
    <3>1. PICK c : chain' = <<Arena_init(c, c, 0)>> /\ live' = live
      BY <2>2 DEF Arena_new, NewByInit
    <3>2. DOMAIN chain' = {1} /\ chain'[1].buf_size = 0 /\ chain'[1].base = 0
      BY <3>1 DEF Arena_init
    <3> QED BY <1>0, <1>2, <3>1, <3>2 DEF Steady
  <2>3. ASSUME NEW n \in Requests, Arena_malloc(n)
        PROVE  Steady'
    BY <1>2, <2>3, MallocSteady
  <2>4. ASSUME NEW n \in Requests, Arena_pop(n)
        PROVE  Steady'
    BY <1>2, <2>4, PopSteady
  <2>5. ASSUME NEW n \in Requests, MallocRefused(n)
        PROVE  Steady'
    BY <1>2, <2>5 DEF MallocRefused, Steady, InUse
  <2>6. CASE DestroyHead
    <3>1. chain \in Seq(Record)
      BY <1>2 DEF IInv, Base
    <3> DEFINE new == [[chain[1] EXCEPT !.buf_cap = 0] EXCEPT !.buf_size = SizeMax]
    <3>e. 1 \in DOMAIN chain /\ chain[1] \in Record
      BY <1>2, <2>6 DEF IInv, Base, InUse, DestroyHead
    <3>n. new.base = chain[1].base
      BY <3>e DEF Record
    <3>c. chain' = [chain EXCEPT ![1] = new]
      BY <2>6, <3>1, <3>e DEF DestroyHead
    <3> HIDE DEF new
    <3>2. \A k \in DOMAIN chain' : k \in DOMAIN chain /\ chain'[k].base = chain[k].base
      BY <3>1, <3>n, <3>c
    <3> QED BY <1>2, <2>6, <3>2 DEF DestroyHead, Steady, InUse
  <2>7. CASE DestroyNext
    BY <1>2, <2>7 DEF DestroyNext, Steady, InUse
  <2>8. CASE DestroyReturns
    BY <1>2, <2>8 DEF DestroyReturns, Steady, InUse
  <2> QED BY <1>2, <2>1, <2>2, <2>3, <2>4, <2>5, <2>6, <2>7, <2>8 DEF Next, Exited
<1>3. ASSUME IInv, Steady
      PROVE  Aligned
  <2>1. ASSUME NEW i \in DOMAIN live
        PROVE  (chain[live[i].arena].base + live[i].start) % Align = 0
    <3>1. chain \in Seq(Record) /\ live \in Seq(Block) /\ live[i].arena \in DOMAIN chain
      BY <1>3 DEF IInv, Base, Placed
    <3>2. chain[live[i].arena] \in Record /\ live[i] \in Block
      BY <3>1
    <3>3. chain[live[i].arena].base \in Int /\ live[i].start \in Int
      BY <3>2 DEF Record, Block
    <3> QED BY <1>3, <3>1, <3>3, Multiples DEF Steady
  <2> QED BY <2>1 DEF Aligned, Blocks
<1> QED BY <1>1, <1>2, <1>3, Invariance, PTL DEF Spec
=========================================================================
