---------------------------- MODULE ListBuffer ----------------------------
(* list.h: a List_type points behind two size_t, the length and the        *)
(* capacity, in a buffer of malloc.  The caller holds the only pointer, and *)
(* every operation that may move the buffer gives it a new one.            *)
EXTENDS Integers, SequencesExt

CONSTANTS
  Names,            \* the variables of type List_type of the program
  Blocks, Null,     \* what malloc may return, and the value of an unused name
  Values, Unset,    \* an element; Unset was never written
  Maps, Mappers,    \* functions passed to map and to flatmap
  Slack,            \* the 16 of "current_cap * 1.5 + 16"
  MaxLen, MaxCap,   \* bounds of the model
  FlatmapAny,       \* TRUE: flatmap gets any list.  FALSE: one element at most
  SelfAppend        \* FALSE: no list is added to itself where it has to grow

ASSUME ListAssumption ==
  /\ Null \notin Blocks \cup Seq(Values \cup {Unset}) /\ Unset \notin Values
  /\ Maps \subseteq [Values \cup {Unset} -> Values \cup {Unset}]
  /\ Mappers \subseteq [Values \cup {Unset} -> Seq(Values \cup {Unset})]
  /\ Slack \in Nat \ {0} /\ MaxLen \in Nat /\ MaxCap \in Nat
  /\ FlatmapAny \in BOOLEAN /\ SelfAppend \in BOOLEAN

Elements == Values \cup {Unset}

VARIABLES
  heap,             \* the buffers that are allocated, by their address
  ref               \* the pointers of the program

vars == <<heap, ref>>

(***************************************************************************)
(* A buffer: the capacity stored in front, the elements malloc left room   *)
(* for, and the elements up to the length (which is Len(item)).            *)
(***************************************************************************)
Buffer == [cap : Nat, room : Nat, item : Seq(Elements)]

Min2(a, b) == IF a < b THEN a ELSE b

FreeBlocks == Blocks \ DOMAIN heap
Live(x) == ref[x] # Null
Buf(x) == heap[ref[x]]

Init ==
  /\ heap = <<>>
  /\ ref = [x \in Names |-> Null]
-------------------------------------------------------------------------
(* What the operations do to a buffer *)

Blank(n) == [i \in 1 .. n |-> Unset]

new_cap(c) == [cap |-> c, room |-> c, item |-> <<>>]
new_len(n) == [cap |-> n, room |-> n, item |-> Blank(n)]
new_of(items, c) == [new_cap(c) EXCEPT !.item = items]

setlen(b, n) == [b EXCEPT !.item = SubSeq(@ \o Blank(n), 1, n)]

resized(b, c) ==
  [cap |-> c, room |-> c, item |-> SubSeq(b.item, 1, Min2(c, Len(b.item)))]

Grow(n) == (3 * n) \div 2 + Slack

\* The new buffer of add: the length is set before a full buffer grows.
added(b, v) ==
  LET n == Len(b.item)
      longer == setlen(b, n + 1)
      grown == IF n = b.cap THEN resized(longer, Grow(b.cap)) ELSE longer
  IN  [grown EXCEPT !.item[n + 1] = v]

\* Variant: the elements are copied to the start of the first list.
addedAll_NoOffset(b, s) ==
  LET n == Len(b.item)
      grown == IF n + Len(s) > b.cap THEN resized(b, Grow(n + Len(s))) ELSE b
      longer == setlen(grown, n + Len(s))
  IN  [longer EXCEPT !.item = [i \in DOMAIN @ |-> IF i <= Len(s) THEN s[i] ELSE @[i]]]

addedAll(b, s) ==
  LET n == Len(b.item)
      grown == IF n + Len(s) > b.cap THEN resized(b, Grow(n + Len(s))) ELSE b
      longer == setlen(grown, n + Len(s))
  IN  [longer EXCEPT !.item = [i \in DOMAIN @ |-> IF i > n THEN s[i - n] ELSE @[i]]]

\* Variant: the bounds are taken in the order they were passed.
sublist_NoSwap(b, from, to) ==
  LET n == to - from
  IN  [new_len(n) EXCEPT !.item = [i \in 1 .. n |-> b.item[i + from]]]

sublist(b, from, to) ==
  LET f == Min2(from, to)
      n == (from + to) - 2 * f
  IN  [new_len(n) EXCEPT !.item = [i \in 1 .. n |-> b.item[i + f]]]

\* Variant: the elements that are kept are counted, not moved.
filtered_NoMove(b, keep) ==
  setlen(b, Cardinality({i \in DOMAIN b.item : b.item[i] \in keep}))

\* The loop of filter moves the elements it keeps to the front, in place; the
\* length is set in every round, so an empty list is left alone.
filtered(b, keep) ==
  LET round[i \in 0 .. Len(b.item)] ==
        IF i = 0 THEN [item |-> b.item, retained |-> 0]
        ELSE LET r == round[i - 1]
             IN  IF r.item[i] \in keep
                 THEN [item |-> [r.item EXCEPT ![r.retained + 1] = r.item[i]],
                       retained |-> r.retained + 1]
                 ELSE r
      last == round[Len(b.item)]
  IN  setlen([b EXCEPT !.item = last.item], last.retained)

mapped(b, f) == [new_len(Len(b.item)) EXCEPT !.item = [i \in DOMAIN @ |-> f[b.item[i]]]]

\* flatmap uses the buffer of the list if the combined length fits in there.
Reuses(b, f) == Len(FlattenSeq([i \in DOMAIN b.item |-> f[b.item[i]]])) <= Len(b.item)

\* The loop of flatmap copies each list to the start of the output.
flattened(b, f) ==
  LET lists == [i \in DOMAIN b.item |-> f[b.item[i]]]
      out == IF Reuses(b, f) THEN b ELSE new_len(Len(FlattenSeq(lists)))
      round[i \in 0 .. Len(lists)] ==
        IF i = 0 THEN out.item
        ELSE [j \in DOMAIN out.item |->
                IF j <= Len(lists[i]) THEN lists[i][j] ELSE round[i - 1][j]]
  IN  [out EXCEPT !.item = round[Len(lists)]]
-------------------------------------------------------------------------
(* malloc, realloc and free, and what the program keeps.  An operation that *)
(* returns a list is called as x = List_op(x, ...).                         *)

\* The buffer b is at p, and x points to it; what was at old is freed.
Place(x, old, p, b) ==
  /\ heap' = [q \in (DOMAIN heap \ old) \cup {p} |-> IF q = p THEN b ELSE heap[q]]
  /\ ref' = [ref EXCEPT ![x] = p]

Malloc(x, b) == ~Live(x) /\ \E p \in FreeBlocks : Place(x, {}, p, b)

Write(x, b) == heap' = [heap EXCEPT ![ref[x]] = b] /\ UNCHANGED ref

\* realloc moves the buffer or leaves it where it is.
Realloc(x, b) == \E p \in FreeBlocks \cup {ref[x]} : Place(x, {ref[x]}, p, b)

\* A new buffer, then the old one is freed.
Renew(x, b) == \E p \in FreeBlocks : Place(x, {ref[x]}, p, b)
-------------------------------------------------------------------------
(* The operations *)

New_cap(x, c) == Malloc(x, new_cap(c))
New_len(x, n) == Malloc(x, new_len(n))

\* The caller asks for room for the items; the code does not look at that.
New_of(x, items, c) == Len(items) <= c /\ Malloc(x, new_of(items, c))

\* The program writes list[i]; it stays below the length.
Assign(x, i, v) ==
  Live(x) /\ i \in DOMAIN Buf(x).item /\ Write(x, [Buf(x) EXCEPT !.item[i] = v])

Resize(x, c) == Live(x) /\ Realloc(x, resized(Buf(x), c))
Trim(x) == Live(x) /\ Realloc(x, resized(Buf(x), Len(Buf(x).item)))

\* Variant: the list is full one element later.
Add_Late(x, v) ==
  /\ Live(x) /\ Len(Buf(x).item) < MaxLen
  /\ IF Len(Buf(x).item) > Buf(x).cap
     THEN Realloc(x, added(Buf(x), v))
     ELSE Write(x, [Buf(x) EXCEPT !.item = Append(@, v)])

\* add, addeq, push and pusheq.
Add(x, v) ==
  /\ Live(x) /\ Len(Buf(x).item) < MaxLen
  /\ IF Len(Buf(x).item) = Buf(x).cap
     THEN Realloc(x, added(Buf(x), v))
     ELSE Write(x, added(Buf(x), v))

\* A list that is added to itself: what is copied is read where the buffer was
\* before realloc, and that is freed memory if realloc has moved it.
AppendsFreed(x) ==
  \E p \in FreeBlocks \cup {ref[x]}, s \in [DOMAIN Buf(x).item -> Elements] :
    (p = ref[x] => s = Buf(x).item) /\ Place(x, {ref[x]}, p, addedAll(Buf(x), s))

AddAll(x, y) ==
  LET total == Len(Buf(x).item) + Len(Buf(y).item)
      sum == addedAll(Buf(x), Buf(y).item)
  IN  /\ Live(x) /\ Live(y)
      /\ total <= MaxLen
      /\ \/ total <= Buf(x).cap /\ Write(x, sum)
         \/ total > Buf(x).cap /\ x # y /\ Realloc(x, sum)
         \/ total > Buf(x).cap /\ x = y /\ SelfAppend /\ AppendsFreed(x)

\* The caller knows that the list is not empty; the code does not look.
Pop(x) ==
  /\ Live(x) /\ Buf(x).item # <<>>
  /\ Write(x, setlen(Buf(x), Len(Buf(x).item) - 1))

Clone(x, y) == Live(y) /\ Malloc(x, sublist(Buf(y), 0, Len(Buf(y).item)))
Sublist(x, y, from, to) ==
  /\ Live(y) /\ {from, to} \subseteq 0 .. Len(Buf(y).item)
  /\ Malloc(x, sublist(Buf(y), from, to))

\* qsort is libc's; the comparator compares values that were written.
Sort(x) ==
  /\ Live(x) /\ Buf(x).item \in Seq(Values)
  /\ \E order \in Bijection(DOMAIN Buf(x).item, DOMAIN Buf(x).item) :
       LET s == [i \in DOMAIN Buf(x).item |-> Buf(x).item[order[i]]]
       IN  (\A i, j \in DOMAIN s : i < j => s[i] <= s[j]) /\ Write(x, [Buf(x) EXCEPT !.item = s])

Filter(x, keep) == Live(x) /\ Write(x, filtered(Buf(x), keep))

\* Variant: map forgets to destroy its argument.
Map_Leaks(x, f) == Live(x) /\ \E p \in FreeBlocks : Place(x, {}, p, mapped(Buf(x), f))

Map(x, f) == Live(x) /\ Renew(x, mapped(Buf(x), f))

\* No second list is written over the first, and no length is kept.
FirstOnly(b, f) ==
  Len(b.item) <= 1 /\ \A i \in DOMAIN b.item : f[b.item[i]] # <<>>

Flatmap(x, f) ==
  LET b == Buf(x)
  IN  /\ Live(x)
      /\ FlatmapAny \/ FirstOnly(b, f)
      /\ IF Reuses(b, f) THEN Write(x, flattened(b, f))
         ELSE Len(flattened(b, f).item) <= MaxLen /\ Renew(x, flattened(b, f))

\* foreach ends like destroy: the list is gone after its action ran on each.
Destroy(x) ==
  /\ Live(x)
  /\ heap' = Restrict(heap, DOMAIN heap \ {ref[x]})
  /\ ref' = [ref EXCEPT ![x] = Null]
Foreach(x) == Destroy(x)
-------------------------------------------------------------------------
(* MaxCap bounds what the program asks for, MaxLen how long lists get.     *)

Next == \E x \in Names :
  \/ \E n \in 0 .. MaxCap : New_cap(x, n) \/ New_len(x, n) \/ Resize(x, n)
  \/ \E n \in 0 .. MaxCap : \E items \in [1 .. n -> Values], c \in n .. MaxCap :
       New_of(x, items, c)
  \/ \E v \in Values : Add(x, v) \/ \E i \in 1 .. MaxLen : Assign(x, i, v)
  \/ \E y \in Names : AddAll(x, y) \/ Clone(x, y)
  \/ \E y \in Names : \E from, to \in 0 .. MaxLen : Sublist(x, y, from, to)
  \/ Trim(x) \/ Pop(x) \/ Sort(x) \/ Foreach(x) \/ Destroy(x)
  \/ \E keep \in SUBSET Elements : Filter(x, keep)
  \/ \E f \in Maps : Map(x, f)
  \/ \E f \in Mappers : Flatmap(x, f)

Spec == Init /\ [][Next]_vars
-------------------------------------------------------------------------
(* Properties *)

\* Every variable keeps its type.
TypeOK ==
  /\ DOMAIN heap \subseteq Blocks /\ \A p \in DOMAIN heap : heap[p] \in Buffer
  /\ ref \in [Names -> Blocks \cup {Null}]

\* The elements of a list are inside the memory behind its pointer, and the
\* stored capacity says how much that is.  Every index below the length is
\* safe for the program because of this, and add and addAlleq rely on it.
Layout ==
  \A x \in Names : Live(x) => Len(Buf(x).item) <= Buf(x).cap /\ Buf(x).cap = Buf(x).room

\* Every buffer is owned by one name, and every pointer is to a buffer: no
\* operation leaks the list it destroys, frees it twice or returns it freed.
Ownership ==
  /\ \A x \in Names : Live(x) => ref[x] \in DOMAIN heap
  /\ \A x, y \in Names : Live(x) /\ ref[x] = ref[y] => x = y
  /\ \A b \in DOMAIN heap : \E x \in Names : ref[x] = b

\* Seen from the program a list is a sequence: growing, moving and re-using
\* buffers changes no element, and no operation touches another list.
Val == [x \in Names |-> IF Live(x) THEN Buf(x).item ELSE Null]
Abstract == INSTANCE Lists WITH val <- Val, Gone <- Null
ImplementsLists == Abstract!Spec

\* The loops compute what they are named for: filter keeps the right elements in
\* their order, flatmap joins, and so on, with the arguments they were given.
RightLoops == \A x \in Names :
  /\ \A keep \in SUBSET Elements : Filter(x, keep) => Abstract!Filter(x, keep)
  /\ \A f \in Mappers : Flatmap(x, f) => Abstract!Flatmap(x, f)
  /\ \A f \in Maps : Map(x, f) => Abstract!Map(x, f)
  /\ \A n \in 0 .. MaxCap : Resize(x, n) => Abstract!Resize(x, n)
  /\ \A y \in Names : AddAll(x, y) => Abstract!AddAll(x, y)
LoopsCorrect == [][RightLoops]_vars
=========================================================================
