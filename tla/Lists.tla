------------------------------ MODULE Lists ------------------------------
(* What the comments of list.h promise: a list is the sequence of its      *)
(* elements, whatever buffer holds it.  An operation that "destroys the    *)
(* list passed" leaves its result under the same name.                     *)
EXTENDS Naturals, SequencesExt

CONSTANTS
  Names,            \* the variables of type List_type of the program
  Values, Unset,    \* what an element can be; Unset was never written
  Maps, Mappers,    \* functions passed to map and to flatmap
  Gone              \* the value of a name that holds no list

Elements == Values \cup {Unset}

VARIABLE val

Init == val = [x \in Names |-> Gone]

Live(x) == val[x] # Gone
Become(x, s) == val' = [val EXCEPT ![x] = s]

\* A new list has the elements it is given, or some that nobody wrote yet.
New(x) ==
  /\ ~Live(x)
  /\ val'[x] \in Seq(Values) \cup Seq({Unset})
  /\ Become(x, val'[x])

Assign(x, i, v) == Live(x) /\ i \in DOMAIN val[x] /\ Become(x, [val[x] EXCEPT ![i] = v])

\* "items are trimmed from the end if the new capacity is less than the length"
Resize(x, c) == Live(x) /\ Become(x, SubSeq(val[x], 1, Min({c, Len(val[x])})))

Add(x, v) == Live(x) /\ Become(x, Append(val[x], v))
AddAll(x, y) == Live(x) /\ Live(y) /\ Become(x, val[x] \o val[y])
Pop(x) == Live(x) /\ val[x] # <<>> /\ Become(x, Front(val[x]))

\* x becomes a copy of y from index "from" (inclusive) to "to" (exclusive).
Sublist(x, y, from, to) ==
  ~Live(x) /\ Live(y) /\ Become(x, SubSeq(val[y], from + 1, to))

\* The elements in another order, the smaller ones first.
Sort(x) ==
  /\ Live(x) /\ val[x] \in Seq(Values)
  /\ \E order \in Bijection(DOMAIN val[x], DOMAIN val[x]) :
       LET s == [i \in DOMAIN val[x] |-> val[x][order[i]]]
       IN  (\A i, j \in DOMAIN s : i < j => s[i] <= s[j]) /\ Become(x, s)

\* The elements at the indexes where keep holds, in their order.
Filter(x, keep) ==
  /\ Live(x)
  /\ LET kept == {i \in DOMAIN val[x] : val[x][i] \in keep} IN
     \E at \in Bijection(1 .. Cardinality(kept), kept) :
       /\ \A j, k \in DOMAIN at : j < k => at[j] < at[k]
       /\ Become(x, [k \in DOMAIN at |-> val[x][at[k]]])

Map(x, f) == Live(x) /\ Become(x, [i \in DOMAIN val[x] |-> f[val[x][i]]])
Flatmap(x, f) ==
  Live(x) /\ Become(x, FlattenSeq([i \in DOMAIN val[x] |-> f[val[x][i]]]))

Destroy(x) == Live(x) /\ Become(x, Gone)

Length(x) == IF Live(x) THEN Len(val[x]) ELSE 0

Next == \E x \in Names :
  \/ New(x) \/ Pop(x) \/ Sort(x) \/ Destroy(x)
  \/ \E v \in Values : Add(x, v) \/ \E i \in 1 .. Length(x) : Assign(x, i, v)
  \/ \E n \in 0 .. Length(x) : Resize(x, n)
  \/ \E y \in Names : AddAll(x, y)
  \/ \E y \in Names : \E from, to \in 0 .. Length(y) : Sublist(x, y, from, to)
  \/ \E keep \in SUBSET Elements : Filter(x, keep)
  \/ \E f \in Maps : Map(x, f)
  \/ \E f \in Mappers : Flatmap(x, f)

Spec == Init /\ [][Next]_val
==========================================================================
