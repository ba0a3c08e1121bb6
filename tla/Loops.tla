------------------------------- MODULE Loops -------------------------------
(* How the proofs reason about loops: a loop is a function from its rounds or  *)
(* indexes to what it has computed there.                                      *)
EXTENDS Integers, WellFoundedInduction, TLAPS

\* A set of numbers has a least one.
LEMMA Least ==
  ASSUME NEW T, T \subseteq Nat, T # {}
  PROVE  \E x \in T : \A y \in T : x <= y
<1>1. IsWellFoundedOn(OpToRel(<, Nat), Nat)
  BY NatLessThanWellFounded
<1>2. \E x \in T : \A y \in T : ~(<<y, x>> \in OpToRel(<, Nat))
  BY <1>1, WFMin, Zenon
<1>3. \A x, y \in Nat : <<y, x>> \in OpToRel(<, Nat) <=> y < x
  BY DEF OpToRel
<1>4. PICK x \in T : \A y \in T : ~(y < x)
  BY <1>2, <1>3
<1>5. \A y \in T : x \in Int /\ y \in Int
  OBVIOUS
<1> QED BY <1>4, <1>5

\* A set of numbers that contains zero and with each number below n the next one.
LEMMA Induct ==
  ASSUME NEW n \in Nat, NEW S, 0 \in S, \A i \in 1 .. n : i - 1 \in S => i \in S
  PROVE  \A i \in 0 .. n : i \in S
<1> DEFINE T == {i \in 0 .. n : i \notin S}
<1> SUFFICES ASSUME T # {} PROVE FALSE
  OBVIOUS
<1>1. IsWellFoundedOn(OpToRel(<, Nat), Nat)
  BY NatLessThanWellFounded
<1>2. T \subseteq Nat
  OBVIOUS
<1>3. \E x \in T : \A y \in T : ~(<<y, x>> \in OpToRel(<, Nat))
  <2> HIDE DEF T
  <2> QED BY <1>1, <1>2, WFMin, Zenon
<1>4. PICK x \in T : \A y \in T : ~(<<y, x>> \in OpToRel(<, Nat))
  BY <1>3
<1>5. x \in 1 .. n /\ x - 1 \in 0 .. n /\ x \notin S
  OBVIOUS
<1>6. x - 1 \in T
  BY <1>5
<1>7. <<x - 1, x>> \in OpToRel(<, Nat)
  BY <1>5 DEF OpToRel
<1> QED BY <1>4, <1>6, <1>7

\* What a loop has computed after each of its rounds.
Runs(r, n, X, first, step) ==
  /\ r \in [0 .. n -> X]
  /\ r[0] = first
  /\ \A i \in 1 .. n : r[i] = step[i][r[i - 1]]

\* A loop has a result in every round.
LEMMA Rounds ==
  ASSUME NEW n \in Nat, NEW X, NEW first \in X, NEW step \in [1 .. n -> [X -> X]]
  PROVE  \E r : Runs(r, n, X, first, step)
<1> DEFINE S == {m \in 0 .. n : \E r : Runs(r, m, X, first, step)}
<1>1. 0 \in S
  <2>1. Runs([j \in 0 .. 0 |-> first], 0, X, first, step)
    BY DEF Runs
  <2>2. \E r : Runs(r, 0, X, first, step)
    BY <2>1
  <2> QED BY <2>2
<1>2. ASSUME NEW i \in 1 .. n, i - 1 \in S
      PROVE  i \in S
  <2>1. PICK f : Runs(f, i - 1, X, first, step)
    BY <1>2
  <2>2. f \in [0 .. i - 1 -> X] /\ i - 1 \in 0 .. i - 1 /\ f[0] = first
    BY <2>1 DEF Runs
  <2>3. step[i] \in [X -> X] /\ step[i][f[i - 1]] \in X
    BY <2>2
  <2> DEFINE g == [j \in 0 .. i |-> IF j = i THEN step[i][f[i - 1]] ELSE f[j]]
  <2>4. g \in [0 .. i -> X] /\ g[i] = step[i][f[i - 1]] /\ \A j \in 0 .. i - 1 : g[j] = f[j]
    BY <2>2, <2>3
  <2> HIDE DEF g
  <2>5. g[0] = first
    BY <2>2, <2>4
  <2>6. ASSUME NEW j \in 1 .. i
        PROVE  g[j] = step[j][g[j - 1]]
    <3>1. g[j - 1] = f[j - 1]
      BY <2>4
    <3>2. CASE j = i
      BY <2>4, <3>1, <3>2
    <3>3. CASE j # i
      <4>1. j \in 1 .. i - 1
        BY <3>3
      <4> QED BY <2>1, <2>4, <3>1, <4>1 DEF Runs
    <3> QED BY <3>2, <3>3
  <2>7. Runs(g, i, X, first, step)
    BY <2>4, <2>5, <2>6 DEF Runs
  <2> QED BY <2>7
<1>3. n \in S
  <2> HIDE DEF S
  <2>1. \A i \in 1 .. n : i - 1 \in S => i \in S
    BY <1>2
  <2>2. \A i \in 0 .. n : i \in S
    BY <1>1, <2>1, Induct
  <2> QED BY <2>2
<1> QED BY <1>3

-------------------------------------------------------------------------
(* A loop is a function that calls itself with a larger index.  CHOOSE finds *)
(* one because there is one (Solution); what it computes holds at every      *)
(* index if it follows from the larger ones (Downward).                      *)

\* Every number of a range, if the ones above it are enough for each.
LEMMA Downward ==
  ASSUME NEW n \in Nat, NEW S, \A i \in 0 .. n : (\A j \in i + 1 .. n : j \in S) => i \in S
  PROVE  \A i \in 0 .. n : i \in S
<1> DEFINE T == {k \in 0 .. n : n - k \notin S}
<1> SUFFICES ASSUME T # {} PROVE FALSE
  <2>1. ASSUME NEW i \in 0 .. n, i \notin S
        PROVE  n - i \in T
    <3>1. n - i \in 0 .. n /\ n - (n - i) = i
      OBVIOUS
    <3> QED BY <2>1, <3>1
  <2> QED BY <2>1
<1>1. IsWellFoundedOn(OpToRel(<, Nat), Nat)
  BY NatLessThanWellFounded
<1>2. T \subseteq Nat
  OBVIOUS
<1>3. \E x \in T : \A y \in T : ~(<<y, x>> \in OpToRel(<, Nat))
  <2> HIDE DEF T
  <2> QED BY <1>1, <1>2, WFMin, Zenon
<1>4. PICK x \in T : \A y \in T : ~(<<y, x>> \in OpToRel(<, Nat))
  BY <1>3
<1>5. x \in 0 .. n /\ n - x \in 0 .. n /\ n - x \notin S
  OBVIOUS
<1>6. PICK j \in (n - x) + 1 .. n : j \notin S
  BY <1>5
<1>7. n - j \in 0 .. n /\ n - j < x /\ n - (n - j) = j
  BY <1>5
<1>8. n - j \in T
  BY <1>6, <1>7
<1>9. <<n - j, x>> \in OpToRel(<, Nat)
  BY <1>5, <1>7 DEF OpToRel
<1> QED BY <1>4, <1>8, <1>9

\* A recursion that goes upwards: each value comes from those above it.
Local(step, n, X) ==
  /\ step \in [0 .. n -> [[0 .. n -> X] -> X]]
  /\ \A i \in 0 .. n : \A g, h \in [0 .. n -> X] :
       (\A j \in i + 1 .. n : g[j] = h[j]) => step[i][g] = step[i][h]

\* f is a solution of it.
Solves(f, step, n, X) ==
  f \in [0 .. n -> X] /\ \A i \in 0 .. n : f[i] = step[i][f]

\* It has a solution.
LEMMA Solution ==
  ASSUME NEW n \in Nat, NEW X, NEW any \in X, NEW step, Local(step, n, X)
  PROVE  \E f : Solves(f, step, n, X)
<1> DEFINE Upper(f, i) == f \in [0 .. n -> X] /\ \A j \in i .. n : f[j] = step[j][f]
<1> DEFINE S == {i \in 0 .. n : \E f : Upper(f, i)}
<1>1. ASSUME NEW i \in 0 .. n, \A j \in i + 1 .. n : j \in S
      PROVE  i \in S
  <2>1. PICK f : Upper(f, i + 1)
    <3>1. CASE i = n
      <4>1. Upper([k \in 0 .. n |-> any], i + 1)
        BY <3>1
      <4> HIDE DEF Upper
      <4> QED BY <4>1
    <3>2. CASE i # n
      <4>1. i + 1 \in i + 1 .. n
        BY <3>2
      <4>2. i + 1 \in S
        BY <1>1, <4>1
      <4> QED BY <4>2
    <3> QED BY <3>1, <3>2
  <2> DEFINE g == [k \in 0 .. n |-> IF k = i THEN step[i][f] ELSE f[k]]
  <2>2. f \in [0 .. n -> X] /\ step[i][f] \in X
    BY <2>1 DEF Local
  <2>3. g \in [0 .. n -> X] /\ g[i] = step[i][f] /\ \A k \in 0 .. n : k # i => g[k] = f[k]
    BY <2>2
  <2> HIDE DEF g
  <2>4. ASSUME NEW j \in i .. n
        PROVE  g[j] = step[j][g]
    <3>1. \A k \in j + 1 .. n : g[k] = f[k]
      BY <2>3
    <3>2. j \in 0 .. n
      OBVIOUS
    <3>3. step[j][g] = step[j][f]
      BY <2>2, <2>3, <3>1, <3>2 DEF Local
    <3>4. CASE j = i
      BY <2>3, <3>3, <3>4
    <3>5. CASE j # i
      <4>1. j \in i + 1 .. n
        BY <3>5
      <4>2. f[j] = step[j][f]
        BY <2>1, <4>1
      <4> QED BY <2>3, <3>2, <3>3, <3>5, <4>2
    <3> QED BY <3>4, <3>5
  <2>5. Upper(g, i)
    BY <2>3, <2>4
  <2> HIDE DEF Upper
  <2> QED BY <2>5
<1>2. 0 \in S
  <2> HIDE DEF S
  <2>1. \A i \in 0 .. n : i \in S
    BY <1>1, Downward
  <2> QED BY <2>1
<1>3. PICK f : Upper(f, 0)
  BY <1>2
<1>4. Solves(f, step, n, X)
  BY <1>3 DEF Solves
<1> QED BY <1>4
=========================================================================
