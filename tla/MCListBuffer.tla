-------------------------- MODULE MCListBuffer --------------------------
(* Functions for map and flatmap, and symmetry.  Values are numbers, since *)
(* sort compares them.                                                     *)
EXTENDS ListBuffer

Swap == [e \in Elements |-> IF e = 1 THEN 2 ELSE 1]
SomeMaps == {Swap}

\* Lists of zero, one and two elements, by the element.
Twice == [e \in Elements |-> <<e, e>>]
ByValue == [e \in Elements |-> IF e = 1 THEN <<>> ELSE IF e = 2 THEN <<2>> ELSE <<1, 2>>]
SomeMappers == {Twice, ByValue}

Symmetry == Permutations(Blocks) \cup Permutations(Names)
=========================================================================
