--------------------------- MODULE MCMemDebug ---------------------------
(* The constants of MemDebug for TLC.  Threads and sites are symmetric;    *)
(* addresses are not, since Hash tells them apart.                         *)
EXTENDS MemDebug, TLC

CONSTANTS a1, a2, a3, w1, b1, b2

\* Three addresses collide, one slot away from NULL.
CollidingHash ==
  (Null :> b1) @@ (a1 :> b2) @@ (a2 :> b2) @@ (a3 :> b2) @@ (w1 :> b2)

\* One address shares the slot of NULL.
SharedHash ==
  (Null :> b1) @@ (a1 :> b1) @@ (a2 :> b2) @@ (a3 :> b2) @@ (w1 :> b2)

Symmetry == Permutations(Threads) \cup Permutations(Sites)
=========================================================================
