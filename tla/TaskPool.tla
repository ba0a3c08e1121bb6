---------------------------- MODULE TaskPool ----------------------------
(***************************************************************************)
(* What the comments of apaz-libc/threadpool.h promise to the user of a    *)
(* pool, without threads, stack or mutex: a task is accepted only while    *)
(* the pool is open, every task is started at most once and only if it was *)
(* accepted, and the pool is destroyed only after every accepted task has  *)
(* returned.                                                               *)
(***************************************************************************)
EXTENDS Naturals

CONSTANT Tasks      \* one element per call of Threadpool_exectask

VARIABLES
  phase,            \* "open", "shut" (Threadpool_destroy was called), "destroyed"
  accepted,         \* tasks for which Threadpool_exectask pushed work
  runs,             \* how often task_fn was called for a task
  finished          \* tasks whose task_fn has returned

vars == <<phase, accepted, runs, finished>>

Init ==
  /\ phase = "open"
  /\ accepted = {}
  /\ runs = [k \in Tasks |-> 0]
  /\ finished = {}

Accept(k) ==
  /\ phase = "open"
  /\ k \notin accepted
  /\ accepted' = accepted \cup {k}
  /\ UNCHANGED <<phase, runs, finished>>

Start(k) ==
  /\ phase # "destroyed"
  /\ k \in accepted
  /\ runs[k] = 0
  /\ runs' = [runs EXCEPT ![k] = 1]
  /\ UNCHANGED <<phase, accepted, finished>>

Finish(k) ==
  /\ phase # "destroyed"
  /\ runs[k] = 1
  /\ k \notin finished
  /\ finished' = finished \cup {k}
  /\ UNCHANGED <<phase, accepted, runs>>

Shut ==
  /\ phase = "open"
  /\ phase' = "shut"
  /\ UNCHANGED <<accepted, runs, finished>>

Close ==
  /\ phase = "shut"
  /\ finished = accepted
  /\ phase' = "destroyed"
  /\ UNCHANGED <<accepted, runs, finished>>

Next ==
  \/ \E k \in Tasks : Accept(k) \/ Start(k) \/ Finish(k)
  \/ Shut
  \/ Close

Spec == Init /\ [][Next]_vars
=========================================================================
