--------------------------- MODULE Threadpool ---------------------------
(***************************************************************************)
(* apaz-libc/threadpool.h: a pool of pthreads that pop work from one LIFO  *)
(* stack guarded by pool_mutex.  Every critical section is three steps --  *)
(* mutex_lock, body, mutex_unlock -- so that what a thread does between    *)
(* them interleaves with every other thread.                               *)
(*                                                                         *)
(* The thread Main creates and destroys the pool.  Main, the other threads *)
(* of the program (Clients) and the tasks that run on workers call         *)
(* Threadpool_exectask.  A task stands for one call of it: one function    *)
(* pointer, one argument, one malloc'ed TaskStack node.  The linked list   *)
(* of nodes is therefore a sequence of tasks, top of the stack first.      *)
(***************************************************************************)
EXTENDS Naturals, Sequences, FiniteSets

CONSTANTS
  Main,             \* the thread that calls Threadpool_create and _destroy
  Clients,          \* further threads that call Threadpool_exectask
  Workers,          \* pool->threads; num_threads is its cardinality
  Tasks,            \* the calls of Threadpool_exectask the program may make
  None,             \* NULL, and the owner of a free mutex
  SpawnMayFail      \* may pthread_create fail?

Threads == {Main} \cup Clients \cup Workers

ASSUME ThreadsAssumption ==
  /\ Main \notin Clients \cup Workers
  /\ Clients \cap Workers = {}
  /\ IsFiniteSet(Workers)
  /\ None \notin Threads \cup Tasks

ASSUME EnvironmentAssumption == SpawnMayFail \in BOOLEAN

VARIABLES
  lock,                 \* pool_mutex: the thread that holds it, or None
  task_stack,           \* pool->task_stack, top first
  is_shutdown,          \* pool->is_shutdown
  num_threads_running,  \* pool->num_threads_running
  pc,                   \* where each thread is
  work,                 \* await_and_do_tasks: the local `work` of a worker
  arg,                  \* exectask: the task a thread is submitting
  waiting,              \* Threadpool_destroy: the local `waiting`
  fate,                 \* history: what became of each exectask call
  runs,                 \* history: how often task_fn was called for a task
  finished              \* history: the tasks whose task_fn has returned

poolVars == <<task_stack, is_shutdown, num_threads_running>>
history  == <<fate, runs, finished>>
vars == <<lock, poolVars, pc, work, arg, waiting, history>>

\* The label of the code of its own that a thread returns to after exectask.
User(t) == IF t \in Workers THEN "task" ELSE "user"

Goto(t, label) == pc' = [pc EXCEPT ![t] = label]

accepted == {k \in Tasks : fate[k] = "accepted"}
-------------------------------------------------------------------------
(* The mutex.  Each critical section x has the labels x_lock, x_body and   *)
(* x_unlock; take is left by exit_unlock instead when the worker ends.     *)

LockLabels == {"exec_lock", "take_lock", "flag_lock", "stack_lock", "count_lock"}

AfterLock == [exec_lock  |-> "exec_body",  take_lock  |-> "take_body",
              flag_lock  |-> "flag_body",  stack_lock |-> "stack_body",
              count_lock |-> "count_body"]

Critical == {"exec_body", "exec_unlock", "take_body", "take_unlock", "exit_unlock",
             "flag_body", "flag_unlock", "stack_body", "stack_unlock",
             "count_body", "count_unlock"}

UnlockLabels == {"exec_unlock", "take_unlock", "exit_unlock",
                 "flag_unlock", "stack_unlock", "count_unlock"}

Lock(t) ==
  /\ pc[t] \in LockLabels
  /\ lock = None
  /\ lock' = t
  /\ Goto(t, AfterLock[pc[t]])
  /\ UNCHANGED <<poolVars, work, arg, waiting, history>>

\* Variant: destroy tears down as soon as the stack is empty.
Resume_NoCountLoop(t) ==
  CASE pc[t] = "exec_unlock"  -> User(t)
    [] pc[t] = "exit_unlock"  -> "exited"
    [] pc[t] = "take_unlock"  -> IF work[t] = None THEN "take_lock" ELSE "call"
    [] pc[t] = "flag_unlock"  -> "stack_lock"
    [] pc[t] = "stack_unlock" -> IF waiting THEN "stack_lock" ELSE "teardown"
    [] pc[t] = "count_unlock" -> "teardown"

\* Where a thread goes on after mutex_unlock.
Resume(t) ==
  CASE pc[t] = "exec_unlock"  -> User(t)
    [] pc[t] = "exit_unlock"  -> "exited"
    [] pc[t] = "take_unlock"  -> IF work[t] = None THEN "take_lock" ELSE "call"
    [] pc[t] = "flag_unlock"  -> "stack_lock"
    [] pc[t] = "stack_unlock" -> IF waiting THEN "stack_lock" ELSE "count_lock"
    [] pc[t] = "count_unlock" -> IF waiting THEN "count_lock" ELSE "teardown"

Unlock(t) ==
  /\ pc[t] \in UnlockLabels
  /\ lock' = None
  /\ Goto(t, Resume(t))
  /\ UNCHANGED <<poolVars, work, arg, waiting, history>>
-------------------------------------------------------------------------
(* Threadpool_create.  Init is the state after the fields are assigned;    *)
(* the loop then creates the threads, which run as soon as they exist.     *)

Init ==
  /\ lock = None
  /\ task_stack = <<>>
  /\ is_shutdown = FALSE
  /\ num_threads_running = Cardinality(Workers)
  /\ pc = [t \in Threads |-> CASE t = Main       -> "create"
                               [] t \in Workers  -> "unborn"
                               [] OTHER          -> "user"]
  /\ work = [w \in Workers |-> None]
  /\ arg = [t \in Threads |-> None]
  /\ waiting = TRUE
  /\ fate = [k \in Tasks |-> "unsubmitted"]
  /\ runs = [k \in Tasks |-> 0]
  /\ finished = {}

Spawn(w) ==
  /\ pc[Main] = "create"
  /\ pc[w] = "unborn"
  /\ Goto(w, "take_lock")
  /\ UNCHANGED <<lock, poolVars, work, arg, waiting, history>>

\* pthread_create's result is ignored: the loop goes on without the thread.
SpawnFails(w) ==
  /\ SpawnMayFail
  /\ pc[Main] = "create"
  /\ pc[w] = "unborn"
  /\ Goto(w, "failed")
  /\ UNCHANGED <<lock, poolVars, work, arg, waiting, history>>

CreateReturns ==
  /\ pc[Main] = "create"
  /\ \A w \in Workers : pc[w] # "unborn"
  /\ Goto(Main, "user")
  /\ UNCHANGED <<lock, poolVars, work, arg, waiting, history>>
-------------------------------------------------------------------------
(* Threadpool_exectask.  "Do not exec tasks in the pool before it is       *)
(* created or after it is destroyed": Main and the clients call it between *)
(* the two; a task may still be running, and call it, while destroy waits  *)
(* ("after it is destroyed" does not forbid that).                         *)

ExecLabels == {"exec_lock", "exec_body", "exec_unlock"}

ExecCall(t, k) ==
  /\ pc[t] = User(t)
  /\ pc[Main] \in {"user"} \cup ExecLabels \/ t \in Workers
  /\ fate[k] = "unsubmitted"
  /\ fate' = [fate EXCEPT ![k] = "offered"]
  /\ arg' = [arg EXCEPT ![t] = k]
  /\ Goto(t, "exec_lock")
  /\ UNCHANGED <<lock, poolVars, work, waiting, runs, finished>>

\* "return 0" stands before Threadpool_CRITICAL_END: the mutex stays locked.
ExecReject(t) ==
  /\ pc[t] = "exec_body"
  /\ is_shutdown
  /\ fate' = [fate EXCEPT ![arg[t]] = "rejected"]
  /\ arg' = [arg EXCEPT ![t] = None]
  /\ Goto(t, User(t))
  /\ UNCHANGED <<lock, poolVars, work, waiting, runs, finished>>

\* Variant: the node is pushed without its `next`.
ExecPush_DropsNext(t) ==
  /\ pc[t] = "exec_body"
  /\ ~is_shutdown
  /\ task_stack' = <<arg[t]>>
  /\ fate' = [fate EXCEPT ![arg[t]] = "accepted"]
  /\ arg' = [arg EXCEPT ![t] = None]
  /\ Goto(t, "exec_unlock")
  /\ UNCHANGED <<lock, is_shutdown, num_threads_running, work, waiting, runs, finished>>

\* Variant: exectask does not look at is_shutdown before it pushes.
ExecPush_Always(t) ==
  /\ pc[t] = "exec_body"
  /\ task_stack' = <<arg[t]>> \o task_stack
  /\ fate' = [fate EXCEPT ![arg[t]] = "accepted"]
  /\ arg' = [arg EXCEPT ![t] = None]
  /\ Goto(t, "exec_unlock")
  /\ UNCHANGED <<lock, is_shutdown, num_threads_running, work, waiting, runs, finished>>

ExecPush(t) ==
  /\ pc[t] = "exec_body"
  /\ ~is_shutdown
  /\ task_stack' = <<arg[t]>> \o task_stack
  /\ fate' = [fate EXCEPT ![arg[t]] = "accepted"]
  /\ arg' = [arg EXCEPT ![t] = None]
  /\ Goto(t, "exec_unlock")
  /\ UNCHANGED <<lock, is_shutdown, num_threads_running, work, waiting, runs, finished>>
-------------------------------------------------------------------------
(* await_and_do_tasks *)

\* Variants: an ending worker forgets one part of its exit, or does one twice.
WorkerExit_Loops(w) ==            \* it announces its end and goes on looping
  /\ pc[w] = "take_body"
  /\ is_shutdown /\ task_stack = <<>>
  /\ num_threads_running' = num_threads_running - 1
  /\ Goto(w, "take_unlock")
  /\ UNCHANGED <<lock, task_stack, is_shutdown, work, arg, waiting, history>>

WorkerExit_KeepsLock(w) ==        \* it returns without Threadpool_CRITICAL_END
  /\ pc[w] = "take_body"
  /\ is_shutdown /\ task_stack = <<>>
  /\ num_threads_running' = num_threads_running - 1
  /\ Goto(w, "exited")
  /\ UNCHANGED <<lock, task_stack, is_shutdown, work, arg, waiting, history>>

WorkerExit_UnlocksTwice(w) ==     \* the mutex is released before and after
  /\ pc[w] = "take_body"
  /\ is_shutdown /\ task_stack = <<>>
  /\ num_threads_running' = num_threads_running - 1
  /\ lock' = None
  /\ Goto(w, "exit_unlock")
  /\ UNCHANGED <<task_stack, is_shutdown, work, arg, waiting, history>>

WorkerExit_Silent(w) ==           \* num_threads_running is not decremented
  /\ pc[w] = "take_body"
  /\ is_shutdown /\ task_stack = <<>>
  /\ Goto(w, "exit_unlock")
  /\ UNCHANGED <<lock, poolVars, work, arg, waiting, history>>

WorkerExit_Eager(w) ==            \* it ends on is_shutdown alone
  /\ pc[w] = "take_body"
  /\ is_shutdown
  /\ num_threads_running' = num_threads_running - 1
  /\ Goto(w, "exit_unlock")
  /\ UNCHANGED <<lock, task_stack, is_shutdown, work, arg, waiting, history>>

WorkerExit(w) ==
  /\ pc[w] = "take_body"
  /\ is_shutdown /\ task_stack = <<>>
  /\ num_threads_running' = num_threads_running - 1
  /\ Goto(w, "exit_unlock")
  /\ UNCHANGED <<lock, task_stack, is_shutdown, work, arg, waiting, history>>

TakeNothing(w) ==
  /\ pc[w] = "take_body"
  /\ ~is_shutdown /\ task_stack = <<>>
  /\ Goto(w, "take_unlock")
  /\ UNCHANGED <<lock, poolVars, work, arg, waiting, history>>

\* Variant: the worker reads the top node and leaves it on the stack.
Take_Peeks(w) ==
  /\ pc[w] = "take_body"
  /\ task_stack # <<>>
  /\ work' = [work EXCEPT ![w] = Head(task_stack)]
  /\ Goto(w, "take_unlock")
  /\ UNCHANGED <<lock, poolVars, arg, waiting, history>>

Take(w) ==
  /\ pc[w] = "take_body"
  /\ task_stack # <<>>
  /\ work' = [work EXCEPT ![w] = Head(task_stack)]
  /\ task_stack' = Tail(task_stack)
  /\ Goto(w, "take_unlock")
  /\ UNCHANGED <<lock, is_shutdown, num_threads_running, arg, waiting, history>>

CallTask(w) ==
  /\ pc[w] = "call"
  /\ runs' = [runs EXCEPT ![work[w]] = @ + 1]
  /\ Goto(w, "task")
  /\ UNCHANGED <<lock, poolVars, work, arg, waiting, fate, finished>>

TaskReturns(w) ==
  /\ pc[w] = "task"
  /\ finished' = finished \cup {work[w]}
  /\ work' = [work EXCEPT ![w] = None]
  /\ Goto(w, "take_lock")
  /\ UNCHANGED <<lock, poolVars, arg, waiting, fate, runs>>
-------------------------------------------------------------------------
(* Threadpool_destroy.  The program calls it when its clients are through  *)
(* with the pool; a task may be anywhere, inside exectask too.             *)

DestroyCall ==
  /\ pc[Main] = "user"
  /\ \A t \in Clients : pc[t] = "user"
  /\ Goto(Main, "flag_lock")
  /\ UNCHANGED <<lock, poolVars, work, arg, waiting, history>>

SetShutdown ==
  /\ pc[Main] = "flag_body"
  /\ is_shutdown' = TRUE
  /\ Goto(Main, "flag_unlock")
  /\ UNCHANGED <<lock, task_stack, num_threads_running, work, arg, waiting, history>>

ReadStack ==
  /\ pc[Main] = "stack_body"
  /\ waiting' = (task_stack # <<>>)
  /\ Goto(Main, "stack_unlock")
  /\ UNCHANGED <<lock, poolVars, work, arg, history>>

ReadCount ==
  /\ pc[Main] = "count_body"
  /\ waiting' = (num_threads_running # 0)
  /\ Goto(Main, "count_unlock")
  /\ UNCHANGED <<lock, poolVars, work, arg, history>>

\* mutex_destroy and free(pool->threads).
Teardown ==
  /\ pc[Main] = "teardown"
  /\ Goto(Main, "destroyed")
  /\ UNCHANGED <<lock, poolVars, work, arg, waiting, history>>
-------------------------------------------------------------------------
Exec(t) == (\E k \in Tasks : ExecCall(t, k)) \/ ExecReject(t) \/ ExecPush(t)

Worker(w) == WorkerExit(w) \/ TakeNothing(w) \/ Take(w) \/ CallTask(w) \/ TaskReturns(w)

Create == (\E w \in Workers : Spawn(w) \/ SpawnFails(w)) \/ CreateReturns

Destroy == SetShutdown \/ ReadStack \/ ReadCount \/ Teardown

\* The program may end when destroy has returned; any other stop is a deadlock.
Ended == pc[Main] = "destroyed" /\ UNCHANGED vars

Next ==
  \/ Create \/ DestroyCall \/ Destroy \/ Ended
  \/ \E t \in Threads : Lock(t) \/ Unlock(t) \/ Exec(t)
  \/ \E w \in Workers : Worker(w)

Spec == Init /\ [][Next]_vars

(***************************************************************************)
(* Fairness.  A thread that can take a step of the library's code takes it *)
(* (the operating system schedules every thread), a task returns ("Do not  *)
(* exec a task that will not finish"), and a thread that finds the mutex   *)
(* free again and again gets it in the end: the waiting loops yield the    *)
(* processor between two critical sections.  Nothing obliges the program   *)
(* to submit a task or to destroy the pool.                                *)
(***************************************************************************)
Fairness ==
  /\ WF_vars(Create) /\ WF_vars(Destroy)
  /\ \A t \in Threads : /\ SF_vars(Lock(t)) /\ WF_vars(Unlock(t))
                         /\ WF_vars(ExecReject(t) \/ ExecPush(t))
  /\ \A w \in Workers : WF_vars(Worker(w))

FairSpec == Spec /\ Fairness
-------------------------------------------------------------------------
(* Properties *)

Labels ==
  Critical \cup LockLabels
  \cup {"create", "user", "teardown", "destroyed"}
  \cup {"unborn", "failed", "call", "task", "exited"}

\* Every variable keeps its type; in particular the unsigned counter of
\* running threads never wraps below zero.
TypeOK ==
  /\ lock \in Threads \cup {None}
  /\ task_stack \in Seq(Tasks)
  /\ is_shutdown \in BOOLEAN
  /\ num_threads_running \in 0 .. Cardinality(Workers)
  /\ pc \in [Threads -> Labels]
  /\ work \in [Workers -> Tasks \cup {None}]
  /\ arg \in [Threads -> Tasks \cup {None}]
  /\ waiting \in BOOLEAN
  /\ fate \in [Tasks -> {"unsubmitted", "offered", "accepted", "rejected"}]
  /\ runs \in [Tasks -> Nat]
  /\ finished \subseteq Tasks

\* No two threads are between Threadpool_CRITICAL_BEGIN and _END at once: a
\* thread that executes code there owns pool_mutex.  It holds whatever the
\* program does, late calls of exectask included.
MutualExclusion == \A t \in Threads : pc[t] \in Critical => lock = t

\* The pool refused a task.
Refused == \E k \in Tasks : fate[k] = "rejected"

\* Until exectask refuses a task the mutex is held exactly by the thread that
\* executes code of a critical section: no other way out of one, and there are
\* two early returns, leaves it locked.
MutexHeldInside ==
  ~Refused => \A t \in Threads : lock = t <=> pc[t] \in Critical

\* The worker's label says that its local `work` is a node it popped.
InHand(k) == {w \in Workers : work[w] = k}
OnStack(k) == {i \in DOMAIN task_stack : task_stack[i] = k}

\* An accepted task is in exactly one place -- on the stack, in the hand of
\* one worker, or returned -- and it was called at most once; a task that was
\* not accepted is nowhere.  The pop in await_and_do_tasks and the push in
\* exectask, by any number of threads, neither lose nor duplicate work.
TasksConserved ==
  \A k \in Tasks :
    /\ Cardinality(OnStack(k)) + Cardinality(InHand(k))
         + (IF k \in finished THEN 1 ELSE 0)
       = (IF k \in accepted THEN 1 ELSE 0)
    /\ runs[k] <= 1

\* num_threads_running counts the threads that were asked for and have not yet
\* announced their end, so the second loop of destroy waits for all of them.
Announced(w) == pc[w] \in {"exit_unlock", "exited"}
CountsRunning ==
  num_threads_running = Cardinality({w \in Workers : ~Announced(w)})

\* Once destroy goes on to mutex_destroy, every worker has left the pool for
\* good: none is between a lock and its unlock, or will touch the pool again.
NoUseAfterDestroy ==
  pc[Main] \in {"teardown", "destroyed"} => \A w \in Workers : pc[w] = "exited"

\* What the first loop of destroy saw stays true while the second one waits:
\* the drained stack is never filled again, although tasks that still run may
\* call exectask.
DrainedStaysEmpty ==
  pc[Main] \in {"count_lock", "count_body", "count_unlock", "teardown", "destroyed"}
    => is_shutdown /\ task_stack = <<>>

\* The pool implements the promises of its comments (TaskPool): each task that
\* exectask accepted runs once, before destroy returns, and exectask accepts
\* none after the shutdown.
TP == INSTANCE TaskPool WITH
        phase <- IF pc[Main] = "destroyed" THEN "destroyed"
                 ELSE IF is_shutdown THEN "shut" ELSE "open"
ImplementsTaskPool == TP!Spec

\* "Only destroy once": a destroy that was called returns.
DestroyReturns == pc[Main] = "flag_lock" ~> pc[Main] = "destroyed"

\* The same for a pool whose threads all started, as long as it refuses no task.
\* A thread that did not start is counted for ever (line 47).
DestroyEnds ==
  pc[Main] = "flag_lock" ~>
    pc[Main] = "destroyed" \/ Refused \/ \E w \in Workers : pc[w] = "failed"

\* Every accepted task returns in the end, whether or not the pool is ever
\* destroyed, if one thread started and no task is refused: no task stays on the
\* stack and no worker leaves one behind.
AcceptedFinish ==
  \A k \in Tasks : k \in accepted ~>
    k \in finished \/ Refused \/ \A w \in Workers : pc[w] = "failed"
=========================================================================
