------------------------ MODULE ThreadpoolProofs ------------------------
(***************************************************************************)
(* Proofs about Threadpool for every number of clients, workers and tasks, *)
(* for programs that exec late and for threads that fail to start.         *)
(*                                                                         *)
(* The inductive invariant has five parts.  Types and Roles say which      *)
(* labels and locals each kind of thread has; MutualExclusion lets one     *)
(* thread at a time touch the pool; Counted and Shutdown say what destroy  *)
(* may conclude from what it read; Located says where every task is.       *)
(***************************************************************************)
EXTENDS Threadpool, FiniteSetTheorems, TLAPS

MainLabels == {"create", "user", "exec_lock", "exec_body", "exec_unlock",
               "flag_lock", "flag_body", "flag_unlock",
               "stack_lock", "stack_body", "stack_unlock",
               "count_lock", "count_body", "count_unlock", "teardown", "destroyed"}
ClientLabels == {"user", "exec_lock", "exec_body", "exec_unlock"}
WorkerLabels == {"unborn", "failed", "take_lock", "take_body", "take_unlock", "call",
                 "task", "exec_lock", "exec_body", "exec_unlock", "exit_unlock", "exited"}

\* The types of the variables, the labels split by the role of the thread.
Types ==
  /\ lock \in Threads \cup {None}
  /\ task_stack \in Seq(Tasks)
  /\ is_shutdown \in BOOLEAN
  /\ num_threads_running \in Nat
  /\ pc \in [Threads -> Labels]
  /\ work \in [Workers -> Tasks \cup {None}]
  /\ arg \in [Threads -> Tasks \cup {None}]
  /\ waiting \in BOOLEAN
  /\ fate \in [Tasks -> {"unsubmitted", "offered", "accepted", "rejected"}]
  /\ runs \in [Tasks -> Nat]
  /\ finished \subseteq Tasks

Roles ==
  /\ pc[Main] \in MainLabels
  /\ \A c \in Clients : pc[c] \in ClientLabels
  /\ \A w \in Workers : pc[w] \in WorkerLabels

\* A thread has an argument exactly while it is in exectask before the push.
ArgHeld == \A t \in Threads : arg[t] # None <=> pc[t] \in {"exec_lock", "exec_body"}

\* A worker has work exactly from its pop until the task returns.
Busy(w) == pc[w] \in {"call", "task"} \cup ExecLabels
WorkHeld == \A w \in Workers : /\ Busy(w) => work[w] # None
                               /\ work[w] # None => Busy(w) \/ pc[w] = "take_unlock"

Base == Types /\ Roles /\ ArgHeld /\ WorkHeld
-------------------------------------------------------------------------
(* What Lock and Unlock do, label by label.                                *)

\* Every lock label leads to its body.
LEMMA LockCases ==
  ASSUME NEW t \in Threads, Lock(t), pc \in [Threads -> Labels]
  PROVE  /\ lock = None /\ lock' = t
         /\ UNCHANGED <<task_stack, is_shutdown, num_threads_running, work, arg, waiting,
                        fate, runs, finished>>
         /\ pc' = [pc EXCEPT ![t] = pc'[t]]
         /\ \/ pc[t] = "exec_lock"  /\ pc'[t] = "exec_body"
            \/ pc[t] = "take_lock"  /\ pc'[t] = "take_body"
            \/ pc[t] = "flag_lock"  /\ pc'[t] = "flag_body"
            \/ pc[t] = "stack_lock" /\ pc'[t] = "stack_body"
            \/ pc[t] = "count_lock" /\ pc'[t] = "count_body"
  <1>1. /\ pc[t] \in LockLabels /\ lock = None /\ lock' = t
        /\ pc' = [pc EXCEPT ![t] = AfterLock[pc[t]]]
    BY DEF Lock, Goto
  <1>2. /\ AfterLock["exec_lock"] = "exec_body"   /\ AfterLock["take_lock"] = "take_body"
        /\ AfterLock["flag_lock"] = "flag_body"   /\ AfterLock["stack_lock"] = "stack_body"
        /\ AfterLock["count_lock"] = "count_body"
    BY DEF AfterLock
  <1>3. pc'[t] = AfterLock[pc[t]]
    BY <1>1
  <1>4. UNCHANGED <<task_stack, is_shutdown, num_threads_running, work, arg, waiting,
                    fate, runs, finished>>
    BY DEF Lock, poolVars, history
  <1> QED BY <1>1, <1>2, <1>3, <1>4 DEF LockLabels

\* Every unlock label leads to the label that Resume names.
LEMMA UnlockCases ==
  ASSUME NEW t \in Threads, Unlock(t), pc \in [Threads -> Labels]
  PROVE  /\ lock' = None
         /\ UNCHANGED <<task_stack, is_shutdown, num_threads_running, work, arg, waiting,
                        fate, runs, finished>>
         /\ pc' = [pc EXCEPT ![t] = pc'[t]]
         /\ \/ pc[t] = "exec_unlock"  /\ t \in Workers       /\ pc'[t] = "task"
            \/ pc[t] = "exec_unlock"  /\ t \notin Workers    /\ pc'[t] = "user"
            \/ pc[t] = "exit_unlock"                         /\ pc'[t] = "exited"
            \/ pc[t] = "take_unlock"  /\ work[t] = None      /\ pc'[t] = "take_lock"
            \/ pc[t] = "take_unlock"  /\ work[t] # None      /\ pc'[t] = "call"
            \/ pc[t] = "flag_unlock"                         /\ pc'[t] = "stack_lock"
            \/ pc[t] = "stack_unlock" /\ waiting             /\ pc'[t] = "stack_lock"
            \/ pc[t] = "stack_unlock" /\ ~waiting            /\ pc'[t] = "count_lock"
            \/ pc[t] = "count_unlock" /\ waiting             /\ pc'[t] = "count_lock"
            \/ pc[t] = "count_unlock" /\ ~waiting            /\ pc'[t] = "teardown"
  <1>1. pc[t] \in UnlockLabels /\ lock' = None /\ pc' = [pc EXCEPT ![t] = Resume(t)]
    BY DEF Unlock, Goto
  <1>2. pc'[t] = Resume(t)
    BY <1>1
  <1>3. UNCHANGED <<task_stack, is_shutdown, num_threads_running, work, arg, waiting,
                    fate, runs, finished>>
    BY DEF Unlock, poolVars, history
  <1>4. pc[t] = "exec_unlock" => Resume(t) = IF t \in Workers THEN "task" ELSE "user"
    BY DEF Resume, User
  <1>5. pc[t] = "exit_unlock" => Resume(t) = "exited"
    BY DEF Resume
  <1>6. pc[t] = "take_unlock" => Resume(t) = IF work[t] = None THEN "take_lock" ELSE "call"
    BY DEF Resume
  <1>7. pc[t] = "flag_unlock" => Resume(t) = "stack_lock"
    BY DEF Resume
  <1>8. pc[t] = "stack_unlock" => Resume(t) = IF waiting THEN "stack_lock" ELSE "count_lock"
    BY DEF Resume
  <1>9. pc[t] = "count_unlock" => Resume(t) = IF waiting THEN "count_lock" ELSE "teardown"
    BY SMTT(30) DEF Resume
  <1> QED BY <1>1, <1>2, <1>3, <1>4, <1>5, <1>6, <1>7, <1>8, <1>9 DEF UnlockLabels
-------------------------------------------------------------------------
(* Base and mutual exclusion.                                              *)

\* A step keeps the types, the roles and the locals; the counter is not
\* decremented at zero because the worker that ends is itself counted.
LEMMA BaseStep ==
  ASSUME Base, CountsRunning, Next
  PROVE  Base'
  <1> USE ThreadsAssumption DEF Goto, User, Threads, ExecLabels, LockLabels, Critical,
             poolVars, history, vars,
             Base, Types, Roles, ArgHeld, WorkHeld, Busy, Labels,
             MainLabels, ClientLabels, WorkerLabels
  <1>1. ASSUME NEW w \in Workers, Spawn(w) PROVE Base'
    BY <1>1 DEF Spawn
  <1>2. ASSUME NEW w \in Workers, SpawnFails(w) PROVE Base'
    BY <1>2 DEF SpawnFails
  <1>3. CASE CreateReturns
    BY <1>3 DEF CreateReturns
  <1>4. CASE DestroyCall
    BY <1>4 DEF DestroyCall
  <1>5. CASE SetShutdown
    BY <1>5 DEF SetShutdown
  <1>6. CASE ReadStack
    BY <1>6 DEF ReadStack
  <1>7. CASE ReadCount
    BY <1>7 DEF ReadCount
  <1>8. CASE Teardown
    BY <1>8 DEF Teardown
  <1>9. CASE Ended
    BY <1>9 DEF Ended
  <1>10. ASSUME NEW t \in Threads, Lock(t) PROVE Base'
    <2>1. Types'
      <3>1. pc'[t] \in Labels
        BY <1>10, LockCases
      <3> QED BY <1>10, <3>1, LockCases
    <2>2. Roles'
      <3>1. \A u \in Threads \ {t} : pc'[u] = pc[u]
        BY <1>10, LockCases
      <3>2. CASE t = Main
        <4>1. pc'[t] \in MainLabels
          BY <1>10, <3>2, LockCases
        <4> QED BY <3>1, <3>2, <4>1, ZenonT(40)
      <3>3. CASE t \in Clients
        <4>1. pc'[t] \in ClientLabels
          BY <1>10, <3>3, LockCases
        <4> QED BY <3>1, <3>3, <4>1, SMTT(30)
      <3>4. CASE t \in Workers
        <4>1. pc'[t] \in WorkerLabels
          BY <1>10, <3>4, LockCases
        <4> QED BY <3>1, <3>4, <4>1, ZenonT(40)
      <3> QED BY <3>2, <3>3, <3>4
    <2>3. ArgHeld'
      BY <1>10, LockCases
    <2>4. WorkHeld'
      BY <1>10, LockCases
    <2> QED BY <2>1, <2>2, <2>3, <2>4
  <1>11. ASSUME NEW t \in Threads, Unlock(t) PROVE Base'
    <2>1. Types'
      <3>1. pc'[t] \in Labels
        BY <1>11, UnlockCases
      <3> QED BY <1>11, <3>1, UnlockCases
    <2>2. Roles'
      <3>1. \A u \in Threads \ {t} : pc'[u] = pc[u]
        BY <1>11, UnlockCases
      <3>2. CASE t = Main
        <4>1. pc'[t] \in MainLabels
          BY <1>11, <3>2, UnlockCases
        <4> QED BY <3>1, <3>2, <4>1
      <3>3. CASE t \in Clients
        <4>1. pc'[t] \in ClientLabels
          BY <1>11, <3>3, UnlockCases
        <4> QED BY <3>1, <3>3, <4>1
      <3>4. CASE t \in Workers
        <4>1. pc'[t] \in WorkerLabels
          BY <1>11, <3>4, UnlockCases
        <4> QED BY <3>1, <3>4, <4>1
      <3> QED BY <3>2, <3>3, <3>4
    <2>3. ArgHeld'
      <3>1. arg' = arg /\ \A u \in Threads \ {t} : pc'[u] = pc[u]
        BY <1>11, UnlockCases
      <3>2. {pc[t], pc'[t]} \cap {"exec_lock", "exec_body"} = {}
        BY <1>11, UnlockCases
      <3> QED BY ONLY <3>1, <3>2, ArgHeld DEF ArgHeld
    <2>4. WorkHeld'
      BY <1>11, UnlockCases, SMTT(30)
    <2> QED BY <2>1, <2>2, <2>3, <2>4
  <1>12. ASSUME NEW t \in Threads, NEW k \in Tasks, ExecCall(t, k) PROVE Base'
    BY <1>12 DEF ExecCall
  <1>13. ASSUME NEW t \in Threads, ExecReject(t) PROVE Base'
    BY <1>13 DEF ExecReject
  <1>14. ASSUME NEW t \in Threads, ExecPush(t) PROVE Base'
    BY <1>14 DEF ExecPush
  <1>15. ASSUME NEW w \in Workers, WorkerExit(w) PROVE Base'
    <2>1. num_threads_running # 0
      <3> DEFINE R == {v \in Workers : ~Announced(v)}
      <3>1. w \in R /\ IsFiniteSet(R)
        BY <1>15, FS_Subset DEF WorkerExit, Announced
      <3>2. Cardinality(R) # 0
        BY <3>1, FS_EmptySet
      <3> QED BY <3>2 DEF CountsRunning
    <2> QED BY <1>15, <2>1 DEF WorkerExit
  <1>16. ASSUME NEW w \in Workers, TakeNothing(w) PROVE Base'
    BY <1>16 DEF TakeNothing
  <1>17. ASSUME NEW w \in Workers, Take(w) PROVE Base'
    BY <1>17 DEF Take
  <1>18. ASSUME NEW w \in Workers, CallTask(w) PROVE Base'
    <2>1. work[w] \in Tasks
      BY <1>18 DEF CallTask
    <2>2. pc' = [pc EXCEPT ![w] = "task"]
      BY <1>18 DEF CallTask
    <2>3. Types'
      BY <1>18, <2>1, <2>2 DEF CallTask
    <2>4. Roles' /\ ArgHeld' /\ WorkHeld'
      BY <1>18, <2>2, ZenonT(40) DEF CallTask
    <2> QED BY <2>3, <2>4
  <1>19. ASSUME NEW w \in Workers, TaskReturns(w) PROVE Base'
    BY <1>19 DEF TaskReturns
  <1> QED
    BY <1>1, <1>2, <1>3, <1>4, <1>5, <1>6, <1>7, <1>8, <1>9, <1>10,
       <1>11, <1>12, <1>13, <1>14, <1>15, <1>16, <1>17, <1>18, <1>19
    DEF Next, Create, Destroy, Exec, Worker

\* pool_mutex does its work: a step leaves at most its holder inside.
LEMMA MutexStep ==
  ASSUME Base, MutualExclusion, Next
  PROVE  MutualExclusion'
  <1> USE ThreadsAssumption DEF Goto, User, Threads, ExecLabels, LockLabels, Critical,
             poolVars, history, vars,
             Base, Types, Roles, Labels, UnlockLabels, MutualExclusion
  <1>1. ASSUME NEW w \in Workers, Spawn(w) PROVE MutualExclusion'
    BY <1>1 DEF Spawn
  <1>2. ASSUME NEW w \in Workers, SpawnFails(w) PROVE MutualExclusion'
    BY <1>2 DEF SpawnFails
  <1>3. CASE CreateReturns
    BY <1>3 DEF CreateReturns
  <1>4. CASE DestroyCall
    BY <1>4 DEF DestroyCall
  <1>5. CASE SetShutdown
    BY <1>5 DEF SetShutdown
  <1>6. CASE ReadStack
    BY <1>6 DEF ReadStack
  <1>7. CASE ReadCount
    BY <1>7 DEF ReadCount
  <1>8. CASE Teardown
    BY <1>8 DEF Teardown
  <1>9. CASE Ended
    BY <1>9 DEF Ended
  <1>10. ASSUME NEW t \in Threads, Lock(t) PROVE MutualExclusion'
    BY <1>10, LockCases
  <1>11. ASSUME NEW t \in Threads, Unlock(t) PROVE MutualExclusion'
    <2>1. pc[t] \in Critical /\ pc'[t] \notin Critical /\ lock' = None
      BY <1>11, UnlockCases
    <2>2. \A u \in Threads \ {t} : pc'[u] = pc[u]
      BY <1>11, UnlockCases
    <2> QED BY <2>1, <2>2
  <1>12. ASSUME NEW t \in Threads, NEW k \in Tasks, ExecCall(t, k) PROVE MutualExclusion'
    BY <1>12 DEF ExecCall
  <1>13. ASSUME NEW t \in Threads, ExecReject(t) PROVE MutualExclusion'
    BY <1>13 DEF ExecReject
  <1>14. ASSUME NEW t \in Threads, ExecPush(t) PROVE MutualExclusion'
    BY <1>14 DEF ExecPush
  <1>15. ASSUME NEW w \in Workers, WorkerExit(w) PROVE MutualExclusion'
    BY <1>15 DEF WorkerExit
  <1>16. ASSUME NEW w \in Workers, TakeNothing(w) PROVE MutualExclusion'
    BY <1>16 DEF TakeNothing
  <1>17. ASSUME NEW w \in Workers, Take(w) PROVE MutualExclusion'
    BY <1>17 DEF Take
  <1>18. ASSUME NEW w \in Workers, CallTask(w) PROVE MutualExclusion'
    BY <1>18 DEF CallTask
  <1>19. ASSUME NEW w \in Workers, TaskReturns(w) PROVE MutualExclusion'
    BY <1>19 DEF TaskReturns
  <1> QED
    BY <1>1, <1>2, <1>3, <1>4, <1>5, <1>6, <1>7, <1>8, <1>9, <1>10,
       <1>11, <1>12, <1>13, <1>14, <1>15, <1>16, <1>17, <1>18, <1>19
    DEF Next, Create, Destroy, Exec, Worker

-------------------------------------------------------------------------
(* The counter and the shutdown.                                           *)

\* Only the exit of a worker changes the set of running workers, by one, and
\* it decrements num_threads_running by one.
LEMMA CountStep ==
  ASSUME Base, CountsRunning, Next
  PROVE  CountsRunning'
  <1> DEFINE R == {v \in Workers : ~Announced(v)}
  <1>a. ASSUME UNCHANGED num_threads_running,
               \A v \in Workers : Announced(v)' <=> Announced(v)
        PROVE  CountsRunning'
    BY <1>a DEF CountsRunning
  <1> USE ThreadsAssumption DEF Goto, User, Threads, ExecLabels, LockLabels, Critical,
             poolVars, history, vars,
             Base, Types, Roles, Labels, Announced
  <1> HIDE DEF R
  <1>1. ASSUME NEW w \in Workers, Spawn(w) PROVE CountsRunning'
    BY <1>1, <1>a DEF Spawn
  <1>2. ASSUME NEW w \in Workers, SpawnFails(w) PROVE CountsRunning'
    BY <1>2, <1>a DEF SpawnFails
  <1>3. CASE CreateReturns
    BY <1>3, <1>a DEF CreateReturns
  <1>4. CASE DestroyCall
    BY <1>4, <1>a DEF DestroyCall
  <1>5. CASE SetShutdown
    BY <1>5, <1>a DEF SetShutdown
  <1>6. CASE ReadStack
    BY <1>6, <1>a DEF ReadStack
  <1>7. CASE ReadCount
    BY <1>7, <1>a DEF ReadCount
  <1>8. CASE Teardown
    BY <1>8, <1>a DEF Teardown
  <1>9. CASE Ended
    BY <1>9, <1>a DEF Ended
  <1>10. ASSUME NEW t \in Threads, Lock(t) PROVE CountsRunning'
    BY <1>10, <1>a, LockCases
  <1>11. ASSUME NEW t \in Threads, Unlock(t) PROVE CountsRunning'
    BY <1>11, <1>a, UnlockCases
  <1>12. ASSUME NEW t \in Threads, NEW k \in Tasks, ExecCall(t, k) PROVE CountsRunning'
    BY <1>12, <1>a DEF ExecCall
  <1>13. ASSUME NEW t \in Threads, ExecReject(t) PROVE CountsRunning'
    BY <1>13, <1>a DEF ExecReject
  <1>14. ASSUME NEW t \in Threads, ExecPush(t) PROVE CountsRunning'
    BY <1>14, <1>a DEF ExecPush
  <1>15. ASSUME NEW w \in Workers, WorkerExit(w) PROVE CountsRunning'
    <2>1. w \in R /\ IsFiniteSet(R)
      BY <1>15, FS_Subset DEF WorkerExit, R
    <2>2. {v \in Workers : ~Announced(v)'} = R \ {w}
      BY <1>15 DEF WorkerExit, R
    <2>3. Cardinality(R \ {w}) = Cardinality(R) - 1
      BY <2>1, FS_RemoveElement
    <2> QED BY <1>15, <2>2, <2>3 DEF WorkerExit, CountsRunning, R
  <1>16. ASSUME NEW w \in Workers, TakeNothing(w) PROVE CountsRunning'
    BY <1>16, <1>a DEF TakeNothing
  <1>17. ASSUME NEW w \in Workers, Take(w) PROVE CountsRunning'
    BY <1>17, <1>a DEF Take
  <1>18. ASSUME NEW w \in Workers, CallTask(w) PROVE CountsRunning'
    BY <1>18, <1>a DEF CallTask
  <1>19. ASSUME NEW w \in Workers, TaskReturns(w) PROVE CountsRunning'
    BY <1>19, <1>a DEF TaskReturns
  <1> QED
    BY <1>1, <1>2, <1>3, <1>4, <1>5, <1>6, <1>7, <1>8, <1>9, <1>10,
       <1>11, <1>12, <1>13, <1>14, <1>15, <1>16, <1>17, <1>18, <1>19
    DEF Next, Create, Destroy, Exec, Worker

AfterFlag == {"flag_unlock", "stack_lock", "stack_body", "stack_unlock",
              "count_lock", "count_body", "count_unlock", "teardown", "destroyed"}
AfterDrain == {"count_lock", "count_body", "count_unlock", "teardown", "destroyed"}

\* What destroy knows at each of its labels.
Shutdown ==
  /\ is_shutdown <=> pc[Main] \in AfterFlag
  /\ pc[Main] \in AfterDrain \/ (pc[Main] = "stack_unlock" /\ ~waiting)
       => task_stack = <<>>
  /\ pc[Main] \in {"teardown", "destroyed"} \/ (pc[Main] = "count_unlock" /\ ~waiting)
       => \A w \in Workers : pc[w] = "exited"

\* What destroy knows stays true: nobody pushes after the flag is set, and a
\* thread that has ended stays so.
LEMMA ShutdownStep ==
  ASSUME Base, MutualExclusion, CountsRunning, Shutdown, Next
  PROVE  Shutdown'
  <1> USE ThreadsAssumption DEF Goto, User, Threads, ExecLabels, LockLabels, Critical,
             poolVars, history, vars,
             Base, Types, Roles, Labels, MainLabels, ClientLabels, WorkerLabels,
             AfterFlag, AfterDrain, Shutdown
  <1>1. ASSUME NEW w \in Workers, Spawn(w) PROVE Shutdown'
    BY <1>1 DEF Spawn
  <1>2. ASSUME NEW w \in Workers, SpawnFails(w) PROVE Shutdown'
    BY <1>2 DEF SpawnFails
  <1>3. CASE CreateReturns
    BY <1>3 DEF CreateReturns
  <1>4. CASE DestroyCall
    BY <1>4 DEF DestroyCall
  <1>5. CASE SetShutdown
    BY <1>5 DEF SetShutdown
  <1>6. CASE ReadStack
    BY <1>6 DEF ReadStack
  <1>7. CASE ReadCount
    <2>1. ASSUME num_threads_running = 0
          PROVE  \A w \in Workers : pc[w] = "exited"
      <3> DEFINE R == {v \in Workers : ~Announced(v)}
      <3>1. IsFiniteSet(R)
        BY FS_Subset
      <3>2. R = {}
        BY <2>1, <3>1, FS_EmptySet DEF CountsRunning
      <3>3. \A w \in Workers : Announced(w)
        BY <3>2
      <3>4. \A w \in Workers : pc[w] # "exit_unlock"
        BY <1>7 DEF ReadCount, MutualExclusion
      <3> QED BY <3>3, <3>4 DEF Announced
    <2> QED BY <1>7, <2>1 DEF ReadCount
  <1>8. CASE Teardown
    BY <1>8 DEF Teardown
  <1>9. CASE Ended
    BY <1>9 DEF Ended
  <1>10. ASSUME NEW t \in Threads, Lock(t) PROVE Shutdown'
    BY <1>10, LockCases
  <1>11. ASSUME NEW t \in Threads, Unlock(t) PROVE Shutdown'
    BY <1>11, UnlockCases, SMTT(30)
  <1>12. ASSUME NEW t \in Threads, NEW k \in Tasks, ExecCall(t, k) PROVE Shutdown'
    BY <1>12 DEF ExecCall
  <1>13. ASSUME NEW t \in Threads, ExecReject(t) PROVE Shutdown'
    BY <1>13 DEF ExecReject
  <1>14. ASSUME NEW t \in Threads, ExecPush(t) PROVE Shutdown'
    BY <1>14 DEF ExecPush
  <1>15. ASSUME NEW w \in Workers, WorkerExit(w) PROVE Shutdown'
    BY <1>15 DEF WorkerExit
  <1>16. ASSUME NEW w \in Workers, TakeNothing(w) PROVE Shutdown'
    BY <1>16 DEF TakeNothing
  <1>17. ASSUME NEW w \in Workers, Take(w) PROVE Shutdown'
    BY <1>17 DEF Take
  <1>18. ASSUME NEW w \in Workers, CallTask(w) PROVE Shutdown'
    BY <1>18 DEF CallTask
  <1>19. ASSUME NEW w \in Workers, TaskReturns(w) PROVE Shutdown'
    BY <1>19 DEF TaskReturns
  <1> QED
    BY <1>1, <1>2, <1>3, <1>4, <1>5, <1>6, <1>7, <1>8, <1>9, <1>10,
       <1>11, <1>12, <1>13, <1>14, <1>15, <1>16, <1>17, <1>18, <1>19
    DEF Next, Create, Destroy, Exec, Worker
-------------------------------------------------------------------------
(* Where the tasks are.                                                    *)

Elems(s) == {s[i] : i \in 1 .. Len(s)}
NoDup(s) == \A i, j \in 1 .. Len(s) : s[i] = s[j] => i = j

\* Pushing a new element adds it, once.
LEMMA PushElems ==
  ASSUME NEW S, NEW s \in Seq(S), NEW x \in S
  PROVE  /\ Elems(<<x>> \o s) = Elems(s) \cup {x}
         /\ NoDup(s) /\ x \notin Elems(s) => NoDup(<<x>> \o s)
  <1> DEFINE p == <<x>> \o s
  <1>1. /\ p \in Seq(S) /\ Len(p) = Len(s) + 1
        /\ p[1] = x /\ \A i \in 1 .. Len(s) : p[i + 1] = s[i]
    OBVIOUS
  <1>2. \A i \in 2 .. Len(p) : i - 1 \in 1 .. Len(s) /\ p[i] = s[i - 1]
    BY <1>1
  <1>3. Elems(p) \subseteq Elems(s) \cup {x}
    BY <1>1, <1>2 DEF Elems
  <1>4. Elems(s) \cup {x} \subseteq Elems(p)
    BY <1>1 DEF Elems
  <1>5. ASSUME NoDup(s), x \notin Elems(s) PROVE NoDup(p)
    <2>1. \A i \in 2 .. Len(p) : p[i] # x
      BY <1>2, <1>5 DEF Elems
    <2> QED BY <1>1, <1>2, <1>5, <2>1 DEF NoDup
  <1> QED BY <1>3, <1>4, <1>5

\* Popping removes the top, and only it.
LEMMA PopElems ==
  ASSUME NEW S, NEW s \in Seq(S), s # <<>>
  PROVE  /\ Head(s) \in S /\ Head(s) \in Elems(s)
         /\ NoDup(s) => NoDup(Tail(s)) /\ Elems(Tail(s)) = Elems(s) \ {Head(s)}
  <1>1. /\ Len(s) \in Nat \ {0} /\ Head(s) = s[1] /\ Tail(s) \in Seq(S)
        /\ Len(Tail(s)) = Len(s) - 1
        /\ \A i \in 1 .. Len(s) - 1 : Tail(s)[i] = s[i + 1]
    OBVIOUS
  <1>2. Head(s) \in S /\ Head(s) \in Elems(s)
    BY <1>1 DEF Elems
  <1>3. ASSUME NoDup(s) PROVE NoDup(Tail(s))
    BY <1>1, <1>3 DEF NoDup
  <1>4. ASSUME NoDup(s) PROVE Elems(Tail(s)) \subseteq Elems(s) \ {Head(s)}
    <2> SUFFICES ASSUME NEW i \in 1 .. Len(s) - 1
                 PROVE  s[i + 1] \in Elems(s) \ {s[1]}
      BY <1>1 DEF Elems
    <2> QED BY <1>1, <1>4 DEF NoDup, Elems
  <1>5. Elems(s) \ {Head(s)} \subseteq Elems(Tail(s))
    <2> SUFFICES ASSUME NEW j \in 1 .. Len(s), s[j] # s[1]
                 PROVE  s[j] \in Elems(Tail(s))
      BY <1>1 DEF Elems
    <2>1. j - 1 \in 1 .. Len(s) - 1 /\ Tail(s)[j - 1] = s[j]
      BY <1>1
    <2> QED BY <1>1, <2>1 DEF Elems
  <1> QED BY <1>2, <1>3, <1>4, <1>5

\* Nodes are the tasks on the stack; a worker is past its call of task_fn while
\* the task runs, also inside an exectask of that task.
Nodes == Elems(task_stack)
Called(w) == pc[w] \in {"task"} \cup ExecLabels

\* No task is twice on the stack, in two hands, or the argument of two calls.
Once ==
  /\ NoDup(task_stack)
  /\ \A v, w \in Workers : work[v] = work[w] /\ work[v] # None => v = w
  /\ \A s, t \in Threads : arg[s] = arg[t] /\ arg[s] # None => s = t

\* Stack, hands and finished are disjoint, and hold the accepted tasks.
Placed ==
  /\ \A t \in Threads : arg[t] # None => fate[arg[t]] = "offered"
  /\ Nodes \cap finished = {}
  /\ \A w \in Workers : work[w] \notin Nodes \cup finished
  /\ \A k \in Nodes \cup finished : fate[k] = "accepted"
  /\ \A w \in Workers : work[w] # None => fate[work[w]] = "accepted"
  /\ \A k \in Tasks : fate[k] = "accepted" =>
       k \in Nodes \cup finished \/ \E w \in Workers : work[w] = k

\* A task ran once if a worker is past its call or it has finished, else never.
Ran ==
  /\ \A k \in finished : runs[k] = 1
  /\ \A w \in Workers : work[w] # None => runs[work[w]] = IF Called(w) THEN 1 ELSE 0
  /\ \A k \in Nodes : runs[k] = 0
  /\ \A k \in Tasks : fate[k] # "accepted" => runs[k] = 0

Located == Once /\ Placed /\ Ran

\* The stack, the hands and the history change only as the pop, the push, the
\* call and the return of a task say; the other actions leave Located alone.
LEMMA LocatedStep ==
  ASSUME Base, Located, Next
  PROVE  Located'
  <1>a. ASSUME UNCHANGED <<task_stack, work, arg, fate, runs, finished>>,
               \A w \in Workers : work[w] # None => (Called(w)' <=> Called(w))
        PROVE  Located'
    <2>1. Once' /\ Placed'
      BY <1>a DEF Located, Once, Placed, Nodes
    <2>2. Ran'
      BY <1>a DEF Located, Ran, Nodes
    <2> QED BY <2>1, <2>2 DEF Located
  <1> USE ThreadsAssumption DEF Goto, User, Threads, ExecLabels, poolVars, history, vars,
             Base, Types, Roles, ArgHeld, WorkHeld, Busy, Called
  <1>1. ASSUME NEW w \in Workers, Spawn(w) PROVE Located'
    BY <1>1, <1>a DEF Spawn
  <1>2. ASSUME NEW w \in Workers, SpawnFails(w) PROVE Located'
    BY <1>2, <1>a DEF SpawnFails
  <1>3. CASE CreateReturns
    BY <1>3, <1>a DEF CreateReturns
  <1>4. CASE DestroyCall
    BY <1>4, <1>a DEF DestroyCall
  <1>5. CASE SetShutdown
    BY <1>5, <1>a DEF SetShutdown
  <1>6. CASE ReadStack
    BY <1>6, <1>a DEF ReadStack
  <1>7. CASE ReadCount
    BY <1>7, <1>a DEF ReadCount
  <1>8. CASE Teardown
    BY <1>8, <1>a DEF Teardown
  <1>9. CASE Ended
    BY <1>9, <1>a DEF Ended
  <1>10. ASSUME NEW t \in Threads, Lock(t) PROVE Located'
    BY <1>10, <1>a, LockCases, ZenonT(40)
  <1>11. ASSUME NEW t \in Threads, Unlock(t) PROVE Located'
    BY <1>11, <1>a, UnlockCases, SMTT(30)
  <1>12. ASSUME NEW t \in Threads, NEW k \in Tasks, ExecCall(t, k) PROVE Located'
    <2>1. UNCHANGED <<task_stack, work, runs, finished, Nodes>>
      BY <1>12 DEF ExecCall, Nodes
    <2>2. /\ fate[k] = "unsubmitted" /\ fate' = [fate EXCEPT ![k] = "offered"]
          /\ arg' = [arg EXCEPT ![t] = k]
          /\ \A w \in Workers : Called(w)' <=> Called(w)
      BY <1>12 DEF ExecCall
    <2>3. Once'
      BY <2>1, <2>2 DEF Located, Once, Placed
    <2>4. Placed'
      BY <2>1, <2>2 DEF Located, Placed
    <2>5. Ran'
      BY <2>1, <2>2 DEF Located, Ran, Placed
    <2> QED BY <2>3, <2>4, <2>5 DEF Located
  <1>13. ASSUME NEW t \in Threads, ExecReject(t) PROVE Located'
    <2>1. UNCHANGED <<task_stack, work, runs, finished, Nodes>>
      BY <1>13 DEF ExecReject, Nodes
    <2>2. /\ arg[t] \in Tasks /\ fate[arg[t]] = "offered"
          /\ fate' = [fate EXCEPT ![arg[t]] = "rejected"]
          /\ arg' = [arg EXCEPT ![t] = None]
          /\ \A w \in Workers : Called(w)' <=> Called(w)
      BY <1>13 DEF ExecReject, Located, Placed
    <2>3. Once'
      BY <2>1, <2>2 DEF Located, Once
    <2>4. Placed'
      BY <2>1, <2>2 DEF Located, Once, Placed
    <2>5. Ran'
      BY <2>1, <2>2 DEF Located, Ran, Placed
    <2> QED BY <2>3, <2>4, <2>5 DEF Located
  <1>14. ASSUME NEW t \in Threads, ExecPush(t) PROVE Located'
    <2>1. /\ arg[t] \in Tasks /\ fate[arg[t]] = "offered"
          /\ fate' = [fate EXCEPT ![arg[t]] = "accepted"]
          /\ arg' = [arg EXCEPT ![t] = None]
          /\ \A w \in Workers : Called(w)' <=> Called(w)
          /\ UNCHANGED <<work, runs, finished>>
      BY <1>14 DEF ExecPush, Located, Placed
    <2>2. arg[t] \notin Nodes
      BY <2>1 DEF Located, Placed
    <2>3. Nodes' = Nodes \cup {arg[t]} /\ NoDup(task_stack')
      BY <1>14, <2>1, <2>2, PushElems DEF ExecPush, Nodes, Located, Once
    <2>4. Once'
      BY <2>1, <2>3 DEF Located, Once
    <2>5. Placed'
      BY <2>1, <2>3 DEF Located, Once, Placed
    <2>6. Ran'
      BY <2>1, <2>3 DEF Located, Ran, Placed
    <2> QED BY <2>4, <2>5, <2>6 DEF Located
  <1>15. ASSUME NEW w \in Workers, WorkerExit(w) PROVE Located'
    BY <1>15, <1>a DEF WorkerExit
  <1>16. ASSUME NEW w \in Workers, TakeNothing(w) PROVE Located'
    BY <1>16, <1>a DEF TakeNothing
  <1>17. ASSUME NEW w \in Workers, Take(w) PROVE Located'
    <2>1. /\ work[w] = None /\ work' = [work EXCEPT ![w] = Head(task_stack)]
          /\ \A v \in Workers : Called(v)' <=> Called(v)
          /\ ~Called(w)
          /\ UNCHANGED <<arg, fate, runs, finished>>
      BY <1>17 DEF Take
    <2>2. /\ Head(task_stack) \in Tasks /\ Head(task_stack) \in Nodes
          /\ Nodes' = Nodes \ {Head(task_stack)} /\ NoDup(task_stack')
      BY <1>17, PopElems DEF Take, Nodes, Located, Once
    <2>3. Once'
      BY <2>1, <2>2 DEF Located, Once, Placed
    <2>4. Placed'
      BY <2>1, <2>2 DEF Located, Placed
    <2>5. Ran'
      BY <2>1, <2>2 DEF Located, Ran, Placed
    <2> QED BY <2>3, <2>4, <2>5 DEF Located
  <1>18. ASSUME NEW w \in Workers, CallTask(w) PROVE Located'
    <2>1. /\ work[w] \in Tasks /\ runs' = [runs EXCEPT ![work[w]] = @ + 1]
          /\ ~Called(w) /\ Called(w)'
          /\ \A v \in Workers \ {w} : Called(v)' <=> Called(v)
          /\ UNCHANGED <<task_stack, work, arg, fate, finished, Nodes>>
      BY <1>18 DEF CallTask, Nodes
    <2>2. Once' /\ Placed'
      BY <2>1 DEF Located, Once, Placed
    <2>3. Ran'
      BY <2>1 DEF Located, Ran, Once, Placed
    <2> QED BY <2>2, <2>3 DEF Located
  <1>19. ASSUME NEW w \in Workers, TaskReturns(w) PROVE Located'
    <2>1. /\ work[w] \in Tasks /\ finished' = finished \cup {work[w]}
          /\ work' = [work EXCEPT ![w] = None] /\ Called(w)
          /\ \A v \in Workers \ {w} : Called(v)' <=> Called(v)
          /\ UNCHANGED <<task_stack, arg, fate, runs, Nodes>>
      BY <1>19 DEF TaskReturns, Nodes
    <2>2. Once'
      BY <2>1 DEF Located, Once
    <2>3. Placed'
      <3>1. None \notin Nodes \cup finished'
        BY <2>1 DEF Nodes, Elems
      <3> QED BY <2>1, <3>1 DEF Located, Once, Placed
    <2>4. Ran'
      BY <2>1 DEF Located, Ran, Once, Placed
    <2> QED BY <2>2, <2>3, <2>4 DEF Located
  <1> QED
    BY <1>1, <1>2, <1>3, <1>4, <1>5, <1>6, <1>7, <1>8, <1>9, <1>10,
       <1>11, <1>12, <1>13, <1>14, <1>15, <1>16, <1>17, <1>18, <1>19
    DEF Next, Create, Destroy, Exec, Worker
-------------------------------------------------------------------------
(* Pools that refused no task.                                              *)

\* Only the return of a refused exectask leaves the mutex locked.
Quiet == ~Refused => \A t \in Threads : lock = t => pc[t] \in Critical

\* Every other step that leaves a critical section releases the mutex.
LEMMA QuietStep ==
  ASSUME Base, MutualExclusion, Quiet, Next
  PROVE  Quiet'
  <1> USE ThreadsAssumption DEF Goto, User, Threads, ExecLabels, LockLabels, Critical,
             poolVars, history, vars, Base, Types, Roles, Labels, MainLabels,
             ClientLabels, WorkerLabels, Quiet, Refused
  <1>1. ASSUME NEW w \in Workers, Spawn(w) PROVE Quiet'
    BY <1>1 DEF Spawn
  <1>2. ASSUME NEW w \in Workers, SpawnFails(w) PROVE Quiet'
    BY <1>2 DEF SpawnFails
  <1>3. CASE CreateReturns
    BY <1>3 DEF CreateReturns
  <1>4. CASE DestroyCall
    BY <1>4 DEF DestroyCall
  <1>5. CASE SetShutdown
    BY <1>5 DEF SetShutdown
  <1>6. CASE ReadStack
    BY <1>6 DEF ReadStack
  <1>7. CASE ReadCount
    BY <1>7 DEF ReadCount
  <1>8. CASE Teardown
    BY <1>8 DEF Teardown
  <1>9. CASE Ended
    BY <1>9 DEF Ended
  <1>10. ASSUME NEW t \in Threads, Lock(t) PROVE Quiet'
    BY <1>10, LockCases
  <1>11. ASSUME NEW t \in Threads, Unlock(t) PROVE Quiet'
    BY <1>11, UnlockCases
  <1>12. ASSUME NEW t \in Threads, NEW k \in Tasks, ExecCall(t, k) PROVE Quiet'
    BY <1>12 DEF ExecCall
  <1>13. ASSUME NEW t \in Threads, ExecReject(t) PROVE Quiet'
    <2>1. Refused'
      <3>1. arg[t] \in Tasks
        BY <1>13 DEF ExecReject, ArgHeld
      <3> QED BY <1>13, <3>1 DEF ExecReject
    <2> QED BY <2>1
  <1>14. ASSUME NEW t \in Threads, ExecPush(t) PROVE Quiet'
    <2>1. lock = t /\ lock' = lock /\ pc'[t] \in Critical
      BY <1>14 DEF ExecPush, MutualExclusion
    <2> QED BY <2>1 DEF ExecPush
  <1>15. ASSUME NEW w \in Workers, WorkerExit(w) PROVE Quiet'
    BY <1>15 DEF WorkerExit
  <1>16. ASSUME NEW w \in Workers, TakeNothing(w) PROVE Quiet'
    BY <1>16 DEF TakeNothing
  <1>17. ASSUME NEW w \in Workers, Take(w) PROVE Quiet'
    BY <1>17 DEF Take
  <1>18. ASSUME NEW w \in Workers, CallTask(w) PROVE Quiet'
    BY <1>18 DEF CallTask
  <1>19. ASSUME NEW w \in Workers, TaskReturns(w) PROVE Quiet'
    BY <1>19 DEF TaskReturns
  <1> QED
    BY <1>1, <1>2, <1>3, <1>4, <1>5, <1>6, <1>7, <1>8, <1>9, <1>10,
       <1>11, <1>12, <1>13, <1>14, <1>15, <1>16, <1>17, <1>18, <1>19
    DEF Next, Create, Destroy, Exec, Worker

-------------------------------------------------------------------------
(* The inductive invariant.                                                *)

IInv == /\ Base
        /\ MutualExclusion
        /\ CountsRunning
        /\ Shutdown
        /\ Located
        /\ Quiet

\* It holds when Threadpool_create has assigned the fields.
LEMMA InitIInv == Init => IInv
  <1> SUFFICES ASSUME Init PROVE IInv
    OBVIOUS
  <1> USE ThreadsAssumption DEF Init, Threads
  <1>1. Cardinality(Workers) \in Nat
    BY FS_CardinalityType
  <1>2. /\ pc[Main] = "create"
        /\ \A c \in Clients : pc[c] = "user"
        /\ \A w \in Workers : pc[w] = "unborn"
    OBVIOUS
  <1>3. pc \in [Threads -> {"create", "user", "unborn"}]
    OBVIOUS
  <1>4. Base
    <2>1. Types
      <3>1. pc \in [Threads -> Labels]
        BY <1>3 DEF Labels
      <3>2. task_stack \in Seq(Tasks)
        OBVIOUS
      <3>3. arg \in [Threads -> Tasks \cup {None}] /\ work \in [Workers -> Tasks \cup {None}]
        OBVIOUS
      <3> QED BY <1>1, <3>1, <3>2, <3>3 DEF Types
    <2>2. Roles
      BY <1>2 DEF Roles, MainLabels, ClientLabels, WorkerLabels
    <2>3. ArgHeld
      BY <1>3 DEF ArgHeld
    <2>4. WorkHeld
      BY <1>2 DEF WorkHeld, Busy, ExecLabels
    <2> QED BY <2>1, <2>2, <2>3, <2>4 DEF Base
  <1>5. MutualExclusion
    BY <1>3 DEF MutualExclusion, Critical
  <1>6. CountsRunning
    <2>1. {w \in Workers : ~Announced(w)} = Workers
      BY <1>2 DEF Announced
    <2> QED BY <2>1 DEF CountsRunning
  <1>7. Shutdown
    BY <1>2 DEF Shutdown, AfterFlag, AfterDrain
  <1>8. Located
    BY DEF Located, Once, Placed, Ran, NoDup, Nodes, Elems
  <1>9. Quiet
    <2>1. lock = None /\ None \notin Threads
      OBVIOUS
    <2> QED BY <2>1 DEF Quiet
  <1> QED BY <1>4, <1>5, <1>6, <1>7, <1>8, <1>9 DEF IInv

\* Every step of every thread keeps it.
LEMMA NextIInv == IInv /\ [Next]_vars => IInv'
  <1> SUFFICES ASSUME IInv, [Next]_vars PROVE IInv'
    OBVIOUS
  <1>1. CASE Next
    BY <1>1, BaseStep, MutexStep, CountStep, ShutdownStep, LocatedStep, QuietStep DEF IInv
  <1>2. CASE UNCHANGED vars
    <2> USE <1>2 DEF vars, poolVars, history
    <2>1. Base'
      BY DEF IInv, Base, Types, Roles, ArgHeld, WorkHeld, Busy
    <2>2. MutualExclusion' /\ Quiet' /\ Shutdown'
      BY DEF IInv, MutualExclusion, Quiet, Refused, Shutdown
    <2>3. CountsRunning'
      BY DEF IInv, CountsRunning, Announced
    <2>4. Located'
      BY DEF IInv, Located, Once, Placed, Ran, Nodes, Called
    <2> QED BY <2>1, <2>2, <2>3, <2>4 DEF IInv
  <1> QED BY <1>1, <1>2

\* Every reachable state of the pool satisfies the inductive invariant.
THEOREM Invariance == Spec => []IInv
  BY InitIInv, NextIInv, PTL DEF Spec
-------------------------------------------------------------------------
(* The invariants of the runs.                                             *)

\* Type correctness: the counter stays between zero and the number of threads.
THEOREM TypeCorrect == Spec => []TypeOK
  <1>1. IInv => TypeOK
    <2> SUFFICES ASSUME IInv PROVE TypeOK
      OBVIOUS
    <2>1. num_threads_running \in 0 .. Cardinality(Workers)
      BY ThreadsAssumption, FS_CardinalityType, FS_Subset DEF IInv, CountsRunning
    <2> QED BY <2>1 DEF IInv, Base, Types, TypeOK
  <1> QED BY <1>1, Invariance, PTL

\* At most one thread executes code of a critical section.
THEOREM Exclusion == Spec => []MutualExclusion
  <1>1. IInv => MutualExclusion
    BY DEF IInv
  <1> QED BY <1>1, Invariance, PTL

\* No way out of a critical section but a refused exectask leaves the mutex locked.
THEOREM NoLeakedMutex == Spec => []MutexHeldInside
  <1>1. IInv => MutexHeldInside
    BY DEF IInv, MutualExclusion, Quiet, MutexHeldInside
  <1> QED BY <1>1, Invariance, PTL

\* The counter of running threads is exact.
THEOREM ExactCount == Spec => []CountsRunning
  <1>1. IInv => CountsRunning
    BY DEF IInv
  <1> QED BY <1>1, Invariance, PTL

\* Destroy frees the pool after the last worker has left it.
THEOREM DestroyIsLast == Spec => []NoUseAfterDestroy
  <1>1. IInv => NoUseAfterDestroy
    BY DEF IInv, Shutdown, NoUseAfterDestroy
  <1> QED BY <1>1, Invariance, PTL

\* The stack that destroy saw empty stays empty.
THEOREM NothingAfterDrain == Spec => []DrainedStaysEmpty
  <1>1. IInv => DrainedStaysEmpty
    BY DEF IInv, Shutdown, DrainedStaysEmpty, AfterFlag, AfterDrain
  <1> QED BY <1>1, Invariance, PTL

\* Each accepted task is in exactly one place and was called at most once.
THEOREM Conservation == Spec => []TasksConserved
  <1>1. ASSUME IInv, NEW k \in Tasks
        PROVE  /\ Cardinality(OnStack(k)) = IF k \in Nodes THEN 1 ELSE 0
               /\ Cardinality(InHand(k)) = IF \E w \in Workers : work[w] = k THEN 1 ELSE 0
    <2>1. task_stack \in Seq(Tasks) /\ NoDup(task_stack)
      BY <1>1 DEF IInv, Base, Types, Located, Once
    <2>2. DOMAIN task_stack = 1 .. Len(task_stack)
      BY <2>1
    <2>3. ASSUME k \in Nodes PROVE Cardinality(OnStack(k)) = 1
      <3>1. PICK i \in 1 .. Len(task_stack) : task_stack[i] = k
        BY <2>3 DEF Nodes, Elems
      <3>2. OnStack(k) = {i}
        BY <2>1, <2>2, <3>1 DEF OnStack, NoDup
      <3> QED BY <3>2, FS_Singleton
    <2>4. ASSUME k \notin Nodes PROVE Cardinality(OnStack(k)) = 0
      <3>1. OnStack(k) = {}
        BY <2>2, <2>4 DEF OnStack, Nodes, Elems
      <3> QED BY <3>1, FS_EmptySet
    <2>5. ASSUME NEW w \in Workers, work[w] = k
          PROVE  InHand(k) = {w}
      <3>1. k # None
        BY ThreadsAssumption
      <3> QED BY <1>1, <2>5, <3>1 DEF InHand, IInv, Located, Once
    <2>6. ASSUME ~ \E w \in Workers : work[w] = k
          PROVE  InHand(k) = {}
      BY <2>6 DEF InHand
    <2>7. Cardinality(InHand(k)) = IF \E w \in Workers : work[w] = k THEN 1 ELSE 0
      BY <2>5, <2>6, FS_Singleton, FS_EmptySet
    <2>8. Cardinality(OnStack(k)) = IF k \in Nodes THEN 1 ELSE 0
      BY <2>3, <2>4
    <2> QED BY <2>7, <2>8
  <1>2. IInv => TasksConserved
    <2> SUFFICES ASSUME IInv, NEW k \in Tasks
                 PROVE  /\ Cardinality(OnStack(k)) + Cardinality(InHand(k))
                             + (IF k \in finished THEN 1 ELSE 0)
                           = (IF k \in accepted THEN 1 ELSE 0)
                        /\ runs[k] <= 1
      BY DEF TasksConserved
    <2>1. k \in accepted <=> fate[k] = "accepted"
      BY DEF accepted
    <2>2. fate[k] = "accepted"
            <=> k \in Nodes \cup finished \/ \E w \in Workers : work[w] = k
      BY ThreadsAssumption DEF IInv, Located, Placed
    <2>3. ~(k \in Nodes /\ k \in finished)
      BY DEF IInv, Located, Placed
    <2>4. (\E w \in Workers : work[w] = k) => k \notin Nodes /\ k \notin finished
      BY DEF IInv, Located, Placed
    <2>5. runs[k] \in {0, 1}
      BY <2>2, ThreadsAssumption DEF IInv, Located, Ran
    <2> QED BY <1>1, <2>1, <2>2, <2>3, <2>4, <2>5
  <1> QED BY <1>2, Invariance, PTL
-------------------------------------------------------------------------
(* Refinement.                                                             *)

Phase == IF pc[Main] = "destroyed" THEN "destroyed"
         ELSE IF is_shutdown THEN "shut" ELSE "open"

\* A push is Accept, a call is Start, a return is Finish, the flag is Shut, the
\* teardown is Close; every other step leaves what the user sees alone.
LEMMA StepRefines ==
  ASSUME IInv, IInv', Next
  PROVE  TP!Next \/ UNCHANGED TP!vars
  <1>a. ASSUME UNCHANGED <<Phase, accepted, runs, finished>>
        PROVE  UNCHANGED TP!vars
    BY <1>a DEF TP!vars, Phase
  <1>b. ASSUME UNCHANGED fate PROVE UNCHANGED accepted
    BY <1>b DEF accepted
  <1>c. ASSUME UNCHANGED is_shutdown, (pc[Main] = "destroyed")' <=> pc[Main] = "destroyed"
        PROVE  UNCHANGED Phase
    BY <1>c DEF Phase
  <1> USE ThreadsAssumption DEF Goto, User, Threads, poolVars, history, vars,
             IInv, Base, Types, Roles, MainLabels, ClientLabels, WorkerLabels
  <1>1. ASSUME NEW w \in Workers, Spawn(w) PROVE TP!Next \/ UNCHANGED TP!vars
    <2>1. UNCHANGED <<is_shutdown, runs, finished>>
      BY <1>1 DEF Spawn
    <2>2. (pc[Main] = "destroyed")' <=> pc[Main] = "destroyed"
      BY <1>1 DEF Spawn
    <2>3. UNCHANGED accepted
      BY <1>1, <1>b DEF Spawn
    <2> QED BY <2>1, <2>2, <2>3, <1>a, <1>c
  <1>2. ASSUME NEW w \in Workers, SpawnFails(w) PROVE TP!Next \/ UNCHANGED TP!vars
    <2>1. UNCHANGED <<is_shutdown, runs, finished>>
      BY <1>2 DEF SpawnFails
    <2>2. (pc[Main] = "destroyed")' <=> pc[Main] = "destroyed"
      BY <1>2 DEF SpawnFails
    <2>3. UNCHANGED accepted
      BY <1>2, <1>b DEF SpawnFails
    <2> QED BY <2>1, <2>2, <2>3, <1>a, <1>c
  <1>3. CASE CreateReturns
    <2>1. UNCHANGED <<is_shutdown, runs, finished>>
      BY <1>3 DEF CreateReturns
    <2>2. (pc[Main] = "destroyed")' <=> pc[Main] = "destroyed"
      BY <1>3 DEF CreateReturns
    <2>3. UNCHANGED accepted
      BY <1>3, <1>b DEF CreateReturns
    <2> QED BY <2>1, <2>2, <2>3, <1>a, <1>c
  <1>4. CASE DestroyCall
    <2>1. UNCHANGED <<is_shutdown, runs, finished>>
      BY <1>4 DEF DestroyCall
    <2>2. (pc[Main] = "destroyed")' <=> pc[Main] = "destroyed"
      BY <1>4 DEF DestroyCall
    <2>3. UNCHANGED accepted
      BY <1>4, <1>b DEF DestroyCall
    <2> QED BY <2>1, <2>2, <2>3, <1>a, <1>c
  <1>5. CASE SetShutdown
    <2>1. Phase = "open" /\ Phase' = "shut"
      BY <1>5 DEF SetShutdown, Phase, Shutdown, AfterFlag
    <2>2. UNCHANGED <<accepted, runs, finished>>
      BY <1>5, <1>b DEF SetShutdown
    <2> QED BY <2>1, <2>2 DEF TP!Next, TP!Shut, Phase
  <1>6. CASE ReadStack
    <2>1. UNCHANGED <<is_shutdown, runs, finished>>
      BY <1>6 DEF ReadStack
    <2>2. (pc[Main] = "destroyed")' <=> pc[Main] = "destroyed"
      BY <1>6 DEF ReadStack
    <2>3. UNCHANGED accepted
      BY <1>6, <1>b DEF ReadStack
    <2> QED BY <2>1, <2>2, <2>3, <1>a, <1>c
  <1>7. CASE ReadCount
    <2>1. UNCHANGED <<is_shutdown, runs, finished>>
      BY <1>7 DEF ReadCount
    <2>2. (pc[Main] = "destroyed")' <=> pc[Main] = "destroyed"
      BY <1>7 DEF ReadCount
    <2>3. UNCHANGED accepted
      BY <1>7, <1>b DEF ReadCount
    <2> QED BY <2>1, <2>2, <2>3, <1>a, <1>c
  <1>8. CASE Teardown
    <2>1. Phase = "shut" /\ Phase' = "destroyed"
      BY <1>8 DEF Teardown, Phase, Shutdown, AfterFlag
    <2>2. UNCHANGED <<accepted, runs, finished>>
      BY <1>8, <1>b DEF Teardown
    <2>3. Nodes = {}
      BY <1>8 DEF Teardown, Shutdown, AfterDrain, Nodes, Elems
    <2>4. \A w \in Workers : work[w] = None
      BY <1>8, ZenonT(40) DEF Teardown, Shutdown, WorkHeld, Busy, ExecLabels
    <2>5. finished = accepted
      BY <2>3, <2>4 DEF accepted, Located, Placed
    <2> QED BY <2>1, <2>2, <2>5 DEF TP!Next, TP!Close, Phase
  <1>9. CASE Ended
    BY <1>9, <1>a, <1>b DEF Ended, Phase
  <1>10. ASSUME NEW t \in Threads, Lock(t) PROVE TP!Next \/ UNCHANGED TP!vars
    <2>1. UNCHANGED <<is_shutdown, runs, finished>>
      BY <1>10, LockCases
    <2>2. (pc[Main] = "destroyed")' <=> pc[Main] = "destroyed"
      BY <1>10, LockCases
    <2>3. UNCHANGED accepted
      BY <1>10, <1>b, LockCases
    <2> QED BY <2>1, <2>2, <2>3, <1>a, <1>c
  <1>11. ASSUME NEW t \in Threads, Unlock(t) PROVE TP!Next \/ UNCHANGED TP!vars
    <2>1. UNCHANGED <<is_shutdown, runs, finished>>
      BY <1>11, UnlockCases
    <2>2. (pc[Main] = "destroyed")' <=> pc[Main] = "destroyed"
      BY <1>11, UnlockCases, SMTT(30)
    <2>3. UNCHANGED accepted
      BY <1>11, <1>b, UnlockCases
    <2> QED BY <2>1, <2>2, <2>3, <1>a, <1>c
  <1>12. ASSUME NEW t \in Threads, NEW k \in Tasks, ExecCall(t, k) PROVE TP!Next \/ UNCHANGED TP!vars
    <2>1. UNCHANGED <<is_shutdown, runs, finished>>
      BY <1>12 DEF ExecCall, ExecLabels
    <2>2. (pc[Main] = "destroyed")' <=> pc[Main] = "destroyed"
      BY <1>12 DEF ExecCall, ExecLabels
    <2>3. UNCHANGED accepted
      BY <1>12 DEF ExecCall, accepted
    <2> QED BY <2>1, <2>2, <2>3, <1>a, <1>c
  <1>13. ASSUME NEW t \in Threads, ExecReject(t) PROVE TP!Next \/ UNCHANGED TP!vars
    <2>1. UNCHANGED <<is_shutdown, runs, finished>>
      BY <1>13 DEF ExecReject
    <2>2. (pc[Main] = "destroyed")' <=> pc[Main] = "destroyed"
      BY <1>13 DEF ExecReject
    <2>3. UNCHANGED accepted
      BY <1>13 DEF ExecReject, accepted, Located, Placed, ArgHeld
    <2> QED BY <2>1, <2>2, <2>3, <1>a, <1>c
  <1>14. ASSUME NEW t \in Threads, ExecPush(t) PROVE TP!Next \/ UNCHANGED TP!vars
    <2>1. /\ arg[t] \in Tasks /\ arg[t] \notin accepted
          /\ accepted' = accepted \cup {arg[t]}
      BY <1>14 DEF ExecPush, accepted, Located, Placed, ArgHeld
    <2>2. Phase = "open" /\ Phase' = "open"
      BY <1>14 DEF ExecPush, Phase, Shutdown, AfterFlag
    <2>3. UNCHANGED <<runs, finished>>
      BY <1>14 DEF ExecPush
    <2>4. TP!Accept(arg[t])
      BY <2>1, <2>2, <2>3 DEF TP!Accept, Phase
    <2> QED BY <2>1, <2>4 DEF TP!Next
  <1>15. ASSUME NEW w \in Workers, WorkerExit(w) PROVE TP!Next \/ UNCHANGED TP!vars
    <2>1. UNCHANGED <<is_shutdown, runs, finished>>
      BY <1>15 DEF WorkerExit
    <2>2. (pc[Main] = "destroyed")' <=> pc[Main] = "destroyed"
      BY <1>15 DEF WorkerExit
    <2>3. UNCHANGED accepted
      BY <1>15, <1>b DEF WorkerExit
    <2> QED BY <2>1, <2>2, <2>3, <1>a, <1>c
  <1>16. ASSUME NEW w \in Workers, TakeNothing(w) PROVE TP!Next \/ UNCHANGED TP!vars
    <2>1. UNCHANGED <<is_shutdown, runs, finished>>
      BY <1>16 DEF TakeNothing
    <2>2. (pc[Main] = "destroyed")' <=> pc[Main] = "destroyed"
      BY <1>16 DEF TakeNothing
    <2>3. UNCHANGED accepted
      BY <1>16, <1>b DEF TakeNothing
    <2> QED BY <2>1, <2>2, <2>3, <1>a, <1>c
  <1>17. ASSUME NEW w \in Workers, Take(w) PROVE TP!Next \/ UNCHANGED TP!vars
    <2>1. UNCHANGED <<is_shutdown, runs, finished>>
      BY <1>17 DEF Take
    <2>2. (pc[Main] = "destroyed")' <=> pc[Main] = "destroyed"
      BY <1>17 DEF Take
    <2>3. UNCHANGED accepted
      BY <1>17, <1>b DEF Take
    <2> QED BY <2>1, <2>2, <2>3, <1>a, <1>c
  <1>18. ASSUME NEW w \in Workers, CallTask(w) PROVE TP!Next \/ UNCHANGED TP!vars
    <2>1. /\ work[w] \in Tasks /\ work[w] \in accepted /\ runs[work[w]] = 0
          /\ runs' = [runs EXCEPT ![work[w]] = 1]
      <3>1. work[w] \in Tasks /\ work[w] # None /\ ~Called(w)
        BY <1>18 DEF CallTask, WorkHeld, Busy, Called, ExecLabels
      <3>2. work[w] \in accepted /\ runs[work[w]] = 0
        BY <3>1 DEF accepted, Located, Placed, Ran
      <3> QED BY <1>18, <3>1, <3>2 DEF CallTask
    <2>2. UNCHANGED <<accepted, finished>>
      BY <1>18, <1>b DEF CallTask
    <2>3. Phase # "destroyed" /\ UNCHANGED Phase
      BY <1>18, <1>c DEF CallTask, Shutdown, Phase
    <2>4. TP!Start(work[w])
      BY <2>1, <2>2, <2>3 DEF TP!Start, Phase
    <2> QED BY <2>1, <2>4 DEF TP!Next
  <1>19. ASSUME NEW w \in Workers, TaskReturns(w) PROVE TP!Next \/ UNCHANGED TP!vars
    <2>1. /\ work[w] \in Tasks /\ work[w] \notin finished /\ runs[work[w]] = 1
          /\ finished' = finished \cup {work[w]}
      BY <1>19 DEF TaskReturns, WorkHeld, Busy, Located, Placed, Ran, Called
    <2>2. UNCHANGED <<accepted, runs>>
      BY <1>19, <1>b DEF TaskReturns
    <2>3. Phase # "destroyed" /\ UNCHANGED Phase
      BY <1>19, <1>c DEF TaskReturns, Shutdown, Phase
    <2>4. TP!Finish(work[w])
      BY <2>1, <2>2, <2>3 DEF TP!Finish, Phase
    <2> QED BY <2>1, <2>4 DEF TP!Next
  <1> QED
    BY <1>1, <1>2, <1>3, <1>4, <1>5, <1>6, <1>7, <1>8, <1>9, <1>10,
       <1>11, <1>12, <1>13, <1>14, <1>15, <1>16, <1>17, <1>18, <1>19
    DEF Next, Create, Destroy, Exec, Worker

\* The pool implements TaskPool.
THEOREM Refinement == Spec => ImplementsTaskPool
  <1>1. Init => TP!Init
    BY ThreadsAssumption DEF Init, Threads, TP!Init, accepted
  <1>2. IInv /\ IInv' /\ [Next]_vars => [TP!Next]_(TP!vars)
    <2> SUFFICES ASSUME IInv, IInv', [Next]_vars PROVE TP!Next \/ UNCHANGED TP!vars
      OBVIOUS
    <2>1. CASE UNCHANGED vars
      BY <2>1 DEF vars, poolVars, history, accepted, TP!vars
    <2> QED BY <2>1, StepRefines
  <1> QED BY <1>1, <1>2, Invariance, PTL DEF Spec, TP!Spec, ImplementsTaskPool
=========================================================================
