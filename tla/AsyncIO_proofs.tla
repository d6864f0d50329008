--------------------------- MODULE AsyncIO_proofs ---------------------------
(***************************************************************************)
(* For any number of workers, tasks and Lua states and for any MAX_THREADS *)
(* and Backlog: the pool is bounded, tasks are neither lost nor run twice, *)
(* only the exit window strands one, and callbacks keep their promise.     *)
(***************************************************************************)
EXTENDS AsyncIO, FiniteSetTheorems, TLAPS

-----------------------------------------------------------------------------
(* Type correctness. *)

(* A new thread has no task yet. *)
LEMMA TypeStart ==
  ASSUME TypeOK, start_task_thread
  PROVE  /\ thread_count' \in Int
         /\ worker' \in [Workers -> Place]
         /\ \A w \in Workers : hand[w] # None <=> worker'[w] \in {"running", "posted"}
BY DEF TypeOK, start_task_thread, Place

(* A request may come from any active state. *)
LEMMA TypeDispatch ==
  ASSUME TypeOK, NEW L \in activeStates, NEW op \in {"read", "write"},
         dispatch_task([L |-> L, op |-> op])
  PROVE  TypeOK'
<1> DEFINE r == [L |-> L, op |-> op]
<1>1. r \in Request
  BY IncarnationsAssumption DEF TypeOK, LuaTypeOK, Request
<1>2. dispatch_task(r)
  OBVIOUS
<1> HIDE DEF r
<1>3. request' \in Seq(Request) /\ Len(request') <= MaxTasks
  BY <1>1, <1>2, PoolAssumption DEF TypeOK, dispatch_task
<1>4. Len(request) + 1 \in Tasks
  BY <1>2, PoolAssumption DEF TypeOK, dispatch_task, Tasks
<1>5. task_list' \in Seq(Tasks)
  BY <1>2, <1>4 DEF TypeOK, dispatch_task
<1>6. UNCHANGED <<hand, pending, last, outcome, activeStates, incarnation>>
  BY <1>2 DEF dispatch_task
<1>7. /\ thread_count' \in Int /\ worker' \in [Workers -> Place]
      /\ (\A w \in Workers : hand[w] # None <=> worker[w] \in {"running", "posted"})'
  <2>1. CASE start_task_thread
    BY <2>1, <1>6, TypeStart
  <2>2. CASE UNCHANGED <<thread_count, worker>>
    BY <2>2, <1>6 DEF TypeOK
  <2> QED
    BY <1>2, <2>1, <2>2 DEF dispatch_task
<1> QED
  BY <1>3, <1>5, <1>6, <1>7 DEF TypeOK, LuaTypeOK, Bus!TypeOK

LEMMA TypeWorker ==
  ASSUME TypeOK, NEW w \in Workers, WorkerStep(w)
  PROVE  TypeOK'
<1> USE PoolAssumption DEF TypeOK, Place, luaVars, LuaTypeOK, Bus!TypeOK
<1>1. CASE TakeTask(w)
  <2>1. /\ Head(task_list) \in Tasks /\ Tail(task_list) \in Seq(Tasks)
        /\ Head(task_list) # None
    BY <1>1 DEF TakeTask, Tasks
  <2> QED
    BY <1>1, <2>1 DEF TakeTask
<1>2. CASE TimeOut(w)
  BY <1>2 DEF TimeOut
<1>3. CASE Exit(w)
  BY <1>3 DEF Exit
<1>4. CASE RunTask(w)
  <2>1. hand[w] \in Tasks
    BY <1>4 DEF RunTask
  <2>2. /\ pending' \in [{Completions} -> Seq(Completion)]
        /\ last' = last
    BY <1>4, <2>1 DEF RunTask, Bus!Post, Completion
  <2>3. /\ worker' \in [Workers -> Place]
        /\ (\A v \in Workers : hand[v] # None <=> worker[v] \in {"running", "posted"})'
    BY <1>4 DEF RunTask
  <2>4. UNCHANGED <<request, task_list, thread_count, hand, outcome, luaVars>>
    BY <1>4 DEF RunTask
  <2> QED
    BY <2>2, <2>3, <2>4
<1>5. CASE Return(w)
  BY <1>5 DEF Return
<1> QED
  BY <1>1, <1>2, <1>3, <1>4, <1>5 DEF WorkerStep

LEMMA TypeCompletion ==
  ASSUME TypeOK, invoke_completion
  PROVE  TypeOK'
<1> DEFINE c == Head(pending[Completions])
<1>1. /\ c \in Completion
      /\ pending' \in [{Completions} -> Seq(Completion)]
      /\ last' \in {Completions} \X Completion
  BY DEF TypeOK, invoke_completion, Bus!TypeOK, Bus!Deliver
<1>2. c.task \in Tasks
  BY <1>1 DEF Completion
<1> HIDE DEF c
<1>3. outcome' \in [Tasks -> Outcome]
  <2>1. PICK res \in {"called", "garbage", "dropped"} :
          outcome' = [outcome EXCEPT ![c.task] = res]
    BY DEF invoke_completion, Results, c
  <2> QED
    BY <1>2, <2>1 DEF TypeOK, Outcome
<1> QED
  BY <1>1, <1>3
  DEF TypeOK, invoke_completion, poolVars, luaVars, LuaTypeOK, Bus!TypeOK

LEMMA TypeLuaStates ==
  ASSUME TypeOK, NEW L \in States, CreateState(L) \/ CloseState(L)
  PROVE  TypeOK'
<1>1. LuaTypeOK'
  BY IncarnationsAssumption
  DEF TypeOK, LuaTypeOK, CreateState, CloseState, initiate_lua, close
<1>2. UNCHANGED <<request, poolVars, pending, last, outcome>>
  BY DEF CreateState, CloseState
<1> QED
  BY <1>1, <1>2 DEF TypeOK, poolVars, Bus!TypeOK

LEMMA TypeStep ==
  ASSUME TypeOK, [Next]_vars
  PROVE  TypeOK'
<1>1. ASSUME NEW L \in States, Lua(L)
      PROVE  TypeOK'
  BY <1>1, TypeDispatch, TypeLuaStates DEF Lua, aio_read, aio_write
<1>2. ASSUME NEW w \in Workers, WorkerStep(w)
      PROVE  TypeOK'
  BY <1>2, TypeWorker
<1>3. CASE invoke_completion
  BY <1>3, TypeCompletion
<1>4. CASE UNCHANGED vars
  BY <1>4 DEF vars, TypeOK, LuaTypeOK, Bus!TypeOK
<1> QED
  BY <1>1, <1>2, <1>3, <1>4 DEF Next

LEMMA TypeInit == Init => TypeOK
<1> SUFFICES ASSUME Init
             PROVE  TypeOK
  OBVIOUS
<1>1. LuaTypeOK
  BY IncarnationsAssumption DEF Init, LuaInit, LuaTypeOK
<1>2. Bus!TypeOK
  BY DEF Init, Bus!Init, Bus!TypeOK
<1>3. request \in Seq(Request) /\ Len(request) <= MaxTasks /\ task_list \in Seq(Tasks)
  BY PoolAssumption DEF Init
<1>4. /\ thread_count \in Int
      /\ worker \in [Workers -> Place]
      /\ hand \in [Workers -> Tasks \cup {None}]
      /\ \A w \in Workers : hand[w] # None <=> worker[w] \in {"running", "posted"}
      /\ outcome \in [Tasks -> Outcome]
  BY DEF Init, Place, Outcome
<1> QED
  BY <1>1, <1>2, <1>3, <1>4 DEF TypeOK

(* Every variable keeps its type, and a thread has a task exactly while it *)
(* is in the task function.                                                *)
THEOREM TypeCorrect == Spec => []TypeOK
<1>1. TypeOK /\ [Next]_vars => TypeOK'
  BY TypeStep
<1> QED
  BY <1>1, TypeInit, PTL DEF Spec

-----------------------------------------------------------------------------
(* The thread pool. *)

LEMMA LiveFinite == IsFiniteSet(Live)
BY PoolAssumption, FS_Subset DEF Live

(* Starting a thread counts it. *)
LEMMA PoolStart ==
  ASSUME TypeOK, PoolBounded, start_task_thread,
         thread_count = 0 \/ thread_count < MAX_THREADS
  PROVE  PoolBounded'
<1>1. PICK w \in Workers :
        worker[w] = "none" /\ worker' = [worker EXCEPT ![w] = "waiting"]
  BY DEF start_task_thread
<1>2. Live' = Live \cup {w} /\ w \notin Live
  BY <1>1 DEF Live, TypeOK
<1>3. Cardinality(Live') = Cardinality(Live) + 1
  BY <1>2, LiveFinite, FS_AddElement
<1>4. thread_count' = thread_count + 1
  BY DEF start_task_thread
<1> QED
  BY <1>3, <1>4, PoolAssumption DEF PoolBounded, TypeOK

(* A thread that ends stops being counted in the same step. *)
LEMMA PoolExit ==
  ASSUME TypeOK, PoolBounded, NEW w \in Workers, Exit(w)
  PROVE  PoolBounded'
<1>1. Live' = Live \ {w} /\ w \in Live
  BY DEF Exit, Live, TypeOK
<1>2. Cardinality(Live') = Cardinality(Live) - 1
  BY <1>1, LiveFinite, FS_RemoveElement
<1> QED
  BY <1>2, PoolAssumption DEF PoolBounded, TypeOK, Exit

(* No other step starts or ends a thread. *)
LEMMA PoolOther ==
  ASSUME TypeOK, PoolBounded, thread_count' = thread_count,
         \A w \in Workers : worker'[w] = "none" <=> worker[w] = "none"
  PROVE  PoolBounded'
<1>1. Live' = Live
  BY DEF Live
<1> QED
  BY <1>1 DEF PoolBounded

LEMMA PoolStep ==
  ASSUME TypeOK, PoolBounded, [Next]_vars
  PROVE  PoolBounded'
<1>1. ASSUME NEW r, dispatch_task(r)
      PROVE  PoolBounded'
  <2>1. CASE NeedsThread(Len(task_list) + 1)
    <3>1. start_task_thread /\ (thread_count = 0 \/ thread_count < MAX_THREADS)
      BY <1>1, <2>1 DEF dispatch_task, NeedsThread
    <3> QED
      BY <3>1, PoolStart
  <2>2. CASE ~NeedsThread(Len(task_list) + 1)
    BY <1>1, <2>2, PoolOther DEF dispatch_task
  <2> QED
    BY <2>1, <2>2
<1>2. ASSUME NEW L \in States, CreateState(L) \/ CloseState(L)
      PROVE  PoolBounded'
  BY <1>2, PoolOther DEF CreateState, CloseState, poolVars
<1>3. ASSUME NEW w \in Workers, WorkerStep(w)
      PROVE  PoolBounded'
  <2>1. CASE Exit(w)
    BY <2>1, PoolExit
  <2>2. CASE TakeTask(w) \/ TimeOut(w) \/ RunTask(w) \/ Return(w)
    BY <2>2, PoolOther DEF TakeTask, TimeOut, RunTask, Return, TypeOK
  <2> QED
    BY <1>3, <2>1, <2>2 DEF WorkerStep
<1>4. CASE invoke_completion \/ UNCHANGED vars
  BY <1>4, PoolOther DEF invoke_completion, poolVars, vars
<1> QED
  BY <1>1, <1>2, <1>3, <1>4 DEF Next, Lua, aio_read, aio_write

(* The pool never exceeds MAX_THREADS, and thread_count counts it exactly. *)
THEOREM PoolIsBounded == Spec => []PoolBounded
<1>1. Init => PoolBounded
  <2> SUFFICES ASSUME Init
               PROVE  PoolBounded
    OBVIOUS
  <2>1. Live = {} /\ thread_count = 0
    BY DEF Init, Live
  <2> QED
    BY <2>1, FS_EmptySet, PoolAssumption DEF PoolBounded
<1>2. TypeOK /\ PoolBounded /\ [Next]_vars => PoolBounded'
  BY PoolStep
<1> QED
  BY <1>1, <1>2, TypeCorrect, PTL DEF Spec

-----------------------------------------------------------------------------
(* A queued task with nobody to take it. *)

(* dispatch_task leaves the list unattended only if it saw a counted thread, *)
(* and a counted thread that attends to nothing is leaving.                  *)
LEMMA StrandingStep ==
  ASSUME TypeOK, PoolBounded, [Next]_vars, ~Stranded, Stranded'
  PROVE  \E w \in Workers : worker[w] = "leaving"
<1>0. /\ task_list' # <<>>
      /\ \A w \in Workers : worker'[w] \in {"none", "leaving"}
  BY DEF Stranded
<1>1. ASSUME NEW r, dispatch_task(r)
      PROVE  \E w \in Workers : worker[w] = "leaving"
  <2>1. ~start_task_thread
    BY <1>0 DEF start_task_thread, TypeOK
  <2>2. thread_count # 0 /\ worker' = worker
    BY <1>1, <2>1 DEF dispatch_task, NeedsThread
  <2>3. Live # {}
    BY <2>2, FS_EmptySet DEF PoolBounded
  <2> QED
    BY <2>2, <2>3, <1>0 DEF Live
<1>2. ASSUME NEW w \in Workers, WorkerStep(w)
      PROVE  \E v \in Workers : worker[v] = "leaving"
  <2>1. CASE TakeTask(w) \/ RunTask(w) \/ Return(w)
    BY <2>1, <1>0 DEF TakeTask, RunTask, Return, TypeOK
  <2>2. CASE TimeOut(w)
    BY <2>2, <1>0 DEF TimeOut
  <2>3. CASE Exit(w)
    BY <2>3 DEF Exit
  <2> QED
    BY <1>2, <2>1, <2>2, <2>3 DEF WorkerStep
<1>3. CASE UNCHANGED poolVars
  BY <1>3 DEF Stranded, poolVars
<1> QED
  BY <1>1, <1>2, <1>3
  DEF Next, Lua, aio_read, aio_write, CreateState, CloseState,
      invoke_completion, vars, poolVars

(* The exit window is the only way to strand a task. *)
THEOREM OnlyTheExitWindowStrands == Spec => StrandedOnlyInExitWindow
<1>1. TypeOK /\ PoolBounded /\ [Next]_vars
        => [~Stranded /\ Stranded' => \E w \in Workers : worker[w] = "leaving"]_vars
  BY StrandingStep
<1> QED
  BY <1>1, TypeCorrect, PoolIsBounded, PTL DEF Spec, StrandedOnlyInExitWindow

-----------------------------------------------------------------------------
(* The life of a task.  Requests are numbered in dispatch order and taken   *)
(* in that order, so the tasks taken so far are 1..Taken: each of these is  *)
(* in one place, and no later one is anywhere but in the task list.         *)

Taken == Len(request) - Len(task_list)

TaskInv ==
  /\ Taken \in Nat
  /\ TasksTakenInOrder
  /\ \A w \in Workers : hand[w] # None => hand[w] \in 1..Taken
  /\ \A v, w \in Workers : hand[v] = hand[w] /\ hand[v] # None => v = w
  /\ \A i \in DOMAIN pending[Completions] :
       pending[Completions][i].task \in 1..Taken
  /\ \A i, j \in DOMAIN pending[Completions] :
       pending[Completions][i].task = pending[Completions][j].task => i = j
  /\ \A t \in Tasks : Settled(t) => t \in 1..Taken
  /\ \A t \in 1..Taken :
       /\ Running(t) \/ Completed(t) \/ Settled(t)
       /\ Running(t) => ~Completed(t) /\ ~Settled(t)
       /\ Completed(t) => ~Settled(t)

(* A step that leaves the tasks in the threads' hands and the completions  *)
(* alone keeps the rest of the invariant.                                  *)
LEMMA TaskFrame ==
  ASSUME TaskInv, TasksTakenInOrder', Taken' = Taken,
         UNCHANGED <<hand, pending, outcome>>,
         \A w \in Workers : worker'[w] = "running" <=> worker[w] = "running"
  PROVE  TaskInv'
<1>1. ASSUME NEW t
      PROVE  /\ Running(t)' <=> Running(t)
             /\ Completed(t)' <=> Completed(t)
             /\ Settled(t)' <=> Settled(t)
  BY DEF Running, Completed, Settled
<1> QED
  BY <1>1 DEF TaskInv

LEMMA TaskDispatch ==
  ASSUME TypeOK, TaskInv, NEW r, dispatch_task(r)
  PROVE  TaskInv'
<1>1. /\ Len(request') = Len(request) + 1
      /\ Len(task_list') = Len(task_list) + 1
      /\ task_list' = Append(task_list, Len(request) + 1)
  BY DEF TypeOK, dispatch_task
<1>2. Taken' = Taken
  BY <1>1 DEF Taken, TypeOK
<1>3. TasksTakenInOrder'
  BY <1>1 DEF TaskInv, TasksTakenInOrder, TypeOK
<1>4. \A w \in Workers : worker'[w] = "running" <=> worker[w] = "running"
  BY DEF dispatch_task, start_task_thread, TypeOK
<1> QED
  BY <1>2, <1>3, <1>4, TaskFrame DEF dispatch_task

(* The oldest task, number Taken + 1, passes into one thread's hand. *)
LEMMA TaskTake ==
  ASSUME TypeOK, TaskInv, NEW w \in Workers, TakeTask(w)
  PROVE  TaskInv'
<1> DEFINE h == Taken + 1
<1>1. /\ task_list # <<>> /\ task_list \in Seq(Tasks)
      /\ task_list' = Tail(task_list)
      /\ UNCHANGED <<request, pending, outcome>>
  BY DEF TakeTask, TypeOK
<1>2. Len(task_list) \in Nat \ {0} /\ Len(task_list') = Len(task_list) - 1
  BY <1>1
<1>3. Head(task_list) = h /\ h \in Nat /\ Taken' = h
  <2>1. Len(request) \in Nat /\ Len(request') = Len(request)
    BY <1>1 DEF TypeOK
  <2>2. Head(task_list) = task_list[1] /\ 1 \in DOMAIN task_list
    BY <1>1, <1>2
  <2>3. task_list[1] = Len(request) - Len(task_list) + 1
    BY <2>2 DEF TaskInv, TasksTakenInOrder
  <2> QED
    BY <1>2, <2>1, <2>2, <2>3 DEF TaskInv, Taken
<1>4. hand' = [hand EXCEPT ![w] = h] /\ worker' = [worker EXCEPT ![w] = "running"]
  BY <1>3 DEF TakeTask
<1>5. hand[w] = None /\ worker[w] = "waiting" /\ hand \in [Workers -> Tasks \cup {None}]
      /\ worker \in [Workers -> Place]
  BY DEF TypeOK, TakeTask
<1>6. TasksTakenInOrder'
  BY <1>1, <1>2 DEF TaskInv, TasksTakenInOrder, TypeOK
<1>7. /\ Taken \in Nat
      /\ \A v \in Workers : hand[v] # None => hand[v] \in 1..Taken
  BY DEF TaskInv
<1>8. h # None
  BY <1>3, PoolAssumption
<1>9. ASSUME NEW t
      PROVE  /\ Running(t)' <=> Running(t) \/ t = h
             /\ Completed(t)' <=> Completed(t)
             /\ Settled(t)' <=> Settled(t)
  BY <1>1, <1>4, <1>5, <1>3 DEF Running, Completed, Settled
<1>10. ~Completed(h) /\ ~Running(h)
  BY <1>3, <1>7, <1>8 DEF TaskInv, Completed, Running
<1>11. h \in Tasks /\ ~Settled(h)
  <2>1. Head(task_list) \in Tasks
    BY <1>1
  <2> QED
    BY <2>1, <1>3, <1>7 DEF TaskInv
<1> HIDE DEF h
<1>12. Taken' = Taken + 1 /\ Taken' \in Nat /\ 1..Taken' = (1..Taken) \cup {h}
  BY <1>3, <1>7 DEF h
<1>13. (\A v \in Workers : hand[v] # None => hand[v] \in 1..Taken)'
  BY <1>4, <1>5, <1>7, <1>12
<1>14. (\A u, v \in Workers : hand[u] = hand[v] /\ hand[u] # None => u = v)'
  <2>1. \A v \in Workers : hand[v] # h
    BY <1>7, <1>8 DEF h
  <2> QED
    BY <2>1, <1>4, <1>5 DEF TaskInv
<1>15. (/\ \A i \in DOMAIN pending[Completions] :
            pending[Completions][i].task \in 1..Taken
        /\ \A i, j \in DOMAIN pending[Completions] :
            pending[Completions][i].task = pending[Completions][j].task => i = j
        /\ \A t \in Tasks : Settled(t) => t \in 1..Taken)'
  BY <1>1, <1>9, <1>12 DEF TaskInv
<1>16. ASSUME NEW t \in (1..Taken)'
       PROVE  (/\ Running(t) \/ Completed(t) \/ Settled(t)
               /\ Running(t) => ~Completed(t) /\ ~Settled(t)
               /\ Completed(t) => ~Settled(t))'
  <2>1. CASE t = h
    BY <2>1, <1>9, <1>10, <1>11
  <2>2. CASE t # h
    BY <2>2, <1>9, <1>12 DEF TaskInv
  <2> QED
    BY <2>1, <2>2
<1> QED
  BY <1>6, <1>12, <1>13, <1>14, <1>15, <1>16 DEF TaskInv

(* The task in the thread's hand becomes a completion. *)
LEMMA TaskRun ==
  ASSUME TypeOK, TaskInv, NEW w \in Workers, RunTask(w)
  PROVE  TaskInv'
<1> DEFINE h == hand[w]
           done == pending[Completions]
<1>1. /\ worker[w] = "running" /\ worker' = [worker EXCEPT ![w] = "posted"]
      /\ UNCHANGED <<request, task_list, hand, outcome>>
      /\ worker \in [Workers -> Place]
  BY DEF RunTask, TypeOK
<1>2. h # None /\ h \in 1..Taken
  BY <1>1 DEF TypeOK, TaskInv
<1>3. PICK success \in BOOLEAN :
        done' = Append(done, [task |-> h, success |-> success])
  BY DEF RunTask, Bus!Post, TypeOK, Bus!TypeOK
<1>4. done \in Seq(Completion)
  BY DEF TypeOK, Bus!TypeOK
<1>5. Running(h) /\ ~Completed(h) /\ ~Settled(h)
  BY <1>1, <1>2 DEF Running, TaskInv
<1>6. /\ DOMAIN done' = DOMAIN done \cup {Len(done) + 1}
      /\ \A i \in DOMAIN done : done'[i] = done[i]
      /\ done'[Len(done) + 1].task = h
      /\ Len(done) + 1 \notin DOMAIN done
  BY <1>3, <1>4
<1> HIDE DEF h, done
<1>7. ASSUME NEW t
      PROVE  /\ Running(t)' <=> Running(t) /\ t # h
             /\ Completed(t)' <=> Completed(t) \/ t = h
             /\ Settled(t)' <=> Settled(t)
  <2>1. Running(t)' <=> Running(t) /\ t # h
    BY <1>1, <1>2 DEF Running, TaskInv, h
  <2>2. Completed(t)' <=> Completed(t) \/ t = h
    BY <1>6 DEF Completed, done
  <2> QED
    BY <2>1, <2>2, <1>1 DEF Settled
<1>8. Taken' = Taken /\ TasksTakenInOrder'
  BY <1>1 DEF Taken, TaskInv, TasksTakenInOrder
<1>9. (\A i \in DOMAIN pending[Completions] :
         pending[Completions][i].task \in 1..Taken)'
  BY <1>2, <1>6, <1>8 DEF TaskInv, done
<1>10. (\A i, j \in DOMAIN pending[Completions] :
         pending[Completions][i].task = pending[Completions][j].task => i = j)'
  <2>1. \A i \in DOMAIN done : done[i].task # h
    BY <1>5 DEF Completed, done
  <2> QED
    BY <2>1, <1>6 DEF TaskInv, done
<1>11. ASSUME NEW t \in (1..Taken)'
       PROVE  (/\ Running(t) \/ Completed(t) \/ Settled(t)
               /\ Running(t) => ~Completed(t) /\ ~Settled(t)
               /\ Completed(t) => ~Settled(t))'
  BY <1>5, <1>7, <1>8 DEF TaskInv
<1>12. (\A t \in Tasks : Settled(t) => t \in 1..Taken)'
  BY <1>7, <1>8 DEF TaskInv
<1> QED
  BY <1>1, <1>8, <1>9, <1>10, <1>11, <1>12 DEF TaskInv

(* A thread leaves the task function: its hand is empty again. *)
LEMMA TaskReturn ==
  ASSUME TypeOK, TaskInv, NEW w \in Workers, Return(w)
  PROVE  TaskInv'
<1>1. /\ worker[w] = "posted" /\ worker' = [worker EXCEPT ![w] = "waiting"]
      /\ hand' = [hand EXCEPT ![w] = None]
      /\ UNCHANGED <<request, task_list, pending, outcome>>
      /\ worker \in [Workers -> Place] /\ hand \in [Workers -> Tasks \cup {None}]
  BY DEF Return, TypeOK
<1>2. ASSUME NEW t
      PROVE  /\ Running(t)' <=> Running(t)
             /\ Completed(t)' <=> Completed(t)
             /\ Settled(t)' <=> Settled(t)
  BY <1>1 DEF Running, Completed, Settled
<1>3. Taken' = Taken /\ TasksTakenInOrder'
  BY <1>1 DEF Taken, TaskInv, TasksTakenInOrder
<1>4. (/\ \A v \in Workers : hand[v] # None => hand[v] \in 1..Taken
       /\ \A u, v \in Workers : hand[u] = hand[v] /\ hand[u] # None => u = v)'
  BY <1>1, <1>3 DEF TaskInv
<1> QED
  BY <1>1, <1>2, <1>3, <1>4 DEF TaskInv

(* The oldest completion is settled. *)
LEMMA TaskSettle ==
  ASSUME TypeOK, TaskInv, invoke_completion
  PROVE  /\ TaskInv'
         /\ LET t == Head(pending[Completions]).task
            IN  t \in 1..Taken /\ Completed(t) /\ t \in Tasks
<1> DEFINE done == pending[Completions]
           h == Head(done).task
<1>1. /\ done \in Seq(Completion) /\ done # <<>>
      /\ done' = Tail(done)
  BY DEF invoke_completion, Bus!Deliver, TypeOK, Bus!TypeOK
<1>2. UNCHANGED <<request, task_list, worker, hand>>
  BY DEF invoke_completion, poolVars
<1>3. /\ Len(done) \in Nat \ {0} /\ DOMAIN done = 1..Len(done)
      /\ DOMAIN done' = 1..(Len(done) - 1)
      /\ \A i \in DOMAIN done' : done'[i] = done[i + 1]
      /\ Head(done) = done[1]
  BY <1>1
<1>4. h \in 1..Taken /\ h \in Tasks /\ h = done[1].task
  <2>1. 1 \in DOMAIN done /\ h = done[1].task
    BY <1>1, <1>3
  <2>2. done[1] \in Completion
    BY <1>1, <2>1
  <2> QED
    BY <2>1, <2>2 DEF TaskInv, Completion
<1>5. PICK res \in {"called", "garbage", "dropped"} :
        outcome' = [outcome EXCEPT ![h] = res]
  BY DEF invoke_completion, Results
<1> HIDE DEF h, done
<1>6. Completed(h)
  BY <1>3, <1>4 DEF Completed, done
<1>7. \A t : Completed(t)' <=> Completed(t) /\ t # h
  <2> SUFFICES ASSUME NEW t
               PROVE  Completed(t)' <=> Completed(t) /\ t # h
    OBVIOUS
  <2>1. ASSUME NEW i \in DOMAIN done', done'[i].task = t
        PROVE  Completed(t) /\ t # h
    <3>1. i + 1 \in DOMAIN done /\ done[i + 1].task = t /\ i + 1 # 1 /\ 1 \in DOMAIN done
      BY <1>3, <2>1
    <3> QED
      BY <3>1, <1>4 DEF TaskInv, Completed, done
  <2>2. ASSUME NEW i \in DOMAIN done, done[i].task = t, t # h
        PROVE  Completed(t)'
    <3>1. i - 1 \in DOMAIN done' /\ done'[i - 1].task = t
      BY <1>3, <1>4, <2>2
    <3> QED
      BY <3>1 DEF Completed, done
  <2> QED
    BY <2>1, <2>2 DEF Completed, done
<1>8. \A t : Running(t)' <=> Running(t)
  BY <1>2 DEF Running
<1>9. \A t \in Tasks : Settled(t)' <=> Settled(t) \/ t = h
  BY <1>4, <1>5 DEF Settled, TypeOK
<1>10. Taken' = Taken /\ TasksTakenInOrder'
  BY <1>2 DEF Taken, TaskInv, TasksTakenInOrder
<1>11. (/\ \A i \in DOMAIN pending[Completions] :
            pending[Completions][i].task \in 1..Taken
        /\ \A i, j \in DOMAIN pending[Completions] :
            pending[Completions][i].task = pending[Completions][j].task => i = j)'
  <2>1. \A i \in DOMAIN done' : i + 1 \in DOMAIN done
    BY <1>3
  <2>2. (\A i \in DOMAIN pending[Completions] :
            pending[Completions][i].task \in 1..Taken)'
    BY <2>1, <1>3, <1>10 DEF TaskInv, done
  <2>3. ASSUME NEW i \in DOMAIN done', NEW j \in DOMAIN done',
               done'[i].task = done'[j].task
        PROVE  i = j
    <3>1. \A a, b \in DOMAIN done : done[a].task = done[b].task => a = b
      BY DEF TaskInv, done
    <3>2. /\ i + 1 \in DOMAIN done /\ j + 1 \in DOMAIN done
          /\ done[i + 1].task = done[j + 1].task
      BY ONLY <1>3, <2>1, <2>3
    <3>3. i + 1 = j + 1
      BY ONLY <3>1, <3>2, Zenon
    <3>4. PICK n : DOMAIN done' = 1..n /\ n \in Int
      BY <1>3
    <3> QED
      BY ONLY <2>3, <3>3, <3>4
  <2> QED
    BY <2>2, <2>3 DEF done
<1>12. 1..Taken \subseteq Tasks
  <2>1. Len(request) \in Nat /\ Len(task_list) \in Nat /\ Len(request) <= MaxTasks
    BY DEF TypeOK
  <2> QED
    BY <2>1, PoolAssumption DEF Taken, Tasks
<1>13. ASSUME NEW t \in (1..Taken)'
       PROVE  (/\ Running(t) \/ Completed(t) \/ Settled(t)
               /\ Running(t) => ~Completed(t) /\ ~Settled(t)
               /\ Completed(t) => ~Settled(t))'
  <2>1. t \in 1..Taken /\ t \in Tasks
    BY <1>10, <1>12
  <2> QED
    BY <2>1, <1>6, <1>7, <1>8, <1>9 DEF TaskInv
<1>14. (\A t \in Tasks : Settled(t) => t \in 1..Taken)'
  BY <1>4, <1>9, <1>10 DEF TaskInv
<1>15. TaskInv'
  BY <1>2, <1>10, <1>11, <1>13, <1>14 DEF TaskInv
<1> QED
  BY <1>4, <1>6, <1>15 DEF h, done

LEMMA TaskStep ==
  ASSUME TypeOK, TaskInv, [Next]_vars
  PROVE  TaskInv'
<1>1. ASSUME NEW r, dispatch_task(r)
      PROVE  TaskInv'
  BY <1>1, TaskDispatch
<1>2. ASSUME NEW w \in Workers, WorkerStep(w)
      PROVE  TaskInv'
  <2>1. CASE TakeTask(w)
    BY <2>1, TaskTake
  <2>2. CASE RunTask(w)
    BY <2>2, TaskRun
  <2>3. CASE Return(w)
    BY <2>3, TaskReturn
  <2>4. CASE TimeOut(w) \/ Exit(w)
    <3>1. /\ UNCHANGED <<request, task_list, hand, pending, outcome>>
          /\ \A v \in Workers : worker'[v] = "running" <=> worker[v] = "running"
      BY <2>4 DEF TimeOut, Exit, TypeOK
    <3>2. Taken' = Taken /\ TasksTakenInOrder'
      BY <3>1 DEF Taken, TaskInv, TasksTakenInOrder
    <3> QED
      BY <3>1, <3>2, TaskFrame
  <2> QED
    BY <1>2, <2>1, <2>2, <2>3, <2>4 DEF WorkerStep
<1>3. CASE invoke_completion
  BY <1>3, TaskSettle
<1>4. CASE UNCHANGED <<request, poolVars, pending, last, outcome>>
  <2>1. Taken' = Taken /\ TasksTakenInOrder'
    BY <1>4 DEF Taken, TaskInv, TasksTakenInOrder, poolVars
  <2> QED
    BY <1>4, <2>1, TaskFrame DEF poolVars
<1> QED
  BY <1>1, <1>2, <1>3, <1>4
  DEF Next, Lua, aio_read, aio_write, CreateState, CloseState, vars, poolVars

LEMMA TaskInvariant == Spec => []TaskInv
<1>1. Init => TaskInv
  <2> SUFFICES ASSUME Init
               PROVE  TaskInv
    OBVIOUS
  <2>1. Taken = 0
    BY DEF Init, Taken
  <2>2. /\ \A w \in Workers : hand[w] = None
        /\ pending[Completions] = <<>>
        /\ \A t \in Tasks : ~Settled(t)
    BY DEF Init, Bus!Init, Settled
  <2> QED
    BY <2>1, <2>2 DEF TaskInv, TasksTakenInOrder, Init
<1>2. TypeOK /\ TaskInv /\ [Next]_vars => TaskInv'
  BY TaskStep
<1> QED
  BY <1>1, <1>2, TypeCorrect, PTL DEF Spec

(* Threads take tasks in dispatch order. *)
THEOREM TasksAreTakenInOrder == Spec => []TasksTakenInOrder
<1>1. TaskInv => TasksTakenInOrder
  BY DEF TaskInv
<1> QED
  BY <1>1, TaskInvariant, PTL

(* No dispatched task is lost, and none is in two places. *)
THEOREM TasksAreConserved == Spec => []TasksConserved
<1>1. TypeOK /\ TaskInv => TasksConserved
  <2> SUFFICES ASSUME TypeOK, TaskInv
               PROVE  TasksConserved
    OBVIOUS
  <2>1. /\ Len(request) \in Nat /\ Len(request) <= MaxTasks /\ MaxTasks \in Nat
        /\ Len(task_list) \in Nat /\ DOMAIN task_list = 1..Len(task_list)
        /\ Taken = Len(request) - Len(task_list) /\ Taken \in Nat
    BY PoolAssumption DEF TypeOK, Taken, TaskInv
  <2>2. ASSUME NEW t \in 1..Len(request)
        PROVE  Queued(t) <=> t \notin 1..Taken
    <3>1. ASSUME NEW i \in DOMAIN task_list, task_list[i] = t
          PROVE  t \notin 1..Taken
      BY <2>1, <3>1 DEF TaskInv, TasksTakenInOrder
    <3>2. ASSUME t \notin 1..Taken
          PROVE  Queued(t)
      <4>1. t - Taken \in DOMAIN task_list
        BY <2>1, <3>2
      <4>2. task_list[t - Taken] = t
        <5>1. task_list[t - Taken] = Taken + (t - Taken)
          BY <2>1, <4>1 DEF TaskInv, TasksTakenInOrder
        <5> QED
          BY <2>1, <5>1
      <4> QED
        BY <4>1, <4>2 DEF Queued
    <3> QED
      BY <3>1, <3>2 DEF Queued
  <2>3. ASSUME NEW t \in 1..Len(request), t \notin 1..Taken
        PROVE  ~Running(t) /\ ~Completed(t) /\ ~Settled(t)
    <3>1. t # None /\ t \in Tasks
      BY <2>1, PoolAssumption DEF Tasks
    <3> QED
      BY <2>3, <3>1 DEF TaskInv, Running, Completed
  <2> QED
    BY <2>2, <2>3 DEF TaskInv, TasksConserved
<1> QED
  BY <1>1, TypeCorrect, TaskInvariant, PTL

-----------------------------------------------------------------------------
(* The callbacks: AsyncIO implements LuaCallbacks. *)

Owner == [t \in Tasks |-> IF t \in DOMAIN request THEN request[t].L ELSE <<>>]

Status == [t \in Tasks |->
  IF t \notin DOMAIN request THEN "idle"
  ELSE IF outcome[t] = "garbage" THEN "called" ELSE outcome[t]]

(* A dispatch asks for the next callback. *)
LEMMA AskMaps ==
  ASSUME TypeOK, TaskInv, NEW L \in activeStates, NEW op,
         dispatch_task([L |-> L, op |-> op])
  PROVE  Callbacks!Next
<1> DEFINE r == [L |-> L, op |-> op]
           n == Len(request) + 1
<1>1. /\ request \in Seq(Request) /\ request' = Append(request, r)
      /\ outcome' = outcome /\ UNCHANGED luaVars
      /\ n \in Tasks /\ n \notin DOMAIN request
      /\ DOMAIN request' = DOMAIN request \cup {n}
      /\ request'[n].L = L
      /\ \A t \in DOMAIN request : request'[t] = request[t]
  BY PoolAssumption DEF TypeOK, dispatch_task, luaVars, Tasks
<1>2. outcome[n] = "waiting"
  <2>1. n \notin 1..Taken
    BY DEF Taken, TypeOK
  <2> QED
    BY <1>1, <2>1 DEF TaskInv, Settled
<1> HIDE DEF r, n
<1>3. Owner' = [Owner EXCEPT ![n] = L]
  BY <1>1 DEF Owner
<1>4. Status[n] = "idle" /\ Status' = [Status EXCEPT ![n] = "waiting"]
  BY <1>1, <1>2 DEF Status
<1>5. Callbacks!Ask(n, L)
  BY <1>1, <1>3, <1>4 DEF Callbacks!Ask, Owner, Status, Callbacks!luaVars, luaVars
<1> QED
  BY <1>1, <1>5 DEF Callbacks!Next, TypeOK, LuaTypeOK

(* A completion settles its callback. *)
LEMMA SettleMaps ==
  ASSUME TypeOK, TaskInv, invoke_completion
  PROVE  Callbacks!Next
<1>0. PICK n \in Tasks : n = Head(pending[Completions]).task
  BY TaskSettle
<1>1. n \in 1..Taken /\ Completed(n)
  BY <1>0, TaskSettle
<1>2. outcome[n] = "waiting"
  BY <1>1 DEF TaskInv, Settled
<1>3. n \in DOMAIN request
  BY <1>1 DEF Taken, TypeOK
<1>4. UNCHANGED <<request, luaVars>>
  BY DEF invoke_completion
<1>5. \/ /\ request[n].L \in activeStates
         /\ \E res \in {"called", "garbage"} : outcome' = [outcome EXCEPT ![n] = res]
      \/ /\ request[n].L \notin activeStates
         /\ outcome' = [outcome EXCEPT ![n] = "dropped"]
  BY <1>0 DEF invoke_completion, Results, check_active_state
<1>6. outcome \in [Tasks -> Outcome]
  BY DEF TypeOK
<1>7. Status[n] = "waiting" /\ Owner[n] = request[n].L /\ Owner' = Owner
  BY <1>1, <1>2, <1>3, <1>4 DEF Status, Owner
<1>8. Status' = [Status EXCEPT ![n] =
        IF request[n].L \in activeStates THEN "called" ELSE "dropped"]
  BY <1>1, <1>3, <1>4, <1>5, <1>6 DEF Status
<1>9. Callbacks!Settle(n)
  BY <1>4, <1>7, <1>8
  DEF Callbacks!Settle, Status, Owner, Callbacks!luaVars, luaVars,
      Callbacks!check_active_state
<1> QED
  BY <1>1, <1>9 DEF Callbacks!Next

LEMMA CallbackStep ==
  ASSUME TypeOK, TaskInv, [Next]_vars
  PROVE  [Callbacks!Next]_(Callbacks!callbackVars)
<1>1. ASSUME NEW L \in States, aio_read(L) \/ aio_write(L)
      PROVE  Callbacks!Next
  BY <1>1, AskMaps DEF aio_read, aio_write
<1>2. CASE invoke_completion
  BY <1>2, SettleMaps
<1>3. ASSUME NEW L \in States, CreateState(L) \/ CloseState(L)
      PROVE  Callbacks!Next
  <2>1. UNCHANGED <<request, outcome>>
    BY <1>3 DEF CreateState, CloseState
  <2>2. CASE CreateState(L)
    <3>1. Callbacks!Create(L)
      BY <2>1, <2>2
      DEF CreateState, Callbacks!Create, initiate_lua, Callbacks!initiate_lua
    <3> QED
      BY <3>1 DEF Callbacks!Next
  <2>3. CASE CloseState(L)
    <3>1. Callbacks!Destroy(L)
      BY <2>1, <2>3 DEF CloseState, Callbacks!Destroy, close, Callbacks!close
    <3> QED
      BY <3>1 DEF Callbacks!Next
  <2> QED
    BY <1>3, <2>2, <2>3
<1>4. ASSUME NEW w \in Workers, WorkerStep(w)
      PROVE  UNCHANGED Callbacks!callbackVars
  BY <1>4
  DEF WorkerStep, TakeTask, TimeOut, Exit, RunTask, Return, luaVars,
      Callbacks!callbackVars
<1>5. CASE UNCHANGED vars
  BY <1>5 DEF vars, Callbacks!callbackVars
<1> QED
  BY <1>1, <1>2, <1>3, <1>4, <1>5 DEF Next, Lua

(* Every callback is settled at most once, called exactly if the state that *)
(* asked for it is active at that moment.                                   *)
THEOREM CallbacksImplemented == Spec => ImplementsCallbacks
<1>1. Init => Callbacks!Init
  <2> SUFFICES ASSUME Init
               PROVE  Callbacks!Init
    OBVIOUS
  <2>1. request = <<>> /\ DOMAIN request = {}
    BY DEF Init
  <2>2. Callbacks!LuaInit
    BY DEF Init, LuaInit, Callbacks!LuaInit
  <2> QED
    BY <2>1, <2>2 DEF Callbacks!Init, Callbacks!NoOwner
<1>2. TypeOK /\ TaskInv /\ [Next]_vars => [Callbacks!Next]_(Callbacks!callbackVars)
  BY CallbackStep
<1> QED
  BY <1>1, <1>2, TypeCorrect, TaskInvariant, PTL
  DEF Spec, ImplementsCallbacks, Callbacks!Spec
-----------------------------------------------------------------------------
(* How far a request can pass others. *)

Earlier(t) == {w \in Workers : worker[w] = "running" /\ hand[w] < t}

(* Fewer than MAX_THREADS threads run requests that an answered one has    *)
(* passed: the thread that answered it is not among them, and none is      *)
(* added to them, as every request in the list is a later one.             *)
FewInv ==
  \A t \in Tasks : Answered(t) => Cardinality(Earlier(t)) < MAX_THREADS

LEMMA EarlierFinite ==
  ASSUME NEW t
  PROVE  IsFiniteSet(Earlier(t))
BY PoolAssumption, FS_Subset DEF Earlier

(* Of an answered request: it was taken. *)
LEMMA AnsweredTaken ==
  ASSUME TaskInv, NEW t \in Tasks, Answered(t)
  PROVE  t \in 1..Taken
BY DEF TaskInv, Answered, Completed

(* A step that answers nothing and gives no thread an earlier request.     *)
LEMMA FewFrame ==
  ASSUME FewInv, UNCHANGED <<pending, outcome>>,
         \A t \in Tasks : Answered(t) => Earlier(t)' \subseteq Earlier(t)
  PROVE  FewInv'
<1> SUFFICES ASSUME NEW t \in Tasks, Answered(t)'
             PROVE  Cardinality(Earlier(t)') < MAX_THREADS
  BY DEF FewInv
<1>1. Answered(t)
  BY DEF Answered, Completed, Settled
<1>2. Earlier(t)' \subseteq Earlier(t)
  BY <1>1
<1>3. /\ Cardinality(Earlier(t)') <= Cardinality(Earlier(t))
      /\ Cardinality(Earlier(t)) \in Nat /\ Cardinality(Earlier(t)') \in Nat
  BY <1>2, EarlierFinite, FS_Subset, FS_CardinalityType
<1>4. Cardinality(Earlier(t)) < MAX_THREADS
  BY <1>1 DEF FewInv
<1> QED
  BY <1>3, <1>4, PoolAssumption

(* The request that is taken is later than every answered one.             *)
LEMMA FewTake ==
  ASSUME TypeOK, TaskInv, FewInv, NEW w \in Workers, TakeTask(w)
  PROVE  FewInv'
<1>1. /\ hand' = [hand EXCEPT ![w] = Head(task_list)]
      /\ worker' = [worker EXCEPT ![w] = "running"]
      /\ UNCHANGED <<pending, outcome>>
      /\ worker \in [Workers -> Place] /\ hand \in [Workers -> Tasks \cup {None}]
  BY DEF TakeTask, TypeOK
<1>2. Head(task_list) = Taken + 1 /\ Taken \in Nat
  <2>1. task_list # <<>> /\ task_list \in Seq(Tasks) /\ Len(request) \in Nat
    BY DEF TakeTask, TypeOK
  <2>2. Head(task_list) = task_list[1] /\ 1 \in DOMAIN task_list /\ Len(task_list) \in Nat
    BY <2>1
  <2>3. task_list[1] = Len(request) - Len(task_list) + 1
    BY <2>2 DEF TaskInv, TasksTakenInOrder
  <2>4. Taken = Len(request) - Len(task_list) /\ Taken \in Nat
    BY DEF Taken, TaskInv
  <2> QED
    BY <2>1, <2>2, <2>3, <2>4
<1>3. ASSUME NEW t \in Tasks, Answered(t)
      PROVE  Earlier(t)' \subseteq Earlier(t)
  <2>1. t \in 1..Taken
    BY <1>3, AnsweredTaken
  <2>2. ASSUME NEW v \in Workers, worker'[v] = "running", hand'[v] < t
        PROVE  worker[v] = "running" /\ hand[v] < t
    <3>1. CASE v = w
      <4>1. hand'[v] = Taken + 1
        BY <1>1, <1>2, <3>1
      <4> QED
        BY <1>2, <2>1, <2>2, <4>1
    <3>2. CASE v # w
      BY <1>1, <2>2, <3>2
    <3> QED
      BY <3>1, <3>2
  <2> QED
    BY <2>2 DEF Earlier
<1> QED
  BY <1>1, <1>3, FewFrame

(* The thread that answers a request runs none that it passes.             *)
LEMMA FewRun ==
  ASSUME TypeOK, PoolBounded, TaskInv, FewInv, NEW w \in Workers, RunTask(w)
  PROVE  FewInv'
<1> DEFINE h == hand[w]
           done == pending[Completions]
<1>1. /\ worker[w] = "running" /\ worker' = [worker EXCEPT ![w] = "posted"]
      /\ UNCHANGED <<hand, outcome>> /\ worker \in [Workers -> Place]
  BY DEF RunTask, TypeOK
<1>2. ASSUME NEW t \in Tasks, Answered(t)'
      PROVE  Answered(t) \/ t = h
  <2>1. PICK success \in BOOLEAN :
          done' = Append(done, [task |-> h, success |-> success])
    BY DEF RunTask, Bus!Post, TypeOK, Bus!TypeOK
  <2>2. done \in Seq(Completion)
    BY DEF TypeOK, Bus!TypeOK
  <2>3. /\ DOMAIN done' = DOMAIN done \cup {Len(done) + 1}
        /\ \A i \in DOMAIN done : done'[i] = done[i]
        /\ done'[Len(done) + 1].task = h
    BY <2>1, <2>2
  <2> HIDE DEF h, done
  <2>4. Completed(t)' => Completed(t) \/ t = h
    BY <2>3 DEF Completed, done
  <2>5. Settled(t)' <=> Settled(t)
    BY <1>1 DEF Settled
  <2> QED
    BY <1>2, <2>4, <2>5 DEF Answered
<1>3. \A v \in Workers : v # w => worker'[v] = worker[v]
  BY <1>1
<1>4. worker'[w] = "posted"
  BY <1>1
<1>5. ASSUME NEW t \in Tasks
      PROVE  Earlier(t)' = Earlier(t) \ {w}
  BY <1>1, <1>3, <1>4 DEF Earlier
<1>6. ASSUME NEW t \in Tasks, Answered(t)
      PROVE  Cardinality(Earlier(t)') < MAX_THREADS
  <2>1. Earlier(t)' \subseteq Earlier(t)
    BY <1>5
  <2>2. /\ Cardinality(Earlier(t)') <= Cardinality(Earlier(t))
        /\ Cardinality(Earlier(t)) \in Nat /\ Cardinality(Earlier(t)') \in Nat
    BY <2>1, EarlierFinite, FS_Subset, FS_CardinalityType
  <2>3. Cardinality(Earlier(t)) < MAX_THREADS
    BY <1>6 DEF FewInv
  <2> QED
    BY <2>2, <2>3, PoolAssumption
<1>7. ASSUME NEW t \in Tasks
      PROVE  Cardinality(Earlier(t) \ {w}) < MAX_THREADS
  <2>1. Earlier(t) \ {w} \subseteq Live \ {w} /\ w \in Live
    BY <1>1 DEF Earlier, Live
  <2>2. /\ IsFiniteSet(Live \ {w})
        /\ Cardinality(Live \ {w}) = Cardinality(Live) - 1
    BY <2>1, LiveFinite, FS_RemoveElement
  <2>3. IsFiniteSet(Earlier(t) \ {w})
        /\ Cardinality(Earlier(t) \ {w}) <= Cardinality(Live \ {w})
    BY <2>1, <2>2, FS_Subset
  <2>4. /\ Cardinality(Live) \in Nat /\ Cardinality(Live \ {w}) \in Nat
        /\ Cardinality(Earlier(t) \ {w}) \in Nat
    BY <2>2, <2>3, LiveFinite, FS_CardinalityType
  <2>5. Cardinality(Live) <= MAX_THREADS
    BY DEF PoolBounded
  <2> QED
    BY <2>2, <2>3, <2>4, <2>5, PoolAssumption
<1> HIDE DEF h, done
<1>8. ASSUME NEW t \in Tasks, Answered(t)'
      PROVE  Cardinality(Earlier(t)') < MAX_THREADS
  <2>1. CASE Answered(t)
    BY <1>6, <2>1
  <2>2. CASE t = h
    BY <1>5, <1>7
  <2> QED
    BY <1>2, <1>8, <2>1, <2>2
<1> QED
  BY <1>8 DEF FewInv

(* What is settled was completed. *)
LEMMA FewSettle ==
  ASSUME TypeOK, TaskInv, FewInv, invoke_completion
  PROVE  FewInv'
<1> DEFINE done == pending[Completions]
           h == Head(done).task
<1>1. h \in Tasks /\ Completed(h)
  BY TaskSettle
<1>2. UNCHANGED <<worker, hand>>
  BY DEF invoke_completion, poolVars
<1>3. ASSUME NEW t \in Tasks, Completed(t)'
      PROVE  Completed(t)
  <2>1. done \in Seq(Completion) /\ done # <<>> /\ done' = Tail(done)
    BY DEF invoke_completion, Bus!Deliver, TypeOK, Bus!TypeOK
  <2>2. \A i \in DOMAIN done' : i + 1 \in DOMAIN done /\ done'[i] = done[i + 1]
    BY <2>1
  <2> HIDE DEF done
  <2> QED
    BY <1>3, <2>2 DEF Completed, done
<1>4. \E res : outcome' = [outcome EXCEPT ![h] = res]
  BY DEF invoke_completion
<1> HIDE DEF h, done
<1>5. \A t \in Tasks : Settled(t)' => Settled(t) \/ t = h
  BY <1>4 DEF Settled, TypeOK
<1>6. \A t \in Tasks : Answered(t)' => Answered(t)
  BY <1>1, <1>3, <1>5 DEF Answered
<1>7. \A t : Earlier(t)' = Earlier(t)
  BY <1>2 DEF Earlier
<1> QED
  BY <1>6, <1>7 DEF FewInv

LEMMA FewStep ==
  ASSUME TypeOK, PoolBounded, TaskInv, FewInv, [Next]_vars
  PROVE  FewInv'
<1>1. ASSUME NEW r, dispatch_task(r)
      PROVE  FewInv'
  <2>1. /\ UNCHANGED <<hand, pending, outcome>>
        /\ \A w \in Workers : worker'[w] = "running" <=> worker[w] = "running"
    BY <1>1 DEF dispatch_task, start_task_thread, TypeOK
  <2>2. \A t : Earlier(t)' = Earlier(t)
    BY <2>1 DEF Earlier
  <2> QED
    BY <2>1, <2>2, FewFrame
<1>2. ASSUME NEW w \in Workers, WorkerStep(w)
      PROVE  FewInv'
  <2>1. CASE TakeTask(w)
    BY <2>1, FewTake
  <2>2. CASE RunTask(w)
    BY <2>2, FewRun
  <2>3. CASE TimeOut(w) \/ Exit(w) \/ Return(w)
    <3>1. /\ UNCHANGED <<pending, outcome>>
          /\ \A v \in Workers : worker'[v] = "running" =>
               worker[v] = "running" /\ hand'[v] = hand[v]
      BY <2>3 DEF TimeOut, Exit, Return, TypeOK
    <3>2. \A t : Earlier(t)' \subseteq Earlier(t)
      BY <3>1 DEF Earlier
    <3> QED
      BY <3>1, <3>2, FewFrame
  <2> QED
    BY <1>2, <2>1, <2>2, <2>3 DEF WorkerStep
<1>3. CASE invoke_completion
  BY <1>3, FewSettle
<1>4. CASE UNCHANGED <<request, poolVars, pending, last, outcome>>
  <2>1. UNCHANGED <<worker, hand, pending, outcome>>
    BY <1>4 DEF poolVars
  <2>2. \A t : Earlier(t)' = Earlier(t)
    BY <2>1 DEF Earlier
  <2> QED
    BY <2>1, <2>2, FewFrame
<1> QED
  BY <1>1, <1>2, <1>3, <1>4
  DEF Next, Lua, aio_read, aio_write, CreateState, CloseState, vars, poolVars

(* The requests that an answered one has passed are each in the hand of a  *)
(* thread of their own.                                                    *)
LEMMA PassedAreRunning ==
  ASSUME TypeOK, TaskInv, NEW t \in 1..Len(request), Answered(t)
  PROVE  LET P == {s \in 1..(t - 1) : ~Answered(s)}
         IN  IsFiniteSet(P) /\ Cardinality(P) <= Cardinality(Earlier(t))
<1> DEFINE P == {s \in 1..(t - 1) : ~Answered(s)}
<1>1. t \in Tasks /\ t \in Nat
  BY PoolAssumption DEF TypeOK, Tasks
<1>2. t \in 1..Taken /\ Taken \in Nat
  BY <1>1, AnsweredTaken DEF TaskInv
<1>3. ASSUME NEW s \in P
      PROVE  \E w \in Earlier(t) : hand[w] = s
  <2>1. s \in 1..Taken /\ s < t
    BY <1>1, <1>2
  <2>2. Running(s)
    BY <2>1 DEF TaskInv, Answered
  <2>3. PICK w \in Workers : worker[w] = "running" /\ hand[w] = s
    BY <2>2 DEF Running
  <2> QED
    BY <2>1, <2>3 DEF Earlier
<1>4. \A w \in Earlier(t) : w \in Workers
  BY DEF Earlier
<1> DEFINE place == [s \in P |-> CHOOSE w \in Earlier(t) : hand[w] = s]
<1>5. ASSUME NEW s \in P
      PROVE  place[s] \in Earlier(t) /\ hand[place[s]] = s
  BY <1>3
<1>6. DOMAIN place = P
  OBVIOUS
<1> HIDE DEF place, P
<1>7. place \in Injection(P, Earlier(t))
  <2>1. place \in [P -> Earlier(t)]
    <3>1. place = [s \in P |-> place[s]]
      BY DEF place
    <3> QED
      BY <1>5, <3>1
  <2>2. \A r, s \in P : place[r] = place[s] => r = s
    BY <1>5
  <2> QED
    BY <1>6, <2>1, <2>2 DEF Injection, IsInjective
<1>8. IsFiniteSet(P) /\ Cardinality(P) <= Cardinality(Earlier(t))
  BY <1>7, EarlierFinite, FS_Injection
<1> QED
  BY <1>8 DEF P

(* A request that is answered out of order has passed fewer than           *)
(* MAX_THREADS earlier ones, whatever the number of requests.              *)
THEOREM FewAreOvertaken == Spec => []OvertakesFew
<1>1. Init => FewInv
  <2> SUFFICES ASSUME Init
               PROVE  FewInv
    OBVIOUS
  <2>1. /\ pending[Completions] = <<>>
        /\ \A t \in Tasks : ~Settled(t)
    BY DEF Init, Bus!Init, Settled
  <2> QED
    BY <2>1 DEF FewInv, Answered, Completed
<1>2. TypeOK /\ PoolBounded /\ TaskInv /\ FewInv /\ [Next]_vars => FewInv'
  BY FewStep
<1>3. TypeOK /\ TaskInv /\ FewInv => OvertakesFew
  <2> SUFFICES ASSUME TypeOK, TaskInv, FewInv, NEW t \in 1..Len(request), Answered(t)
               PROVE  Cardinality({s \in 1..(t - 1) : ~Answered(s)}) < MAX_THREADS
    BY DEF OvertakesFew
  <2> DEFINE P == {s \in 1..(t - 1) : ~Answered(s)}
  <2>1. t \in Tasks
    BY PoolAssumption DEF TypeOK, Tasks
  <2>2. IsFiniteSet(P) /\ Cardinality(P) <= Cardinality(Earlier(t))
    BY PassedAreRunning
  <2> HIDE DEF P
  <2>3. Cardinality(Earlier(t)) < MAX_THREADS
    BY <2>1 DEF FewInv
  <2>4. Cardinality(P) \in Nat /\ Cardinality(Earlier(t)) \in Nat
    BY <2>2, EarlierFinite, FS_CardinalityType
  <2>5. Cardinality(P) < MAX_THREADS
    BY <2>2, <2>3, <2>4, PoolAssumption
  <2> QED
    BY <2>5 DEF P
<1> QED
  BY <1>1, <1>2, <1>3, TypeCorrect, PoolIsBounded, TaskInvariant, PTL DEF Spec
=============================================================================
