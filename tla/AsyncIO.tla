------------------------------- MODULE AsyncIO -------------------------------
(***************************************************************************)
(* blt.async_io (LuaAsyncIO.cpp): reads and writes requested from Lua on   *)
(* the main thread, run by a pool of at most MAX_THREADS worker threads,   *)
(* and completed by a Lua callback that the main thread runs from the      *)
(* event queue of IOCompletion.                                            *)
(*                                                                         *)
(* Everything done under task_mutex is one action.  A worker in            *)
(* condition_var.wait_for wakes for a notification, spuriously or after    *)
(* 500 ms, takes the mutex and tests the task list again, so whichever     *)
(* woke it, it takes a task if there is one; only a timeout with the list  *)
(* empty ends it.  The completion queue is the abstract EventBus, which    *)
(* EventQueue implements.                                                  *)
(***************************************************************************)
EXTENDS Integers, Sequences, FiniteSets, LuaStates

CONSTANTS
  Workers,       (* threads that may exist at a time *)
  MAX_THREADS,   (* 4 in the source *)
  Backlog,       (* a further thread starts beyond this many queued tasks: 5 *)
  MaxTasks,      (* bound: number of requests *)
  None           (* no task *)

ASSUME PoolAssumption ==
  /\ MAX_THREADS \in Nat \ {0}
  /\ Backlog \in Nat
  /\ MaxTasks \in Nat
  /\ IsFiniteSet(Workers)
  /\ None \notin Nat

VARIABLES
  request,       (* request[t]: what Lua asked for, in dispatch order *)
  task_list,     (* the queue of tasks no thread has taken *)
  thread_count,  (* the counter thread_count *)
  worker,        (* worker[w]: where thread w is *)
  hand,          (* hand[w]: the task thread w has taken *)
  pending, last, (* the completion queue *)
  outcome        (* outcome[t]: what became of the callback of request t *)

poolVars == <<task_list, thread_count, worker, hand>>
vars == <<request, task_list, thread_count, worker, hand, pending, last,
          outcome, activeStates, incarnation>>

Tasks == 1..MaxTasks

Request == [L : States, op : {"read", "write"}]

(* A completion holds the task and whether the I/O succeeded. *)
Completion == [task : Tasks, success : BOOLEAN]

Completions == "Completions"

Bus == INSTANCE EventBus WITH Queues <- {Completions}, Events <- Completion

(* Where a thread can be: not started; waiting for a task; running one; in *)
(* the task function after it posted the completion, its locals still      *)
(* alive; out of the loop but still counted.                               *)
Place == {"none", "waiting", "running", "posted", "leaving"}

(* How a callback ended: not yet; state closed; called with the result; or *)
(* called with what it read from a destroyed local of the task function.   *)
Outcome == {"waiting", "dropped", "called", "garbage"}

TypeOK ==
  /\ LuaTypeOK
  /\ request \in Seq(Request) /\ Len(request) <= MaxTasks
  /\ task_list \in Seq(Tasks)
  /\ thread_count \in Int
  /\ worker \in [Workers -> Place]
  /\ hand \in [Workers -> Tasks \cup {None}]
  /\ \A w \in Workers : hand[w] # None <=> worker[w] \in {"running", "posted"}
  /\ Bus!TypeOK
  /\ outcome \in [Tasks -> Outcome]

Init ==
  /\ LuaInit
  /\ Bus!Init
  /\ request = <<>>
  /\ task_list = <<>>
  /\ thread_count = 0
  /\ worker = [w \in Workers |-> "none"]
  /\ hand = [w \in Workers |-> None]
  /\ outcome = [t \in Tasks |-> "waiting"]

-----------------------------------------------------------------------------
(* The main thread: Lua requests, under task_mutex. *)

start_task_thread ==
  /\ thread_count' = thread_count + 1
  /\ \E w \in Workers :
       /\ worker[w] = "none"
       /\ worker' = [worker EXCEPT ![w] = "waiting"]

(* Broken: a thread too many; none for the first task. *)
NeedsThreadOffByOne(backlog) ==
  \/ thread_count = 0
  \/ thread_count <= MAX_THREADS /\ backlog > Backlog

NeedsThreadForBacklog(backlog) ==
  thread_count < MAX_THREADS /\ backlog > Backlog

(* The test of dispatch_task, made after the task was pushed. *)
NeedsThread(backlog) ==
  \/ thread_count = 0
  \/ thread_count < MAX_THREADS /\ backlog > Backlog

dispatch_task(r) ==
  /\ Len(request) < MaxTasks
  /\ request' = Append(request, r)
  /\ task_list' = Append(task_list, Len(request) + 1)
  /\ IF NeedsThread(Len(task_list) + 1)
     THEN start_task_thread
     ELSE UNCHANGED <<thread_count, worker>>
  /\ UNCHANGED <<hand, pending, last, outcome, activeStates, incarnation>>

aio_read(L) ==
  /\ L \in activeStates
  /\ dispatch_task([L |-> L, op |-> "read"])

aio_write(L) ==
  /\ L \in activeStates
  /\ dispatch_task([L |-> L, op |-> "write"])

-----------------------------------------------------------------------------
(* A worker thread. *)

(* Broken: a thread waits for a second task. *)
TakeTaskOfTwo(w) ==
  /\ worker[w] = "waiting"
  /\ Len(task_list) > 1
  /\ hand' = [hand EXCEPT ![w] = Head(task_list)]
  /\ task_list' = Tail(task_list)
  /\ worker' = [worker EXCEPT ![w] = "running"]
  /\ UNCHANGED <<request, thread_count, pending, last, outcome, luaVars>>

(* Broken: the task dispatched last is taken first. *)
TakeNewest(w) ==
  /\ worker[w] = "waiting"
  /\ task_list # <<>>
  /\ hand' = [hand EXCEPT ![w] = task_list[Len(task_list)]]
  /\ task_list' = SubSeq(task_list, 1, Len(task_list) - 1)
  /\ worker' = [worker EXCEPT ![w] = "running"]
  /\ UNCHANGED <<request, thread_count, pending, last, outcome, luaVars>>

(* The wait ends with a task in the list: the oldest is taken. *)
TakeTask(w) ==
  /\ worker[w] = "waiting"
  /\ task_list # <<>>
  /\ hand' = [hand EXCEPT ![w] = Head(task_list)]
  /\ task_list' = Tail(task_list)
  /\ worker' = [worker EXCEPT ![w] = "running"]
  /\ UNCHANGED <<request, thread_count, pending, last, outcome, luaVars>>

(* The wait times out with the list empty: the thread leaves its loop and  *)
(* the mutex.                                                              *)
TimeOut(w) ==
  /\ worker[w] = "waiting"
  /\ task_list = <<>>
  /\ worker' = [worker EXCEPT ![w] = "leaving"]
  /\ UNCHANGED <<request, task_list, thread_count, hand, pending, last,
                 outcome, luaVars>>

(* The thread takes the mutex again only to stop being counted. *)
Exit(w) ==
  /\ worker[w] = "leaving"
  /\ thread_count' = thread_count - 1
  /\ worker' = [worker EXCEPT ![w] = "none"]
  /\ UNCHANGED <<request, task_list, hand, pending, last, outcome, luaVars>>

(* Broken: nothing is posted for an I/O that fails. *)
RunTaskNoError(w) ==
  /\ worker[w] = "running"
  /\ worker' = [worker EXCEPT ![w] = "posted"]
  /\ \E success \in BOOLEAN :
       IF success
       THEN Bus!Post(Completions, [task |-> hand[w], success |-> success])
       ELSE UNCHANGED <<pending, last>>
  /\ UNCHANGED <<request, task_list, thread_count, hand, outcome, luaVars>>

(* task.func does the I/O, which may fail, and posts the completion. *)
RunTask(w) ==
  /\ worker[w] = "running"
  /\ worker' = [worker EXCEPT ![w] = "posted"]
  /\ \E success \in BOOLEAN :
       Bus!Post(Completions, [task |-> hand[w], success |-> success])
  /\ UNCHANGED <<request, task_list, thread_count, hand, outcome, luaVars>>

(* Broken: the thread keeps the task it has run. *)
ReturnNoReset(w) ==
  /\ worker[w] = "posted"
  /\ worker' = [worker EXCEPT ![w] = "waiting"]
  /\ UNCHANGED <<request, task_list, thread_count, hand, pending, last, outcome,
                 luaVars>>

(* task.func returns and destroys its locals, the data read among them. *)
Return(w) ==
  /\ worker[w] = "posted"
  /\ worker' = [worker EXCEPT ![w] = "waiting"]
  /\ hand' = [hand EXCEPT ![w] = None]
  /\ UNCHANGED <<request, task_list, thread_count, pending, last, outcome,
                 luaVars>>

-----------------------------------------------------------------------------
(* The main thread: completions and the life of Lua states. *)

(* The completion of a successful read holds a reference to the vector of  *)
(* the task function; every other result is held by value.                 *)
ByReference(c) == c.success /\ request[c.task].op = "read"

InFrame(t) == \E w \in Workers : hand[w] = t /\ worker[w] = "posted"

(* What a callback that runs now is given: reading a destroyed vector is   *)
(* undefined, so both outcomes are possible.                               *)
Results(c) ==
  IF ByReference(c) /\ ~InFrame(c.task) THEN {"called", "garbage"} ELSE {"called"}

(* Broken: a failure has no callback. *)
invoke_successes ==
  /\ Bus!Deliver(Completions)
  /\ LET c == Head(pending[Completions]) IN
     \E res \in IF c.success /\ check_active_state(request[c.task].L)
                THEN Results(c) ELSE {"dropped"} :
       outcome' = [outcome EXCEPT ![c.task] = res]
  /\ UNCHANGED <<request, poolVars, luaVars>>

invoke_completion ==
  /\ Bus!Deliver(Completions)
  /\ LET c == Head(pending[Completions]) IN
     \E res \in IF check_active_state(request[c.task].L) THEN Results(c)
                                                         ELSE {"dropped"} :
       outcome' = [outcome EXCEPT ![c.task] = res]
  /\ UNCHANGED <<request, poolVars, luaVars>>

CreateState(L) ==
  /\ initiate_lua(L)
  /\ UNCHANGED <<request, poolVars, pending, last, outcome>>

CloseState(L) ==
  /\ close(L)
  /\ UNCHANGED <<request, poolVars, pending, last, outcome>>

WorkerStep(w) ==
  \/ TakeTask(w)
  \/ TimeOut(w)
  \/ Exit(w)
  \/ RunTask(w)
  \/ Return(w)

Lua(L) ==
  \/ aio_read(L)
  \/ aio_write(L)
  \/ CreateState(L)
  \/ CloseState(L)

Next ==
  \/ \E L \in States : Lua(L)
  \/ \E w \in Workers : WorkerStep(w)
  \/ invoke_completion

Spec == Init /\ [][Next]_vars

(* The operating system runs every thread, a wait ends within 500 ms, an   *)
(* I/O operation ends, and the game keeps calling update().  Nothing makes *)
(* Lua ask for more.                                                       *)
Fairness ==
  /\ \A w \in Workers : WF_vars(WorkerStep(w))
  /\ WF_vars(invoke_completion)

FairSpec == Spec /\ Fairness

-----------------------------------------------------------------------------
Live == {w \in Workers : worker[w] # "none"}

(* The pool never has more than MAX_THREADS threads, and the counter that  *)
(* bounds it (start_task_thread, the end of the thread function) counts    *)
(* them exactly, those that are leaving included.                          *)
PoolBounded ==
  /\ thread_count = Cardinality(Live)
  /\ thread_count <= MAX_THREADS

Queued(t) == \E i \in DOMAIN task_list : task_list[i] = t
Running(t) == \E w \in Workers : worker[w] = "running" /\ hand[w] = t
Completed(t) == \E i \in DOMAIN pending[Completions] :
                   pending[Completions][i].task = t
Settled(t) == outcome[t] # "waiting"

(* The task list is what was dispatched last, in dispatch order: threads   *)
(* take tasks first come first served and none is taken twice.             *)
TasksTakenInOrder ==
  \A i \in DOMAIN task_list :
    task_list[i] = Len(request) - Len(task_list) + i

(* A dispatched task is never lost nor in two places: it is in the task    *)
(* list, run by one thread, completed once in the completion queue, or its *)
(* callback is settled.                                                    *)
TasksConserved ==
  /\ \A t \in 1..Len(request) :
       /\ Queued(t) \/ Running(t) \/ Completed(t) \/ Settled(t)
       /\ Queued(t) => ~Running(t) /\ ~Completed(t) /\ ~Settled(t)
       /\ Running(t) => ~Completed(t) /\ ~Settled(t)
       /\ Completed(t) => ~Settled(t)
  /\ \A v, w \in Workers : hand[v] = hand[w] /\ hand[v] # None => v = w
  /\ \A i, j \in DOMAIN pending[Completions] :
       pending[Completions][i].task = pending[Completions][j].task => i = j

Callbacks == INSTANCE LuaCallbacks WITH
  Ids <- Tasks,
  owner <- [t \in Tasks |-> IF t \in DOMAIN request THEN request[t].L ELSE <<>>],
  settled <- [t \in Tasks |->
    IF t \notin DOMAIN request THEN "idle"
    ELSE IF outcome[t] = "garbage" THEN "called" ELSE outcome[t]]

(* Each request's callback is run at most once, never for a state that is  *)
(* closed, and never dropped for one that is not.                          *)
ImplementsCallbacks == Callbacks!Spec

(* The list has tasks and no thread will look at it again. *)
Stranded ==
  /\ task_list # <<>>
  /\ \A w \in Workers : worker[w] \in {"none", "leaving"}

(* Tasks are stranded in one way only: by a dispatch that counts on a      *)
(* thread which has timed out and is not yet uncounted.                    *)
StrandedOnlyInExitWindow ==
  [][~Stranded /\ Stranded' => \E w \in Workers : worker[w] = "leaving"]_vars

Answered(t) == Completed(t) \/ Settled(t)

(* With several threads a later request may be answered first.  It passes  *)
(* only earlier ones that other threads of the pool are running, since the *)
(* list is served from its front: MAX_THREADS - 1 of them at most, however *)
(* long the list is.                                                       *)
OvertakesFew ==
  \A t \in 1..Len(request) : Answered(t) =>
    Cardinality({s \in 1..(t - 1) : ~Answered(s)}) < MAX_THREADS

(* A queued task is taken, or it is stranded. *)
ServedUnlessStranded ==
  \A t \in Tasks : Queued(t) ~> ~Queued(t) \/ Stranded

(* A task that a thread took ends: its callback is called or dropped. *)
TakenTasksSettle ==
  \A t \in Tasks : Running(t) ~> Settled(t)

(* Every dispatched task is run, "Check if we need to start a new thread"  *)
(* (LuaAsyncIO.cpp:124): dispatch_task starts a thread when one is needed. *)
EveryTaskServed ==
  \A t \in Tasks : Queued(t) ~> ~Queued(t)
=============================================================================
