----------------------------- MODULE EventQueue -----------------------------
(***************************************************************************)
(* EventQueue<T> and EventQueueMaster (src/src/threading), driven by       *)
(* blt::lua_functions::update() once per frame of the game.                *)
(*                                                                         *)
(* Any thread appends to eventQueue[q] under that queue's mutex.  The main *)
(* thread visits the queues in registration order; for each it moves the   *)
(* whole deque to a local one under the mutex and then runs the callbacks  *)
(* without it.  Both critical sections are one action each: nothing that   *)
(* needs the same mutex can happen inside them.                            *)
(***************************************************************************)
EXTENDS Naturals, Sequences

CONSTANTS
  NQueues,      (* queues are named by their place in EventQueueMaster::queues *)
  Events,       (* what threads post: a callback with its data *)
  MaxPending    (* bound: events of one queue not yet drained *)

ASSUME NQueuesAssumption == NQueues \in Nat \ {0}

VARIABLES
  eventQueue,   (* eventQueue[q]: the shared deque of queue q *)
  localQueue,   (* the deque the running ProcessEvents drained *)
  drained,      (* number of queues this update has drained already *)
  inUpdate,     (* the main thread is inside update() *)
  updates,      (* the counter of update(), see UpdatesCap *)
  last          (* the callback run last, as <<queue, event>> *)

vars == <<eventQueue, localQueue, drained, inUpdate, updates, last>>

Queues == 1..NQueues

(* update() only tests updates == 0 and updates > 1, so the counter stops  *)
(* at this value.                                                          *)
UpdatesCap == 2

TypeOK ==
  /\ eventQueue \in [Queues -> Seq(Events)]
  /\ localQueue \in Seq(Events)
  /\ drained \in 0..NQueues
  /\ inUpdate \in BOOLEAN
  /\ updates \in 0..UpdatesCap
  /\ last \in {<<>>} \cup (Queues \X Events)
  /\ localQueue # <<>> => inUpdate /\ drained # 0

Init ==
  /\ eventQueue = [q \in Queues |-> <<>>]
  /\ localQueue = <<>>
  /\ drained = 0
  /\ inUpdate = FALSE
  /\ updates = 0
  /\ last = <<>>

-----------------------------------------------------------------------------
(* A thread posts e: AddToQueue, under the queue's mutex. *)
AddToQueue(q, e) ==
  /\ eventQueue' = [eventQueue EXCEPT ![q] = Append(@, e)]
  /\ UNCHANGED <<localQueue, drained, inUpdate, updates, last>>

(* Broken: an update that starts after the first queue. *)
BeginUpdateOffByOne ==
  /\ ~inUpdate
  /\ inUpdate' = TRUE
  /\ drained' = IF updates > 1 THEN 1 ELSE NQueues
  /\ UNCHANGED <<eventQueue, localQueue, updates, last>>

(* update() is called.  Its first two calls leave the queues alone. *)
BeginUpdate ==
  /\ ~inUpdate
  /\ inUpdate' = TRUE
  /\ drained' = IF updates > 1 THEN 0 ELSE NQueues
  /\ UNCHANGED <<eventQueue, localQueue, updates, last>>

(* Broken: the deque is copied and not cleared. *)
DrainNextByCopy ==
  /\ inUpdate
  /\ localQueue = <<>>
  /\ drained < NQueues
  /\ drained' = drained + 1
  /\ localQueue' = eventQueue[drained + 1]
  /\ UNCHANGED <<eventQueue, inUpdate, updates, last>>

(* The first half of ProcessEvents of the next queue in registration order: *)
(* the whole deque moves to localQueue under the mutex.                     *)
DrainNext ==
  /\ inUpdate
  /\ localQueue = <<>>
  /\ drained < NQueues
  /\ drained' = drained + 1
  /\ localQueue' = eventQueue[drained + 1]
  /\ eventQueue' = [eventQueue EXCEPT ![drained + 1] = <<>>]
  /\ UNCHANGED <<inUpdate, updates, last>>

(* Broken: ProcessEvents goes on until the shared deque is empty too. *)
RunNextUntilEmpty ==
  /\ inUpdate
  /\ localQueue # <<>>
  /\ last' = <<drained, Head(localQueue)>>
  /\ localQueue' = Tail(localQueue) \o eventQueue[drained]
  /\ eventQueue' = [eventQueue EXCEPT ![drained] = <<>>]
  /\ UNCHANGED <<drained, inUpdate, updates>>

(* The second half: the callback of the oldest drained event runs. *)
RunNext ==
  /\ inUpdate
  /\ localQueue # <<>>
  /\ last' = <<drained, Head(localQueue)>>
  /\ localQueue' = Tail(localQueue)
  /\ UNCHANGED <<eventQueue, drained, inUpdate, updates>>

(* Broken: update() returns while drained events have not run. *)
EndUpdateEarly ==
  /\ inUpdate
  /\ drained = NQueues
  /\ inUpdate' = FALSE
  /\ drained' = 0
  /\ updates' = IF updates < UpdatesCap THEN updates + 1 ELSE updates
  /\ UNCHANGED <<eventQueue, localQueue, last>>

(* Every queue is done: update() returns. *)
EndUpdate ==
  /\ inUpdate
  /\ localQueue = <<>>
  /\ drained = NQueues
  /\ inUpdate' = FALSE
  /\ drained' = 0
  /\ updates' = IF updates < UpdatesCap THEN updates + 1 ELSE updates
  /\ UNCHANGED <<eventQueue, localQueue, last>>

Post ==
  \E q \in Queues, e \in Events :
    /\ Len(eventQueue[q]) < MaxPending
    /\ AddToQueue(q, e)

MainThread == BeginUpdate \/ DrainNext \/ RunNext \/ EndUpdate

Next == Post \/ MainThread

Spec == Init /\ [][Next]_vars

(* The game calls update() every frame and the callbacks return; nothing   *)
(* is assumed of the threads that post.                                    *)
FairSpec == Spec /\ WF_vars(MainThread)

-----------------------------------------------------------------------------
(* The events of q whose callback has not run: what the running            *)
(* ProcessEvents still holds, then what was posted since.                  *)
Pending == [q \in Queues |->
  (IF q = drained THEN localQueue ELSE <<>>) \o eventQueue[q]]

Bus == INSTANCE EventBus WITH pending <- Pending

(* The queues deliver each posted event exactly once and in posting order  *)
(* within a queue, whatever the interleaving of posts and drains.          *)
ImplementsBus == Bus!Spec

(* No posted event is forgotten, though threads may go on posting forever. *)
NothingForgotten == Bus!AllDelivered

(* A frame ends even if other threads never stop posting: ProcessEvents    *)
(* runs a snapshot of each queue, never the events posted meanwhile.       *)
UpdateTerminates == inUpdate ~> ~inUpdate
=============================================================================
