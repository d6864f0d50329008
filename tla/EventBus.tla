------------------------------ MODULE EventBus ------------------------------
(***************************************************************************)
(* What the event queues of threading/queue.h promise to their clients:    *)
(* a worker thread posts an event to a queue, and the main thread runs the *)
(* callback of every posted event exactly once, in posting order within    *)
(* each queue.  Nothing is promised between two queues.                    *)
(***************************************************************************)
EXTENDS Naturals, Sequences

CONSTANTS
  Queues,    (* the queues registered with EventQueueMaster *)
  Events     (* the events (callback and data) that may be posted *)

VARIABLES
  pending,   (* pending[q]: posted events whose callback has not run yet *)
  last       (* the callback run last, as <<queue, event>>; <<>> at first *)

busVars == <<pending, last>>

Init ==
  /\ pending = [q \in Queues |-> <<>>]
  /\ last = <<>>

(* A thread posts e to q. *)
Post(q, e) ==
  /\ pending' = [pending EXCEPT ![q] = Append(@, e)]
  /\ UNCHANGED last

(* The main thread runs the callback of the oldest event of q. *)
Deliver(q) ==
  /\ pending[q] # <<>>
  /\ last' = <<q, Head(pending[q])>>
  /\ pending' = [pending EXCEPT ![q] = Tail(@)]

Next ==
  \E q \in Queues :
    \/ \E e \in Events : Post(q, e)
    \/ Deliver(q)

Spec == Init /\ [][Next]_busVars

-----------------------------------------------------------------------------
TypeOK ==
  /\ pending \in [Queues -> Seq(Events)]
  /\ last \in {<<>>} \cup (Queues \X Events)

(* Every posted event has its callback run: no event is forgotten in a     *)
(* queue (EventQueue<T>::AddToQueue then EventQueue<T>::ProcessEvents).    *)
AllDelivered ==
  \A q \in Queues, e \in Events :
    (\E i \in DOMAIN pending[q] : pending[q][i] = e) ~> (last = <<q, e>>)
=============================================================================
