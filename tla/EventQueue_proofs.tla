-------------------------- MODULE EventQueue_proofs --------------------------
(***************************************************************************)
(* For any number of queues and any events, EventQueue is type correct and *)
(* implements EventBus: no event is lost, run twice or overtaken by one    *)
(* posted later to the same queue.                                         *)
(***************************************************************************)
EXTENDS EventQueue, SequenceTheorems, TLAPS

-----------------------------------------------------------------------------
(* Sequences: a drained part followed by what was posted since. *)

(* Appending after the drained part appends to the whole. *)
LEMMA AppendAfter ==
  ASSUME NEW S, NEW s \in Seq(S), NEW t \in Seq(S), NEW e \in S
  PROVE  s \o Append(t, e) = Append(s \o t, e)
<1>1. /\ s \o Append(t, e) \in Seq(S)
      /\ Append(s \o t, e) \in Seq(S)
  OBVIOUS
<1>2. Len(s \o Append(t, e)) = Len(Append(s \o t, e))
  OBVIOUS
<1>3. ASSUME NEW i \in 1..Len(Append(s \o t, e))
      PROVE  (s \o Append(t, e))[i] = Append(s \o t, e)[i]
  OBVIOUS
<1> QED
  BY <1>1, <1>2, <1>3, SeqEqual

(* The oldest event of the drained part is the oldest of the whole. *)
LEMMA TakeFirst ==
  ASSUME NEW S, NEW s \in Seq(S), NEW t \in Seq(S), s # <<>>
  PROVE  /\ s \o t # <<>>
         /\ Head(s \o t) = Head(s)
         /\ Tail(s \o t) = Tail(s) \o t
<1>1. Len(s) \in Nat \ {0} /\ s \o t \in Seq(S) /\ s \o t # <<>>
  BY EmptySeq
<1>2. Tail(s \o t) \in Seq(S) /\ Tail(s) \o t \in Seq(S)
  BY <1>1
<1>3. Len(Tail(s \o t)) = Len(Tail(s) \o t)
  BY <1>1
<1>4. ASSUME NEW i \in 1..Len(Tail(s) \o t)
      PROVE  Tail(s \o t)[i] = (Tail(s) \o t)[i]
  BY <1>1
<1>5. Tail(s \o t) = Tail(s) \o t
  BY <1>2, <1>3, <1>4, SeqEqual
<1> QED
  BY <1>1, <1>5

(* Nothing before or after a sequence leaves it as it is. *)
LEMMA EmptyPart ==
  ASSUME NEW S, NEW s \in Seq(S)
  PROVE  <<>> \o s = s /\ s \o <<>> = s
  BY ConcatEmptySeq

-----------------------------------------------------------------------------
(* Every step keeps the types, and the local deque is only used inside     *)
(* update().                                                               *)
LEMMA TypePost ==
  ASSUME TypeOK, NEW q \in Queues, NEW e \in Events, AddToQueue(q, e)
  PROVE  TypeOK'
<1>1. eventQueue' \in [Queues -> Seq(Events)]
  BY DEF TypeOK, AddToQueue
<1> QED
  BY <1>1 DEF TypeOK, AddToQueue

LEMMA TypeMainThread ==
  ASSUME TypeOK, MainThread
  PROVE  TypeOK'
<1> USE NQueuesAssumption DEF Queues, UpdatesCap
<1>1. /\ eventQueue \in [Queues -> Seq(Events)]
      /\ localQueue \in Seq(Events)
      /\ drained \in 0..NQueues
      /\ updates \in 0..UpdatesCap
      /\ last \in {<<>>} \cup (Queues \X Events)
  BY DEF TypeOK
<1>2. /\ inUpdate \in BOOLEAN
      /\ localQueue # <<>> => inUpdate /\ drained # 0
  BY DEF TypeOK
<1>3. CASE BeginUpdate
  <2>1. /\ inUpdate' \in BOOLEAN /\ drained' \in 0..NQueues
        /\ localQueue = <<>>
        /\ UNCHANGED <<eventQueue, localQueue, updates, last>>
    BY <1>2, <1>3 DEF BeginUpdate
  <2> QED
    BY <1>1, <2>1 DEF TypeOK
<1>4. CASE DrainNext
  <2>1. /\ drained' \in 1..NQueues
        /\ localQueue' \in Seq(Events)
        /\ eventQueue' \in [Queues -> Seq(Events)]
    BY <1>1, <1>4 DEF DrainNext
  <2>2. inUpdate /\ UNCHANGED <<inUpdate, updates, last>>
    BY <1>4 DEF DrainNext
  <2> QED
    BY <1>1, <1>2, <2>1, <2>2 DEF TypeOK
<1>5. CASE RunNext
  <2>1. /\ Head(localQueue) \in Events /\ drained \in Queues
        /\ localQueue' \in Seq(Events)
    BY <1>1, <1>2, <1>5 DEF RunNext
  <2>2. inUpdate /\ UNCHANGED <<eventQueue, drained, inUpdate, updates>>
    BY <1>5 DEF RunNext
  <2>3. last' \in {<<>>} \cup (Queues \X Events)
    BY <1>5, <2>1 DEF RunNext
  <2> QED
    BY <1>1, <1>2, <2>1, <2>2, <2>3 DEF TypeOK
<1>6. CASE EndUpdate
  <2>1. /\ drained' \in 0..NQueues /\ updates' \in 0..UpdatesCap
        /\ localQueue = <<>>
        /\ UNCHANGED <<eventQueue, localQueue, last>>
    BY <1>1, <1>6 DEF EndUpdate
  <2>2. inUpdate' \in BOOLEAN
    BY <1>6 DEF EndUpdate
  <2> QED
    BY <1>1, <2>1, <2>2 DEF TypeOK
<1> QED
  BY <1>3, <1>4, <1>5, <1>6 DEF MainThread

LEMMA TypeInit == Init => TypeOK
<1> USE NQueuesAssumption DEF Queues, UpdatesCap
<1> SUFFICES ASSUME Init
             PROVE  TypeOK
  OBVIOUS
<1>1. eventQueue \in [Queues -> Seq(Events)] /\ localQueue \in Seq(Events)
  BY DEF Init
<1>2. drained \in 0..NQueues /\ updates \in 0..UpdatesCap
  BY DEF Init
<1>3. inUpdate \in BOOLEAN /\ (localQueue # <<>> => inUpdate /\ drained # 0)
  BY DEF Init
<1>4. last \in {<<>>} \cup (Queues \X Events)
  BY DEF Init
<1> QED
  BY <1>1, <1>2, <1>3, <1>4 DEF TypeOK

(* Every variable keeps its type, and the local deque is only used inside  *)
(* update().                                                               *)
THEOREM TypeCorrect == Spec => []TypeOK
<1>1. TypeOK /\ [Next]_vars => TypeOK'
  <2> SUFFICES ASSUME TypeOK, [Next]_vars
               PROVE  TypeOK'
    OBVIOUS
  <2>1. CASE Post
    BY <2>1, TypePost DEF Post
  <2>2. CASE MainThread
    BY <2>2, TypeMainThread
  <2>3. CASE UNCHANGED vars
    BY <2>3 DEF vars, TypeOK
  <2> QED
    BY <2>1, <2>2, <2>3 DEF Next
<1> QED
  BY <1>1, TypeInit, PTL DEF Spec

-----------------------------------------------------------------------------
(* Initially every queue is empty, in the bus as in the implementation. *)
LEMMA InitMaps == Init => Bus!Init
<1> SUFFICES ASSUME Init
             PROVE  Bus!Init
  OBVIOUS
<1>1. drained = 0 /\ last = <<>> /\ eventQueue = [q \in Queues |-> <<>>]
  BY DEF Init
<1>2. ASSUME NEW q \in Queues
      PROVE  Pending[q] = <<>>
  <2>1. q # drained /\ eventQueue[q] = <<>>
    BY <1>1, NQueuesAssumption DEF Queues
  <2> QED
    BY <2>1, EmptyPart DEF Pending
<1>3. Pending = [q \in Queues |-> <<>>]
  BY <1>2 DEF Pending
<1> QED
  BY <1>1, <1>3 DEF Bus!Init

(* Posting appends to what is pending. *)
LEMMA PostAppends ==
  ASSUME TypeOK, NEW q \in Queues, NEW e \in Events, AddToQueue(q, e)
  PROVE  Pending' = [Pending EXCEPT ![q] = Append(@, e)]
<1> DEFINE front == IF q = drained THEN localQueue ELSE <<>>
<1>t. /\ eventQueue \in [Queues -> Seq(Events)]
      /\ localQueue \in Seq(Events)
  BY DEF TypeOK
<1>1. Pending'[q] = Append(Pending[q], e)
  <2>1. front \in Seq(Events) /\ eventQueue[q] \in Seq(Events)
    BY <1>t
  <2>2. Pending'[q] = front \o Append(eventQueue[q], e)
    BY <1>t DEF AddToQueue, Pending
  <2>3. Pending[q] = front \o eventQueue[q]
    BY DEF Pending
  <2> HIDE DEF front
  <2> QED
    BY <2>1, <2>2, <2>3, AppendAfter
<1>2. ASSUME NEW p \in Queues, p # q
      PROVE  Pending'[p] = Pending[p]
  BY <1>2, <1>t DEF AddToQueue, Pending
<1> QED
  BY <1>1, <1>2 DEF Pending

(* Draining a queue, like the ends of an update, leaves what is pending as *)
(* it is.                                                                  *)
LEMMA DrainKeeps ==
  ASSUME TypeOK, BeginUpdate \/ DrainNext \/ EndUpdate
  PROVE  Pending' = Pending /\ last' = last
<1> USE NQueuesAssumption DEF Queues
<1>t. /\ eventQueue \in [Queues -> Seq(Events)]
      /\ localQueue \in Seq(Events)
      /\ drained \in 0..NQueues
      /\ localQueue # <<>> => drained # 0
  BY DEF TypeOK
<1>1. CASE BeginUpdate \/ EndUpdate
  <2>1. localQueue = <<>> /\ localQueue' = <<>>
    BY <1>1 DEF BeginUpdate, EndUpdate, TypeOK
  <2>2. eventQueue' = eventQueue /\ last' = last
    BY <1>1 DEF BeginUpdate, EndUpdate
  <2> QED
    BY <2>1, <2>2 DEF Pending
<1>2. CASE DrainNext
  <2> DEFINE d == drained + 1
  <2>1. /\ localQueue = <<>> /\ last' = last
        /\ d \in Queues /\ drained' = d
        /\ localQueue' = eventQueue[d]
        /\ eventQueue' = [eventQueue EXCEPT ![d] = <<>>]
    BY <1>2, <1>t DEF DrainNext
  <2>2. ASSUME NEW q \in Queues
        PROVE  Pending[q] = eventQueue[q]
    BY <2>1, <1>t, EmptyPart DEF Pending
  <2>3. ASSUME NEW q \in Queues
        PROVE  Pending'[q] = eventQueue[q]
    <3>1. CASE q = d
      <4>1. Pending'[q] = eventQueue[d] \o <<>>
        BY <2>1, <1>t, <3>1 DEF Pending
      <4> QED
        BY <4>1, <3>1, <2>1, <1>t, EmptyPart
    <3>2. CASE q # d
      <4>1. Pending'[q] = <<>> \o eventQueue[q]
        BY <2>1, <1>t, <3>2 DEF Pending
      <4> QED
        BY <4>1, <1>t, EmptyPart
    <3> QED
      BY <3>1, <3>2
  <2> QED
    BY <2>1, <2>2, <2>3 DEF Pending
<1> QED
  BY <1>1, <1>2

(* Running a callback takes the oldest pending event of its queue. *)
LEMMA RunTakesHead ==
  ASSUME TypeOK, RunNext
  PROVE  /\ drained \in Queues
         /\ Pending[drained] # <<>>
         /\ Head(Pending[drained]) = Head(localQueue)
         /\ last' = <<drained, Head(localQueue)>>
         /\ Pending' = [Pending EXCEPT ![drained] = Tail(@)]
<1> USE NQueuesAssumption DEF Queues
<1>t. /\ eventQueue \in [Queues -> Seq(Events)]
      /\ localQueue \in Seq(Events)
      /\ drained \in 0..NQueues
      /\ localQueue # <<>> => drained # 0
  BY DEF TypeOK
<1>1. /\ localQueue # <<>> /\ drained \in Queues
      /\ localQueue' = Tail(localQueue)
      /\ eventQueue' = eventQueue /\ drained' = drained
      /\ last' = <<drained, Head(localQueue)>>
  BY <1>t DEF RunNext
<1>2. /\ Pending[drained] = localQueue \o eventQueue[drained]
      /\ Pending'[drained] = Tail(localQueue) \o eventQueue[drained]
  BY <1>1 DEF Pending
<1>3. /\ Pending[drained] # <<>>
      /\ Head(Pending[drained]) = Head(localQueue)
      /\ Pending'[drained] = Tail(Pending[drained])
  <2>1. eventQueue[drained] \in Seq(Events)
    BY <1>1, <1>t
  <2> QED
    BY <1>1, <1>2, <1>t, <2>1, TakeFirst
<1>4. ASSUME NEW q \in Queues, q # drained
      PROVE  Pending'[q] = Pending[q]
  BY <1>1, <1>4 DEF Pending
<1>5. Pending' = [Pending EXCEPT ![drained] = Tail(@)]
  BY <1>1, <1>3, <1>4 DEF Pending
<1> QED
  BY <1>1, <1>3, <1>5

(* Every step is a post, a delivery or invisible to the bus. *)
LEMMA StepMaps ==
  ASSUME TypeOK, [Next]_vars
  PROVE  [Bus!Next]_(Bus!busVars)
<1>1. CASE Post
  <2>1. PICK q \in Queues, e \in Events : AddToQueue(q, e)
    BY <1>1 DEF Post
  <2>2. Bus!Post(q, e)
    BY <2>1, PostAppends DEF Bus!Post, AddToQueue
  <2> QED
    BY <2>2 DEF Bus!Next
<1>2. CASE BeginUpdate \/ DrainNext \/ EndUpdate
  BY <1>2, DrainKeeps DEF Bus!busVars
<1>3. CASE RunNext
  <2>1. drained \in Queues /\ Bus!Deliver(drained)
    BY <1>3, RunTakesHead DEF Bus!Deliver
  <2> QED
    BY <2>1 DEF Bus!Next
<1>4. CASE UNCHANGED vars
  BY <1>4 DEF vars, Bus!busVars, Pending
<1> QED
  BY <1>1, <1>2, <1>3, <1>4 DEF Next, MainThread

(* The queues of threading/queue.h implement EventBus. *)
THEOREM QueuesImplementBus == Spec => ImplementsBus
<1>1. Init => Bus!Init
  BY InitMaps
<1>2. TypeOK /\ [Next]_vars => [Bus!Next]_(Bus!busVars)
  BY StepMaps
<1> QED
  BY <1>1, <1>2, TypeCorrect, PTL DEF Spec, ImplementsBus, Bus!Spec
=============================================================================
