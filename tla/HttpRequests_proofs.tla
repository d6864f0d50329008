------------------------- MODULE HttpRequests_proofs -------------------------
(***************************************************************************)
(* For any number of requests and Lua states and responses of any length:  *)
(* each item and its context have one owner and are freed once, a freed    *)
(* item is overtaken within one update only, Lua sees progress grow, and   *)
(* callbacks keep their promise.  What is proved of the queues themselves  *)
(* (EventQueue_proofs) is used for the two queues here.                    *)
(***************************************************************************)
EXTENDS HttpRequests, FiniteSetTheorems, TLAPS

Q == INSTANCE EventQueue_proofs WITH NQueues <- 2, MaxPending <- MaxBytes

-----------------------------------------------------------------------------
(* The two queues, each seen as what is pending in it. *)

Notes == EQ!Pending[ProgressQueue]
Items == EQ!Pending[ItemQueue]

LEMMA QueuePost ==
  ASSUME EQ!TypeOK, NEW q \in {ProgressQueue, ItemQueue}, NEW e \in Events,
         EQ!AddToQueue(q, e)
  PROVE  /\ EQ!TypeOK'
         /\ EQ!Pending' = [EQ!Pending EXCEPT ![q] = Append(@, e)]
<1>1. Q!TypeOK /\ Q!AddToQueue(q, e)
  BY DEF EQ!TypeOK, EQ!AddToQueue, EQ!Queues, EQ!UpdatesCap,
         Q!TypeOK, Q!AddToQueue, Q!Queues, Q!UpdatesCap
<1>2. q \in Q!Queues
  BY DEF Q!Queues, ProgressQueue, ItemQueue
<1>3. Q!TypeOK'
  BY <1>1, <1>2, Q!TypePost
<1>4. Q!Pending' = [Q!Pending EXCEPT ![q] = Append(@, e)]
  BY <1>1, <1>2, Q!PostAppends
<1> QED
  BY <1>3, <1>4
  DEF EQ!TypeOK, EQ!Queues, EQ!UpdatesCap, EQ!Pending,
      Q!TypeOK, Q!Queues, Q!UpdatesCap, Q!Pending

LEMMA QueueDrain ==
  ASSUME EQ!TypeOK, EQ!BeginUpdate \/ EQ!DrainNext \/ EQ!EndUpdate
  PROVE  EQ!TypeOK' /\ EQ!Pending' = EQ!Pending
<1>1. Q!TypeOK /\ (Q!BeginUpdate \/ Q!DrainNext \/ Q!EndUpdate)
  BY DEF EQ!TypeOK, EQ!Queues, EQ!UpdatesCap, EQ!BeginUpdate, EQ!DrainNext,
         EQ!EndUpdate, Q!TypeOK, Q!Queues, Q!UpdatesCap, Q!BeginUpdate,
         Q!DrainNext, Q!EndUpdate
<1>2. 2 \in Nat \ {0}
  OBVIOUS
<1>3. Q!TypeOK'
  BY <1>1, <1>2, Q!TypeMainThread DEF Q!MainThread
<1>4. Q!Pending' = Q!Pending
  BY <1>1, <1>2, Q!DrainKeeps
<1> QED
  BY <1>3, <1>4
  DEF EQ!TypeOK, EQ!Queues, EQ!UpdatesCap, EQ!Pending,
      Q!TypeOK, Q!Queues, Q!UpdatesCap, Q!Pending

LEMMA QueueRun ==
  ASSUME EQ!TypeOK, EQ!RunNext
  PROVE  /\ EQ!TypeOK'
         /\ drained \in {ProgressQueue, ItemQueue}
         /\ EQ!Pending[drained] # <<>>
         /\ Head(EQ!Pending[drained]) = Head(localQueue)
         /\ EQ!Pending' = [EQ!Pending EXCEPT ![drained] = Tail(@)]
         /\ UNCHANGED <<eventQueue, drained>>
<1>1. Q!TypeOK /\ Q!RunNext
  BY DEF EQ!TypeOK, EQ!Queues, EQ!UpdatesCap, EQ!RunNext,
         Q!TypeOK, Q!Queues, Q!UpdatesCap, Q!RunNext
<1>2. 2 \in Nat \ {0}
  OBVIOUS
<1>3. Q!TypeOK'
  BY <1>1, <1>2, Q!TypeMainThread DEF Q!MainThread
<1>4. /\ drained \in Q!Queues
      /\ Q!Pending[drained] # <<>>
      /\ Head(Q!Pending[drained]) = Head(localQueue)
      /\ Q!Pending' = [Q!Pending EXCEPT ![drained] = Tail(@)]
  BY <1>1, <1>2, Q!RunTakesHead
<1>5. drained \in {ProgressQueue, ItemQueue}
  BY <1>4 DEF Q!Queues, ProgressQueue, ItemQueue
<1>6. EQ!TypeOK' /\ EQ!Pending = Q!Pending /\ EQ!Pending' = Q!Pending'
  BY <1>3
  DEF EQ!TypeOK, EQ!Queues, EQ!UpdatesCap, EQ!Pending,
      Q!TypeOK, Q!Queues, Q!UpdatesCap, Q!Pending
<1> QED
  BY <1>4, <1>5, <1>6 DEF EQ!RunNext

(* What is pending are sequences of events. *)
LEMMA PendingType ==
  ASSUME EQ!TypeOK
  PROVE  /\ Notes \in Seq(Events) /\ Items \in Seq(Events)
         /\ EQ!Pending = [q \in {ProgressQueue, ItemQueue} |-> EQ!Pending[q]]
<1>1. /\ eventQueue \in [1..2 -> Seq(Events)]
      /\ localQueue \in Seq(Events)
  BY DEF EQ!TypeOK, EQ!Queues
<1>2. 1..2 = {ProgressQueue, ItemQueue} /\ 1 \in 1..2 /\ 2 \in 1..2
  BY DEF ProgressQueue, ItemQueue
<1>3. ASSUME NEW q \in 1..2
      PROVE  EQ!Pending[q] \in Seq(Events)
  BY <1>1 DEF EQ!Pending, EQ!Queues
<1> QED
  BY <1>2, <1>3 DEF Notes, Items, EQ!Pending, EQ!Queues, ProgressQueue, ItemQueue

-----------------------------------------------------------------------------
(* Type correctness. *)

LEMMA TypeInit == Init => TypeOK
<1> SUFFICES ASSUME Init
             PROVE  TypeOK
  OBVIOUS
<1>1. LuaTypeOK
  BY IncarnationsAssumption DEF Init, LuaInit, LuaTypeOK
<1>2. EQ!TypeOK
  <2>1. 2 \in Nat \ {0} /\ Q!Init
    BY DEF Init, EQ!Init, Q!Init, EQ!Queues, Q!Queues
  <2>2. Q!TypeOK
    BY <2>1, Q!TypeInit
  <2> QED
    BY <2>2 DEF EQ!TypeOK, EQ!Queues, EQ!UpdatesCap, Q!TypeOK, Q!Queues, Q!UpdatesCap
<1>3. /\ byteprogress \in [Requests -> 0..MaxBytes]
      /\ reported \in [Requests -> 0..MaxBytes]
  BY BytesAssumption DEF Init
<1>4. /\ request \in [Requests -> {None}]
      /\ thread \in [Requests -> {"none", "running", "ended"}]
      /\ item \in [Requests -> Block] /\ context \in [Requests -> Block]
      /\ answered = {} /\ staleUse = {}
  BY DEF Init, Block
<1> QED
  BY <1>1, <1>2, <1>3, <1>4 DEF TypeOK

(* The type of a request that was made. *)
Made == [made : {TRUE}, L : States, born : Nat, progress : BOOLEAN]

LEMMA TypeRequest ==
  ASSUME TypeOK, NEW r \in Requests, NEW L \in States, NEW progress \in BOOLEAN,
         dohttpreq(r, L, progress)
  PROVE  TypeOK'
<1> DEFINE m == [made |-> TRUE, L |-> L, born |-> incarnation[L], progress |-> progress]
<1>1. m \in Made
  BY IncarnationsAssumption DEF TypeOK, LuaTypeOK, Made
<1>2. request' = [request EXCEPT ![r] = m]
  BY DEF dohttpreq
<1> HIDE DEF m
<1>3. request' \in [Requests -> {None} \cup Made]
  BY <1>1, <1>2 DEF TypeOK, Made
<1>4. /\ thread' \in [Requests -> {"none", "running", "ended"}]
      /\ item' \in [Requests -> Block] /\ context' \in [Requests -> Block]
  BY DEF TypeOK, dohttpreq, Block
<1>5. UNCHANGED <<byteprogress, queueVars, luaHttpVars, luaVars>>
  BY DEF dohttpreq
<1> QED
  BY <1>3, <1>4, <1>5
  DEF TypeOK, Made, LuaTypeOK, EQ!TypeOK, queueVars, luaHttpVars, luaVars

LEMMA TypeTransfer ==
  ASSUME TypeOK, NEW r \in Requests, Transfer(r)
  PROVE  TypeOK'
<1>1. ASSUME NEW total \in 0..MaxBytes, NEW now \in 0..MaxBytes,
             http_progress_call(r, total, now)
      PROVE  TypeOK'
  <2> DEFINE e == [kind |-> "progress", req |-> r, now |-> now]
  <2>1. now \in 1..MaxBytes
    BY <1>1, BytesAssumption DEF http_progress_call, Reportable
  <2>2. e \in Events /\ ProgressQueue \in {ProgressQueue, ItemQueue}
    BY <2>1 DEF Events
  <2>3. EQ!AddToQueue(ProgressQueue, e) /\ EQ!TypeOK
    BY <1>1 DEF http_progress_call, TypeOK
  <2> HIDE DEF e
  <2>4. EQ!TypeOK'
    BY <2>2, <2>3, QueuePost
  <2>5. byteprogress' \in [Requests -> 0..MaxBytes]
    BY <1>1 DEF TypeOK, http_progress_call
  <2> QED
    BY <1>1, <2>4, <2>5 DEF http_progress_call, TypeOK, luaHttpVars, luaVars, LuaTypeOK
<1>2. CASE FinishTransfer(r)
  <2> DEFINE e == [kind |-> "item", req |-> r]
  <2>1. e \in Events /\ ItemQueue \in {ProgressQueue, ItemQueue}
    BY DEF Events
  <2>2. EQ!AddToQueue(ItemQueue, e) /\ EQ!TypeOK
    BY <1>2 DEF FinishTransfer, TypeOK
  <2> HIDE DEF e
  <2>3. EQ!TypeOK'
    BY <2>1, <2>2, QueuePost
  <2>4. thread' \in [Requests -> {"none", "running", "ended"}]
    BY <1>2 DEF TypeOK, FinishTransfer
  <2> QED
    BY <1>2, <2>3, <2>4 DEF FinishTransfer, TypeOK, luaHttpVars, luaVars, LuaTypeOK
<1> QED
  BY <1>1, <1>2 DEF Transfer

LEMMA TypeUpdate ==
  ASSUME TypeOK, Update
  PROVE  TypeOK'
<1>0. EQ!TypeOK
  BY DEF TypeOK
<1>1. CASE BeginUpdate \/ DrainNext \/ EndUpdate
  <2>1. EQ!TypeOK'
    BY <1>0, <1>1, QueueDrain DEF BeginUpdate, DrainNext, EndUpdate
  <2>2. UNCHANGED <<requestVars, luaHttpVars, luaVars>>
    BY <1>1 DEF BeginUpdate, DrainNext, EndUpdate
  <2> QED
    BY <2>1, <2>2 DEF TypeOK, LuaTypeOK, requestVars, luaHttpVars, luaVars
<1>2. CASE run_http_progress_event \/ run_http_event
  <2> DEFINE e == Head(localQueue)
  <2>1. EQ!TypeOK' /\ localQueue # <<>> /\ localQueue \in Seq(Events)
    BY <1>0, <1>2, QueueRun
    DEF run_http_progress_event, run_http_event, EQ!RunNext, EQ!TypeOK
  <2>2. e \in Events
    BY <2>1
  <2>3. e.req \in Requests
    BY <2>2 DEF Events
  <2>4. staleUse' \subseteq Requests
    BY <1>2, <2>3 DEF run_http_progress_event, run_http_event, TypeOK
  <2>5. CASE run_http_progress_event
    <3>1. e.kind = "progress" /\ e.now \in 0..MaxBytes
      BY <2>2, <2>5, BytesAssumption DEF run_http_progress_event, Events
    <3>2. PICK whose \in TakenFor(e.req) :
            reported' = [s \in Requests |->
              IF s \in whose /\ check_active_state(request[s].L)
              THEN e.now ELSE reported[s]]
      BY <2>5 DEF run_http_progress_event
    <3> HIDE DEF e
    <3>3. reported' \in [Requests -> 0..MaxBytes]
      BY <3>1, <3>2 DEF TypeOK
    <3> QED
      BY <2>1, <2>4, <2>5, <3>3
      DEF run_http_progress_event, TypeOK, LuaTypeOK, requestVars, luaVars
  <2>6. CASE run_http_event
    <3>1. /\ answered' \subseteq Requests
          /\ item' \in [Requests -> Block] /\ context' \in [Requests -> Block]
      BY <2>3, <2>6 DEF run_http_event, TypeOK, Block
    <3> QED
      BY <2>1, <2>4, <2>6, <3>1
      DEF run_http_event, TypeOK, LuaTypeOK, luaVars
  <2> QED
    BY <1>2, <2>5, <2>6
<1> QED
  BY <1>1, <1>2 DEF Update

LEMMA TypeLuaStates ==
  ASSUME TypeOK, NEW L \in States, CreateState(L) \/ CloseState(L)
  PROVE  TypeOK'
<1>1. LuaTypeOK'
  BY IncarnationsAssumption
  DEF TypeOK, LuaTypeOK, CreateState, CloseState, initiate_lua, close
<1>2. UNCHANGED <<queueVars, requestVars, luaHttpVars>>
  BY DEF CreateState, CloseState
<1> QED
  BY <1>1, <1>2 DEF TypeOK, EQ!TypeOK, queueVars, requestVars, luaHttpVars

LEMMA TypeStep ==
  ASSUME TypeOK, [Next]_vars
  PROVE  TypeOK'
<1>1. CASE Lua
  BY <1>1, TypeRequest, TypeLuaStates DEF Lua
<1>2. CASE Update
  BY <1>2, TypeUpdate
<1>3. ASSUME NEW r \in Requests, Transfer(r)
      PROVE  TypeOK'
  BY <1>3, TypeTransfer
<1>4. CASE UNCHANGED vars
  BY <1>4
  DEF vars, TypeOK, EQ!TypeOK, LuaTypeOK, queueVars, requestVars, luaHttpVars, luaVars
<1> QED
  BY <1>1, <1>2, <1>3, <1>4 DEF Next

(* Every variable keeps its type. *)
THEOREM TypeCorrect == Spec => []TypeOK
<1>1. TypeOK /\ [Next]_vars => TypeOK'
  BY TypeStep
<1> QED
  BY <1>1, TypeInit, PTL DEF Spec

-----------------------------------------------------------------------------
(* Who owns an item. *)

Running(r) == thread[r] = "running"
Posted(r) == \E i \in DOMAIN Items : Items[i].req = r

(* The queues hold what their names say; an item is in its queue once, and *)
(* lives exactly while its thread runs or it waits there.                  *)
OwnerInv ==
  /\ \A i \in DOMAIN Notes : Notes[i].kind = "progress"
  /\ \A i \in DOMAIN Items : Items[i].kind = "item"
  /\ \A i, j \in DOMAIN Items : Items[i].req = Items[j].req => i = j
  /\ \A r \in Requests :
       /\ item[r] = "live" <=> Running(r) \/ Posted(r)
       /\ ~(Running(r) /\ Posted(r))
       /\ context[r] = item[r]
       /\ item[r] = "none" <=> request[r] = None
       /\ r \in answered => item[r] = "freed"

(* The head of a sequence, and what is left without it. *)
LEMMA WithoutHead ==
  ASSUME NEW S, NEW s \in Seq(S), s # <<>>
  PROVE  /\ 1 \in DOMAIN s /\ Head(s) = s[1]
         /\ Tail(s) \in Seq(S)
         /\ \A i \in DOMAIN Tail(s) : i + 1 \in DOMAIN s /\ Tail(s)[i] = s[i + 1]
         /\ \A i \in DOMAIN s : i # 1 => i - 1 \in DOMAIN Tail(s)
         /\ DOMAIN s \subseteq Nat
  OBVIOUS

(* A sequence with one more element. *)
LEMMA WithOneMore ==
  ASSUME NEW S, NEW s \in Seq(S), NEW e \in S
  PROVE  /\ Append(s, e) \in Seq(S)
         /\ Len(s) + 1 \notin DOMAIN s
         /\ DOMAIN Append(s, e) = DOMAIN s \cup {Len(s) + 1}
         /\ \A i \in DOMAIN s : Append(s, e)[i] = s[i] /\ i < Len(s) + 1 /\ i \in Nat
         /\ Append(s, e)[Len(s) + 1] = e
         /\ Len(s) \in Nat
  OBVIOUS

(* A callback takes the oldest event of the queue that holds its kind. *)
LEMMA TakesNote ==
  ASSUME TypeOK, OwnerInv, run_http_progress_event
  PROVE  /\ Notes # <<>> /\ Head(Notes) = Head(localQueue)
         /\ drained = ProgressQueue
         /\ Notes' = Tail(Notes) /\ Items' = Items
<1>1. EQ!TypeOK /\ EQ!RunNext /\ Head(localQueue).kind = "progress"
  BY DEF TypeOK, run_http_progress_event
<1>2. /\ drained \in {ProgressQueue, ItemQueue}
      /\ EQ!Pending[drained] # <<>>
      /\ Head(EQ!Pending[drained]) = Head(localQueue)
      /\ EQ!Pending' = [EQ!Pending EXCEPT ![drained] = Tail(@)]
  BY <1>1, QueueRun
<1>3. drained # ItemQueue
  <2> SUFFICES ASSUME drained = ItemQueue
               PROVE  FALSE
    OBVIOUS
  <2>1. Items # <<>> /\ Items \in Seq(Events) /\ Head(Items).kind = "progress"
    BY <1>1, <1>2, PendingType DEF Items
  <2> QED
    BY <2>1, WithoutHead DEF OwnerInv
<1>4. ProgressQueue # ItemQueue
  BY DEF ProgressQueue, ItemQueue
<1> QED
  BY <1>1, <1>2, <1>3, <1>4, PendingType DEF Notes, Items

LEMMA TakesItem ==
  ASSUME TypeOK, OwnerInv, run_http_event
  PROVE  /\ Items # <<>> /\ Head(Items) = Head(localQueue)
         /\ drained = ItemQueue
         /\ Items' = Tail(Items) /\ Notes' = Notes
<1>1. EQ!TypeOK /\ EQ!RunNext /\ Head(localQueue).kind = "item"
  BY DEF TypeOK, run_http_event
<1>2. /\ drained \in {ProgressQueue, ItemQueue}
      /\ EQ!Pending[drained] # <<>>
      /\ Head(EQ!Pending[drained]) = Head(localQueue)
      /\ EQ!Pending' = [EQ!Pending EXCEPT ![drained] = Tail(@)]
  BY <1>1, QueueRun
<1>3. drained # ProgressQueue
  <2> SUFFICES ASSUME drained = ProgressQueue
               PROVE  FALSE
    OBVIOUS
  <2>1. Notes # <<>> /\ Notes \in Seq(Events) /\ Head(Notes).kind = "item"
    BY <1>1, <1>2, PendingType DEF Notes
  <2> QED
    BY <2>1, WithoutHead DEF OwnerInv
<1>4. ProgressQueue # ItemQueue
  BY DEF ProgressQueue, ItemQueue
<1> QED
  BY <1>1, <1>2, <1>3, <1>4, PendingType DEF Notes, Items

(* libcurl's report becomes the youngest notification. *)
LEMMA PostsNote ==
  ASSUME TypeOK, NEW r \in Requests, NEW total, NEW now \in 0..MaxBytes,
         http_progress_call(r, total, now)
  PROVE  /\ [kind |-> "progress", req |-> r, now |-> now] \in Events
         /\ Notes' = Append(Notes, [kind |-> "progress", req |-> r, now |-> now])
         /\ Items' = Items
<1> DEFINE e == [kind |-> "progress", req |-> r, now |-> now]
<1>1. e \in Events
  BY BytesAssumption DEF http_progress_call, Reportable, Events
<1>2. EQ!AddToQueue(ProgressQueue, e) /\ EQ!TypeOK
  BY DEF http_progress_call, TypeOK
<1> HIDE DEF e
<1>3. EQ!Pending' = [EQ!Pending EXCEPT ![ProgressQueue] = Append(@, e)]
  BY <1>1, <1>2, QueuePost
<1>4. Notes' = Append(Notes, e) /\ Items' = Items
  BY <1>2, <1>3, PendingType DEF Notes, Items, ProgressQueue, ItemQueue
<1> QED
  BY <1>1, <1>4 DEF e

(* The end of a transfer hands its item over. *)
LEMMA PostsItem ==
  ASSUME TypeOK, NEW r \in Requests, FinishTransfer(r)
  PROVE  /\ [kind |-> "item", req |-> r] \in Events
         /\ Items' = Append(Items, [kind |-> "item", req |-> r])
         /\ Notes' = Notes
<1> DEFINE e == [kind |-> "item", req |-> r]
<1>1. e \in Events
  BY DEF Events
<1>2. EQ!AddToQueue(ItemQueue, e) /\ EQ!TypeOK
  BY DEF FinishTransfer, TypeOK
<1> HIDE DEF e
<1>3. EQ!Pending' = [EQ!Pending EXCEPT ![ItemQueue] = Append(@, e)]
  BY <1>1, <1>2, QueuePost
<1>4. Items' = Append(Items, e) /\ Notes' = Notes
  BY <1>2, <1>3, PendingType DEF Notes, Items, ProgressQueue, ItemQueue
<1> QED
  BY <1>1, <1>4 DEF e

LEMMA OwnerRequest ==
  ASSUME TypeOK, OwnerInv, NEW r \in Requests, NEW L \in States,
         NEW progress \in BOOLEAN, dohttpreq(r, L, progress)
  PROVE  OwnerInv'
<1> DEFINE m == [made |-> TRUE, L |-> L, born |-> incarnation[L], progress |-> progress]
<1>1. UNCHANGED <<Notes, Items, answered>>
  BY DEF dohttpreq, queueVars, Notes, Items, EQ!Pending, luaHttpVars
<1>2. request' = [request EXCEPT ![r] = m] /\ m # None
  <2>1. m.made # None.made
    BY DEF None
  <2> QED
    BY <2>1 DEF dohttpreq
<1> HIDE DEF m
<1>3. item[r] = "none"
  BY DEF OwnerInv, dohttpreq
<1>4. ASSUME NEW s \in Requests
      PROVE  (/\ item[s] = "live" <=> Running(s) \/ Posted(s)
              /\ ~(Running(s) /\ Posted(s))
              /\ context[s] = item[s]
              /\ item[s] = "none" <=> request[s] = None
              /\ s \in answered => item[s] = "freed")'
  <2>1. Posted(s)' <=> Posted(s)
    BY <1>1 DEF Posted
  <2>2. CASE s = r
    <3>1. /\ item'[s] = "live" /\ context'[s] = "live" /\ Running(s)'
          /\ request'[s] = m
      BY <1>2, <2>2 DEF dohttpreq, TypeOK, Running
    <3>2. ~Posted(s) /\ s \notin answered
      BY <1>3, <2>2 DEF OwnerInv
    <3> QED
      BY <1>1, <1>2, <2>1, <3>1, <3>2
  <2>3. CASE s # r
    <3>1. /\ item'[s] = item[s] /\ context'[s] = context[s]
          /\ Running(s)' <=> Running(s)
          /\ request'[s] = request[s]
      BY <1>2, <2>3 DEF dohttpreq, TypeOK, Running
    <3> QED
      BY <1>1, <2>1, <3>1 DEF OwnerInv
  <2> QED
    BY <2>2, <2>3
<1> QED
  BY <1>1, <1>4 DEF OwnerInv

LEMMA OwnerTransfer ==
  ASSUME TypeOK, OwnerInv, NEW r \in Requests, Transfer(r)
  PROVE  OwnerInv'
<1>1. ASSUME NEW total \in 0..MaxBytes, NEW now \in 0..MaxBytes,
             http_progress_call(r, total, now)
      PROVE  OwnerInv'
  <2> DEFINE e == [kind |-> "progress", req |-> r, now |-> now]
  <2>1. e \in Events /\ Notes' = Append(Notes, e) /\ Items' = Items
        /\ e.kind = "progress"
    BY <1>1, PostsNote
  <2> HIDE DEF e
  <2>2. UNCHANGED <<request, thread, item, context, answered>>
    BY <1>1 DEF http_progress_call, luaHttpVars
  <2>3. \A i \in DOMAIN Notes' : Notes'[i].kind = "progress"
    <3>1. Notes \in Seq(Events)
      BY PendingType DEF TypeOK
    <3> QED
      BY <2>1, <3>1, WithOneMore DEF OwnerInv
  <2> QED
    BY <2>1, <2>2, <2>3 DEF OwnerInv, Running, Posted
<1>2. CASE FinishTransfer(r)
  <2> DEFINE e == [kind |-> "item", req |-> r]
  <2>1. /\ e \in Events /\ Items' = Append(Items, e) /\ Notes' = Notes
        /\ e.kind = "item" /\ e.req = r
    BY <1>2, PostsItem
  <2> HIDE DEF e
  <2>2. /\ UNCHANGED <<request, item, context, answered>>
        /\ Running(r) /\ thread' = [thread EXCEPT ![r] = "ended"]
    BY <1>2 DEF FinishTransfer, luaHttpVars, Running
  <2>3. /\ Items \in Seq(Events)
        /\ \A i \in DOMAIN Items : Items[i].req # r
    BY <2>2, PendingType DEF TypeOK, OwnerInv, Posted
  <2>4. /\ \A i \in DOMAIN Items' : Items'[i].kind = "item"
        /\ \A i, j \in DOMAIN Items' : Items'[i].req = Items'[j].req => i = j
    BY <2>1, <2>3, WithOneMore DEF OwnerInv
  <2>5. \A s : Posted(s)' <=> Posted(s) \/ s = r
    BY <2>1, <2>3, WithOneMore DEF Posted
  <2>6. \A s \in Requests : Running(s)' <=> Running(s) /\ s # r
    BY <2>2 DEF Running, TypeOK
  <2> QED
    BY <2>1, <2>2, <2>4, <2>5, <2>6 DEF OwnerInv
<1> QED
  BY <1>1, <1>2 DEF Transfer

LEMMA OwnerUpdate ==
  ASSUME TypeOK, OwnerInv, Update
  PROVE  OwnerInv'
<1>1. CASE BeginUpdate \/ DrainNext \/ EndUpdate
  <2>1. EQ!TypeOK /\ (EQ!BeginUpdate \/ EQ!DrainNext \/ EQ!EndUpdate)
    BY <1>1 DEF TypeOK, BeginUpdate, DrainNext, EndUpdate
  <2>2. Notes' = Notes /\ Items' = Items
    BY <2>1, QueueDrain DEF Notes, Items
  <2>3. UNCHANGED <<request, thread, item, context, answered>>
    BY <1>1 DEF BeginUpdate, DrainNext, EndUpdate, requestVars, luaHttpVars
  <2> QED
    BY <2>2, <2>3 DEF OwnerInv, Running, Posted
<1>2. CASE run_http_progress_event
  <2>1. /\ Notes # <<>> /\ Notes \in Seq(Events)
        /\ Notes' = Tail(Notes) /\ Items' = Items
    BY <1>2, TakesNote, PendingType DEF TypeOK
  <2>2. UNCHANGED <<request, thread, item, context, answered>>
    BY <1>2 DEF run_http_progress_event, requestVars
  <2>3. \A i \in DOMAIN Notes' : Notes'[i].kind = "progress"
    BY <2>1, WithoutHead DEF OwnerInv
  <2> QED
    BY <2>1, <2>2, <2>3 DEF OwnerInv, Running, Posted
<1>3. CASE run_http_event
  <2>1. /\ Items # <<>> /\ Items \in Seq(Events) /\ Head(Items) = Head(localQueue)
        /\ Items' = Tail(Items) /\ Notes' = Notes
    BY <1>3, TakesItem, PendingType DEF TypeOK
  <2>2. PICK r : r = Head(localQueue).req
    OBVIOUS
  <2>3. /\ UNCHANGED <<request, thread>>
        /\ answered' \subseteq answered \cup {r}
        /\ context' = [context EXCEPT ![r] = "freed"]
        /\ item' = [item EXCEPT ![r] = "freed"]
    BY <1>3, <2>2 DEF run_http_event
  <2>4. 1 \in DOMAIN Items /\ Items[1].req = r /\ r \in Requests
    <3>1. Items[1] \in Events
      BY <2>1, WithoutHead
    <3> QED
      BY <2>1, <2>2, <3>1, WithoutHead DEF Events
  <2>5. /\ \A i \in DOMAIN Items' : Items'[i].kind = "item"
        /\ \A i, j \in DOMAIN Items' : Items'[i].req = Items'[j].req => i = j
    <3>1. \A i \in DOMAIN Items' : i \in Nat /\ i + 1 \in DOMAIN Items
                                  /\ Items'[i] = Items[i + 1]
      BY <2>1, WithoutHead
    <3>2. ASSUME NEW i \in DOMAIN Items', NEW j \in DOMAIN Items',
                 Items'[i].req = Items'[j].req
          PROVE  i = j
      <4>1. i + 1 = j + 1
        BY <3>1, <3>2 DEF OwnerInv
      <4> QED
        BY <3>1, <4>1
    <3> QED
      BY <3>1, <3>2 DEF OwnerInv
  <2>6. \A s : Posted(s)' <=> Posted(s) /\ s # r
    <3>1. \A i \in DOMAIN Items : Items[i].req = r <=> i = 1
      BY <2>4 DEF OwnerInv
    <3>2. /\ \A i \in DOMAIN Items' : i \in Nat /\ i + 1 \in DOMAIN Items /\ i + 1 # 1
                                    /\ Items'[i] = Items[i + 1]
          /\ \A i \in DOMAIN Items : i # 1 => i - 1 \in DOMAIN Items'
                                              /\ Items'[i - 1] = Items[i]
      BY <2>1, WithoutHead
    <3> QED
      BY <3>1, <3>2 DEF Posted
  <2>7. Posted(r) /\ ~Running(r)
    BY <2>4 DEF Posted, OwnerInv
  <2>8. ASSUME NEW s \in Requests
        PROVE  (/\ item[s] = "live" <=> Running(s) \/ Posted(s)
                /\ ~(Running(s) /\ Posted(s))
                /\ context[s] = item[s]
                /\ item[s] = "none" <=> request[s] = None
                /\ s \in answered => item[s] = "freed")'
    BY <2>3, <2>4, <2>6, <2>7 DEF OwnerInv, Running, TypeOK
  <2> QED
    BY <2>1, <2>5, <2>8, <1>3, TakesItem DEF OwnerInv
<1> QED
  BY <1>1, <1>2, <1>3 DEF Update

LEMMA OwnerStep ==
  ASSUME TypeOK, OwnerInv, [Next]_vars
  PROVE  OwnerInv'
<1>1. ASSUME NEW L \in States, NEW r \in Requests, NEW progress \in BOOLEAN,
             dohttpreq(r, L, progress)
      PROVE  OwnerInv'
  BY <1>1, OwnerRequest
<1>2. CASE Update
  BY <1>2, OwnerUpdate
<1>3. ASSUME NEW r \in Requests, Transfer(r)
      PROVE  OwnerInv'
  BY <1>3, OwnerTransfer
<1>4. CASE UNCHANGED <<queueVars, requestVars, luaHttpVars>>
  <2>1. UNCHANGED <<Notes, Items>>
    BY <1>4 DEF Notes, Items, EQ!Pending, queueVars
  <2> QED
    BY <1>4, <2>1 DEF OwnerInv, Running, Posted, requestVars, luaHttpVars
<1> QED
  BY <1>1, <1>2, <1>3, <1>4 DEF Next, Lua, CreateState, CloseState, vars

LEMMA OwnerInvariant == Spec => []OwnerInv
<1>1. Init => OwnerInv
  <2> SUFFICES ASSUME Init
               PROVE  OwnerInv
    OBVIOUS
  <2>1. Notes = <<>> /\ Items = <<>>
    BY DEF Init, EQ!Init, Notes, Items, EQ!Pending, EQ!Queues, ProgressQueue, ItemQueue
  <2> QED
    BY <2>1 DEF Init, OwnerInv, Running, Posted
<1>2. TypeOK /\ OwnerInv /\ [Next]_vars => OwnerInv'
  BY OwnerStep
<1> QED
  BY <1>1, <1>2, TypeCorrect, PTL DEF Spec
-----------------------------------------------------------------------------
(* One owner: where ItemOwnedOnce counts the entries of the item queue. *)

(* An item of the queue is in its deque or among those being run; what is  *)
(* being run from the progress queue is no item.                           *)
LEMMA WhereItemsAre ==
  ASSUME TypeOK, OwnerInv, NEW n, n = IF drained = ItemQueue THEN Len(localQueue) ELSE 0
  PROVE  /\ n \in Nat
         /\ \A i \in DOMAIN eventQueue[ItemQueue] :
              /\ i \in Nat /\ n + i \in DOMAIN Items /\ n < n + i
              /\ Items[n + i] = eventQueue[ItemQueue][i]
         /\ \A i \in DOMAIN localQueue :
              \/ localQueue[i].kind # "item"
              \/ i \in Nat /\ i <= n /\ i \in DOMAIN Items /\ Items[i] = localQueue[i]
         /\ \A k \in DOMAIN Items :
              \/ k \in DOMAIN localQueue /\ Items[k] = localQueue[k]
              \/ \E i \in DOMAIN eventQueue[ItemQueue] : k = n + i
<1>1. /\ localQueue \in Seq(Events) /\ eventQueue[1] \in Seq(Events)
      /\ eventQueue[2] \in Seq(Events) /\ drained \in 0..2
      /\ localQueue # <<>> => drained # 0
  BY DEF TypeOK, EQ!TypeOK, EQ!Queues
<1>2. /\ Items = (IF drained = 2 THEN localQueue ELSE <<>>) \o eventQueue[2]
      /\ Notes = (IF drained = 1 THEN localQueue ELSE <<>>) \o eventQueue[1]
  <2>1. 1 \in 1..2 /\ 2 \in 1..2
    OBVIOUS
  <2>2. \A q \in 1..2 :
          EQ!Pending[q] = (IF drained = q THEN localQueue ELSE <<>>) \o eventQueue[q]
    BY <1>1 DEF EQ!Pending, EQ!Queues
  <2> QED
    BY <2>1, <2>2 DEF Items, Notes, ItemQueue, ProgressQueue
<1>3. CASE drained = 2
  <2>1. Items = localQueue \o eventQueue[2] /\ n = Len(localQueue)
    BY <1>2, <1>3 DEF ItemQueue
  <2>2. /\ DOMAIN Items = 1..(Len(localQueue) + Len(eventQueue[2]))
        /\ DOMAIN localQueue = 1..Len(localQueue) /\ Len(localQueue) \in Nat
        /\ DOMAIN eventQueue[2] = 1..Len(eventQueue[2]) /\ Len(eventQueue[2]) \in Nat
        /\ \A i \in 1..Len(localQueue) : Items[i] = localQueue[i]
        /\ \A i \in 1..Len(eventQueue[2]) : Items[Len(localQueue) + i] = eventQueue[2][i]
    BY <1>1, <2>1
  <2>3. ASSUME NEW k \in DOMAIN Items, k \notin DOMAIN localQueue
        PROVE  \E i \in DOMAIN eventQueue[2] : k = n + i
    <3>1. k - n \in DOMAIN eventQueue[2] /\ k = n + (k - n)
      BY <2>1, <2>2, <2>3
    <3> QED
      BY <3>1
  <2> QED
    BY <2>1, <2>2, <2>3 DEF ItemQueue
<1>4. CASE drained # 2
  <2>1. Items = eventQueue[2] /\ n = 0
    BY <1>1, <1>2, <1>4 DEF ItemQueue
  <2>2. ASSUME NEW i \in DOMAIN localQueue
        PROVE  localQueue[i].kind # "item"
    <3>1. drained = 1
      BY <1>1, <1>4
    <3>2. i \in DOMAIN Notes /\ Notes[i] = localQueue[i]
      BY <1>1, <1>2, <3>1
    <3> QED
      BY <3>2 DEF OwnerInv
  <2> QED
    BY <1>1, <2>1, <2>2 DEF ItemQueue
<1> QED
  BY <1>3, <1>4

LEMMA PlacesCount ==
  ASSUME TypeOK, OwnerInv, NEW r \in Requests
  PROVE  Cardinality(Places(r)) = IF Posted(r) THEN 1 ELSE 0
<1> DEFINE n == IF drained = ItemQueue THEN Len(localQueue) ELSE 0
           At(p) == IF p[1] = 0 THEN p[2] ELSE n + p[2]
<1>1. /\ n \in Nat
      /\ \A i \in DOMAIN eventQueue[ItemQueue] :
           /\ i \in Nat /\ n + i \in DOMAIN Items /\ n < n + i
           /\ Items[n + i] = eventQueue[ItemQueue][i]
      /\ \A i \in DOMAIN localQueue :
           \/ localQueue[i].kind # "item"
           \/ i \in Nat /\ i <= n /\ i \in DOMAIN Items /\ Items[i] = localQueue[i]
      /\ \A k \in DOMAIN Items :
           \/ k \in DOMAIN localQueue /\ Items[k] = localQueue[k]
           \/ \E i \in DOMAIN eventQueue[ItemQueue] : k = n + i
  BY WhereItemsAre
<1>2. ItemQueue # 0
  BY DEF ItemQueue
<1> HIDE DEF n
(* Each place stands for one position of the queue, which holds r's item. *)
<1>3. ASSUME NEW p \in Places(r)
      PROVE  /\ At(p) \in DOMAIN Items /\ Items[At(p)].req = r
             /\ \/ p[1] = 0 /\ p[2] \in Nat /\ At(p) <= n
                \/ p[1] = ItemQueue /\ p[2] \in Nat /\ n < At(p)
             /\ p = <<p[1], p[2]>>
  <2>1. CASE \E i \in DOMAIN eventQueue[ItemQueue] :
               eventQueue[ItemQueue][i].req = r /\ p = <<ItemQueue, i>>
    BY <1>1, <1>2, <2>1
  <2>2. CASE \E i \in DOMAIN localQueue :
               localQueue[i] = [kind |-> "item", req |-> r] /\ p = <<0, i>>
    <3>1. PICK i \in DOMAIN localQueue :
            localQueue[i] = [kind |-> "item", req |-> r] /\ p = <<0, i>>
      BY <2>2
    <3>2. localQueue[i].kind = "item" /\ localQueue[i].req = r
      BY <3>1
    <3> QED
      BY <1>1, <3>1, <3>2
  <2> QED
    BY <2>1, <2>2 DEF Places
<1>4. ASSUME NEW p \in Places(r), NEW q \in Places(r)
      PROVE  p = q
  <2>1. At(p) = At(q)
    BY <1>3 DEF OwnerInv
  <2>2. p[1] = q[1]
    BY <1>1, <1>2, <1>3, <2>1
  <2>3. p[2] = q[2]
    BY <1>1, <1>3, <2>1, <2>2
  <2> QED
    BY <1>3, <2>2, <2>3
<1>5. CASE Posted(r)
  <2>1. PICK k \in DOMAIN Items : Items[k].req = r
    BY <1>5 DEF Posted
  <2>2. Items[k] = [kind |-> "item", req |-> r]
    <3>1. Items[k] \in Events /\ Items[k].kind = "item"
      BY PendingType DEF TypeOK, OwnerInv
    <3> QED
      BY <2>1, <3>1 DEF Events
  <2>3. Places(r) # {}
    <3>1. CASE k \in DOMAIN localQueue /\ Items[k] = localQueue[k]
      BY <2>2, <3>1 DEF Places
    <3>2. CASE \E i \in DOMAIN eventQueue[ItemQueue] : k = n + i
      <4>1. PICK i \in DOMAIN eventQueue[ItemQueue] : k = n + i
        BY <3>2
      <4>2. eventQueue[ItemQueue][i].req = r
        BY <1>1, <2>1, <4>1
      <4> QED
        BY <4>2 DEF Places
    <3> QED
      BY <1>1, <3>1, <3>2
  <2>4. PICK p : Places(r) = {p}
    BY <1>4, <2>3
  <2> QED
    BY <1>5, <2>4, FS_Singleton
<1>6. CASE ~Posted(r)
  <2>1. Places(r) = {}
    BY <1>3, <1>6 DEF Posted
  <2> QED
    BY <1>6, <2>1, FS_EmptySet
<1> QED
  BY <1>5, <1>6

(* An item and its lua_http_data belong to the request's thread or to one  *)
(* entry of the item queue, and are freed together when they leave it.     *)
THEOREM ItemOwned == Spec => []ItemOwnedOnce
<1>1. TypeOK /\ OwnerInv => ItemOwnedOnce
  <2> SUFFICES ASSUME TypeOK, OwnerInv, NEW r \in Requests
               PROVE  /\ Cardinality(Places(r)) + (IF Running(r) THEN 1 ELSE 0)
                           = IF item[r] = "live" THEN 1 ELSE 0
                      /\ context[r] = item[r]
                      /\ (item[r] = "none") <=> (request[r] = None)
    BY DEF ItemOwnedOnce, Running
  <2>1. /\ item[r] = "live" <=> Running(r) \/ Posted(r)
        /\ ~(Running(r) /\ Posted(r))
        /\ context[r] = item[r]
        /\ item[r] = "none" <=> request[r] = None
    BY DEF OwnerInv
  <2>2. Cardinality(Places(r)) = IF Posted(r) THEN 1 ELSE 0
    BY PlacesCount
  <2>3. CASE Running(r)
    BY <2>1, <2>2, <2>3
  <2>4. CASE ~Running(r)
    BY <2>1, <2>2, <2>4
  <2> QED
    BY <2>3, <2>4
<1> QED
  BY <1>1, TypeCorrect, OwnerInvariant, PTL

-----------------------------------------------------------------------------
(* Overtaking. *)

(* Since the progress queue was drained in this update, a thread posts only *)
(* for an item it owns, and no item is freed before the item queue's turn.  *)
OvertakenInv ==
  drained = ProgressQueue =>
    \A i \in DOMAIN eventQueue[ProgressQueue] :
      item[eventQueue[ProgressQueue][i].req] = "live"

LEMMA OvertakenStep ==
  ASSUME TypeOK, OwnerInv, OvertakenInv, [Next]_vars
  PROVE  OvertakenInv'
<1>0. /\ ProgressQueue = 1 /\ ItemQueue = 2
      /\ eventQueue \in [1..2 -> Seq(Events)] /\ drained \in 0..2
  BY DEF TypeOK, EQ!TypeOK, EQ!Queues, ProgressQueue, ItemQueue
<1>1. ASSUME NEW r \in Requests, NEW L \in States, NEW progress \in BOOLEAN,
             dohttpreq(r, L, progress)
      PROVE  OvertakenInv'
  <2>1. UNCHANGED <<eventQueue, drained>> /\ item' = [item EXCEPT ![r] = "live"]
    BY <1>1 DEF dohttpreq, queueVars
  <2>2. ASSUME NEW i \in DOMAIN eventQueue[1]
        PROVE  eventQueue[1][i].req \in Requests
    <3>1. eventQueue[1][i] \in Events
      BY <1>0
    <3> QED
      BY <3>1 DEF Events
  <2> QED
    BY <1>0, <2>1, <2>2 DEF OvertakenInv, TypeOK
<1>2. ASSUME NEW r \in Requests, NEW total \in 0..MaxBytes, NEW now \in 0..MaxBytes,
             http_progress_call(r, total, now)
      PROVE  OvertakenInv'
  <2> DEFINE e == [kind |-> "progress", req |-> r, now |-> now]
  <2>1. e \in Events /\ e.req = r
    BY <1>2, PostsNote
  <2>2. /\ eventQueue' = [eventQueue EXCEPT ![1] = Append(@, e)]
        /\ UNCHANGED <<drained, item>>
    BY <1>0, <1>2 DEF http_progress_call, EQ!AddToQueue
  <2>3. item[r] = "live"
    BY <1>2 DEF http_progress_call, OwnerInv, Running
  <2> HIDE DEF e
  <2>4. eventQueue[1] \in Seq(Events) /\ eventQueue'[1] = Append(eventQueue[1], e)
    BY <1>0, <2>2
  <2> QED
    BY <1>0, <2>1, <2>2, <2>3, <2>4, WithOneMore DEF OvertakenInv
<1>3. ASSUME NEW r \in Requests, FinishTransfer(r)
      PROVE  OvertakenInv'
  <2>1. eventQueue'[1] = eventQueue[1] /\ UNCHANGED <<drained, item>>
    BY <1>0, <1>3 DEF FinishTransfer, EQ!AddToQueue
  <2> QED
    BY <1>0, <2>1 DEF OvertakenInv
<1>4. CASE BeginUpdate \/ EndUpdate
  <2>1. drained' # 1
    BY <1>4 DEF BeginUpdate, EndUpdate, EQ!BeginUpdate, EQ!EndUpdate
  <2> QED
    BY <1>0, <2>1 DEF OvertakenInv
<1>5. CASE DrainNext
  <2>1. /\ drained' = drained + 1
        /\ eventQueue' = [eventQueue EXCEPT ![drained + 1] = <<>>]
    BY <1>5 DEF DrainNext, EQ!DrainNext
  <2>2. CASE drained = 0
    <3>1. eventQueue'[1] = <<>>
      BY <1>0, <2>1, <2>2
    <3> QED
      BY <1>0, <3>1 DEF OvertakenInv
  <2>3. CASE drained # 0
    <3>1. drained' # 1
      BY <1>0, <2>1, <2>3
    <3> QED
      BY <1>0, <3>1 DEF OvertakenInv
  <2> QED
    BY <2>2, <2>3
<1>6. CASE run_http_progress_event
  <2>1. UNCHANGED <<eventQueue, drained, item>>
    BY <1>6 DEF run_http_progress_event, EQ!RunNext, requestVars
  <2> QED
    BY <2>1 DEF OvertakenInv
<1>7. CASE run_http_event
  <2>1. drained = 2 /\ drained' = drained
    BY <1>0, <1>7, TakesItem DEF run_http_event, EQ!RunNext
  <2> QED
    BY <1>0, <2>1 DEF OvertakenInv
<1>8. CASE UNCHANGED <<queueVars, requestVars, luaHttpVars>>
  BY <1>8 DEF OvertakenInv, queueVars, requestVars
<1> QED
  BY <1>1, <1>2, <1>3, <1>4, <1>5, <1>6, <1>7, <1>8
  DEF Next, Lua, Update, Transfer, CreateState, CloseState, vars

(* By the time the items come up, no notification that still waits refers  *)
(* to an item that was already freed: one update at most is affected.      *)
THEOREM OvertakenInOneUpdate == Spec => []OvertakenOnlyOnce
<1>1. Init => OvertakenInv
  BY DEF Init, EQ!Init, OvertakenInv, ProgressQueue
<1>2. TypeOK /\ OwnerInv /\ OvertakenInv /\ [Next]_vars => OvertakenInv'
  BY OvertakenStep
<1>3. OvertakenInv => OvertakenOnlyOnce
  BY DEF OvertakenInv, OvertakenOnlyOnce, Overtaken
<1> QED
  BY <1>1, <1>2, <1>3, TypeCorrect, OwnerInvariant, PTL DEF Spec
-----------------------------------------------------------------------------
(* Progress. *)

(* The notifications of a request grow along the queue, up to the byte     *)
(* count its thread has recorded; what Lua was told is below all of them.  *)
NotesInv ==
  /\ \A i \in DOMAIN Notes : Notes[i].now <= byteprogress[Notes[i].req]
  /\ \A i, j \in DOMAIN Notes :
       i < j /\ Notes[i].req = Notes[j].req => Notes[i].now < Notes[j].now
  /\ staleUse = {} =>
       /\ \A r \in Requests : reported[r] <= byteprogress[r]
       /\ \A i \in DOMAIN Notes : reported[Notes[i].req] < Notes[i].now

LEMMA NoteType ==
  ASSUME TypeOK, OwnerInv
  PROVE  \A i \in DOMAIN Notes :
           i \in Nat /\ Notes[i].req \in Requests /\ Notes[i].now \in 1..MaxBytes
<1>1. Notes \in Seq(Events)
  BY PendingType DEF TypeOK
<1> SUFFICES ASSUME NEW i \in DOMAIN Notes
             PROVE  i \in Nat /\ Notes[i].req \in Requests
                    /\ Notes[i].now \in 1..MaxBytes
  OBVIOUS
<1>2. Notes[i] \in Events /\ Notes[i].kind = "progress" /\ i \in Nat
  BY <1>1 DEF OwnerInv
<1> QED
  BY <1>2 DEF Events

(* What a notification of a live item does to what Lua was told. *)
LEMMA Reports ==
  ASSUME TypeOK, OwnerInv, run_http_progress_event, staleUse' = {}
  PROVE  /\ staleUse = {} /\ 1 \in DOMAIN Notes
         /\ item[Notes[1].req] = "live"
         /\ reported' = [s \in Requests |->
              IF s = Notes[1].req /\ request[s].L \in activeStates
              THEN Notes[1].now ELSE reported[s]]
<1>1. /\ Notes # <<>> /\ Head(Notes) = Head(localQueue) /\ Notes \in Seq(Events)
  BY TakesNote, PendingType DEF TypeOK
<1>2. 1 \in DOMAIN Notes /\ Head(localQueue) = Notes[1]
  BY <1>1, WithoutHead
<1>3. Usable(Notes[1].req) /\ staleUse = {}
  BY <1>2 DEF run_http_progress_event
<1>4. \E whose \in {{Notes[1].req}} :
        reported' = [s \in Requests |->
          IF s \in whose /\ check_active_state(request[s].L)
          THEN Notes[1].now ELSE reported[s]]
  BY <1>2, <1>3 DEF run_http_progress_event, TakenFor
<1> QED
  BY <1>2, <1>3, <1>4 DEF Usable, check_active_state

LEMMA NotesStep ==
  ASSUME TypeOK, OwnerInv, NotesInv, [Next]_vars
  PROVE  NotesInv'
<1>0. /\ Notes \in Seq(Events) /\ byteprogress \in [Requests -> 0..MaxBytes]
      /\ reported \in [Requests -> 0..MaxBytes]
  BY PendingType DEF TypeOK
<1>1. ASSUME NEW r \in Requests, NEW total \in 0..MaxBytes, NEW now \in 0..MaxBytes,
             http_progress_call(r, total, now)
      PROVE  NotesInv'
  <2> DEFINE e == [kind |-> "progress", req |-> r, now |-> now]
             k == Len(Notes) + 1
  <2>1. /\ e \in Events /\ Notes' = Append(Notes, e)
        /\ e.req = r /\ e.now = now
    BY <1>1, PostsNote
  <2>2. /\ byteprogress' = [byteprogress EXCEPT ![r] = now]
        /\ byteprogress[r] < now
        /\ UNCHANGED <<reported, staleUse>>
    BY <1>1 DEF http_progress_call, Reportable, luaHttpVars
  <2> HIDE DEF e
  <2>3. /\ DOMAIN Notes' = DOMAIN Notes \cup {k} /\ k \notin DOMAIN Notes /\ k \in Nat
        /\ \A i \in DOMAIN Notes : Notes'[i] = Notes[i] /\ i < k /\ i \in Nat
        /\ Notes'[k].req = r /\ Notes'[k].now = now
    BY <1>0, <2>1, WithOneMore
  <2> HIDE DEF k
  <2>4. \A s \in Requests :
          /\ byteprogress[s] \in Nat /\ byteprogress'[s] \in Nat
          /\ byteprogress[s] <= byteprogress'[s] /\ reported[s] \in Nat
    BY <1>0, <2>2, BytesAssumption
  <2>5. \A i \in DOMAIN Notes : Notes[i].req \in Requests /\ Notes[i].now \in Nat
    BY NoteType
  <2>6. byteprogress'[r] = now /\ now \in Nat
    BY <1>0, <2>2, BytesAssumption
  <2>7. \A i \in DOMAIN Notes' : Notes'[i].now <= byteprogress'[Notes'[i].req]
    BY <2>3, <2>4, <2>5, <2>6 DEF NotesInv
  <2>8. ASSUME NEW i \in DOMAIN Notes', NEW j \in DOMAIN Notes',
               i < j, Notes'[i].req = Notes'[j].req
        PROVE  Notes'[i].now < Notes'[j].now
    <3>1. i \in DOMAIN Notes
      BY <2>3, <2>8
    <3>2. CASE j \in DOMAIN Notes
      BY <2>3, <2>8, <3>1, <3>2 DEF NotesInv
    <3>3. CASE j = k
      <4>1. Notes[i].req = r /\ Notes[i].now <= byteprogress[r]
        BY <2>3, <2>8, <3>1, <3>3 DEF NotesInv
      <4> QED
        BY <2>2, <2>3, <2>4, <2>5, <2>6, <3>1, <3>3, <4>1
    <3> QED
      BY <2>3, <3>2, <3>3
  <2>9. ASSUME staleUse' = {}
        PROVE  /\ \A s \in Requests : reported'[s] <= byteprogress'[s]
               /\ \A i \in DOMAIN Notes' : reported'[Notes'[i].req] < Notes'[i].now
    <3>1. \A s \in Requests : reported[s] <= byteprogress[s]
      BY <2>2, <2>9 DEF NotesInv
    <3>2. \A i \in DOMAIN Notes : reported[Notes[i].req] < Notes[i].now
      BY <2>2, <2>9 DEF NotesInv
    <3>3. reported[r] < now
      BY <2>2, <2>4, <2>6, <3>1
    <3> QED
      BY <2>2, <2>3, <2>4, <3>1, <3>2, <3>3
  <2> QED
    BY <2>7, <2>8, <2>9 DEF NotesInv
<1>2. CASE run_http_progress_event
  <2>1. /\ Notes # <<>> /\ Notes' = Tail(Notes) /\ byteprogress' = byteprogress
    BY <1>2, TakesNote DEF run_http_progress_event, requestVars
  <2>2. /\ \A i \in DOMAIN Notes' : i \in Nat /\ i + 1 \in DOMAIN Notes
                                    /\ Notes'[i] = Notes[i + 1]
        /\ 1 \in DOMAIN Notes
        /\ \A i \in DOMAIN Notes' : i >= 1
    BY <1>0, <2>1, WithoutHead
  <2>3. ASSUME NEW i \in DOMAIN Notes', NEW j \in DOMAIN Notes',
               i < j, Notes'[i].req = Notes'[j].req
        PROVE  Notes'[i].now < Notes'[j].now
    <3>1. i + 1 < j + 1
      BY <2>2, <2>3
    <3> QED
      BY <2>2, <2>3, <3>1 DEF NotesInv
  <2>4. ASSUME staleUse' = {}
        PROVE  /\ \A s \in Requests : reported'[s] <= byteprogress[s]
               /\ \A i \in DOMAIN Notes' : reported'[Notes'[i].req] < Notes'[i].now
    <3>1. /\ staleUse = {}
          /\ reported' = [s \in Requests |->
               IF s = Notes[1].req /\ request[s].L \in activeStates
               THEN Notes[1].now ELSE reported[s]]
      BY <1>2, <2>4, Reports
    <3>2. \A s \in Requests : \/ reported'[s] = reported[s]
                              \/ s = Notes[1].req /\ reported'[s] = Notes[1].now
      BY <3>1
    <3>3. \A s \in Requests : reported'[s] <= byteprogress[s]
      BY <2>2, <3>1, <3>2 DEF NotesInv
    <3>4. ASSUME NEW i \in DOMAIN Notes'
          PROVE  reported'[Notes'[i].req] < Notes'[i].now
      <4>1. /\ i + 1 \in DOMAIN Notes /\ Notes'[i] = Notes[i + 1] /\ 1 < i + 1
            /\ Notes[i + 1].req \in Requests
        BY <2>2, NoteType
      <4>2. reported[Notes[i + 1].req] < Notes[i + 1].now
        BY <3>1, <4>1 DEF NotesInv
      <4>3. Notes[i + 1].req = Notes[1].req => Notes[1].now < Notes[i + 1].now
        BY <2>2, <4>1 DEF NotesInv
      <4> QED
        BY <3>2, <4>1, <4>2, <4>3
    <3> QED
      BY <3>3, <3>4
  <2> QED
    BY <2>1, <2>2, <2>3, <2>4 DEF NotesInv
<1>3. CASE run_http_event
  <2>1. UNCHANGED <<Notes, byteprogress, reported>>
    BY <1>3, TakesItem DEF run_http_event
  <2>2. staleUse' = {} => staleUse = {}
    BY <1>3 DEF run_http_event
  <2> QED
    BY <2>1, <2>2 DEF NotesInv
<1>4. CASE BeginUpdate \/ DrainNext \/ EndUpdate
  <2>1. EQ!TypeOK /\ (EQ!BeginUpdate \/ EQ!DrainNext \/ EQ!EndUpdate)
    BY <1>4 DEF TypeOK, BeginUpdate, DrainNext, EndUpdate
  <2>2. Notes' = Notes
    BY <2>1, QueueDrain DEF Notes
  <2>3. UNCHANGED <<byteprogress, reported, staleUse>>
    BY <1>4 DEF BeginUpdate, DrainNext, EndUpdate, requestVars, luaHttpVars
  <2> QED
    BY <2>2, <2>3 DEF NotesInv
<1>5. ASSUME NEW r \in Requests, FinishTransfer(r)
      PROVE  NotesInv'
  <2>1. UNCHANGED <<Notes, byteprogress, reported, staleUse>>
    BY <1>5, PostsItem DEF FinishTransfer, luaHttpVars
  <2> QED
    BY <2>1 DEF NotesInv
<1>6. CASE UNCHANGED <<queueVars, byteprogress, luaHttpVars>>
  <2>1. UNCHANGED Notes
    BY <1>6 DEF Notes, EQ!Pending, queueVars
  <2> QED
    BY <1>6, <2>1 DEF NotesInv, luaHttpVars
<1> QED
  BY <1>1, <1>2, <1>3, <1>4, <1>5, <1>6
  DEF Next, Lua, Update, Transfer, dohttpreq, CreateState, CloseState, vars, requestVars

LEMMA NotesInvariant == Spec => []NotesInv
<1>1. Init => NotesInv
  <2> SUFFICES ASSUME Init
               PROVE  NotesInv
    OBVIOUS
  <2>1. Notes = <<>>
    BY DEF Init, EQ!Init, Notes, EQ!Pending, EQ!Queues, ProgressQueue
  <2> QED
    BY <2>1 DEF Init, NotesInv
<1>2. TypeOK /\ OwnerInv /\ NotesInv /\ [Next]_vars => NotesInv'
  BY NotesStep
<1> QED
  BY <1>1, <1>2, TypeCorrect, OwnerInvariant, PTL DEF Spec

(* A request was made in an incarnation its state has had. *)
BornInv ==
  /\ \A L \in activeStates : incarnation[L] >= 1
  /\ \A r \in Requests : request[r] # None =>
       1 <= request[r].born /\ request[r].born <= incarnation[request[r].L]

LEMMA RequestType ==
  ASSUME TypeOK, NEW r \in Requests, request[r] # None
  PROVE  /\ request[r].L \in States /\ request[r].born \in Nat
         /\ incarnation[request[r].L] \in 0..MaxIncarnations
<1>1. request[r] \in Made
  BY DEF TypeOK, Made
<1> QED
  BY <1>1 DEF Made, TypeOK, LuaTypeOK

LEMMA BornStep ==
  ASSUME TypeOK, BornInv, [Next]_vars
  PROVE  BornInv'
<1>0. /\ incarnation \in [States -> 0..MaxIncarnations] /\ MaxIncarnations \in Nat
      /\ activeStates \subseteq States
  BY IncarnationsAssumption DEF TypeOK, LuaTypeOK
<1>1. ASSUME NEW r \in Requests, NEW L \in States, NEW progress \in BOOLEAN,
             dohttpreq(r, L, progress)
      PROVE  BornInv'
  <2> DEFINE m == [made |-> TRUE, L |-> L, born |-> incarnation[L], progress |-> progress]
  <2>1. request' = [request EXCEPT ![r] = m] /\ UNCHANGED luaVars /\ L \in activeStates
    BY <1>1 DEF dohttpreq
  <2>2. 1 <= m.born /\ m.born <= incarnation[m.L]
    BY <1>0, <2>1 DEF BornInv
  <2> HIDE DEF m
  <2>3. \A s \in Requests : request'[s] = m \/ request'[s] = request[s]
    BY <2>1 DEF TypeOK
  <2> QED
    BY <2>1, <2>2, <2>3 DEF BornInv, luaVars
<1>2. ASSUME NEW L \in States, CreateState(L)
      PROVE  BornInv'
  <2>1. /\ activeStates' = activeStates \cup {L} /\ request' = request
        /\ incarnation' = [incarnation EXCEPT ![L] = @ + 1]
    BY <1>2 DEF CreateState, initiate_lua, requestVars
  <2>2. \A M \in States : /\ incarnation[M] \in Nat /\ incarnation'[M] \in Nat
                          /\ incarnation'[M] >= incarnation[M]
                          /\ M = L => incarnation'[M] >= 1
    BY <1>0, <2>1
  <2>3. ASSUME NEW M \in activeStates'
        PROVE  incarnation'[M] >= 1
    BY <1>0, <2>1, <2>2 DEF BornInv
  <2>4. ASSUME NEW s \in Requests, request[s] # None
        PROVE  1 <= request[s].born /\ request[s].born <= incarnation'[request[s].L]
    BY <2>2, <2>4, RequestType DEF BornInv
  <2> QED
    BY <2>1, <2>3, <2>4 DEF BornInv
<1>3. ASSUME NEW L \in States, CloseState(L)
      PROVE  BornInv'
  BY <1>3 DEF BornInv, CloseState, close, requestVars
<1>4. CASE UNCHANGED <<request, luaVars>>
  BY <1>4 DEF BornInv, luaVars
<1> QED
  BY <1>1, <1>2, <1>3, <1>4
  DEF Next, Lua, Update, Transfer, http_progress_call, FinishTransfer, BeginUpdate,
      DrainNext, EndUpdate, run_http_progress_event, run_http_event, requestVars,
      vars, luaVars

(* Lua is told of growing byte counts, none beyond what the thread has seen, *)
(* in the state that asked, as long as no freed item has been used, where    *)
(* the allocator does not reuse the address of a closed state.               *)
THEOREM ProgressReported ==
  ASSUME MaxIncarnations = 1
  PROVE  Spec => ProgressGrows
<1>1. Init => BornInv
  BY DEF Init, LuaInit, BornInv
<1>2. TypeOK /\ BornInv /\ [Next]_vars => BornInv'
  BY BornStep
<1>3. TypeOK /\ OwnerInv /\ NotesInv /\ BornInv /\ [Next]_vars =>
        [staleUse' = {} => \A r \in Requests : reported'[r] # reported[r] =>
           /\ reported[r] < reported'[r] /\ reported'[r] <= byteprogress[r]
           /\ request[r].L \in activeStates
           /\ incarnation[request[r].L] = request[r].born]_vars
  <2> SUFFICES ASSUME TypeOK, OwnerInv, NotesInv, BornInv, Next, staleUse' = {},
                      NEW r \in Requests, reported'[r] # reported[r]
               PROVE  /\ reported[r] < reported'[r] /\ reported'[r] <= byteprogress[r]
                      /\ request[r].L \in activeStates
                      /\ incarnation[request[r].L] = request[r].born
    OBVIOUS
  <2>1. CASE run_http_progress_event
    <3>1. /\ staleUse = {} /\ 1 \in DOMAIN Notes
          /\ item[Notes[1].req] = "live"
          /\ r = Notes[1].req /\ request[r].L \in activeStates
          /\ reported'[r] = Notes[1].now
      BY <2>1, Reports
    <3>2. reported[r] < Notes[1].now /\ Notes[1].now <= byteprogress[r]
      BY <3>1 DEF NotesInv
    <3>3. request[r] # None
      BY <3>1 DEF OwnerInv
    <3>4. incarnation[request[r].L] \in 0..1 /\ request[r].born \in Nat
      BY <3>3, RequestType
    <3>5. 1 <= request[r].born /\ request[r].born <= incarnation[request[r].L]
      BY <3>3 DEF BornInv
    <3>6. incarnation[request[r].L] = request[r].born
      BY <3>4, <3>5
    <3> QED
      BY <3>1, <3>2, <3>6
  <2>2. CASE reported' = reported
    BY <2>2
  <2> QED
    BY <2>1, <2>2
    DEF Next, Lua, Update, Transfer, dohttpreq, CreateState, CloseState,
        http_progress_call, FinishTransfer, BeginUpdate, DrainNext, EndUpdate,
        run_http_event, luaHttpVars
<1> QED
  BY <1>1, <1>2, <1>3, TypeCorrect, OwnerInvariant, NotesInvariant, PTL
  DEF Spec, ProgressGrows

-----------------------------------------------------------------------------
(* HttpRequests implements LuaCallbacks. *)

Owner == [r \in Requests |-> IF request[r] = None THEN <<>> ELSE request[r].L]

Settled == [r \in Requests |->
  IF request[r] = None THEN "idle"
  ELSE IF item[r] = "live" THEN "waiting"
  ELSE IF r \in answered THEN "called" ELSE "dropped"]

(* A request asks for the callback. *)
LEMMA AskMaps ==
  ASSUME TypeOK, OwnerInv, NEW r \in Requests, NEW L \in States,
         NEW progress \in BOOLEAN, dohttpreq(r, L, progress)
  PROVE  Callbacks!Ask(r, L)
<1> DEFINE m == [made |-> TRUE, L |-> L, born |-> incarnation[L], progress |-> progress]
<1>1. /\ L \in activeStates /\ request[r] = None
      /\ request' = [request EXCEPT ![r] = m]
      /\ item' = [item EXCEPT ![r] = "live"]
      /\ UNCHANGED <<answered, luaVars>>
  BY DEF dohttpreq, luaHttpVars
<1>2. m.L = L /\ m # None
  <2>1. m.made # None.made
    BY DEF None
  <2> QED
    BY <2>1
<1> HIDE DEF m
<1>3. request'[r] = m /\ item'[r] = "live"
  BY <1>1 DEF TypeOK
<1>4. ASSUME NEW s \in Requests, s # r
      PROVE  request'[s] = request[s] /\ item'[s] = item[s]
  BY <1>1, <1>4 DEF TypeOK
<1>5. Owner' = [Owner EXCEPT ![r] = L]
  BY <1>2, <1>3, <1>4 DEF Owner
<1>6. Settled[r] = "idle" /\ Settled' = [Settled EXCEPT ![r] = "waiting"]
  BY <1>1, <1>2, <1>3, <1>4 DEF Settled
<1> QED
  BY <1>1, <1>5, <1>6 DEF Callbacks!Ask, Owner, Settled, Callbacks!luaVars, luaVars

(* The item's turn settles it. *)
LEMMA SettleMaps ==
  ASSUME TypeOK, OwnerInv, run_http_event
  PROVE  Callbacks!Next
<1>0. PICK r : r = Head(localQueue).req
  OBVIOUS
<1>1. /\ answered' = IF check_active_state(request[r].L)
                     THEN answered \cup {r} ELSE answered
      /\ item' = [item EXCEPT ![r] = "freed"]
      /\ UNCHANGED <<request, luaVars>>
  BY <1>0 DEF run_http_event
<1>2. r \in Requests /\ Posted(r)
  <2>1. Items # <<>> /\ Head(Items) = Head(localQueue) /\ Items \in Seq(Events)
    BY TakesItem, PendingType DEF TypeOK
  <2>2. 1 \in DOMAIN Items /\ Items[1] = Head(localQueue) /\ Items[1] \in Events
    BY <2>1, WithoutHead
  <2> QED
    BY <1>0, <2>2 DEF Events, Posted
<1>3. item[r] = "live" /\ request[r] # None /\ r \notin answered
  BY <1>2 DEF OwnerInv
<1>4. Settled[r] = "waiting" /\ Owner[r] = request[r].L /\ Owner' = Owner
  BY <1>1, <1>2, <1>3 DEF Settled, Owner
<1>5. item'[r] = "freed" /\ \A s \in Requests : s # r => item'[s] = item[s]
  BY <1>1, <1>2 DEF TypeOK
<1>6. Settled' = [Settled EXCEPT ![r] =
        IF request[r].L \in activeStates THEN "called" ELSE "dropped"]
  <2>1. \A s \in Requests : s # r => Settled'[s] = Settled[s]
    BY <1>1, <1>5 DEF Settled
  <2>2. Settled'[r] = IF request[r].L \in activeStates THEN "called" ELSE "dropped"
    BY <1>1, <1>2, <1>3, <1>5 DEF Settled, check_active_state
  <2> QED
    BY <1>2, <2>1, <2>2 DEF Settled
<1>7. Callbacks!Settle(r)
  BY <1>1, <1>4, <1>6
  DEF Callbacks!Settle, Settled, Owner, Callbacks!luaVars, luaVars,
      Callbacks!check_active_state
<1> QED
  BY <1>2, <1>7 DEF Callbacks!Next

LEMMA CallbackStep ==
  ASSUME TypeOK, OwnerInv, [Next]_vars
  PROVE  [Callbacks!Next]_(Callbacks!callbackVars)
<1>1. ASSUME NEW L \in States, NEW r \in Requests, NEW progress \in BOOLEAN,
             dohttpreq(r, L, progress)
      PROVE  Callbacks!Next
  BY <1>1, AskMaps DEF Callbacks!Next
<1>2. CASE run_http_event
  BY <1>2, SettleMaps
<1>3. ASSUME NEW L \in States, CreateState(L) \/ CloseState(L)
      PROVE  Callbacks!Next
  <2>1. UNCHANGED <<request, item, answered>>
    BY <1>3 DEF CreateState, CloseState, requestVars, luaHttpVars
  <2>2. CASE CreateState(L)
    <3>1. Callbacks!Create(L)
      BY <2>1, <2>2
      DEF CreateState, Callbacks!Create, initiate_lua, Callbacks!initiate_lua
    <3> QED
      BY <3>1 DEF Callbacks!Next
  <2>3. CASE CloseState(L)
    <3>1. Callbacks!Destroy(L)
      BY <2>1, <2>3 DEF CloseState, Callbacks!Destroy, close, Callbacks!close
    <3> QED
      BY <3>1 DEF Callbacks!Next
  <2> QED
    BY <1>3, <2>2, <2>3
<1>4. CASE UNCHANGED <<request, item, answered, luaVars>>
  BY <1>4 DEF Callbacks!callbackVars, luaVars
<1> QED
  BY <1>1, <1>2, <1>3, <1>4
  DEF Next, Lua, Update, Transfer, http_progress_call, FinishTransfer, BeginUpdate,
      DrainNext, EndUpdate, run_http_progress_event, requestVars, luaHttpVars, vars

(* The callback of a request runs at most once, exactly if its state is      *)
(* active when the item's turn comes.                                        *)
THEOREM CallbacksImplemented == Spec => ImplementsCallbacks
<1>1. Init => Callbacks!Init
  <2> SUFFICES ASSUME Init
               PROVE  Callbacks!Init
    OBVIOUS
  <2>1. \A r \in Requests : request[r] = None
    BY DEF Init
  <2>2. Callbacks!LuaInit
    BY DEF Init, LuaInit, Callbacks!LuaInit
  <2> QED
    BY <2>1, <2>2 DEF Callbacks!Init, Callbacks!NoOwner
<1>2. TypeOK /\ OwnerInv /\ [Next]_vars => [Callbacks!Next]_(Callbacks!callbackVars)
  BY CallbackStep
<1> QED
  BY <1>1, <1>2, TypeCorrect, OwnerInvariant, PTL
  DEF Spec, ImplementsCallbacks, Callbacks!Spec
=============================================================================
