---------------------------- MODULE HttpRequests ----------------------------
(***************************************************************************)
(* dohttpreq: HTTP requests made from Lua (InitiateState.cpp), each run by *)
(* a thread of its own (http/http.cpp).                                    *)
(*                                                                         *)
(* The thread owns the HTTPItem while libcurl runs.  Its progress          *)
(* notifications carry a plain pointer to the item; at the end the item    *)
(* itself moves to the item queue, and the main thread frees it, and the   *)
(* lua_http_data it points to, after its callback.  The two queues are     *)
(* those of EventQueue, drained in registration order: progress, then      *)
(* items.  libcurl is external: it calls back with any byte counts, also   *)
(* counts that start again after a redirect, and ends each transfer, by    *)
(* its timeouts if nothing else.                                           *)
(***************************************************************************)
EXTENDS Naturals, Sequences, FiniteSets, LuaStates

CONSTANTS
  Requests,     (* the requests Lua may make *)
  MaxBytes      (* bound: the length of a response *)

ASSUME BytesAssumption == MaxBytes \in Nat

VARIABLES
  eventQueue, localQueue, drained, inUpdate, updates, last, (* see EventQueue *)
  request,      (* request[r]: who asked for what, or None *)
  thread,       (* thread[r]: the thread of launch_thread_http for r *)
  byteprogress, (* byteprogress[r]: of its HTTPItem *)
  item,         (* item[r]: its HTTPItem *)
  context,      (* context[r]: its lua_http_data *)
  reported,     (* reported[r]: the progress Lua was told last *)
  answered,     (* the requests whose callback Lua has run *)
  staleUse      (* requests whose item was used after it was freed *)

queueVars == <<eventQueue, localQueue, drained, inUpdate, updates, last>>
requestVars == <<request, thread, byteprogress, item, context>>
luaHttpVars == <<reported, answered, staleUse>>
vars == <<queueVars, requestVars, luaHttpVars, luaVars>>

None == [made |-> FALSE]

ProgressQueue == 1
ItemQueue == 2

Events == [kind : {"progress"}, req : Requests, now : 1..MaxBytes]
            \cup [kind : {"item"}, req : Requests]

(* A queue holds at most one item per request and, as byteprogress grows,  *)
(* fewer notifications than bytes: no other bound is needed.               *)
EQ == INSTANCE EventQueue WITH NQueues <- 2, MaxPending <- MaxBytes

Block == {"none", "live", "freed"}

TypeOK ==
  /\ LuaTypeOK
  /\ EQ!TypeOK
  /\ request \in [Requests -> {None} \cup
       [made : {TRUE}, L : States, born : Nat, progress : BOOLEAN]]
  /\ thread \in [Requests -> {"none", "running", "ended"}]
  /\ byteprogress \in [Requests -> 0..MaxBytes]
  /\ item \in [Requests -> Block]
  /\ context \in [Requests -> Block]
  /\ reported \in [Requests -> 0..MaxBytes]
  /\ answered \subseteq Requests
  /\ staleUse \subseteq Requests

Init ==
  /\ LuaInit
  /\ EQ!Init
  /\ request = [r \in Requests |-> None]
  /\ thread = [r \in Requests |-> "none"]
  /\ byteprogress = [r \in Requests |-> 0]
  /\ item = [r \in Requests |-> "none"]
  /\ context = [r \in Requests |-> "none"]
  /\ reported = [r \in Requests |-> 0]
  /\ answered = {}
  /\ staleUse = {}

-----------------------------------------------------------------------------
(* Lua, on the main thread, asks for r with or without a progress callback: *)
(* LaunchHTTPRequest gives the item to a new thread.                        *)
dohttpreq(r, L, progress) ==
  /\ L \in activeStates
  /\ request[r] = None
  /\ request' = [request EXCEPT ![r] =
       [made |-> TRUE, L |-> L, born |-> incarnation[L], progress |-> progress]]
  /\ context' = [context EXCEPT ![r] = "live"]
  /\ item' = [item EXCEPT ![r] = "live"]
  /\ thread' = [thread EXCEPT ![r] = "running"]
  /\ UNCHANGED <<byteprogress, queueVars, luaHttpVars, luaVars>>

-----------------------------------------------------------------------------
(* The thread of r. *)

(* Broken: a count of zero passes; a count below the last passes. *)
ReportableZero(r, total, now) ==
  total # 0 /\ total # now /\ byteprogress[r] <= now

ReportableAny(r, total, now) ==
  total # 0 /\ now # 0 /\ total # now /\ byteprogress[r] # now

(* What the early returns of http_progress_call let pass. *)
Reportable(r, total, now) ==
  total # 0 /\ now # 0 /\ total # now /\ byteprogress[r] < now

(* Broken: the thread uses the item after it has handed it over. *)
progress_call_late(r, total, now) ==
  /\ thread[r] # "none"
  /\ request[r].progress
  /\ Reportable(r, total, now)
  /\ byteprogress' = [byteprogress EXCEPT ![r] = now]
  /\ EQ!AddToQueue(ProgressQueue, [kind |-> "progress", req |-> r, now |-> now])
  /\ UNCHANGED <<request, thread, item, context, luaHttpVars, luaVars>>

(* libcurl reports now of total bytes: it is recorded and posted. *)
http_progress_call(r, total, now) ==
  /\ thread[r] = "running"
  /\ request[r].progress
  /\ Reportable(r, total, now)
  /\ byteprogress' = [byteprogress EXCEPT ![r] = now]
  /\ EQ!AddToQueue(ProgressQueue, [kind |-> "progress", req |-> r, now |-> now])
  /\ UNCHANGED <<request, thread, item, context, luaHttpVars, luaVars>>

(* Broken: the item of a failed transfer is not posted. *)
FinishSuccess(r) ==
  /\ thread[r] = "running"
  /\ thread' = [thread EXCEPT ![r] = "ended"]
  /\ \/ EQ!AddToQueue(ItemQueue, [kind |-> "item", req |-> r])
     \/ UNCHANGED queueVars
  /\ UNCHANGED <<request, byteprogress, item, context, luaHttpVars, luaVars>>

(* The transfer ends, well or not, and the item moves to the item queue. *)
FinishTransfer(r) ==
  /\ thread[r] = "running"
  /\ thread' = [thread EXCEPT ![r] = "ended"]
  /\ EQ!AddToQueue(ItemQueue, [kind |-> "item", req |-> r])
  /\ UNCHANGED <<request, byteprogress, item, context, luaHttpVars, luaVars>>

-----------------------------------------------------------------------------
(* The main thread: the callbacks of update(). *)

Usable(r) == item[r] = "live" /\ context[r] = "live"

(* Whose progress a notification of r is taken for: that of r while its     *)
(* item lives.  The memory of a freed item may still read as before, may    *)
(* hold another item, or may make no sense (then, if the process survives,  *)
(* nobody hears of it).                                                     *)
TakenFor(r) ==
  IF Usable(r) THEN {{r}} ELSE {{}, {r}} \cup {{s} : s \in {q \in Requests : Usable(q)}}

(* A notification is passed to Lua through the item. *)
run_http_progress_event ==
  /\ EQ!RunNext
  /\ Head(localQueue).kind = "progress"
  /\ LET r == Head(localQueue).req IN
     /\ staleUse' = IF Usable(r) THEN staleUse ELSE staleUse \cup {r}
     /\ \E whose \in TakenFor(r) :
          reported' = [s \in Requests |->
            IF s \in whose /\ check_active_state(request[s].L)
            THEN Head(localQueue).now ELSE reported[s]]
  /\ UNCHANGED <<requestVars, answered, luaVars>>

(* Broken: the context is kept where no callback runs; the state is not     *)
(* checked.                                                                 *)
run_http_leaking ==
  /\ EQ!RunNext
  /\ Head(localQueue).kind = "item"
  /\ LET r == Head(localQueue).req IN
     /\ answered' = IF check_active_state(request[r].L)
                    THEN answered \cup {r} ELSE answered
     /\ staleUse' = IF Usable(r) THEN staleUse ELSE staleUse \cup {r}
     /\ context' = IF check_active_state(request[r].L)
                   THEN [context EXCEPT ![r] = "freed"] ELSE context
     /\ item' = [item EXCEPT ![r] = "freed"]
  /\ UNCHANGED <<request, thread, byteprogress, reported, luaVars>>

run_http_unchecked ==
  /\ EQ!RunNext
  /\ Head(localQueue).kind = "item"
  /\ LET r == Head(localQueue).req IN
     /\ answered' = answered \cup {r}
     /\ staleUse' = IF Usable(r) THEN staleUse ELSE staleUse \cup {r}
     /\ context' = [context EXCEPT ![r] = "freed"]
     /\ item' = [item EXCEPT ![r] = "freed"]
  /\ UNCHANGED <<request, thread, byteprogress, reported, luaVars>>

(* The callback of the request, if its state is still there; the context   *)
(* and the item are freed in any case.                                     *)
run_http_event ==
  /\ EQ!RunNext
  /\ Head(localQueue).kind = "item"
  /\ LET r == Head(localQueue).req IN
     /\ answered' = IF check_active_state(request[r].L)
                    THEN answered \cup {r} ELSE answered
     /\ staleUse' = IF Usable(r) THEN staleUse ELSE staleUse \cup {r}
     /\ context' = [context EXCEPT ![r] = "freed"]
     /\ item' = [item EXCEPT ![r] = "freed"]
  /\ UNCHANGED <<request, thread, byteprogress, reported, luaVars>>

BeginUpdate == EQ!BeginUpdate /\ UNCHANGED <<requestVars, luaHttpVars, luaVars>>
DrainNext == EQ!DrainNext /\ UNCHANGED <<requestVars, luaHttpVars, luaVars>>
EndUpdate == EQ!EndUpdate /\ UNCHANGED <<requestVars, luaHttpVars, luaVars>>

(* States come and go in the game's own code, between two updates. *)
CreateState(L) ==
  /\ ~inUpdate
  /\ initiate_lua(L)
  /\ UNCHANGED <<queueVars, requestVars, luaHttpVars>>

CloseState(L) ==
  /\ ~inUpdate
  /\ close(L)
  /\ UNCHANGED <<queueVars, requestVars, luaHttpVars>>

Update ==
  \/ BeginUpdate
  \/ DrainNext
  \/ run_http_progress_event
  \/ run_http_event
  \/ EndUpdate

Lua ==
  \E L \in States :
    \/ \E r \in Requests, progress \in BOOLEAN : dohttpreq(r, L, progress)
    \/ CreateState(L)
    \/ CloseState(L)

Transfer(r) ==
  \/ \E total, now \in 0..MaxBytes : http_progress_call(r, total, now)
  \/ FinishTransfer(r)

Next ==
  \/ Lua
  \/ Update
  \/ \E r \in Requests : Transfer(r)

Spec == Init /\ [][Next]_vars

(* The game keeps calling update(), and curl_easy_perform returns within   *)
(* CURLOPT_TIMEOUT (900 s).                                                *)
Fairness ==
  /\ WF_vars(Update)
  /\ \A r \in Requests : WF_vars(FinishTransfer(r))

FairSpec == Spec /\ Fairness

-----------------------------------------------------------------------------
Places(r) ==
  {<<ItemQueue, i>> : i \in {j \in DOMAIN eventQueue[ItemQueue] :
                             eventQueue[ItemQueue][j].req = r}}
  \cup {<<0, i>> : i \in {j \in DOMAIN localQueue :
                          localQueue[j] = [kind |-> "item", req |-> r]}}

(* An HTTPItem has one owner at a time, its thread or one entry of the item *)
(* queue, and is freed with its lua_http_data exactly when it has none: no  *)
(* leak and no double free.                                                 *)
ItemOwnedOnce ==
  \A r \in Requests :
    /\ Cardinality(Places(r)) + (IF thread[r] = "running" THEN 1 ELSE 0)
         = IF item[r] = "live" THEN 1 ELSE 0
    /\ context[r] = item[r]
    /\ (item[r] = "none") <=> (request[r] = None)

(* Lua sees the progress of a request strictly grow, whatever byte counts   *)
(* libcurl reports and however they queue up, and in the state that asked,  *)
(* while it is open, as long as no freed item has been used (NoStaleUse).   *)
ProgressGrows ==
  [][staleUse' = {} => \A r \in Requests : reported'[r] # reported[r] =>
       /\ reported[r] < reported'[r] /\ reported'[r] <= byteprogress[r]
       /\ request[r].L \in activeStates
       /\ incarnation[request[r].L] = request[r].born]_vars

Callbacks == INSTANCE LuaCallbacks WITH
  Ids <- Requests,
  owner <- [r \in Requests |-> IF request[r] = None THEN <<>> ELSE request[r].L],
  settled <- [r \in Requests |->
    IF request[r] = None THEN "idle"
    ELSE IF item[r] = "live" THEN "waiting"
    ELSE IF r \in answered THEN "called" ELSE "dropped"]

(* Each request's callback is run at most once, never for a state that is   *)
(* closed, and never dropped for one that is not.                           *)
ImplementsCallbacks == Callbacks!Spec

(* The notifications that still wait in the shared progress queue for an    *)
(* item already freed.                                                      *)
Overtaken ==
  {r \in Requests : item[r] = "freed" /\
     \E i \in DOMAIN eventQueue[ProgressQueue] :
       eventQueue[ProgressQueue][i].req = r}

(* An item overtakes its notifications only within one update: by the time  *)
(* the next one comes to the item queue, none is left that refers to an     *)
(* item freed before.                                                       *)
OvertakenOnlyOnce ==
  inUpdate /\ drained = ProgressQueue /\ localQueue = <<>> => Overtaken = {}

(* Every request comes to an end, and its item and its context are freed.   *)
EveryRequestEnds ==
  \A r \in Requests :
    thread[r] = "running" ~> (item[r] = "freed" /\ context[r] = "freed")

(* The event manager is "Thread-safe, type-safe" (threading/queue.h:10): no *)
(* callback it runs touches an item that another one has freed.             *)
NoStaleUse == staleUse = {}
=============================================================================
