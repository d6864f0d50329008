---------------------------- MODULE LuaCallbacks ----------------------------
(***************************************************************************)
(* What Lua is promised by every function that takes a callback and works  *)
(* in the background (async_io.read and write, dohttpreq): the callback is *)
(* run at most once, if the state that asked is still active then, and the *)
(* request is forgotten otherwise.                                         *)
(***************************************************************************)
EXTENDS LuaStates

CONSTANT Ids        (* the requests *)

VARIABLES
  owner,            (* owner[i]: the state that made request i, or NoOwner *)
  settled           (* settled[i]: what became of request i *)

callbackVars == <<owner, settled, activeStates, incarnation>>

NoOwner == <<>>

TypeOK ==
  /\ LuaTypeOK
  /\ owner \in [Ids -> States \cup {NoOwner}]
  /\ settled \in [Ids -> {"idle", "waiting", "called", "dropped"}]

Init ==
  /\ LuaInit
  /\ owner = [i \in Ids |-> NoOwner]
  /\ settled = [i \in Ids |-> "idle"]

Ask(i, L) ==
  /\ L \in activeStates
  /\ settled[i] = "idle"
  /\ owner' = [owner EXCEPT ![i] = L]
  /\ settled' = [settled EXCEPT ![i] = "waiting"]
  /\ UNCHANGED luaVars

Settle(i) ==
  /\ settled[i] = "waiting"
  /\ settled' = [settled EXCEPT ![i] =
       IF check_active_state(owner[i]) THEN "called" ELSE "dropped"]
  /\ UNCHANGED <<owner, luaVars>>

Create(L) == initiate_lua(L) /\ UNCHANGED <<owner, settled>>

Destroy(L) == close(L) /\ UNCHANGED <<owner, settled>>

Next ==
  \/ \E i \in Ids : Settle(i) \/ \E L \in States : Ask(i, L)
  \/ \E L \in States : Create(L) \/ Destroy(L)

Spec == Init /\ [][Next]_callbackVars
=============================================================================
