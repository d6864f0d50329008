------------------------------ MODULE LuaStates ------------------------------
(***************************************************************************)
(* The list of active Lua states of InitiateState.cpp.  A state is known   *)
(* only by its address: the game destroys and re-creates states (between   *)
(* the menu and a level), and the allocator may give a new state the       *)
(* address of a closed one.                                                *)
(***************************************************************************)
EXTENDS Naturals, FiniteSets

CONSTANTS
  States,           (* addresses of lua_States *)
  MaxIncarnations   (* bound: states created at one address; 1 = no reuse *)

ASSUME IncarnationsAssumption == MaxIncarnations \in Nat

VARIABLES
  activeStates,     (* the addresses in the list activeStates *)
  incarnation       (* incarnation[L]: states created at L so far *)

luaVars == <<activeStates, incarnation>>

LuaTypeOK ==
  /\ activeStates \subseteq States
  /\ incarnation \in [States -> 0..MaxIncarnations]

LuaInit ==
  /\ activeStates = {}
  /\ incarnation = [L \in States |-> 0]

check_active_state(L) == L \in activeStates

(* The game creates a state at L; initiate_lua adds it before anything else *)
(* and leaves it in the list on each of its early returns.                  *)
initiate_lua(L) ==
  /\ L \notin activeStates
  /\ incarnation[L] < MaxIncarnations
  /\ activeStates' = activeStates \cup {L}
  /\ incarnation' = [incarnation EXCEPT ![L] = @ + 1]

(* The game closes the state at L: lua_close_new removes it first. *)
close(L) ==
  /\ L \in activeStates
  /\ activeStates' = activeStates \ {L}
  /\ UNCHANGED incarnation
=============================================================================
