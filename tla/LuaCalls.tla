------------------------------ MODULE LuaCalls ------------------------------
(***************************************************************************)
(* The hook's traffic over the stack and the registry of one Lua state     *)
(* (src/InitiateState.cpp, src/luautil): the protected calls it forces on  *)
(* the game, the callbacks it runs from the frame update, and the          *)
(* functions it gives to Lua in place of Lua's own.                        *)
(*                                                                         *)
(* The game calls Lua from C++ with its own values on the state's stack;   *)
(* whatever the hook leaves there or takes from there the game finds.  A   *)
(* stack is a sequence of what its slots hold, the top last.               *)
(***************************************************************************)
EXTENDS Integers, Sequences, SequencesExt, FiniteSets

CONSTANTS
  MaxValues,   \* bound: arguments or results of a call
  MaxGame,     \* bound: values of the game's on the stack
  MaxAsked,    \* bound: callbacks that are waiting
  MaxHostCalls \* bound: calls of any kind

ASSUME CallsAssumption ==
  {MaxValues, MaxGame, MaxAsked, MaxHostCalls} \subseteq Nat

MULTRET == -1

VARIABLES
  luaStack,    \* the stack of the state, between two of its C functions
  expected,    \* history: what the game takes to be there
  registry,    \* the references of LUA_REGISTRYINDEX: [size, free]
  asked,       \* callbacks that are waiting: [kind, func, progress]
  returned,    \* history: what Lua's last call of a C function gave it
  failed,      \* history: a call has failed in a way that is not made good
  hostCalls,
  aborted      \* abort() or an error through the game's C++ code

callVars == <<luaStack, expected, registry, asked, returned, failed, hostCalls,
              aborted>>

Copies(value, n) == [i \in 1..n |-> value]
Pop(stack, n) == SubSeq(stack, 1, Len(stack) - n)
lua_insert(stack, i) == InsertAt(Pop(stack, 1), i, Last(stack))
lua_replace(stack, i) == ReplaceAt(Pop(stack, 1), i, Last(stack))

(* How a callee ends: with results, with an error that the error handler   *)
(* saw (LUA_ERRRUN), or with another (LUA_ERRMEM, LUA_ERRERR).             *)
Outcomes == [status : {"ok"}, results : 0..MaxValues]
              \cup [status : {"run", "other"}, results : {0}]

Adjusted(outcome, nresults) ==
  IF nresults = MULTRET THEN Copies("result", outcome.results)
                        ELSE Copies("result", nresults)

lua_pcall(stack, nargs, nresults, outcome) ==
  Pop(stack, nargs + 1)
    \o (IF outcome.status = "ok" THEN Adjusted(outcome, nresults)
                                 ELSE <<"message">>)

NoCall == [func |-> "none", outcome |-> [status |-> "ok", results |-> 0],
           results |-> <<>>]

CallsInit ==
  /\ luaStack = <<>>
  /\ expected = <<>>
  /\ registry = [size |-> 0, free |-> <<>>]
  /\ asked = {}
  /\ returned = NoCall
  /\ failed = FALSE
  /\ hostCalls = 0
  /\ aborted = FALSE

HostCall ==
  /\ ~aborted /\ hostCalls < MaxHostCalls
  /\ hostCalls' = hostCalls + 1

(***************************************************************************)
(* NotifyErrorOverlay, with the overlay function the state has: none, or   *)
(* one that ends as given.  Only the message of LUA_ERRRUN is popped.      *)
(***************************************************************************)
Overlays == {"absent", "ok", "run", "other"}

NotifyErrorOverlay(stack, overlay) ==
  IF overlay = "other" THEN Append(stack, "message") ELSE stack

(***************************************************************************)
(* perform_lua_pcall, in place of the game's lua_call once protected calls *)
(* are forced: the handler goes under the function and comes out again     *)
(* from where it was put.  A call that fails leaves no results.            *)
(***************************************************************************)
WithHandler(stack, args) ==
  LET pushed == Append(stack, "handler")
  IN lua_insert(pushed, Len(pushed) - args - 1)

(* Broken: the handler is taken from the top, where results may be. *)
HandlerPopped(stack, errorhandler) == Pop(stack, 1)

WithoutHandler(stack, errorhandler) == RemoveAt(stack, errorhandler)

perform_lua_pcall(stack, args, returns, outcome, overlay) ==
  LET errorhandler == Len(stack) - args
      called == lua_pcall(WithHandler(stack, args), args, returns, outcome)
  IN WithoutHandler(IF outcome.status = "ok" THEN called
                    ELSE Pop(NotifyErrorOverlay(called, overlay), 1),
                    errorhandler)

(* The game pushes a function and arguments and calls; it expects returns  *)
(* results in their place.  Without the debug library the call is the      *)
(* game's own, and its error goes through the game.                        *)
ForcedCall ==
  \E args, returns \in 0..MaxValues, outcome \in Outcomes, overlay \in Overlays,
     debug \in BOOLEAN :
    LET pushed == luaStack \o <<"function">> \o Copies("argument", args) IN
    /\ HostCall
    /\ Len(expected) + returns <= MaxGame
    /\ expected' = expected \o Copies("result", returns)
    /\ IF debug
         THEN /\ luaStack' = perform_lua_pcall(pushed, args, returns, outcome, overlay)
              /\ failed' = (failed \/ (outcome.status # "ok" /\
                                        (returns > 0 \/ overlay = "other")))
              /\ UNCHANGED aborted
         ELSE /\ luaStack' = lua_pcall(pushed, args, returns, outcome)
              /\ aborted' = (outcome.status # "ok")
              /\ UNCHANGED failed
    /\ UNCHANGED <<registry, asked, returned>>

(* The game uses up what it takes to be its own. *)
GameTakes ==
  /\ ~aborted /\ luaStack # <<>> /\ expected # <<>>
  /\ luaStack' = Pop(luaStack, 1)
  /\ expected' = Pop(expected, 1)
  /\ UNCHANGED <<registry, asked, returned, failed, hostCalls, aborted>>

(***************************************************************************)
(* References to callbacks.  luaL_unref of reference 0, which is where the *)
(* registry keeps the head of the list of free slots, empties that list.   *)
(***************************************************************************)
Taken(reg) == IF reg.free = <<>> THEN [reg EXCEPT !.size = @ + 1]
                                 ELSE [reg EXCEPT !.free = Tail(@)]

luaL_ref(reg) == IF reg.free = <<>> THEN reg.size + 1 ELSE Head(reg.free)

luaL_unref(reg, ref) ==
  [reg EXCEPT !.free = IF ref = 0 THEN <<>> ELSE <<ref>> \o @]

(* luaF_dohttpreq with and without a progress callback, and the hashes     *)
(* with a callback; 0 stands for no reference.                             *)
Ask(kind, withProgress) ==
  LET first == IF withProgress THEN Taken(registry) ELSE registry IN
  /\ HostCall
  /\ Cardinality(asked) < MaxAsked
  /\ registry' = Taken(first)
  /\ asked' = asked \cup {[kind |-> kind, func |-> luaL_ref(first),
                           progress |-> IF withProgress THEN luaL_ref(registry)
                                                        ELSE 0]}
  /\ UNCHANGED <<luaStack, expected, returned, failed, aborted>>

dohttpreq == \E withProgress \in BOOLEAN : Ask("http", withProgress)
hash == Ask("hash", FALSE)

(* What a callback leaves: lua_pcall of a function the hook has pushed,    *)
(* whose result nothing takes off the stack.                               *)
Callback(nargs, outcome) ==
  /\ luaStack' = lua_pcall(luaStack \o <<"function">> \o Copies("argument", nargs),
                           nargs, 0, outcome)
  /\ failed' = (failed \/ outcome.status # "ok")

(* return_lua_http and call_hash_result: the call, then the references.    *)
return_lua_http ==
  \E a \in asked, outcome \in Outcomes :
    /\ a.kind = "http" /\ HostCall
    /\ Callback(3, outcome)
    /\ registry' = luaL_unref(luaL_unref(registry, a.func), a.progress)
    /\ asked' = asked \ {a}
    /\ UNCHANGED <<expected, returned, aborted>>

call_hash_result ==
  \E a \in asked, outcome \in Outcomes :
    /\ a.kind = "hash" /\ HostCall
    /\ Callback(2, outcome)
    /\ registry' = luaL_unref(registry, a.func)
    /\ asked' = asked \ {a}
    /\ UNCHANGED <<expected, returned, aborted>>

progress_lua_http ==
  \E a \in asked, outcome \in Outcomes :
    /\ a.kind = "http" /\ a.progress # 0 /\ HostCall
    /\ Callback(3, outcome)
    /\ UNCHANGED <<expected, registry, asked, returned, aborted>>

(* A completion of asynchronous I/O: the message of LUA_ERRRUN is popped,  *)
(* and any other that stays on the stack makes invoke_on_update abort.     *)
invoke_on_update ==
  \E outcome \in Outcomes :
    LET called == lua_pcall(luaStack \o <<"function", "argument">>, 1, 0, outcome)
        after == IF outcome.status = "run" THEN Pop(called, 1) ELSE called
    IN /\ HostCall
       /\ luaStack' = after
       /\ aborted' = (Len(after) # Len(luaStack))
       /\ UNCHANGED <<expected, registry, asked, returned, failed>>

(***************************************************************************)
(* Functions for Lua.  Each has a stack of its own, its arguments at the   *)
(* bottom, and returns the topmost values; the first argument is the       *)
(* function that is called, or the file's name.                            *)
(***************************************************************************)
Arguments(n) == <<"function">> \o Copies("argument", n)

(* The global pcall, which logs an error and returns nothing. *)
pcall(args, outcome) ==
  LET called == lua_pcall(WithHandler(Arguments(args), args), args, MULTRET, outcome)
  IN IF outcome.status = "run" THEN <<>>
     ELSE lua_insert(Append(RemoveAt(called, 1),
                            IF outcome.status = "ok" THEN "true" ELSE "false"), 1)

(* blt.pcall *)
pcall_proper(args, outcome) ==
  lua_insert(Append(lua_pcall(Arguments(args), args, MULTRET, outcome),
                    IF outcome.status = "ok" THEN "true" ELSE "false"), 1)

(* blt.xpcall: the error function, second of its arguments, goes under the *)
(* function and is replaced by the status.                                 *)
xpcall(args, outcome) ==
  LET given == <<"function", "handler">> \o Copies("argument", args)
      copied == RemoveAt(Append(given, given[2]), 2)
      called == lua_pcall(lua_insert(copied, 1), args, MULTRET, outcome)
  IN lua_replace(Append(called, IF outcome.status = "ok" THEN "true" ELSE "false"), 1)

(* The global dofile returns nothing, whether the file loads, runs or not; *)
(* blt.vm.dofile returns the results, and its error goes on.               *)
dofile(args, outcome) == <<>>

vm_dofile(args, outcome) ==
  LET n == args + 1
      called == lua_pcall(Append(Arguments(args), "function"), 0, MULTRET, outcome)
  IN IF outcome.status = "ok" THEN SubSeq(called, n + 1, Len(called))
                              ELSE <<"error">>

(* blt.vm.load and blt.vm.loadfile: the chunk, or nil and the message. *)
load(args, outcome) ==
  IF outcome.status = "ok" THEN <<"function">>
  ELSE LET loaded == Append(Append(Arguments(args), "message"), "nil")
           ordered == lua_insert(loaded, Len(loaded) - 1)
       IN SubSeq(ordered, Len(ordered) - 1, Len(ordered))

(* blt.load_native: the values the plugin pushes, under them true or the   *)
(* text for a plugin that was loaded already.                              *)
load_native(args, outcome) ==
  IF outcome.status # "ok" THEN <<"error">>
  ELSE LET pushed == Append(Arguments(args) \o Copies("result", outcome.results), "true")
           ordered == lua_insert(pushed, Len(pushed) - outcome.results)
       IN SubSeq(ordered, Len(ordered) - outcome.results, Len(ordered))

FunctionNames == {"pcall", "blt.pcall", "blt.xpcall", "dofile", "blt.vm.dofile",
                  "blt.vm.load", "blt.load_native"}

Returns(func, outcome, results) ==
  returned' = [func |-> func, outcome |-> outcome, results |-> results]

LuaCallsFunction ==
  /\ HostCall
  /\ \E args \in 0..MaxValues, outcome \in Outcomes :
       \/ Returns("pcall", outcome, pcall(args, outcome))
       \/ Returns("blt.pcall", outcome, pcall_proper(args, outcome))
       \/ Returns("blt.xpcall", outcome, xpcall(args, outcome))
       \/ Returns("dofile", outcome, dofile(args, outcome))
       \/ Returns("blt.vm.dofile", outcome, vm_dofile(args, outcome))
       \/ Returns("blt.vm.load", outcome, load(args, outcome))
       \/ Returns("blt.load_native", outcome, load_native(args, outcome))
  /\ UNCHANGED <<luaStack, expected, registry, asked, failed, aborted>>

CallsNext ==
  \/ ForcedCall
  \/ GameTakes
  \/ dohttpreq
  \/ hash
  \/ return_lua_http
  \/ call_hash_result
  \/ progress_lua_http
  \/ invoke_on_update
  \/ LuaCallsFunction

CallsSpec == CallsInit /\ [][CallsNext]_callVars

-----------------------------------------------------------------------------
(* Every variable keeps the shape its declaration gives it. *)
CallsTypeOK ==
  /\ luaStack \in Seq({"result", "message", "handler"})
  /\ expected \in Seq({"result"})
  /\ registry.size \in Nat /\ Range(registry.free) \subseteq 1..registry.size
  /\ \A a \in asked : a.func \in 1..registry.size /\ a.progress \in 0..registry.size
  /\ returned.func \in FunctionNames \cup {"none"}
  /\ {failed, aborted} \subseteq BOOLEAN
  /\ hostCalls \in 0..MaxHostCalls

(* Until a callback or a forced call with results fails, the game finds on *)
(* its stack exactly what its own calls put there (the comments on lua_pop *)
(* at InitiateState.cpp:878 and :895).                                     *)
StackKept == ~failed /\ ~aborted => luaStack = expected

(* A reference belongs to one callback from when it is asked for until it  *)
(* is called, although luaL_unref is also called for reference 0.          *)
References ==
  {<<a, "func", a.func>> : a \in asked}
    \cup {<<a, "progress", a.progress>> : a \in {b \in asked : b.progress # 0}}

RefsOwnedOnce ==
  /\ \A r, s \in References : r[3] = s[3] => r = s
  /\ IsInjective(registry.free)
  /\ \A r \in References : r[3] \notin Range(registry.free)

(* What Lua gets back is what the functions it knows by these names give:  *)
(* the status first and every result after it, in their place; the global  *)
(* pcall is the exception for errors and gives nothing.                    *)
LuaGetsResults ==
  LET outcome == returned.outcome
      status == IF outcome.status = "ok" THEN <<"true">> ELSE <<"false">>
      values == IF outcome.status = "ok" THEN Copies("result", outcome.results)
                                         ELSE <<"message">>
  IN /\ returned.func = "pcall" =>
          returned.results = IF outcome.status = "run" THEN <<>> ELSE status \o values
     /\ returned.func \in {"blt.pcall", "blt.xpcall"} =>
          returned.results = status \o values
     /\ returned.func = "dofile" => returned.results = <<>>
     /\ returned.func = "blt.vm.dofile" =>
          returned.results = IF outcome.status = "ok" THEN values ELSE <<"error">>
     /\ returned.func = "blt.vm.load" =>
          returned.results = IF outcome.status = "ok" THEN <<"function">>
                             ELSE <<"nil", "message">>
     /\ returned.func = "blt.load_native" =>
          returned.results = IF outcome.status = "ok" THEN status \o values
                             ELSE <<"error">>

StackAndRefsKept == StackKept /\ RefsOwnedOnce /\ LuaGetsResults
=============================================================================
