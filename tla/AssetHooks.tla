----------------------------- MODULE AssetHooks -----------------------------
(***************************************************************************)
(* The asset hooks: the game's load function is patched to call a stub,    *)
(* hook_load (assets_game.cpp), which asks hook_asset_load (db_hooks.cpp)  *)
(* whether a mod replaces the asset, and otherwise takes the patch out,    *)
(* calls the game's own function, and puts the patch back.                 *)
(*                                                                         *)
(* Several threads load at once.  Only Wren code changes what is replaced, *)
(* under the VM lock; a load reads it without the lock and takes the lock  *)
(* only to call a Wren loader.  Each of the four patched functions has a   *)
(* hook of its own: this is one of them.  The Wren VM and subhook are      *)
(* external.                                                               *)
(***************************************************************************)
EXTENDS Naturals, Sequences, SequencesExt

CONSTANTS
  Threads,      (* threads of the game that load assets or run Wren code *)
  Assets,       (* names of assets *)
  Free,         (* nobody holds the lock *)
  MaxLoads,     (* bound: loads of one thread *)
  MaxScripts,   (* bound: times Wren code is run *)
  MaxWrites     (* bound: changes Wren code makes *)

ASSUME AssetAssumption ==
  /\ Free \notin Threads \cup Assets
  /\ MaxLoads \in Nat /\ MaxScripts \in Nat /\ MaxWrites \in Nat

VARIABLES
  packaged,     (* the assets the game's loaded packages provide *)
  target,       (* target[a]: the DBTargetFile of a in overriddenFiles *)
  vmLock,       (* who holds the lock of the Wren VM *)
  writing,      (* writing[t]: the change t is in the middle of, or NoWrite *)
  installed,    (* the patch is in the game's function *)
  pc,           (* pc[t]: where thread t is *)
  load,         (* load[t]: its load, the innermost call of hook_load *)
  frames,       (* frames[t]: what removed_ is in each ScopedHookRemove *)
  loads, scripts, writes,  (* counted for the bounds *)
  status        (* of the process *)

wrenVars == <<packaged, target, writing, scripts, writes>>
hookVars == <<wrenVars, vmLock>>
vars == <<hookVars, installed, pc, load, frames, loads, status>>

(* The ways to replace an asset, in the order hook_asset_load tries them. *)
Source == <<"plain_file", "direct_bundle", "wren_loader">>
Sources == {"plain_file", "direct_bundle", "wren_loader"}

Unhooked == [hooked |-> FALSE]
Target(fallback, sources) ==
  [hooked |-> TRUE, fallback |-> fallback, sources |-> sources]
Targets == [hooked : {TRUE}, fallback : BOOLEAN, sources : SUBSET Sources]

AtMostOne(S) == \A x, y \in S : x = y

NoWrite == [what |-> "nothing"]
Write == [what : Sources \cup {"entry"}, asset : Assets]

(* In a load: before the look-up in overriddenFiles; before a test; before *)
(* the use of the source that passed its test; in the Wren loader; before  *)
(* ScopedHookRemove; before the call of the game's function; in it; back   *)
(* from it; before the scope ends; with an archive for the game.           *)
LoadPlace == {"lookup", "test", "use", "wren", "remove", "call", "running",
              "returned", "scope", "done"}

(* A load: its asset; fallback_mode; which source is tested or used; what  *)
(* it got; and, for the properties, whether the patch sent it to the stub  *)
(* and whether no change to what it reads has overlapped with it.          *)
Load == [asset : Assets, fallback_mode : BOOLEAN, source : 1..3,
         got : Sources \cup {"game", "nothing"},
         seen : BOOLEAN, stable : BOOLEAN]
NoLoad == [asset |-> Free]

TypeOK ==
  /\ packaged \subseteq Assets
  /\ target \in [Assets -> {Unhooked} \cup Targets]
  /\ vmLock \in Threads \cup {Free}
  /\ writing \in [Threads -> {NoWrite} \cup Write]
  /\ installed \in BOOLEAN
  /\ pc \in [Threads -> {"idle", "script"} \cup LoadPlace]
  /\ load \in [Threads -> {NoLoad} \cup Load]
  /\ frames \in [Threads -> Seq(BOOLEAN)]
  /\ loads \in [Threads -> 0..MaxLoads]
  /\ scripts \in 0..MaxScripts /\ writes \in 0..MaxWrites
  /\ status \in {"running", "exited", "crashed"}
  /\ \A t \in Threads :
       /\ pc[t] \in LoadPlace => load[t] \in Load
       /\ pc[t] \in {"idle", "script", "done"} => frames[t] = <<>>
       /\ pc[t] \in {"call", "scope", "returned"} => frames[t] # <<>>
       /\ writing[t] # NoWrite => pc[t] \in {"script", "wren"}

(* base.wren has registered some assets before the first load. *)
Init ==
  /\ packaged \in SUBSET Assets
  /\ target \in [Assets -> {Unhooked} \cup Targets]
  /\ \A a \in Assets : target[a].hooked => AtMostOne(target[a].sources)
  /\ vmLock = Free
  /\ writing = [t \in Threads |-> NoWrite]
  /\ installed = TRUE
  /\ pc = [t \in Threads |-> "idle"]
  /\ load = [t \in Threads |-> NoLoad]
  /\ frames = [t \in Threads |-> <<>>]
  /\ loads = [t \in Threads |-> 0]
  /\ scripts = 0 /\ writes = 0
  /\ status = "running"

-----------------------------------------------------------------------------
(* A load by thread t. *)

Goto(t, place) == pc' = [pc EXCEPT ![t] = place]
Try(t, source) == load' = [load EXCEPT ![t].source = source]
Get(t, got) == load' = [load EXCEPT ![t].got = got]
Mode(t, mode) == load' = [load EXCEPT ![t].fallback_mode = mode]
StopProcess(how) == status' = how /\ UNCHANGED <<pc, load>>

(* hook_load or the game's function returns: to the hook_load that called   *)
(* it, if it was called by one.                                             *)
CallerOf(t) == IF frames[t] = <<>> THEN "done" ELSE "returned"

(* Thread u is in the middle of a change to what a load of a reads. *)
Inserting(u) == writing[u] # NoWrite /\ writing[u].what = "entry"
Changes(u, a) == Inserting(u) \/ (writing[u] # NoWrite /\ writing[u].asset = a)

(* The game loads a: the patch, if it is in place, leads to hook_load. *)
Enter(t, a) ==
  /\ pc[t] = "idle"
  /\ loads[t] < MaxLoads
  /\ loads' = [loads EXCEPT ![t] = @ + 1]
  /\ load' = [load EXCEPT ![t] =
       [asset |-> a, fallback_mode |-> FALSE, source |-> 1, got |-> "nothing",
        seen |-> installed,
        stable |-> \A u \in Threads : ~Changes(u, a)]]
  /\ Goto(t, IF installed THEN "lookup" ELSE "running")
  /\ UNCHANGED <<hookVars, installed, frames, status>>

(* hook_asset_load returns false. *)
NotFound(t) == IF load[t].fallback_mode THEN "scope" ELSE "remove"

(* hook_asset_load returns true. *)
Found(t) == IF load[t].fallback_mode THEN "scope" ELSE CallerOf(t)

(* Broken: fallback_mode is not looked at. *)
LookUpNoFallback(t) ==
  /\ pc[t] = "lookup"
  /\ LET T == target[load[t].asset] IN
     Goto(t, IF ~T.hooked THEN NotFound(t) ELSE "test")
  /\ Try(t, 1)
  /\ UNCHANGED <<hookVars, installed, frames, loads, status>>

(* overriddenFiles is searched without a lock: a search during an insertion *)
(* is undefined, and fails or works by luck.                                *)
LookUp(t) ==
  /\ pc[t] = "lookup"
  /\ \/ /\ LET T == target[load[t].asset] IN
           Goto(t, IF ~T.hooked \/ (T.fallback /\ ~load[t].fallback_mode)
                   THEN NotFound(t) ELSE "test")
        /\ Try(t, 1)
        /\ UNCHANGED status
     \/ (\E u \in Threads : Inserting(u)) /\ StopProcess("crashed")
  /\ UNCHANGED <<hookVars, installed, frames, loads>>

Has(t) == Source[load[t].source] \in target[load[t].asset].sources

(* Broken: the last source is taken without a test. *)
TestSourceElse(t) ==
  /\ pc[t] = "test"
  /\ IF Has(t) \/ load[t].source = 3
     THEN Goto(t, "use") /\ UNCHANGED load
     ELSE UNCHANGED pc /\ Try(t, load[t].source + 1)
  /\ UNCHANGED <<hookVars, installed, frames, loads, status>>

(* One test of the chain if (plain_file) else if (direct_bundle) ... *)
TestSource(t) ==
  /\ pc[t] = "test"
  /\ IF Has(t) THEN Goto(t, "use") /\ UNCHANGED load
     ELSE IF load[t].source = 3 THEN Goto(t, NotFound(t)) /\ UNCHANGED load
     ELSE UNCHANGED pc /\ Try(t, load[t].source + 1)
  /\ UNCHANGED <<hookVars, installed, frames, loads, status>>

(* The file or the bundle is opened, or is missing.  If the source has gone *)
(* since its test: an empty bundle id is not found, an empty optional       *)
(* throws or yields a name that is no file's.                               *)
OpenSource(t) ==
  /\ pc[t] = "use"
  /\ Source[load[t].source] # "wren_loader"
  /\ \/ /\ Has(t)
        /\ Get(t, Source[load[t].source])
        /\ Goto(t, Found(t))
        /\ UNCHANGED status
     \/ StopProcess("exited")
     \/ /\ ~Has(t) /\ Source[load[t].source] = "plain_file"
        /\ StopProcess("crashed")
  /\ UNCHANGED <<hookVars, installed, frames, loads>>

(* The Wren loader is called under the VM lock, if it is still there then. *)
CallLoader(t) ==
  /\ pc[t] = "use"
  /\ Source[load[t].source] = "wren_loader"
  /\ vmLock = Free
  /\ IF Has(t)
     THEN vmLock' = t /\ Goto(t, "wren") /\ UNCHANGED <<load, status>>
     ELSE StopProcess("crashed") /\ UNCHANGED vmLock
  /\ UNCHANGED <<wrenVars, installed, frames, loads>>

(* Broken: the lock is kept. *)
LoaderReturnsLocked(t) ==
  /\ pc[t] = "wren"
  /\ writing[t] = NoWrite
  /\ Get(t, "wren_loader")
  /\ Goto(t, Found(t))
  /\ UNCHANGED <<hookVars, installed, frames, loads, status>>

(* It returns a DBForeignFile that is opened, or something went wrong. *)
LoaderReturns(t) ==
  /\ pc[t] = "wren"
  /\ writing[t] = NoWrite
  /\ \/ /\ vmLock' = Free
        /\ Get(t, "wren_loader")
        /\ Goto(t, Found(t))
        /\ UNCHANGED status
     \/ StopProcess("exited") /\ UNCHANGED vmLock
  /\ UNCHANGED <<wrenVars, installed, frames, loads>>

-----------------------------------------------------------------------------
(* The game's own function, with the patch taken out. *)

(* Broken: the scope puts the patch back whoever took it out. *)
RemoveHookAlways(t) ==
  /\ pc[t] = "remove"
  /\ frames' = [frames EXCEPT ![t] = Append(@, TRUE)]
  /\ installed' = FALSE
  /\ Goto(t, "call")
  /\ UNCHANGED <<hookVars, load, loads, status>>

(* ScopedHookRemove: takes the patch out, if no other thread has. *)
RemoveHook(t) ==
  /\ pc[t] = "remove"
  /\ frames' = [frames EXCEPT ![t] = Append(@, installed)]
  /\ installed' = FALSE
  /\ Goto(t, "call")
  /\ UNCHANGED <<hookVars, load, loads, status>>

(* orig is called: if another thread has put the patch back by now, this is *)
(* a call of hook_load again, on the same archive.                          *)
CallOriginal(t) ==
  /\ pc[t] = "call"
  /\ Goto(t, IF installed THEN "lookup" ELSE "running")
  /\ Mode(t, FALSE)
  /\ UNCHANGED <<hookVars, installed, frames, loads, status>>

GameLoads(a) == IF a \in packaged THEN "game" ELSE "nothing"

OriginalReturns(t) ==
  /\ pc[t] = "running"
  /\ Get(t, GameLoads(load[t].asset))
  /\ Goto(t, CallerOf(t))
  /\ UNCHANGED <<hookVars, installed, frames, loads, status>>

(* The probably_not_loaded_flag: a second look-up, for fallbacks. *)
TestLoaded(t) ==
  /\ pc[t] = "returned"
  /\ IF load[t].got = "nothing"
     THEN Mode(t, TRUE) /\ Goto(t, "lookup")
     ELSE UNCHANGED load /\ Goto(t, "scope")
  /\ UNCHANGED <<hookVars, installed, frames, loads, status>>

(* Broken: the frame stays. *)
EndScopeKept(t) ==
  /\ pc[t] = "scope"
  /\ installed' = (installed \/ Last(frames[t]))
  /\ Goto(t, "done")
  /\ UNCHANGED <<hookVars, load, frames, loads, status>>

(* The end of the scope puts the patch back if this scope took it out. *)
EndScope(t) ==
  /\ pc[t] = "scope"
  /\ installed' = (installed \/ Last(frames[t]))
  /\ frames' = [frames EXCEPT ![t] = Front(@)]
  /\ Goto(t, IF Len(frames[t]) = 1 THEN "done" ELSE "returned")
  /\ UNCHANGED <<hookVars, load, loads, status>>

(* The game goes on with the archive it was given. *)
TakeArchive(t) ==
  /\ pc[t] = "done"
  /\ Goto(t, "idle")
  /\ load' = [load EXCEPT ![t] = NoLoad]
  /\ UNCHANGED <<hookVars, installed, frames, loads, status>>

-----------------------------------------------------------------------------
(* Wren code: XML tweaks, calls from Lua, and the loaders themselves. *)

(* Broken: the lock is not taken. *)
StartScriptUnlocked(t) ==
  /\ pc[t] = "idle"
  /\ scripts < MaxScripts
  /\ scripts' = scripts + 1
  /\ Goto(t, "script")
  /\ UNCHANGED <<packaged, target, vmLock, writing, writes, installed, load,
                 frames, loads, status>>

StartScript(t) ==
  /\ pc[t] = "idle"
  /\ vmLock = Free
  /\ scripts < MaxScripts
  /\ vmLock' = t
  /\ scripts' = scripts + 1
  /\ Goto(t, "script")
  /\ UNCHANGED <<packaged, target, writing, writes, installed, load, frames,
                 loads, status>>

EndScript(t) ==
  /\ pc[t] = "script"
  /\ writing[t] = NoWrite
  /\ vmLock' = Free
  /\ Goto(t, "idle")
  /\ UNCHANGED <<wrenVars, installed, load, frames, loads, status>>

(* The loads of an asset in A overlap with a change. *)
Disturb(A) ==
  load' = [t \in Threads |->
    IF load[t].asset \in A THEN [load[t] EXCEPT !.stable = FALSE] ELSE load[t]]

CanWrite(t) ==
  /\ pc[t] \in {"script", "wren"}
  /\ writing[t] = NoWrite
  /\ writes < MaxWrites
  /\ writes' = writes + 1
  /\ UNCHANGED <<packaged, vmLock, scripts, installed, pc, frames, loads>>

(* A second registration of an asset aborts the game, as a bad name does. *)
register_asset_hook(t, a) ==
  /\ CanWrite(t)
  /\ \/ /\ ~target[a].hooked
        /\ writing' = [writing EXCEPT ![t] = [what |-> "entry", asset |-> a]]
        /\ Disturb(Assets)
        /\ UNCHANGED status
     \/ status' = "exited" /\ UNCHANGED <<writing, load>>
  /\ UNCHANGED target

(* setPlainFile, setDirectBundle and setWrenLoader: clear_sources first. *)
set_source(t, a, s) ==
  /\ CanWrite(t)
  /\ target[a].hooked
  /\ target' = [target EXCEPT ![a].sources = {}]
  /\ writing' = [writing EXCEPT ![t] = [what |-> s, asset |-> a]]
  /\ Disturb({a})
  /\ UNCHANGED status

disable(t, a) ==
  /\ CanWrite(t)
  /\ target[a].hooked
  /\ target' = [target EXCEPT ![a].sources = {}]
  /\ Disturb({a})
  /\ UNCHANGED <<writing, status>>

setFallback(t, a, val) ==
  /\ CanWrite(t)
  /\ target[a].hooked
  /\ target' = [target EXCEPT ![a].fallback = val]
  /\ Disturb({a})
  /\ UNCHANGED <<writing, status>>

(* The second half of a registration or of a setter, set_direct_bundle      *)
(* aborts for a bad name.                                                   *)
FinishWrite(t) ==
  /\ writing[t] # NoWrite
  /\ \/ /\ target' = [target EXCEPT ![writing[t].asset] =
             IF writing[t].what = "entry" THEN Target(FALSE, {})
             ELSE Target(@.fallback, @.sources \cup {writing[t].what})]
        /\ writing' = [writing EXCEPT ![t] = NoWrite]
        /\ UNCHANGED status
     \/ /\ writing[t].what = "direct_bundle"
        /\ status' = "exited"
        /\ UNCHANGED <<target, writing>>
  /\ UNCHANGED <<packaged, vmLock, scripts, writes, installed, pc, load, frames,
                 loads>>

LoadStep(t) ==
  \/ LookUp(t)
  \/ TestSource(t)
  \/ OpenSource(t)
  \/ CallLoader(t)
  \/ LoaderReturns(t)
  \/ RemoveHook(t)
  \/ CallOriginal(t)
  \/ OriginalReturns(t)
  \/ TestLoaded(t)
  \/ EndScope(t)
  \/ TakeArchive(t)

WrenStep(t) ==
  \/ FinishWrite(t)
  \/ EndScript(t)

WrenWrite(t) ==
  \E a \in Assets :
    \/ register_asset_hook(t, a)
    \/ \E s \in Sources : set_source(t, a, s)
    \/ disable(t, a)
    \/ \E val \in BOOLEAN : setFallback(t, a, val)

Next ==
  /\ status = "running"
  /\ \E t \in Threads :
       \/ \E a \in Assets : Enter(t, a)
       \/ LoadStep(t)
       \/ StartScript(t)
       \/ WrenWrite(t)
       \/ WrenStep(t)

Spec == Init /\ [][Next]_vars

(* Every thread is scheduled, the game's function returns and Wren code    *)
(* comes to an end.                                                        *)
Fairness ==
  \A t \in Threads :
    /\ WF_vars(status = "running" /\ LoadStep(t))
    /\ WF_vars(status = "running" /\ WrenStep(t))

FairSpec == Spec /\ Fairness

-----------------------------------------------------------------------------
(* The patch is out of the game's function only while one scope that took   *)
(* it out is open, whatever other threads load meanwhile: it is neither     *)
(* lost for good nor put back twice.                                        *)
HookRestored ==
  /\ installed <=> \A t \in Threads : \A i \in DOMAIN frames[t] : ~frames[t][i]
  /\ \A t, u \in Threads :
       \A i \in DOMAIN frames[t], j \in DOMAIN frames[u] :
         frames[t][i] /\ frames[u][j] => t = u /\ i = j

(* An asset is never replaced in two ways at a time: a setter clears the    *)
(* other sources, and the VM lock keeps the setters of two threads apart.   *)
OneSource ==
  \A a \in Assets : target[a].hooked => AtMostOne(target[a].sources)

(* What the documentation of DBAssetHook promises for a target T, where the *)
(* game itself yields answer.                                               *)
Promised(T, answer) ==
  IF ~T.hooked \/ T.sources = {} \/ (T.fallback /\ answer = "game")
  THEN answer
  ELSE CHOOSE s \in Sources : s \in T.sources

Expected(a) == Promised(target[a], GameLoads(a))

(* A load that the patch sent to the stub gets what the target says, if the *)
(* target did not change under it: whatever other threads load or change,   *)
(* and also when the patch comes back before it calls the game's function.  *)
StableLoads ==
  \A t \in Threads : pc[t] = "done" /\ load[t].seen /\ load[t].stable =>
    load[t].got = Expected(load[t].asset)

(* Only a load that overlaps with a change to what it reads can crash the   *)
(* process (the reads of hook_asset_load take no lock).                     *)
CrashOnlyByOverlap ==
  [][status' = "crashed" => \E t \in Threads :
       pc[t] \in LoadPlace /\ ~load[t].stable]_vars

(* No load waits for ever: the VM lock is always given back.                *)
EveryLoadEnds ==
  \A t \in Threads :
    pc[t] \in LoadPlace ~> (pc[t] = "idle" \/ status # "running")

(* "Add a hook when loading a given asset into the game" (DB_001.wren:2):   *)
(* every load of the asset is hooked, also while another thread loads.      *)
HooksApply ==
  \A t \in Threads : pc[t] = "done" /\ load[t].stable =>
    load[t].got = Expected(load[t].asset)
=============================================================================
