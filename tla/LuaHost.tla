------------------------------- MODULE LuaHost -------------------------------
(***************************************************************************)
(* The start of a Lua state (initiate_lua, src/InitiateState.cpp) and the  *)
(* native plugins (src/plugins).  A state is set up on the main thread;    *)
(* every plugin is to be set up once in every state, by the state's start  *)
(* when the plugin was there before, by the plugin's load when the state   *)
(* was.  A plugin is loaded by Lua, on the main thread, or by Wren, on     *)
(* whatever thread parses XML: neither list has a lock.                    *)
(***************************************************************************)
EXTENDS Integers, Sequences, SequencesExt

CONSTANTS
  HostStates,   \* Lua states, each created once
  PluginFiles,  \* plugin files
  BadPlugins,   \* those Init or the setup function rejects
  WrenThread,   \* a thread that parses XML
  NoState

ASSUME HostAssumption == NoState \notin HostStates /\ BadPlugins \subseteq PluginFiles

MainThread == "main"
Loaders == {MainThread, WrenThread}

VARIABLES
  active,       \* activeStates
  plugins_list,
  starting,     \* the state in initiate_lua, or NoState
  step,         \* and where: "check", "plugins", "base"
  nextPlugin,   \* the position of its loop over the plugins
  setup_check_done,
  basemod,      \* what is installed: "missing", "vanilla" or "present"
  base_lua,     \* how mods/base/base.lua ends
  fresh,        \* states that are still to be created
  setUps,       \* how often a plugin was set up in a state
  loading,      \* what each loader does: [file, at, state]
  raced,        \* history: states and plugins whose set-up a step of the other
                \* thread came into
  program       \* "running", "exited" or "aborted"

hostVars == <<active, plugins_list, starting, step, nextPlugin, setup_check_done,
              basemod, base_lua, fresh, setUps, loading, raced, program>>

NotLoading == [file |-> "none", at |-> "idle", state |-> 0]

HostInit ==
  /\ active = <<>>
  /\ plugins_list = <<>>
  /\ starting = NoState
  /\ step = "check"
  /\ nextPlugin = 1
  /\ setup_check_done = FALSE
  /\ basemod \in {"missing", "vanilla", "present"}
  /\ base_lua \in {"returns", "fails", "syntax error"}
  /\ fresh = HostStates
  /\ setUps = [s \in HostStates |-> [f \in PluginFiles |-> 0]]
  /\ loading = [t \in Loaders |-> NotLoading]
  /\ raced = {}
  /\ program = "running"

Plugins == Range(plugins_list)
Registering == {loading[t].file : t \in {u \in Loaders : loading[u].at = "register"}}
SetUp(s, f) == setUps' = [setUps EXCEPT ![s][f] = @ + 1]

(***************************************************************************)
(* initiate_lua: the state is listed first, so that plugins base.lua loads *)
(* reach it.  The check for the base mod is made for the first state only: *)
(* without one the player may download it, and the game exits, or decline, *)
(* and this state stays without the hook's functions; a base mod of        *)
(* another loader ends the game.                                           *)
(***************************************************************************)
CreateLuaState(s) ==
  /\ program = "running" /\ starting = NoState
  /\ loading[MainThread] = NotLoading
  /\ s \in fresh
  /\ fresh' = fresh \ {s}
  /\ active' = Append(active, s)
  /\ starting' = s
  /\ step' = "check"
  /\ nextPlugin' = 1
  /\ raced' = raced \cup {<<s, f>> : f \in Registering}
  /\ UNCHANGED <<plugins_list, setup_check_done, basemod, base_lua, setUps,
                 loading, program>>

CheckSetup ==
  /\ program = "running" /\ starting # NoState /\ step = "check"
  /\ setup_check_done' = TRUE
  /\ \/ /\ setup_check_done \/ basemod = "present"
        /\ step' = "plugins" /\ UNCHANGED <<starting, program>>
     \/ /\ ~setup_check_done /\ basemod \in {"missing", "vanilla"}
        /\ program' = "exited" /\ UNCHANGED <<starting, step>>
     \/ /\ ~setup_check_done /\ basemod = "missing"
        /\ starting' = NoState /\ UNCHANGED <<program, step>>
  /\ UNCHANGED <<active, plugins_list, nextPlugin, basemod, base_lua, fresh,
                 setUps, loading, raced>>

(* The loop over the plugins looks at the list as it is at each step. *)
SetUpPlugin ==
  /\ program = "running" /\ starting # NoState /\ step = "plugins"
  /\ IF nextPlugin <= Len(plugins_list)
       THEN /\ SetUp(starting, plugins_list[nextPlugin])
            /\ nextPlugin' = nextPlugin + 1
            /\ UNCHANGED step
       ELSE step' = "base" /\ UNCHANGED <<setUps, nextPlugin>>
  /\ UNCHANGED <<active, plugins_list, starting, setup_check_done, basemod,
                 base_lua, fresh, loading, raced, program>>

(* base.lua: a syntax error is logged and the start is over; any other     *)
(* failure to load leaves a message where the chunk should be, and calling *)
(* that, like an error of the chunk, aborts the game.                      *)
RunBase ==
  /\ program = "running" /\ starting # NoState /\ step = "base"
  /\ loading[MainThread] = NotLoading
  /\ IF basemod = "missing" \/ base_lua = "fails"
       THEN program' = "aborted" /\ UNCHANGED starting
       ELSE starting' = NoState /\ UNCHANGED program
  /\ UNCHANGED <<active, plugins_list, step, nextPlugin, setup_check_done, basemod,
                 base_lua, fresh, setUps, loading, raced>>

(* The list holds a state once. *)
CloseLuaState(s) ==
  /\ program = "running" /\ starting = NoState
  /\ loading[MainThread] = NotLoading
  /\ \E i \in DOMAIN active : active[i] = s /\ active' = RemoveAt(active, i)
  /\ raced' = raced \cup (Range(active) \X Registering)
  /\ UNCHANGED <<plugins_list, starting, step, nextPlugin, setup_check_done, basemod,
                 base_lua, fresh, setUps, loading, program>>

(***************************************************************************)
(* LoadPlugin.  Lua calls it from base.lua or later (luaF_load_native),    *)
(* Wren from any thread and at any time (io_load_plugin).  A file that is  *)
(* listed is not loaded again.  A plugin that cannot be created is not     *)
(* listed, though its module stays loaded.                                 *)
(***************************************************************************)
CanLoad(t) ==
  /\ program = "running" /\ loading[t] = NotLoading
  /\ basemod = "present"
  /\ t = MainThread => active # <<>> /\ (starting = NoState \/ step = "base")

(* Broken: the list is not looked through. *)
NeverLoaded(f) == FALSE

AlreadyLoaded(f) == f \in Plugins

BeginLoadPlugin(t, f) ==
  /\ CanLoad(t)
  /\ ~AlreadyLoaded(f)
  /\ loading' = [loading EXCEPT ![t] = [file |-> f, at |-> "create", state |-> 0]]
  /\ UNCHANGED <<active, plugins_list, starting, step, nextPlugin, setup_check_done,
                 basemod, base_lua, fresh, setUps, raced, program>>

(* CreateNativePlugin: Init checks the revision, the licence and the       *)
(* exports, and the constructor the setup function; then the list.         *)
ListPlugin(t) ==
  LET f == loading[t].file IN
  /\ program = "running" /\ loading[t].at = "create"
  /\ IF f \in BadPlugins
       THEN /\ loading' = [loading EXCEPT ![t] = NotLoading]
            /\ UNCHANGED <<plugins_list, raced>>
       ELSE /\ plugins_list' = Append(plugins_list, f)
            /\ loading' = [loading EXCEPT ![t] =
                 [file |-> f, at |-> "register", state |-> 1]]
            /\ raced' = raced
                 \cup {<<s, f>> : s \in {r \in {starting} \ {NoState} : step # "base"}}
                 \cup {<<s, f>> : s \in {r \in HostStates :
                        \E u \in Loaders \ {t} :
                          loading[u].file = f /\ loading[u].at = "create"}}
  /\ UNCHANGED <<active, starting, step, nextPlugin, setup_check_done, basemod,
                 base_lua, fresh, setUps, program>>

(* RegisterPluginForActiveStates, one state at a time. *)
RegisterPlugin(t) ==
  LET l == loading[t] IN
  /\ program = "running" /\ l.at = "register"
  /\ IF l.state <= Len(active)
       THEN /\ SetUp(active[l.state], l.file)
            /\ loading' = [loading EXCEPT ![t].state = @ + 1]
       ELSE /\ loading' = [loading EXCEPT ![t] = NotLoading]
            /\ UNCHANGED setUps
  /\ UNCHANGED <<active, plugins_list, starting, step, nextPlugin, setup_check_done,
                 basemod, base_lua, fresh, raced, program>>

HostNext ==
  \/ \E s \in HostStates : CreateLuaState(s) \/ CloseLuaState(s)
  \/ CheckSetup
  \/ SetUpPlugin
  \/ RunBase
  \/ \E t \in Loaders :
       (\E f \in PluginFiles : BeginLoadPlugin(t, f)) \/ ListPlugin(t) \/ RegisterPlugin(t)

HostSpec == HostInit /\ [][HostNext]_hostVars

-----------------------------------------------------------------------------
(* Every variable keeps the shape its declaration gives it. *)
HostTypeOK ==
  /\ Range(active) \subseteq HostStates \ fresh
  /\ Plugins \subseteq PluginFiles \ BadPlugins
  /\ starting \in HostStates \cup {NoState}
  /\ step \in {"check", "plugins", "base"}
  /\ nextPlugin \in 1..(Len(plugins_list) + 1)
  /\ setUps \in [HostStates -> [PluginFiles -> Nat]]
  /\ \A t \in Loaders : loading[t].at \in {"idle", "create", "register"}
  /\ program \in {"running", "exited", "aborted"}

(* When the frame update may hand the listed states to the listed plugins  *)
(* (lua_functions::update), each plugin has been set up in each state, and *)
(* once.  Steps of the other thread in the middle of a set-up are the only *)
(* exception, for a plugin of two loads or of a load that a start, an end  *)
(* or an update of states overlaps.                                        *)
PluginsSetUpOnce ==
  starting = NoState /\ loading[MainThread] = NotLoading =>
    \A s \in Range(active), f \in Plugins \ Registering :
      <<s, f>> \notin raced => setUps[s][f] = 1
=============================================================================
