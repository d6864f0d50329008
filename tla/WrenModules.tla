----------------------------- MODULE WrenModules -----------------------------
(***************************************************************************)
(* How Wren code is found and who it is (tweaker/wrenloader.cpp): imports, *)
(* the binding of foreign methods, and the natives that look at the call   *)
(* stack to learn which mod calls them (wren_environment.cpp,              *)
(* wren_lua_interface.cpp).  The path of a module is the sequence of its   *)
(* parts.  The calls of one fiber are modelled; what the scripts of the    *)
(* base mod and of the mods do is any of these calls in any order.         *)
(***************************************************************************)
EXTENDS Naturals, Sequences, FiniteSets, SequencesExt

CONSTANTS
    ModuleFiles,  \* mods/<mod>/<scripts_root>/<rest>.wren that exist
    Requests,     \* names that scripts of mods import
    Roots,        \* scripts_roots that are registered
    MaxFrames,    \* bound: calls in one another
    MaxCalls      \* bound: calls in one another when a function is called

ASSUME WrenModulesAssumption ==
    /\ MaxCalls \in Nat /\ MaxFrames \in Nat /\ MaxFrames >= 5 /\ MaxCalls <= MaxFrames
    /\ Requests \subseteq Seq(STRING)
    /\ \A name \in Requests :
         /\ name # <<>>
         /\ Head(name) \in {".", "...", "__raw_force_load"} => Len(name) > 1

VARIABLES
    wrenFrames,    \* the module of each call of the fiber, the newest last
    loadedModules, \* what Wren has loaded, or has begun to load
    mod_metadata,  \* scripts_root of the mods that are registered
    exposedNames,  \* <<mod, name>> of the objects registered for Lua
    requester,     \* whose import was the last to load a module
    fiberState     \* "starting" (base/base), "ready", "exited"

moduleVars == <<wrenFrames, loadedModules, mod_metadata, exposedNames,
                requester, fiberState>>

NoModule == <<>>
Root == <<"__root">>
Native == <<"base", "native">>
Meta == <<"meta">>
BaseMain == <<"base", "base">>
Mod(module) == Head(module)
InBase(module) == Len(module) > 1 /\ Mod(module) = "base"
BuiltinNames == {"DB_001", "Environment_001", "LuaInterface_001", "Utils_001",
                 "internal_001"}
Builtins == {Native} \cup {Append(Native, name) : name \in BuiltinNames}

ModulesInit ==
    /\ wrenFrames = <<Root>>
    /\ loadedModules = {Root}
    /\ mod_metadata = <<>>
    /\ exposedNames = {}
    /\ requester = Root
    /\ fiberState = "starting"

-----------------------------------------------------------------------------
(* Foreign methods: what the embedded modules declare and what is bound. *)

Foreigns(module, class, static, signatures) ==
    {[module |-> module, class |-> class, static |-> static,
      signature |-> signature] : signature \in signatures}

XmlMethods == {"type", "text", "text=(_)", "string", "name", "name=(_)",
    "[_]", "[_]=(_)", "attribute_names", "create_element(_)", "delete()",
    "detach()", "clone()", "attach(_)", "attach(_,_)", "next", "prev",
    "parent", "first_child", "last_child"}
HookMethods == {"fallback", "fallback=(_)", "mode", "enabled", "disable()",
    "plain_file", "plain_file=(_)", "direct_bundle", "set_direct_bundle(_,_)",
    "wren_loader", "wren_loader=(_)"}
Sub(name) == Append(Native, name)
Declared ==
    UNION {
      Foreigns(Native, "Logger", TRUE, {"log(_)"}),
      Foreigns(Native, "IO", TRUE, {"listDirectory(_,_)", "info(_)", "read(_)",
        "idstring_hash(_)", "load_plugin(_)", "has_native_module(_)"}),
      Foreigns(Native, "XML", TRUE, {"try_parse(_)"}),
      Foreigns(Native, "XML", FALSE, XmlMethods),
      Foreigns(Sub("DB_001"), "DBManager", TRUE,
        {"register_asset_hook(_,_)", "load_asset_contents(_,_)"}),
      Foreigns(Sub("DB_001"), "DBAssetHook", FALSE, HookMethods),
      Foreigns(Sub("DB_001"), "DBForeignFile", TRUE,
        {"of_file(_)", "of_asset(_,_)", "from_string(_)"}),
      Foreigns(Sub("internal_001"), "Internal", TRUE,
        {"tweaker_enabled=(_)", "register_mod_v1(_,_)", "warn_bad_mod(_,_)"}),
      Foreigns(Sub("Environment_001"), "Environment", TRUE,
        {"mod_directory", "mod_directory_at_depth(_)"}),
      Foreigns(Sub("LuaInterface_001"), "LuaInterface", TRUE,
        {"register_object(_,_)"}),
      Foreigns(Sub("Utils_001"), "Utils", TRUE, {"normalise_hash(_)"})}

bind_wxml_method(f) ==
    /\ f.module = Native /\ f.class = "XML"
    /\ IF f.static THEN f.signature = "try_parse(_)"
                   ELSE f.signature \in XmlMethods
bind_dbhook_method(f) ==
    /\ f.module = Sub("DB_001")
    /\ \/ /\ f.class = "DBManager" /\ f.static
          /\ f.signature \in {"register_asset_hook(_,_)",
                              "load_asset_contents(_,_)"}
       \/ /\ f.class = "DBAssetHook" /\ ~f.static
          /\ f.signature \in HookMethods
       \/ /\ f.class = "DBForeignFile" /\ f.static
          /\ f.signature \in {"of_file(_)", "of_asset(_,_)", "from_string(_)"}
bind_wren_lua_method(f) ==
    /\ f.module = Sub("LuaInterface_001") /\ f.class = "LuaInterface"
    /\ f.static /\ f.signature = "register_object(_,_)"
bind_wren_env_method(f) ==
    /\ f.module = Sub("Environment_001") /\ f.class = "Environment"
    /\ f.static
    /\ f.signature \in {"mod_directory", "mod_directory_at_depth(_)"}
bind_wren_utils_method(f) ==
    /\ f.module = Sub("Utils_001") /\ f.class = "Utils"
    /\ f.static /\ f.signature = "normalise_hash(_)"
bindForeignMethod(f) ==
    \/ bind_wxml_method(f) \/ bind_dbhook_method(f) \/ bind_wren_lua_method(f)
    \/ bind_wren_env_method(f) \/ bind_wren_utils_method(f)
    \/ /\ f.module = Native /\ f.static
       /\ \/ f.class = "Logger" /\ f.signature = "log(_)"
          \/ /\ f.class = "IO"
             /\ f.signature \in {"listDirectory(_,_)", "info(_)", "read(_)",
                  "idstring_hash(_)", "load_plugin(_)", "has_native_module(_)"}
    \/ /\ f.module = Sub("internal_001") /\ f.class = "Internal" /\ f.static
       /\ f.signature \in {"tweaker_enabled=(_)", "warn_bad_mod(_,_)",
                           "register_mod_v1(_,_)"}

Unbound(module) == {f \in Declared : f.module = module /\ ~bindForeignMethod(f)}

-----------------------------------------------------------------------------
(* Imports. *)

(* Broken: the caller of dynamic_import is not looked for. *)
ImporterNewest(stack, name) == Last(stack)

(* The module on whose behalf the newest call imports: a script that       *)
(* base/native makes for dynamic_import stands for the caller of that.     *)
Importer(stack, name) ==
    IF Last(stack) = Native /\ name # Meta
    THEN stack[Len(stack) - 3]
    ELSE Last(stack)

resolveModule(stack, name) ==
    LET importer == Importer(stack, name)
        rest == Tail(name)
        first == Head(name)
    IN CASE first = "." -> Front(importer) \o rest
         [] first = "..." ->
              (IF Len(importer) > 1 THEN <<Mod(importer)>> ELSE <<>>) \o rest
         [] InBase(name) /\ name[2] = "native" -> name
         [] InBase(name) /\ name[2] = "api" /\ Len(name) > 2 -> name
         [] InBase(name) /\ InBase(importer) -> name
         [] name \in {Meta, <<"random">>} -> name
         [] first = "__raw_force_load" -> rest
         [] importer = Root /\ first \notin {".", "...", "__raw_force_load"} -> name
         [] OTHER -> NoModule

(* The sources embedded in the DLL (generate.py), then the mod's file.     *)
lookup_builtin_wren_src(module) == module \in Builtins
scripts_root(mod) ==
    IF mod \in DOMAIN mod_metadata THEN mod_metadata[mod] ELSE "wren"
FileOf(module) ==
    <<Mod(module), scripts_root(Mod(module))>>
        \o (IF Len(module) = 1 THEN module ELSE Tail(module))
getModulePath(module) ==
    \/ lookup_builtin_wren_src(module)
    \/ FileOf(module) \in ModuleFiles
    \/ module \in {Meta, <<"random">>}

(* An error in the fiber ends all its calls; in the start, the process.    *)
AbortFiber ==
    /\ wrenFrames' = <<>>
    /\ fiberState' = IF fiberState = "starting" THEN "exited" ELSE fiberState

(* The newest call of stack imports name, for module who. *)
Import(stack, name, who) ==
    LET module == resolveModule(stack, name)
    IN /\ IF module = NoModule \/ (module \notin loadedModules /\
                                   ~getModulePath(module))
          THEN AbortFiber /\ UNCHANGED <<loadedModules, requester>>
          ELSE IF module \in loadedModules
          THEN UNCHANGED <<wrenFrames, loadedModules, requester, fiberState>>
          ELSE /\ loadedModules' = loadedModules \cup {module}
               /\ requester' = who
               /\ IF Unbound(module) = {}
                  THEN /\ wrenFrames' = Append(stack, module)
                       /\ UNCHANGED fiberState
                  ELSE AbortFiber
       /\ UNCHANGED <<mod_metadata, exposedNames>>

(* What the newest call may be doing. *)
Runs == wrenFrames # <<>> /\ fiberState # "exited"
ScriptRuns == Runs /\ Last(wrenFrames) \notin Builtins \cup {Meta, <<"random">>}
Room(n) == Len(wrenFrames) + n <= MaxFrames

ImportStatement ==
    /\ Runs /\ Room(1)
    /\ \E name \in CASE Last(wrenFrames) = Root -> {BaseMain}
                     [] Last(wrenFrames) = Native -> {Meta}
                     [] ScriptRuns /\ Last(wrenFrames) # Root -> Requests
                     [] OTHER -> {} :
          Import(wrenFrames, name, Last(wrenFrames))

(* IO.dynamic_import: base/native calls Meta.eval of an import statement,  *)
(* which is compiled as a function of base/native.                         *)
dynamic_import ==
    /\ ScriptRuns /\ Last(wrenFrames) # Root /\ Room(4)
    /\ Native \in loadedModules
    /\ \E name \in Requests :
          Import(wrenFrames \o <<Native, Meta, Native>>, name, Last(wrenFrames))

(* A call of a function that another module has defined. *)
CallFunction ==
    /\ Len(wrenFrames) < MaxCalls /\ fiberState # "exited"
    /\ Runs => ScriptRuns /\ Last(wrenFrames) # Root
    /\ wrenFrames = <<>> => fiberState = "ready"
    /\ \E module \in loadedModules \ (Builtins \cup {Root, Meta, <<"random">>}) :
          wrenFrames' = Append(wrenFrames, module)
    /\ UNCHANGED <<loadedModules, mod_metadata, exposedNames, requester,
                   fiberState>>

(* The newest call returns, and with it a dynamic_import it was made for.  *)
(* base/native has imported meta by then.                                  *)
ReturnFunction ==
    /\ Runs /\ (Last(wrenFrames) = Native => Meta \in loadedModules)
    /\ LET rest == Front(wrenFrames)
           dynamic == Len(rest) > 3 /\ Last(rest) = Native
                      /\ rest[Len(rest) - 1] = Meta
       IN wrenFrames' = IF dynamic THEN SubSeq(rest, 1, Len(rest) - 3) ELSE rest
    /\ fiberState' = IF wrenFrames = <<Root>> THEN "ready" ELSE fiberState
    /\ UNCHANGED <<loadedModules, mod_metadata, exposedNames, requester>>

-----------------------------------------------------------------------------
(* Natives that scripts call. *)

Uses(name) == ScriptRuns /\ Last(wrenFrames) # Root /\ Sub(name) \in loadedModules

(* A name or a root that is not a string aborts the fiber. *)
register_mod_v1 ==
    /\ Uses("internal_001")
    /\ \/ /\ \E mod \in {file[1] : file \in ModuleFiles}, root \in Roots :
                mod_metadata' = [m \in DOMAIN mod_metadata \cup {mod} |->
                                   IF m = mod THEN root ELSE mod_metadata[m]]
          /\ UNCHANGED <<wrenFrames, fiberState>>
       \/ AbortFiber /\ UNCHANGED mod_metadata
    /\ UNCHANGED <<loadedModules, exposedNames, requester>>

(* mod_directory and mod_directory_at_depth: "mods/" and the first part of *)
(* the caller's module, if there is a caller and its path has parts.       *)
get_mod_directory(depth) ==
    /\ Uses("Environment_001")
    /\ IF depth >= Len(wrenFrames) \/ Len(wrenFrames[Len(wrenFrames) - depth]) < 2
       THEN AbortFiber
       ELSE UNCHANGED <<wrenFrames, fiberState>>
    /\ UNCHANGED <<loadedModules, mod_metadata, exposedNames, requester>>

(* Broken: the path is cut at its other end. *)
LastPart(stack) == Last(Last(stack))

find_wren_caller(stack) == Mod(Last(stack))
register_object(name) ==
    /\ Uses("LuaInterface_001")
    /\ LET full_name == <<find_wren_caller(wrenFrames), name>>
       IN IF full_name \in exposedNames
          THEN AbortFiber /\ UNCHANGED exposedNames
          ELSE /\ exposedNames' = exposedNames \cup {full_name}
               /\ UNCHANGED <<wrenFrames, fiberState>>
    /\ UNCHANGED <<loadedModules, mod_metadata, requester>>

ModulesNext ==
    \/ ImportStatement \/ dynamic_import \/ CallFunction \/ ReturnFunction
    \/ register_mod_v1
    \/ \E depth \in 0..2 : get_mod_directory(depth)
    \/ register_object("object")

ModulesSpec == ModulesInit /\ [][ModulesNext]_moduleVars

-----------------------------------------------------------------------------
(* Every variable keeps the shape its declaration gives it. *)
ModulesTypeOK ==
    /\ wrenFrames \in Seq(loadedModules)
    /\ Len(wrenFrames) <= MaxFrames
    /\ \A module \in loadedModules : module # NoModule
    /\ \A mod \in DOMAIN mod_metadata : mod_metadata[mod] \in Roots
    /\ \A full \in exposedNames : \E module \in loadedModules :
          full[1] = Mod(module)
    /\ requester \in loadedModules
    /\ fiberState \in {"starting", "ready", "exited"}

PrivateToBase(module) ==
    InBase(module) /\ module[2] # "native" /\ ~(module[2] = "api" /\ Len(module) > 2)
ForcedNames == {Tail(name) : name \in {n \in Requests :
                                         Head(n) = "__raw_force_load"}}

(* A private module of the base mod is loaded only for a module of the     *)
(* base mod or for the root, whether by an import statement or through     *)
(* dynamic_import, which base/native runs on behalf of its caller - unless *)
(* its name is forced, or the importer was loaded by a name of one part: a *)
(* relative import takes such a name away with the path.  And modules that *)
(* are embedded in the DLL load for every mod: all their foreign methods   *)
(* are bound.                                                              *)
ImportRules ==
    [][/\ \A module \in loadedModules' \ loadedModules : PrivateToBase(module) =>
             InBase(requester') \/ Len(requester') = 1 \/ module \in ForcedNames
       /\ \A module \in Builtins \cap loadedModules' : Unbound(module) = {}]_moduleVars
=============================================================================
