----------------------------- MODULE WrenRuntime -----------------------------
(***************************************************************************)
(* The Wren VM and its two clients: the tweak of the XML files that the    *)
(* game parses (node_from_xml_new in platform_game.cpp, xmltweaker.cpp,    *)
(* transform_file in wrenloader.cpp) and wren_io.invoke of Lua             *)
(* (wren_lua_interface.cpp).  Any thread of the game may load and parse a  *)
(* file; Lua runs on one of them.  A call of the game's parser made while  *)
(* the patch is in place enters node_from_xml_new, also the call that      *)
(* node_from_xml_new itself makes: hence a stack of frames per thread.     *)
(* Texts are known by what was done to them.                               *)
(***************************************************************************)
EXTENDS Naturals, Sequences, FiniteSets, SequencesExt

CONSTANTS
    Threads,      \* threads of the game
    LuaThread,    \* the one that runs Lua
    Files,        \* names of files
    Binary,       \* those with the extensions model and texture
    NoThread, NoFile,
    MaxLoads,     \* bound: files loaded
    MaxInvokes    \* bound: calls of wren_io.invoke

ASSUME WrenRuntimeAssumption ==
    /\ LuaThread \in Threads /\ NoThread \notin Threads
    /\ Binary \subseteq Files /\ NoFile \notin Files
    /\ {MaxLoads, MaxInvokes} \subseteq Nat

VARIABLES
    lastLoaded,     \* last_loaded_name and _ext, globals of the game
    last_parsed,
    ignored_files,
    tweaker_enabled,
    patched,        \* the patch of node_from_xml is in place
    buffers,        \* <<thread, depth>> of each buffer in the set
    vm,             \* "none", "ready", or "unavailable"
    vm_mutex,       \* the holder of the VM's lock
    exposed_mutex,  \* the holder of wren_exposed_objects_mutex
    exposed,        \* whether Wren has registered the object Lua calls
    callHandles,    \* Wren handles made and not released
    frames,         \* frames[t]: open calls of node_from_xml_new
    load,           \* load[t]: the file that thread t loads and parses
    invocation,     \* where wren_lua_invoke is
    bounds,         \* how many loads and invocations have begun and, as a
                    \* history, how many tweaks have failed
    wrenState       \* "running", "exited", "undefined"

tweakVars == <<lastLoaded, last_parsed, ignored_files, tweaker_enabled>>
vmVars == <<vm, vm_mutex, exposed_mutex, exposed, callHandles>>
wrenVars == <<lastLoaded, last_parsed, ignored_files, tweaker_enabled, patched,
              buffers, vm, vm_mutex, exposed_mutex, exposed, callHandles,
              frames, load, invocation, bounds, wrenState>>

Texts == {"original", "tweaked", "twice", "garbled"}
Steps == {"entered", "test", "set", "lock", "wren", "wait", "register",
          "copy", "insert", "call", "erase", "erasing"}
Frame == [at : Steps, removed : BOOLEAN, tested : Files \cup {NoFile},
          tweakedAs : Files \cup {NoFile}, text : Texts, loose : BOOLEAN,
          buffer : Nat]  \* the depth of the frame that made it, or 0
Idle == [file |-> NoFile, alone |-> FALSE, expected |-> FALSE,
         parsed |-> "none", failed |-> FALSE, tweakedAs |-> NoFile]

Depth(t) == Len(frames[t])
Top(t) == frames[t][Depth(t)]
At(t, step) == Depth(t) > 0 /\ Top(t).at = step
Go(t, top) == frames' = [frames EXCEPT ![t] = [@ EXCEPT ![Len(@)] = top]]
To(t, step) == Go(t, [Top(t) EXCEPT !.at = step])

InvokesWren(t) == t = LuaThread /\ invocation # "idle"
Busy(t) == load[t].file # NoFile \/ InvokesWren(t)
(* Something else begins: no load of another thread is alone any more. *)
Disturb(t) == [u \in Threads |->
                 IF u = t THEN load[u] ELSE [load[u] EXCEPT !.alone = FALSE]]

WrenInit ==
    /\ lastLoaded = NoFile /\ last_parsed = NoFile
    /\ ignored_files = {} /\ tweaker_enabled = TRUE
    /\ patched = TRUE /\ buffers = {}
    /\ vm = "none" /\ vm_mutex = NoThread /\ exposed_mutex = NoThread
    /\ exposed = FALSE /\ callHandles = 0
    /\ frames = [t \in Threads |-> <<>>]
    /\ load = [t \in Threads |-> Idle]
    /\ invocation = "idle" /\ bounds = [loads |-> 0, invokes |-> 0, failures |-> 0]
    /\ wrenState = "running"

-----------------------------------------------------------------------------
(* The patched parser. *)

(* A call of node_from_xml: the patch leads it into the stub. *)
EnteredFrames(t, text, buffer) ==
    IF patched
    THEN Append(frames[t], [at |-> "entered", removed |-> FALSE,
                            tested |-> NoFile, tweakedAs |-> NoFile,
                            text |-> text, loose |-> FALSE,
                            buffer |-> buffer])
    ELSE frames[t]
ParsedLoad(l, text, name) ==
    IF patched THEN l ELSE [l EXCEPT !.parsed = text, !.tweakedAs = name]

(* The game loads file f, which leaves its name in the globals, ... *)
LoadFile(t, f) ==
    /\ ~Busy(t) /\ bounds.loads < MaxLoads
    /\ bounds' = [bounds EXCEPT !.loads = @ + 1]
    /\ lastLoaded' = f
    /\ load' = [Disturb(t) EXCEPT ![t] =
         [Idle EXCEPT !.file = f,
                      !.alone = \A u \in Threads \ {t} : ~Busy(u),
                      !.expected = /\ tweaker_enabled /\ last_parsed # f
                                   /\ f \notin Binary \cup ignored_files]]
    /\ UNCHANGED <<last_parsed, ignored_files, tweaker_enabled, patched,
                   buffers, vmVars, frames, invocation, wrenState>>

(* ... and then parses it. *)
ParseFile(t) ==
    /\ load[t].file # NoFile /\ load[t].parsed = "none" /\ Depth(t) = 0
    /\ frames' = [frames EXCEPT ![t] = EnteredFrames(t, "original", 0)]
    /\ load' = [load EXCEPT ![t] = ParsedLoad(@, "original", NoFile)]
    /\ UNCHANGED <<tweakVars, patched, buffers, vmVars, invocation, bounds,
                   wrenState>>

(* ScopedHookRemove. *)
RemovePatch(t) ==
    /\ At(t, "entered")
    /\ Go(t, [Top(t) EXCEPT !.at = "test", !.removed = patched])
    /\ patched' = FALSE
    /\ UNCHANGED <<tweakVars, buffers, vmVars, load, invocation, bounds,
                   wrenState>>

(* tweak_raid_xml reads last_parsed ... *)
Skipped(t) == ~tweaker_enabled \/ last_parsed = lastLoaded
TestFile(t) ==
    /\ At(t, "test")
    /\ Go(t, [Top(t) EXCEPT !.at = IF Skipped(t) THEN "call" ELSE "set",
                            !.tested = lastLoaded])
    /\ UNCHANGED <<tweakVars, patched, buffers, vmVars, load, invocation,
                   bounds, wrenState>>

(* ... and writes it. *)
SetParsed(t) ==
    /\ At(t, "set")
    /\ last_parsed' = Top(t).tested
    /\ To(t, IF Top(t).tested \in Binary \cup ignored_files
             THEN "call" ELSE "lock")
    /\ UNCHANGED <<lastLoaded, ignored_files, tweaker_enabled, patched,
                   buffers, vmVars, load, invocation, bounds, wrenState>>

(* get_wren_vm, under the lock: the first call makes the VM and runs the   *)
(* base script, unless its file is missing.                                *)
MakeVm ==
    IF vm = "none" THEN vm' \in {"ready", "unavailable"} ELSE vm' = vm

(* Texts that Wren has returned and nobody has copied yet may be collected *)
(* from the next call on.                                                  *)
Loosened == [u \in Threads |-> [i \in DOMAIN frames[u] |->
               IF frames[u][i].at \in {"copy", "insert"}
               THEN [frames[u][i] EXCEPT !.loose = TRUE] ELSE frames[u][i]]]

InitFails ==
    /\ vm = "none" /\ vm_mutex = NoThread
    /\ invocation = "lock" \/ \E t \in Threads : At(t, "lock")
    /\ wrenState' = "exited"
    /\ UNCHANGED <<tweakVars, patched, buffers, vmVars, frames, load,
                   invocation, bounds>>

(* transform_file: the lock, the VM, two handles and the call. *)
EnterWren(t) ==
    /\ At(t, "lock")
    /\ vm_mutex = NoThread
    /\ MakeVm
    /\ LET calls == vm' = "ready" IN
       /\ vm_mutex' = IF calls THEN t ELSE NoThread
       /\ callHandles' = IF calls THEN callHandles + 2 ELSE callHandles
       /\ frames' = [IF calls THEN Loosened ELSE frames EXCEPT ![t] =
            [@ EXCEPT ![Len(@)] =
               [Top(t) EXCEPT !.at = IF calls THEN "wren" ELSE "call",
                  !.tweakedAs = IF calls THEN lastLoaded ELSE NoFile]]]
       /\ load' = IF calls THEN load
                  ELSE [load EXCEPT ![t].failed = TRUE]
    /\ UNCHANGED <<tweakVars, patched, buffers, exposed_mutex, exposed,
                   invocation, bounds, wrenState>>

Tweak(text) == IF text = "original" THEN "tweaked"
               ELSE IF text = "tweaked" THEN "twice" ELSE text

(* The call failed: the text as it was; the handles are not released. *)
TweakFails(t) ==
    /\ At(t, "wren")
    /\ vm_mutex' = NoThread
    /\ Go(t, [Top(t) EXCEPT !.at = "call", !.tweakedAs = NoFile])
    /\ load' = [load EXCEPT ![t].failed = TRUE]
    /\ bounds' = [bounds EXCEPT !.failures = @ + 1]
    /\ UNCHANGED <<tweakVars, patched, buffers, vm, exposed_mutex, exposed,
                   callHandles, invocation, wrenState>>

(* The call returned a text of Wren's; the lock ends with the function. *)
TweakReturns(t) ==
    /\ At(t, "wren")
    /\ vm_mutex' = NoThread
    /\ callHandles' = callHandles - 2
    /\ Go(t, [Top(t) EXCEPT !.at = "copy", !.text = Tweak(@)])
    /\ UNCHANGED <<tweakVars, patched, buffers, vm, exposed_mutex, exposed,
                   load, invocation, bounds, wrenState>>

(* The set of buffers has no lock: two threads that change it at a time    *)
(* are undefined behaviour.                                                *)
InBuffers(t) == At(t, "insert") \/ At(t, "erasing")
BeginChange(t, from, step) ==
    /\ At(t, from)
    /\ IF \E u \in Threads \ {t} : InBuffers(u)
       THEN wrenState' = "undefined" /\ UNCHANGED frames
       ELSE To(t, step) /\ UNCHANGED wrenState
    /\ UNCHANGED <<tweakVars, patched, buffers, vmVars, load, invocation,
                   bounds>>
InsertBuffer(t) == BeginChange(t, "copy", "insert")
EraseBuffer(t) == BeginChange(t, "erase", "erasing")

CopyText(t) ==
    /\ At(t, "insert")
    /\ buffers' = buffers \cup {<<t, Depth(t)>>}
    /\ \E text \in {Top(t).text} \cup (IF Top(t).loose THEN {"garbled"} ELSE {}) :
          Go(t, [Top(t) EXCEPT !.at = "call", !.text = text,
                               !.buffer = Depth(t)])
    /\ UNCHANGED <<tweakVars, patched, vmVars, load, invocation, bounds,
                   wrenState>>

(* node_from_xml_new calls the game's parser. *)
CallParser(t) ==
    /\ At(t, "call")
    /\ frames' = [frames EXCEPT ![t] =
         [EnteredFrames(t, Top(t).text, Top(t).buffer)
            EXCEPT ![Depth(t)].at = "erase"]]
    /\ load' = [load EXCEPT ![t] = ParsedLoad(@, Top(t).text, Top(t).tweakedAs)]
    /\ UNCHANGED <<tweakVars, patched, buffers, vmVars, invocation, bounds,
                   wrenState>>

(* Broken: no scope puts the patch back. *)
LeftOut(t) == patched

(* The scope that took the patch out puts it back. *)
PutBack(t) == patched \/ Top(t).removed

(* Broken: the text is not looked for in the set. *)
NothingFreed(t) == {}

(* A text that an inner call was given and left as it is may be the buffer *)
(* of an outer one.                                                        *)
Freed(t) == {<<t, Top(t).buffer>>}

(* free_tweaked_raid_xml and the end of the scope. *)
FreeText(t) ==
    /\ At(t, "erasing")
    /\ buffers' = buffers \ Freed(t)
    /\ patched' = PutBack(t)
    /\ frames' = [frames EXCEPT ![t] = Front(@)]
    /\ UNCHANGED <<tweakVars, vmVars, load, invocation, bounds, wrenState>>

EndLoad(t) ==
    /\ load[t].parsed # "none" /\ Depth(t) = 0
    /\ load' = [load EXCEPT ![t] = Idle]
    /\ UNCHANGED <<tweakVars, patched, buffers, vmVars, frames, invocation,
                   bounds, wrenState>>

-----------------------------------------------------------------------------
(* Lua: wren_io.invoke and blt.ignoretweak. *)

Invocation(step) ==
    /\ invocation' = step
    /\ UNCHANGED <<tweakVars, patched, buffers, wrenState>>

BeginInvoke ==
    /\ ~Busy(LuaThread) /\ bounds.invokes < MaxInvokes
    /\ bounds' = [bounds EXCEPT !.invokes = @ + 1]
    /\ load' = Disturb(LuaThread)
    /\ Invocation("find")
    /\ UNCHANGED <<vmVars, frames>>

(* The object is looked up under its own mutex, ... *)
LockExposed ==
    /\ invocation = "find" /\ exposed_mutex = NoThread
    /\ exposed_mutex' = LuaThread
    /\ Invocation("look")
    /\ UNCHANGED <<vm, vm_mutex, exposed, callHandles, frames, load, bounds>>

(* Broken: it is kept for the call. *)
FindObjectKept ==
    /\ invocation = "look"
    /\ Invocation(IF exposed THEN "lock" ELSE "idle")
    /\ UNCHANGED <<vmVars, frames, load, bounds>>

(* ... which is free again before the VM's lock is asked for. *)
FindObject ==
    /\ invocation = "look"
    /\ exposed_mutex' = NoThread
    /\ Invocation(IF exposed THEN "lock" ELSE "idle")
    /\ UNCHANGED <<vm, vm_mutex, exposed, callHandles, frames, load, bounds>>

(* A bad argument goes to done before the call is made. *)
CallObject ==
    /\ invocation = "lock" /\ vm_mutex = NoThread
    /\ MakeVm
    /\ IF vm' = "ready"
       THEN /\ frames' = Loosened
            /\ \/ /\ vm_mutex' = LuaThread
                  /\ callHandles' = callHandles + 1
                  /\ Invocation("wren")
               \/ UNCHANGED <<vm_mutex, callHandles>> /\ Invocation("idle")
       ELSE UNCHANGED <<vm_mutex, callHandles, frames>> /\ Invocation("idle")
    /\ UNCHANGED <<exposed_mutex, exposed, load, bounds>>

ObjectReturns ==
    /\ invocation = "wren"
    /\ vm_mutex' = NoThread
    /\ callHandles' = callHandles - 1
    /\ Invocation("idle")
    /\ UNCHANGED <<vm, exposed_mutex, exposed, frames, load, bounds>>

ignoretweak(f) ==
    /\ ~Busy(LuaThread) /\ f \notin ignored_files
    /\ ignored_files' = ignored_files \cup {f}
    /\ load' = Disturb(LuaThread)
    /\ UNCHANGED <<lastLoaded, last_parsed, tweaker_enabled, patched, buffers,
                   vmVars, frames, invocation, bounds, wrenState>>

-----------------------------------------------------------------------------
(* What Wren code does while a thread runs it. *)

(* register_object asks for the mutex of the exposed objects while the     *)
(* thread holds the VM's lock.                                             *)
RegisterObject(t) ==
    /\ At(t, "wren") /\ ~exposed
    /\ To(t, "wait")
    /\ UNCHANGED <<tweakVars, patched, buffers, vmVars, load, invocation,
                   bounds, wrenState>>
LockToRegister(t) ==
    /\ At(t, "wait") /\ exposed_mutex = NoThread
    /\ To(t, "register")
    /\ exposed_mutex' = t
    /\ UNCHANGED <<tweakVars, patched, buffers, vm, vm_mutex, exposed,
                   callHandles, load, invocation, bounds, wrenState>>
ObjectRegistered(t) ==
    /\ At(t, "register")
    /\ To(t, "wren")
    /\ exposed_mutex' = NoThread /\ exposed' = TRUE
    /\ UNCHANGED <<tweakVars, patched, buffers, vm, vm_mutex, callHandles,
                   load, invocation, bounds, wrenState>>

SetTweakerEnabled(t, value) ==
    /\ At(t, "wren") \/ (t = LuaThread /\ invocation = "wren")
    /\ tweaker_enabled' = value
    /\ UNCHANGED <<lastLoaded, last_parsed, ignored_files, patched, buffers,
                   vmVars, frames, load, invocation, bounds, wrenState>>

ThreadStep(t) ==
    \/ ParseFile(t) \/ RemovePatch(t) \/ TestFile(t) \/ SetParsed(t)
    \/ EnterWren(t) \/ TweakFails(t) \/ TweakReturns(t)
    \/ InsertBuffer(t) \/ CopyText(t) \/ CallParser(t)
    \/ EraseBuffer(t) \/ FreeText(t) \/ EndLoad(t)
    \/ LockToRegister(t) \/ ObjectRegistered(t)

LuaStep == LockExposed \/ FindObject \/ CallObject \/ ObjectReturns

WrenNext ==
    /\ wrenState = "running"
    /\ \/ \E t \in Threads :
             \/ ThreadStep(t)
             \/ \E f \in Files : LoadFile(t, f)
             \/ RegisterObject(t)
             \/ \E value \in BOOLEAN : SetTweakerEnabled(t, value)
       \/ LuaStep
       \/ InitFails
       \/ BeginInvoke
       \/ \E f \in Files : ignoretweak(f)

WrenSpec == WrenInit /\ [][WrenNext]_wrenVars
-----------------------------------------------------------------------------
(* Every variable keeps the shape its declaration gives it. *)
WrenTypeOK ==
    /\ {lastLoaded, last_parsed} \subseteq Files \cup {NoFile}
    /\ ignored_files \subseteq Files
    /\ tweaker_enabled \in BOOLEAN /\ patched \in BOOLEAN
    /\ vm \in {"none", "ready", "unavailable"}
    /\ {vm_mutex, exposed_mutex} \subseteq Threads \cup {NoThread}
    /\ exposed \in BOOLEAN /\ callHandles \in Nat
    /\ frames \in [Threads -> Seq(Frame)]
    /\ buffers \subseteq Threads \X Nat
    /\ load \in [Threads -> [file : Files \cup {NoFile}, alone : BOOLEAN,
                             expected : BOOLEAN, failed : BOOLEAN,
                             parsed : Texts \cup {"none"},
                             tweakedAs : Files \cup {NoFile}]]
    /\ invocation \in {"idle", "find", "look", "lock", "wren"}
    /\ wrenState \in {"running", "exited", "undefined"}

(* A file that is loaded and parsed while nothing else begins is given to  *)
(* the parser as its own tweak, once, if it is to be tweaked and the tweak *)
(* works, and untouched otherwise; and only overlaps are undefined.  What  *)
(* could go wrong: the patch, last_parsed or the names of the globals left *)
(* in a wrong state by whatever happened before.                           *)
UndisturbedParse ==
    \A t \in Threads : load[t].alone =>
        /\ wrenState # "undefined"
        /\ load[t].parsed # "none" =>
             IF load[t].expected /\ ~load[t].failed
             THEN load[t].parsed = "tweaked" /\ load[t].tweakedAs = load[t].file
             ELSE load[t].parsed = "original"

(* What the parser is given is in no buffer that is freed already, and     *)
(* every buffer is still to be freed by a call that is open: none is lost. *)
BuffersReturned ==
    /\ \A t \in Threads : At(t, "call") /\ Top(t).buffer # 0 =>
          <<t, Top(t).buffer>> \in buffers
    /\ \A b \in buffers : \E i \in DOMAIN frames[b[1]] :
          frames[b[1]][i].buffer = b[2]

InUse == 2 * Cardinality({t \in Threads :
                 \E step \in {"wren", "wait", "register"} : At(t, step)})
         + (IF invocation = "wren" THEN 1 ELSE 0)

(* What is taken for a call into Wren is given back: buffers, and handles  *)
(* except for those of the tweaks that fail (the early returns of          *)
(* transform_file), which nobody will release.                             *)
TweaksCleanUp ==
    BuffersReturned /\ callHandles = InUse + 2 * bounds.failures

(* The two mutexes are taken in both orders of nesting of Lua and Wren:    *)
(* every load and every invocation still comes to its end.                 *)
WrenCallsEnd ==
    /\ \A t \in Threads : load[t].file # NoFile ~>
          (load[t].file = NoFile \/ wrenState # "running")
    /\ invocation # "idle" ~> (invocation = "idle" \/ wrenState # "running")

(* xmltweaker.cpp: "Otherwise, copy it so it's not invalidated by another  *)
(* Wren call".                                                             *)
CopyIsIntact ==
    \A t \in Threads : \A i \in DOMAIN frames[t] :
        frames[t][i].text # "garbled"
=============================================================================
