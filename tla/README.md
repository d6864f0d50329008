# RAID-SuperBLT: specifications, model checking and proofs

RAID-SuperBLT is a DLL that the game *RAID: World War II* loads in place of a
system library. It hooks functions of the game, loads mods written in Lua and
in Wren, and lets them read files, make HTTP requests, replace assets and edit
the game's XML while they are loaded. This directory holds TLA+ models of the
parts that keep state, act in an order nobody controls, or are easy to get wrong
at a boundary, the TLC runs that check them, and theorems about them checked by
TLAPS. Paths below are those of the repository (`src/src/...` is the DLL,
`src/updater`, `src/loader` and `src/wren` are its updater, its proxy DLL and
its Wren library).

## 1. Components

The state each component keeps, its operations, what is hard about it, and what
makes it correct.

| Component (source) | State | Operations | Hard | Correct when |
|---|---|---|---|---|
| **Event queues** (`threading/queue.h`, `threadqueue.cpp`, `update()` in `InitiateState.cpp`) | a deque and a mutex per event type, the list of queues, the frame counter | any thread: `AddToQueue`; main thread: `update` → `ProcessEvents` of every queue | posts race with drains; posters may never stop; the first two calls of `update` skip the queues | each event is run once, in order within its queue, none is forgotten, and a frame ends |
| **Active Lua states** (`InitiateState.cpp`) | `activeStates`, each state's stack and references | `initiate_lua`, `close`, `check_active_state`, forced protected calls, the functions given to Lua | states come and go while callbacks are pending; addresses may be used again; what a failed call leaves | no callback for a closed state; the game finds its stack as it left it |
| **Asynchronous file I/O** (`luautil/LuaAsyncIO.cpp`) | `task_list`, `task_mutex`, `condition_var`, `thread_count` | Lua: `read`, `write`; workers: take, run, time out, exit; main thread: completion | a pool that grows and shrinks; a timeout racing a dispatch; results captured by reference | no request lost, answered twice or out of its bounds; the pool stays bounded |
| **HTTP requests** (`http/http.cpp`, `dohttpreq`) | an `HTTPItem` and a `lua_http_data` per request, two event queues | Lua: `dohttpreq`; transfer thread: progress, end; main thread: callbacks | ownership passes between threads; a plain pointer beside it; byte counts that restart | freed exactly once, used only while alive, progress grows, every request ends |
| **Directory hashing** (`util/hashing.cpp`, `util/util.cpp`) | a thread per request and a queue | `DirectoryHash`, `FileHash`, at once or in the background | files change under the walk; an exception on a thread ends the process | the hash stands for the tree; answered at most once |
| **Asset hooks** (`tweaker/db_hooks.cpp`, `assets/`) | `overriddenFiles`, a `DBTargetFile` per hooked asset, the patch in each of four functions of the game | game threads: `hook_load` → `hook_asset_load`; Wren code: `register_asset_hook` and the setters | the patch is taken out and put back by each call; readers take no lock; a setter has two halves | the patch comes back; a hooked asset is replaced by what its hook says |
| **Bundle database, data stores** (`dbutil/`, `luautil/LuaAssetDb.cpp`) | `filesList`, `files`, the bundles | load, find, read, open | lengths derived from neighbours, pointers into a growing vector, chunks | each asset is found by name and language and read as it is in its bundle |
| **Wren XML** (`tweaker/wrenxml.cpp`) | documents, nodes, usage counts | parse, navigate, attach, detach, clone, delete, release | manual ownership under a garbage collector | handles, documents and trees agree; nothing freed is used |
| **XML tweaker** (`tweaker/xmltweaker.cpp`, `wrenloader.cpp`) | `last_parsed`, `buffers`, `ignored_files`, the last loaded name | the patched `node_from_xml` | globals shared by threads, calls in one another | a file is tweaked once, as itself, and its buffer freed once |
| **Wren runtime and Lua interface** (`tweaker/wrenloader.cpp`, `wren_lua_interface.cpp`, `wren_environment.cpp`) | the lazily created VM, its recursive lock, the exposed objects, the modules | run the tweaks, call Wren from Lua, import modules | two locks, re-entry, handles, whose import it is | every call ends; private modules stay private |
| **Plugins** (`plugins/`) | the list of plugins | load from Lua or Wren, set up in each state | lists without a lock | each plugin is set up once in each state |
| **Debug connection** (`debug/blt_debug.cpp`) | a byte buffer, a message queue | open, receive, decode, wait, send | partial messages | each message is read once, in order |
| **Signature cache** (`signatures/signatures.cpp`) | name → offset, on disk | load, search, save | a save cut short, another build of the game | an address is where the code is |
| **Updater, platform start** (`updater/`, `platform.cpp`) | the DLL and updater files | compare, download, unpack, replace | every step may fail or be the last | something that works is still there |
| **ScriptData, fonts** (`scriptdata/`) | none | recode between 32 and 64 bits | pointers, sharing, cycles, a guessed width | what is written is read back |
| **Logging, files, zip, console, loader** | a log file and its mutex | thin wrappers | — | — |

How they interact: the game calls `update()` once per frame on its main thread.
`update()` drains every event queue; the queues carry the completions of file
I/O, the progress and the ends of HTTP requests and the results of hashing, all
posted by background threads. Every callback that leads into Lua first asks
`check_active_state`. The game calls `hook_load` from whichever thread loads an
asset, and `node_from_xml` from whichever parses XML; both may call Wren under
the VM lock, and Wren code (run by XML tweaks, by Lua, or by such a load)
changes the hooks the loads read and may load plugins.

`PROJECT.json` lists every component with its status and every hazard at its
line, with the properties that would catch it going wrong.

## 2. Modules

| Module | Models | Uses |
|---|---|---|
| `EventBus` | abstract: what an event queue promises | |
| `EventQueue` | the queues and `update()` | implements `EventBus` |
| `LuaStates` | `activeStates` | |
| `LuaCallbacks` | abstract: what Lua is promised by a background request | extends `LuaStates` |
| `AsyncIO` | the I/O pool and its completions | extends `LuaStates`, `EventBus` as its queue, implements `LuaCallbacks` |
| `HttpRequests` | HTTP requests on the two queues | extends `LuaStates`, `EventQueue` as its queues, implements `LuaCallbacks` |
| `AssetHooks` | `hook_load`, `hook_asset_load`, the setters | |
| `WrenXml` | XML documents, nodes and handles | |
| `WrenRuntime` | the tweak of parsed XML, the VM, the calls from Lua | |
| `WrenModules` | imports, foreign methods, the natives that look at the stack | |
| `DieselDb` | the bundle database and the data stores | |
| `ScriptData` | recoding of script data and fonts | |
| `DebugConnection` | the framing of the debug stream | |
| `Install` | the updater and the start of the platform | |
| `SignatureCache` | the search for functions and its cache on disk | |
| `LuaCalls` | the stack and the references of one Lua state | |
| `LuaHost` | the start of states, and plugins | |
| `Hashing` | directory and file hashes | |
| `MC_*` | the modules TLC is started on; `MC_Wren` holds the three Wren models, `MC_Host` the eight from `DieselDb` on | |
| `*_proofs` | theorems and proofs: `EventQueue`, `AsyncIO`, `AssetHooks`, `HttpRequests`, `WrenRuntime` of the module of that name, `Platform` of `Install`, `Lua` of `LuaHost` and `LuaCalls`, `Data` of `Hashing`, `SignatureCache`, `DebugConnection` and `DieselDb` | |

A definition whose comment begins with "Broken:" is not part of a model. It is
the definition below it with a mistake one could make in that code; each
property has one that it must reject, named under "mutants" in `PROJECT.json`.

### EventQueue

`eventQueue[q]` is the shared deque of queue `q`, numbered in the order of
registration, and `localQueue` the deque of the `ProcessEvents` that is running.
`AddToQueue` and the first half of `ProcessEvents` (`DrainNext`) run under the
queue's mutex and are one action each; the callbacks run without it, one at a
time (`RunNext`), so posts come between any two of them. `BeginUpdate` is the
entry of `update()` with its test of the frame counter, which stops at 2 because
nothing tells greater values apart. The bus sees `Pending`, the local deque
followed by the shared one.

### LuaStates and LuaCallbacks

A state is the address the code knows it by; `incarnation` counts the states
created at an address and is what the code does *not* know.
`LuaCallbacks` is the contract: a request is settled once, with a call if the
state that asked is active at that time and dropped otherwise.

### AsyncIO

Tasks are numbered in dispatch order. `worker[w]` is where thread `w` is:
waiting, running its task, `posted` (the completion is posted, the locals of the
task function still exist), or `leaving` (timed out and out of the mutex, still
counted). What is done under `task_mutex` is one action. A wake-up without a
task leads back to the wait and changes nothing, so it has no action.
The completion of a successful read captures the local vector `data` by
reference (`LuaAsyncIO.cpp:175`). If the task function has returned by the time
the main thread runs the completion, what the callback gets is undefined:
`Results` then allows both the data and `garbage`. Paths, contents and error
texts are left out: only success and failure matter.

### HttpRequests

The module keeps the `HTTPItem` and the `lua_http_data` of each request as
`none`, `live` or `freed`. libcurl is external and may report any byte counts,
also smaller ones again. The queues are `EventQueue`'s own actions, with the
progress queue registered before the item queue (`http.cpp:31-32`). A
notification that is run after its item was freed reads freed memory:
`TakenFor` lets it be taken for its own request, for any other whose item
lives, or for none.

### AssetHooks

A load is a record (`load[t]`) with the place of thread `t` in `hook_load`
(`pc[t]`); `frames[t]` is the stack of `ScopedHookRemove`s that are open, each
with its `removed_`. Between `ScopedHookRemove` and the call of the original
another thread may put the patch back: the call then enters `hook_load` again,
one frame deeper, on the same archive. A Wren setter clears the sources and then
sets one: two steps, the second in `FinishWrite`. Registration inserts into
`overriddenFiles` likewise. The loads read all that without a lock, so:

* a look-up during an insertion is undefined: it works or crashes;
* a source that is gone between its test and its use is an empty bundle id
  (not found, the process exits), an empty optional (an exception, or a name
  that is no file's), or a null handle (a crash).

`seen` and `stable` in the record are for the properties: whether the patch led
this load to the stub, and whether no change to its asset has overlapped with
it. One of the four hooks is modelled; each has a patch of its own and they
share only the targets. That subhook's writing of the jump is not atomic is
not modelled (subhook is external; the patch is there or not).

### WrenXml

`mxml[n]` is the life of a node of the mxml library and `parent[n]` its place;
`doc[d].nodes` is the map from nodes to the handles a document keeps, and
`wxml[h]` a `WXMLNode` with the count of the Wren objects that point to it. The
collector may release any object at any time (`finalizeXML`). A call on a
closed object, an attach of a node that has a parent or into its own document,
and `try_parse` of a text with errors do what the code does, which includes
memory that is gone (`xmlState = "undefined"`). `Misuse` names those calls.
A text without elements gives no node and no error (`EmptyDocument`):
`try_parse` hands out an object without a node, and `XML.new` and `clone` of
such an object abort the fiber, so the object they made is held by no script
(`held`) until the collector comes. `XMLNode_create` overwrites the receiver in
slot 0 before it allocates. `ReceiverCollected` is the collector taking the
receiver, and with it the document, at that very point; nothing that the script
did is to blame then, and `OnlyMisuseBreaks` names the case.
Left out: the order of siblings and the position given to `attach` (its
`prev_child` from another parent), names, attributes, texts; getters and
setters beyond one representative change nothing here.

### WrenRuntime

`frames[t]` is the stack of the open calls of `node_from_xml_new` of thread `t`,
each with what its `ScopedHookRemove` took out. Between the removal of the patch
and the call of the original another thread may put it back, so the call enters
the function again. `tweak_raid_xml` reads `last_parsed` and the names of the
last loaded file in one step and writes the first in another, since it takes no
lock; the insertion into `buffers` and the erasure are undefined if two threads
are in them. `transform_file` holds the VM's lock, creates the VM if need be, and
returns a text that belongs to it: `garbled` is that text after another call
into Wren had it collected, before it was copied. Wren code may register an
object for Lua, under a second mutex which `wren_lua_invoke` takes first. The
VM's lock is recursive. On x64 Windows `luaL_error` unwinds the C++ frames, so
the lock is given back there.

### WrenModules

A module is the sequence of the parts of its path and `wrenFrames` the call
stack of the one fiber that is modelled. `resolveModule`, with its rule for
`base/native` (`Importer` looks for the module behind `dynamic_import` on
Wren's own stack), and `getModulePath` follow `wrenloader.cpp`; `Declared` is
what the embedded modules declare, `bindForeignMethod` what the DLL binds. A
module stays loaded when its code fails. Assertions are off, as in a release
build: a name relative to a module whose own name has one part stands by itself.

### DieselDb

The constructor of the database is one action per entry of the index and per
bundle header, each of which may throw and leave an empty database to the next
use. `staleFiles` are the files the map `files` points to by addresses that a
grown `filesList` has left. Byte *k* of a bundle is the number *k*, so that what
a read returns says where it was read. The package's length rules are kept with
their slip (`files[i - 1]`), and the property excepts exactly the files it
misjudges. The slip can also change the length of an asset of a bundle, which is
one compressed block: read with another length it is refused, comes out as
something else, or makes the reader look beside its memory (`ReadBlock`); the
property says that only such a file is read so. What the code takes from the
game's own files as given (`DieselDbAssumption`) is that ids are unique and that
the items of a package do not go back and lie in it. `AssetTexts` are the shapes of text by which scripts name an asset;
Lua's `#` and Wren's `@` are plain names to the other side.
`load_asset_contents` of Wren ignores the language. Left out: the 32- and 64-bit
layouts of the headers.

### ScriptData

A file is a sequence of cells of four bytes, so pointers have one or two cells;
the writer places blocks first and fills in addresses afterwards, the reader
follows them. `View` compares what a script could see of two values, to a
depth. The width of a file is guessed as in `determine_is_32bit`. A font is
misjudged if it was written with 32 bits and has not as many glyphs as code
points: the property says so. Nothing in the repository calls the font code. A
comment at `ScriptData.cpp:428` calls the allocator field non-zero; 0 is written
and read.

### DebugConnection

The stream of a debugger is cut into bytes that know what they belong to;
`recv` returns any number of them up to the buffer's length. `ReadMessage` is a
loop of actions, called when connecting, from `update` and from `wait`. A wait
without a connection follows a null pointer (`crash`). Lengths that are
negative as signed integers are not modelled.

### Install

The files are `none`, `broken` or `works`. Every step of both processes is an
action, and `Stop` may come between any two. A download may fail, or bring an
error page for an archive; an archive may be cut short, a move may fail. The
versions are compared as in the code, part by part, so a lower version can be
offered as an update.

### SignatureCache

An address is an offset in a small image; the cache on disk may be of another
build, or cut short by a process that ended while it saved, which the reader
does not see (`Junk`: it goes on with whatever it reads). Each hint is tested
before it is used. All offsets in the signatures are 0 at present. The look-up
by name for plugins is left out.

### LuaCalls

`luaStack` is the stack of one state between two calls, slot by slot, and
`registry` the reference table with its free list. A call ends with results,
with an error the handler saw, or with another one; the module follows every
push, insertion and removal of the hook's own code. `failed` marks the calls
after which the code leaves values behind, or takes none, and has nothing to
make that good: the property speaks of the others. Not modelled: `pcall`
without arguments, `flush_log` (which returns a result it has not pushed),
`blt_version`, `structid`, `print`, `parsexml`, the file functions.

### LuaHost

The start of a state is a step per early return and per plugin. Plugins are
loaded by Lua on the main thread or by Wren on a thread that parses XML.
`raced` marks the pairs of a state and a plugin whose set-up was overlapped by a
step of the other thread. The log line "Forcing pcalls early" has no effect: the
function is called with an empty stack and returns at once
(`InitiateState.cpp:107-112`, `909-914`). After a declined download of the base
mod `setup_check_done` is set, and the start of a second state aborts.

### Hashing

A request walks the tree a directory a step, sorts, and reads a file a step,
while other programs change files. `std::ifstream` of a file that is gone makes
`reserve` throw; on a thread of its own that ends the process. So does a file that
is there and cannot be opened, and a directory that cannot be listed or whose path
is too long (`native_files.cpp:44`): `barred` are the files and directories of that
kind, and `ChangeAccess` changes them. The hash of a
directory is the sequence of the contents hashed (SHA-256 tells contents apart);
it does not cover names. `GetDirectoryContents` throws an exception
`luaH_getcontents` does not catch. The two listings of one directory, files and
directories, are one step; finished threads stay in the list for ever. Left out: an
error in the middle of a file, which ends its text early, one in the middle of a
listing (`FindNextFile() failed`), which throws like the one at its beginning, and
a failure of the operating system's SHA-256 or of memory.

## 3. Runs

All with two TLC workers; sizes are distinct states.

| Run | Instance | States | Shows |
|---|---|---|---|
| `EventQueue` | 2 queues, 2 events, 2 pending in each | 4,116 | the queues implement the bus; nothing is forgotten; a frame ends while threads post for ever |
| `AsyncIO` | 1 state, 3 tasks, `MAX_THREADS` 2, backlog 1, 3 threads | 243,831 | the pool's bound and counter, tasks conserved, a request passes fewer than `MAX_THREADS` earlier ones, tasks stranded only through the exit window, taken tasks answered |
| `AsyncIO_states` | 2 states, 2 at each address, 2 tasks, 2 threads | 307,385 | the callback contract, while states are closed and made again |
| `AsyncIO_stranded` | 2 tasks | violated | `EveryTaskServed` does not hold |
| `HttpRequests` | 2 requests, 3 bytes, 1 state | 199,276 | one owner, one free; progress grows; the callback contract; every request ends |
| `HttpRequests_stale` | 1 request | violated | `NoStaleUse` does not hold |
| `AssetHooks` | 2 threads, 1 asset, 1 load each, 2 scripts, 3 changes | 249,428 | the patch comes back; one source; undisturbed loads get what the hook says; only overlaps crash; loads end |
| `AssetHooks_bypass` | no scripts | violated | `HooksApply` does not hold |
| `Wren` | 3 nodes and handles, 2 documents; 2 threads, 2 files, 2 loads, 1 call from Lua; 4 modules, 5 frames | 334,376 | `WrenXml`: only misuse breaks the trees, only `detach` loses a document; `WrenRuntime`: a file parsed alone gets its own tweak once, buffers and handles come back, every load and call ends; `WrenModules`: private modules stay private, embedded ones are bound |
| `Wren_copy` | as `Wren` | violated | `CopyIsIntact` does not hold |
| `WrenXml_refused` | as `Wren` | violated | `RefusedAttachIsHarmless` does not hold |
| `Host` | eight parts, below | 675,612 | a property per part: `DatabaseAgrees`, `RecodingKeeps`, `MessagesInOrder`, `NothingWorkingLost`, `AddressesMatch`, `StackAndRefsKept`, `PluginsSetUpOnce`, `HashesAgree` |

The parts of `Wren` and of `Host` share no state, so running them side by side
would only multiply their states: the variable `part` of the MC module picks the
one that runs, and the states of the run are the sum of theirs.

Why the bounds are enough to be interesting:

* `EventQueue`: two queues distinguish order within from order between queues,
  two pending events distinguish order within one, and posting has no other
  bound, so behaviours where threads post for ever are among those checked.
* `AsyncIO`: a third task arrives with the pool full, the backlog of 1 starts a
  second thread, and a third worker is there to be started wrongly. All of the
  properties but the liveness ones are proved for every value.
* `AsyncIO_states`: one state is closed while the other goes on, or is made again at
  the same address before its own request, or the other's, is completed.
* `HttpRequests`: two transfers overlap, and three byte counts let a count grow,
  be repeated and be followed by a smaller one. A queue never holds more than
  its bound: counts only grow, and a request has one item.
* `AssetHooks`: every pair of a load and a load, or a load and Wren code, on one
  asset interleaves in every way, with nested calls of the hook; three changes
  allow register, set, and set again or disable during a load. Assets are
  independent (only the insertion touches the loads of other assets), so one is
  enough. The safety properties are proved for all sizes.
* `WrenXml` (`MaxNodes`, `MaxDocs`, `MaxHandles`, `MaxUsages`): three nodes make
  a chain and a branch, two documents let a part be detached or copied from one
  and merged into it again, or merge two that were parsed, and a third handle stands
  by; two objects for one handle tell the last release from another. Nodes and documents are not used again, so that a dangling
  pointer stays visible.
* `WrenRuntime` (`MaxLoads`, `MaxInvokes`): two loads overlap, follow each other
  or repeat a file, on the thread that runs Lua and on another, with one call
  from Lua against a registration by Wren code.
* `WrenModules` (`MaxFrames`, `MaxCalls`): an import from inside a
  `dynamic_import` from a script needs five frames; the names asked for are one
  of each kind (embedded, private, public, forced, forced with one part, relative
  to the module and to the mod).
* `DieselDb`: packages of three files with every pattern of equal and growing
  offsets, in the order of the ids and in others, two packages, a bundle that
  stores lengths before a package that leaves them or changes them; two indexes with a gap, one of them where the length rule meets
  it; an id past the list; chunks of 2 bytes in bundles of 5.
* `ScriptData` (`MaxRecodes`, `ViewDepth`): two tables that share items, contain
  each other or themselves, with and without metatables; three conversions.
* `DebugConnection` (`MaxSends`): every way to cut three streams into pieces of
  at most seven bytes, with a word of four; empty messages, an unknown one, two
  connections.
* `Install` (`MaxUpdates`): three updates, so that one can follow a failed one
  that followed another; three versions ordered differently part by part.
* `SignatureCache` (`MaxStarts`): three starts write, damage and read the cache,
  over four builds.
* `LuaCalls` (`MaxValues`, `MaxGame`, `MaxAsked`, `MaxHostCalls`): none, one or
  two arguments and results; a failure is followed by up to three more calls.
* `LuaHost`: two states and two good plugins, on two threads.
* `Hashing` (`MaxHashes`, `MaxChanges`): two overlapping requests and a change of
  a file, or of what can be opened, on a tree with repositories at the top and
  deeper down.

`MaxIncarnations` is 1 in all other runs: no address is reused. In `AsyncIO_states`
it is 2, and the contract is that of the address: `check_active_state` cannot tell an
old state from a new one (a hazard in `PROJECT.json`), and the callback of the old
one is run in the new.

`CHECK_DEADLOCK FALSE` is said where the system may stop: Lua has made all its
requests, the game has loaded all its assets, or the process has ended.

## 4. Fairness

* `EventQueue`: the game calls `update()` every frame and callbacks return. No
  fairness for the threads that post.
* `AsyncIO`: each worker is scheduled, its wait of 500 ms ends, the I/O ends;
  the game keeps calling `update()`. Lua is not obliged to ask for anything.
* `HttpRequests`: `update()` goes on and each transfer ends, which
  `CURLOPT_TIMEOUT` (900 s) sees to. Progress reports are not fair.
* `AssetHooks`: every thread in a load or in Wren code is scheduled, and the
  game's function and the Wren code return. Weak fairness is enough for the VM
  lock because the number of scripts is bounded: it is not held for ever and
  not taken for ever by others. Progress is promised until the process ends.
* `WrenRuntime`: a thread that has begun a load and Lua's thread in a call go on;
  no fairness for the beginning of either, nor for Wren code that registers an
  object. Both locks are given back by those same steps. Progress is promised
  until the process ends.

## 5. Proofs

Each theorem is for any value of the constants under the named assumptions of
the module.

**EventQueue_proofs.** `TypeCorrect`; `QueuesImplementBus`: initial states map
to initial states, and a post and a callback map to `Post` and `Deliver`, while
a drain leaves `Pending` as it is because the local deque is empty when it
happens and the two deques swap their roles. The type invariant's last conjunct
(a local deque only inside an update and after a drain) is what the step needs.

**AsyncIO_proofs.**
* `PoolIsBounded`: `thread_count` is the cardinality of the threads that are
  not `none`; each step that starts or ends one moves both by one.
* `TaskInv`: with *Taken* = the number of requests minus the length of the
  list, the list is Taken+1, Taken+2, ...; every task up to Taken is in exactly
  one place (a hand, the completion queue, settled) and every later one is
  waiting. From it follow `TasksAreTakenInOrder`, `TasksAreConserved` and
  `CallbacksImplemented`.
* `OnlyTheExitWindowStrands`: a step into a stranded state needs a counted
  thread that is `leaving`, because `thread_count = 0` starts one.
* `FewAreOvertaken`, by `FewInv`: fewer than `MAX_THREADS` threads run requests
  that an answered one has passed. The thread that answered it is not among them,
  and as the list is served from its front, none is added to them. The order of
  the requests that are still open, each in a hand, does the rest.

**AssetHooks_proofs.**
* `TypeCorrect`, by `Typed`, which adds that a look-up in fallback mode is
  inside a scope and that a setter has a hook to set.
* `HookIsRestored`: itself inductive given the types. The patch is out iff one
  open frame took it out, and no two frames did.
* `SourcesAreExclusive`: `LockHeld` (whoever runs Wren code holds the lock, so
  at most one change is half done) and `HalfWritten` (the target of a half-done
  setter has no source) make adding a source to it safe.
* `StableLoadsHold` and `CrashesAreOverlaps`, by `LoadKnows`: what an
  undisturbed load knows at each place of `hook_load`. For instance, at the use
  of a source that source is set; before the original is called, the first
  look-up was right to find nothing; in the second look-up the game has no such
  asset. The case that makes it more than a walk through the code is the patch
  coming back before the original is called: the inner `hook_load` then starts
  over, and the outer one must find in the archive either nothing or what was
  promised. A change clears `stable` for the loads of its asset, and an
  insertion for all, so the others keep what they know.

**HttpRequests_proofs.** What `EventQueue_proofs` shows of the queues is used for
the two queues here.
* `ItemOwned`, by `OwnerInv`: an item is live exactly while its thread runs or one
  entry of the item queue names it, never both, and the context lives as long.
* `OvertakenInOneUpdate`, by `OvertakenInv`: once the progress queue was drained,
  only threads that own their item add to it, and the item queue's turn is the
  only one that frees.
* `ProgressReported`, for `MaxIncarnations = 1`: by `NotesInv`, the notifications
  of a request grow along the queue between what Lua was told and what the thread
  has recorded; `BornInv` adds that requests name incarnations that were created.
* `CallbacksImplemented`: the second refinement of `LuaCallbacks`.

**Platform_proofs.** `WorkingFilesKept`, by `InstallInv`: what the running process
is made of lies where it was loaded from, but between the two renames of the DLL
it may lie beside it, and the updater keeps its old copy until the new one has
started.

**Lua_proofs.**
* `SetUpOnce`, in three layers: `ListsInv` (a state is listed once, and a plugin
  before it is registered), `RacedInv` (a load that finds its file listed, or is
  under way while a start is past the base mod, is raced) and `SetUpInv` (what has
  been set up is what a start or a load has come past). The hard steps are those
  in which a start passes the list while a load is half-way down the states.
* `CallsKeep`, by `StackInv` and `RefsInv`: a free slot of the registry is free
  once, every waiting callback has slots that no other has, and each of the ways
  a call can end is followed through the stack for any number of values.

**WrenRuntime_proofs.** `WrenInv` has four parts over the types. `StackInv`: only the
innermost call of a thread is under way, and if the patch is out some open call
has to put it back. `BufferInv`: a buffer is in the set until its own call or one
within it is over; it is why a parser is never given a freed text. `HandleInv`:
whoever is in Wren holds the VM's lock, so the handles that are out are those of
one call, and of the tweaks that failed. `AloneInv` follows an undisturbed load
through all the places of `node_from_xml_new`. `CleanUp` and `UndisturbedParses`
follow from them. `ImportRulesHold`, of `WrenModules`, by `ModInv`: as long as
`base/native` is loaded and `meta` is not, `base/native` is the newest call, so the
frames that a `dynamic_import` adds are of loaded modules and the fourth from the
top is the script that asked. `MayHave` then says what each rule of `resolveModule`
may give to an importer, and `AllBound` that nothing embedded is left unbound.

**Data_proofs**, for data of any size. What these modules compute is defined over
sequences: a tree that is walked, an image that is searched, a stream that is
cut. Induction over the naturals is made from the library's fact that the finite
subsets of a set are well-founded (`Smallest`, `Induct`), stated with a set in
place of a predicate; `Iteration` and `Unfolding` get from it the values of a
recursive function.
* `HashesAgreeAlways`, by `HashInv`: `Walks` relates what was found and what is
  still to be listed to the tree, and `Reads` the text to the sorted list, each
  for the tree of an undisturbed request; `Answers` keeps posted and delivered
  results apart; `Ended` says what ended the process: what could not be opened is
  a part of what the hash stands for, as the walk never enters a repository that is
  left out.
* `AddressesMatchAlways`, by `SigInv`: what each phase of the search has found,
  whatever the cache held (`FunctionsFound`, `ResolversFound`); no two entries
  name one resolver (`NoneTwice`), unless the file was cut; a current file needs
  no other search (`CurrentSettled`).
* `MessagesInOrderAlways`, by `DbgInv`: for some number of messages, those were
  taken out of the stream, the buffer is exactly the bytes received after them,
  and what Lua was given with what it waits for is what they hold.

* `DatabaseAgreesAlways`, by `DbInv`, for an index, headers and chunks of any
  size. `Recorded(m)`: the lists of keys hold exactly the first *m* entries of the
  index. `PlacedTo(m)`: a file without a place has none of the first *m* bundles'
  items, every other is one of them, of the length that the offsets give or in one
  of the two misjudged ways; a header is an induction over its items (`HeaderIsRead`),
  in which a later item may still change the length of an earlier. `DanglingInv`:
  the list moves only for an id past the length of the index. `ReaderInv` with
  `ChunksRead`: what has been read is the beginning of the slice, and the next
  chunk starts where it ends, the first inside a chunk and the last in a shorter
  one (`ChunkContinues`); a file that would run past its package is no item of it
  (`ItemEnds`).

The assumptions are the named ones of the modules: bounds are natural numbers,
"no state", "no thread" and "no file" are none of the things they stand beside,
binary files are files, a debugger's messages have the shape `recv` sees, start
options are of a known kind, paths are non-empty, the signatures have distinct
names that the cache does not use itself, the game's index and headers are in order,
names that are imported have a part, and a relative or forced one has two.
Each is evaluated by TLC in the run of
its module.

Only model-checked:
* the liveness properties (`NothingForgotten`, `UpdateTerminates`,
  `ServedUnlessStranded`, `TakenTasksSettle`, `EveryRequestEnds`, `EveryLoadEnds`,
  `WrenCallsEnd`), which are out of the prover's reach;
* `TypeOK` of `MC_Host` and of `MC_Wren`: each joins the types of its parts
  with the fact that no part but the chosen one moves. The types of the parts
  are proved, where their module has a proof;
* `RecodingKeeps` of `ScriptData`: the reader and the writer are recursive over
  tables that may contain themselves, to a depth, and use operators that are
  declared `RECURSIVE`;
* what `WrenXml` promises.

## 6. Where the code and what is said of it part

Shown by a run:

* `AsyncIO_stranded`: a request made between a worker's timeout and the
  decrement of `thread_count` starts no thread, and waits until some later
  request does (`LuaAsyncIO.cpp:99`). `StrandedOnlyInExitWindow` shows that
  this is the only way to lose a request.
* `HttpRequests_stale`: a notification and the item it points to, both posted
  between the two drains of one `update()`, overtake each other, and the
  notification is run on a freed item (`http.cpp:89`). `OvertakenOnlyOnce`
  limits this to one update.
* `AssetHooks_bypass`: while one thread calls the game's own function, the
  patch is out for all threads, and their loads go past the hooks
  (`assets_game.cpp:120`). `StableLoads` shows that this is the only way an
  undisturbed load misses its hook.
* `Wren_copy`: the text a tweak returned is copied after the VM's lock was given
  back, so another Wren call may have freed it (`xmltweaker.cpp:66`).
* `WrenXml_refused`: `WXML_ERR` does not return, so an attach that is refused is
  done all the same (`wrenxml.cpp:450`).

Built into the models, with properties that say exactly what they spoil: the
lengths of files that share an offset (`DB.cpp:431`), reads in pieces of a string
store (`Datastore.cpp:110`), messages behind one of unknown type
(`blt_debug.cpp:488`), fonts of 32 bits (`FontData.cpp:58`), handles of failed
tweaks (`wrenloader.cpp:543`), orphans of `detach`, values left by failed calls
(`InitiateState.cpp:363`, `883`), plugins loaded while a state starts
(`plugins.cpp:47`), versions compared part by part, each on its own
(`updater.cpp:231`), files and directories that go or cannot be opened while they are hashed
(`files.cpp:21`, `native_files.cpp:50`), and the
data of a read, which the callback may find destroyed (`LuaAsyncIO.cpp:175`), the
object without a node of a text without elements (`wrenxml.cpp:275`), and the
receiver that is gone when its document is asked for the new node (`:298`). `resolveModule` takes for granted that the name
of an importer has a stroke (`wrenloader.cpp:341`, "Must always be there"); a module
forced by a one-part name has none, and its relative imports are not held to the
rules: `ImportRules` excepts it. Seen while modelling and in no model:
`isEnabled` has its condition inverted (`db_hooks.cpp:560`).

## 7. Not modelled, and the plan

* Logging, console, zip, the file functions of Lua, the proxy DLL: thin wrappers
  over the operating system with no state beyond one mutex.
* LuaJIT's build headers: vendored and generated.
* The parts named in section 2 under each module.
* The width of `byteprogress` (`http.cpp:101`): the counts of the model are
  small, and a count that wraps needs 2 GiB.
* Memory reuse at the addresses of closed Lua states beyond the bound above: the
  code has no notion of it.
* Process exit (static destructors, `HTTPManager::~HTTPManager`): the models
  describe the game while it runs. Only `Install`, `SignatureCache` and
  `Hashing` have an end of the process, because something survives it or a
  thread causes it.

Next to be proved: what `OnlyMisuseBreaks` and `OnlyDetachLeaks` say of `WrenXml`.

## 8. Running

`tlc -config X.cfg MC_M.tla` for a run, where `PROJECT.json` names the module of
each configuration, and `tlapm M_proofs.tla` for a proof module. The largest
runs take about two minutes.
