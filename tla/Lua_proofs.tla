------------------------------ MODULE Lua_proofs ------------------------------
(***************************************************************************)
(* The start of Lua states and the native plugins, for any number of       *)
(* states and plugins: each plugin is set up once in each state, unless    *)
(* the two threads come into each other's set-up.  And the calls between   *)
(* the host and Lua, for any numbers of values: the game's stack is kept,  *)
(* and each callback owns its reference.                                   *)
(***************************************************************************)
EXTENDS LuaHost, LuaCalls, SequenceTheorems, TLAPS

(* A sequence after another. *)
LEMMA Joined ==
  ASSUME NEW S, NEW a \in Seq(S), NEW b \in Seq(S)
  PROVE  /\ a \o b \in Seq(S) /\ Len(a \o b) = Len(a) + Len(b)
         /\ DOMAIN (a \o b) = 1..(Len(a) + Len(b))
         /\ \A k \in 1..Len(a) : (a \o b)[k] = a[k]
         /\ \A k \in 1..Len(b) : (a \o b)[Len(a) + k] = b[k]
<1>1. /\ a \o b \in Seq(S) /\ Len(a \o b) = Len(a) + Len(b)
      /\ DOMAIN (a \o b) = 1..(Len(a) + Len(b))
      /\ Len(a) \in Nat /\ Len(b) \in Nat
  OBVIOUS
<1>2. ASSUME NEW k \in 1..Len(a)
      PROVE  (a \o b)[k] = a[k]
  BY <1>1
<1>3. ASSUME NEW k \in 1..Len(b)
      PROVE  (a \o b)[Len(a) + k] = b[k]
  BY <1>1
<1> QED
  BY <1>1, <1>2, <1>3

(* A sequence without one of its elements. *)
LEMMA Removed ==
  ASSUME NEW S, NEW q \in Seq(S), NEW i \in DOMAIN q
  PROVE  /\ RemoveAt(q, i) \in Seq(S)
         /\ DOMAIN RemoveAt(q, i) = 1..(Len(q) - 1)
         /\ \A k \in 1..(i - 1) : RemoveAt(q, i)[k] = q[k]
         /\ \A k \in i..(Len(q) - 1) : RemoveAt(q, i)[k] = q[k + 1]
<1>1. /\ Len(q) \in Nat /\ i \in 1..Len(q)
      /\ SubSeq(q, 1, i - 1) \in Seq(S) /\ Len(SubSeq(q, 1, i - 1)) = i - 1
      /\ \A k \in 1..(i - 1) : SubSeq(q, 1, i - 1)[k] = q[k]
  OBVIOUS
<1>2. /\ SubSeq(q, i + 1, Len(q)) \in Seq(S)
      /\ Len(SubSeq(q, i + 1, Len(q))) = Len(q) - i
      /\ \A k \in 1..(Len(q) - i) : SubSeq(q, i + 1, Len(q))[k] = q[k + i]
  BY <1>1
<1> DEFINE a == SubSeq(q, 1, i - 1)
           b == SubSeq(q, i + 1, Len(q))
<1>3. /\ RemoveAt(q, i) = a \o b /\ a \in Seq(S) /\ b \in Seq(S)
      /\ Len(a) = i - 1 /\ Len(b) = Len(q) - i
      /\ \A k \in 1..(i - 1) : a[k] = q[k]
      /\ \A k \in 1..(Len(q) - i) : b[k] = q[k + i]
  BY <1>1, <1>2 DEF RemoveAt
<1> HIDE DEF a, b
<1>4. /\ a \o b \in Seq(S) /\ Len(a \o b) = Len(a) + Len(b)
      /\ DOMAIN (a \o b) = 1..(Len(a) + Len(b))
      /\ \A k \in 1..Len(a) : (a \o b)[k] = a[k]
      /\ \A k \in 1..Len(b) : (a \o b)[Len(a) + k] = b[k]
  <2>1. a \in Seq(S) /\ b \in Seq(S)
    BY <1>3
  <2> QED
    BY <2>1, Joined
<1>5. i \in Int /\ Len(q) \in Int /\ 1 <= i /\ i <= Len(q)
  BY <1>1
<1>6. ASSUME NEW k \in i..(Len(q) - 1)
      PROVE  (a \o b)[k] = q[k + 1]
  <2> DEFINE m == k - (i - 1)
  <2>1. k \in Int /\ i <= k /\ k <= Len(q) - 1
    BY <1>5
  <2>2. m \in 1..(Len(q) - i) /\ m + i = k + 1 /\ (i - 1) + m = k
    BY <1>5, <2>1
  <2>3. m \in 1..Len(b) /\ Len(a) + m = k
    BY <1>3, <2>2
  <2> HIDE DEF m
  <2>4. (a \o b)[Len(a) + m] = b[m] /\ b[m] = q[m + i]
    BY <1>3, <1>4, <2>2, <2>3
  <2> QED
    BY <2>2, <2>3, <2>4
<1>7. Len(a) + Len(b) = Len(q) - 1
  BY <1>3, <1>5
<1> QED
  BY <1>3, <1>4, <1>6, <1>7

(* A sequence with one more element. *)
LEMMA OneMore ==
  ASSUME NEW S, NEW q \in Seq(S), NEW e \in S
  PROVE  /\ Append(q, e) \in Seq(S)
         /\ Len(q) \in Nat /\ Len(q) + 1 \notin DOMAIN q
         /\ DOMAIN Append(q, e) = DOMAIN q \cup {Len(q) + 1}
         /\ \A i \in DOMAIN q : Append(q, e)[i] = q[i] /\ i <= Len(q) /\ i \in Nat
         /\ Append(q, e)[Len(q) + 1] = e
         /\ Len(Append(q, e)) = Len(q) + 1
  OBVIOUS

LEMMA PluginsAre == Plugins = {plugins_list[j] : j \in DOMAIN plugins_list}
  BY DEF Plugins, Range

-----------------------------------------------------------------------------
(* The lists. *)

Creating(t) == loading[t].at = "create"
Enlisting(t) == loading[t].at = "register"

HostTypes ==
  /\ active \in Seq(HostStates)
  /\ plugins_list \in Seq(PluginFiles \ BadPlugins)
  /\ starting \in HostStates \cup {NoState}
  /\ step \in {"check", "plugins", "base"}
  /\ nextPlugin \in 1..(Len(plugins_list) + 1)
  /\ fresh \subseteq HostStates
  /\ setUps \in [HostStates -> [PluginFiles -> Nat]]
  /\ loading \in [Loaders -> [file : PluginFiles \cup {"none"}, state : Nat,
                              at : {"idle", "create", "register"}]]
  /\ \A t \in Loaders : Creating(t) \/ Enlisting(t) => loading[t].file \in PluginFiles
  /\ \A t \in Loaders : Enlisting(t) => loading[t].state >= 1
  /\ program \in {"running", "exited", "aborted"}

(* A state is listed once, from its creation; plugins come with a base mod *)
(* only, and are listed before they are registered.                        *)
ListsInv ==
  /\ \A i, j \in DOMAIN active : active[i] = active[j] => i = j
  /\ \A i \in DOMAIN active : active[i] \notin fresh
  /\ starting # NoState => \E i \in DOMAIN active : active[i] = starting
  /\ step = "check" => nextPlugin = 1
  /\ basemod # "present" =>
       plugins_list = <<>> /\ \A t \in Loaders : loading[t] = NotLoading
  /\ \A t \in Loaders : Enlisting(t) =>
       \E j \in DOMAIN plugins_list : plugins_list[j] = loading[t].file

LEMMA SetUpDoes ==
  ASSUME HostTypes, NEW s \in HostStates, NEW f \in PluginFiles, SetUp(s, f)
  PROVE  /\ setUps' \in [HostStates -> [PluginFiles -> Nat]]
         /\ setUps'[s][f] = setUps[s][f] + 1
         /\ \A r \in HostStates, g \in PluginFiles :
              r # s \/ g # f => setUps'[r][g] = setUps[r][g]
  BY DEF HostTypes, SetUp

LEMMA HostTypesStep ==
  ASSUME HostTypes, [HostNext]_hostVars
  PROVE  HostTypes'
<1>1. ASSUME NEW s \in HostStates, CreateLuaState(s)
      PROVE  HostTypes'
  <2>1. active' \in Seq(HostStates)
    BY <1>1 DEF CreateLuaState, HostTypes
  <2>2. nextPlugin' \in 1..(Len(plugins_list) + 1)
    BY <1>1 DEF CreateLuaState, HostTypes
  <2> QED
    BY <1>1, <2>1, <2>2 DEF CreateLuaState, HostTypes, Creating, Enlisting
<1>2. ASSUME NEW s \in HostStates, CloseLuaState(s)
      PROVE  HostTypes'
  <2>1. active' \in Seq(HostStates)
    BY <1>2, Removed DEF CloseLuaState, HostTypes
  <2> QED
    BY <1>2, <2>1 DEF CloseLuaState, HostTypes, Creating, Enlisting
<1>3. CASE CheckSetup
  <2>1. /\ starting' \in {starting, NoState} /\ program' \in {program, "exited"}
        /\ step' \in {step, "plugins"}
        /\ UNCHANGED <<active, plugins_list, nextPlugin, fresh, setUps, loading>>
    BY <1>3 DEF CheckSetup
  <2> QED
    BY <2>1 DEF HostTypes, Creating, Enlisting
<1>4. CASE SetUpPlugin
  <2>1. UNCHANGED <<active, plugins_list, starting, fresh, loading, program>>
    BY <1>4 DEF SetUpPlugin
  <2>2. CASE nextPlugin <= Len(plugins_list)
    <3>1. /\ SetUp(starting, plugins_list[nextPlugin]) /\ nextPlugin' = nextPlugin + 1
          /\ step' = step
      BY <1>4, <2>2 DEF SetUpPlugin
    <3>2. starting \in HostStates /\ plugins_list[nextPlugin] \in PluginFiles
      BY <1>4, <2>2 DEF HostTypes, SetUpPlugin
    <3>3. setUps' \in [HostStates -> [PluginFiles -> Nat]]
      BY <3>1, <3>2, SetUpDoes
    <3>4. nextPlugin' \in 1..(Len(plugins_list) + 1)
      BY <2>2, <3>1 DEF HostTypes
    <3> QED
      BY <2>1, <3>1, <3>3, <3>4 DEF HostTypes, Creating, Enlisting
  <2>3. CASE ~(nextPlugin <= Len(plugins_list))
    BY <1>4, <2>1, <2>3 DEF SetUpPlugin, HostTypes, Creating, Enlisting
  <2> QED
    BY <2>2, <2>3
<1>5. CASE RunBase
  <2>1. /\ starting' \in {starting, NoState} /\ program' \in {program, "aborted"}
        /\ UNCHANGED <<active, plugins_list, step, nextPlugin, fresh, setUps, loading>>
    BY <1>5 DEF RunBase
  <2> QED
    BY <2>1 DEF HostTypes, Creating, Enlisting
<1>6. ASSUME NEW t \in Loaders, NEW f \in PluginFiles, BeginLoadPlugin(t, f)
      PROVE  HostTypes'
  <2>1. /\ loading' = [loading EXCEPT ![t] = [file |-> f, at |-> "create", state |-> 0]]
        /\ UNCHANGED <<active, plugins_list, starting, step, nextPlugin, fresh, setUps,
                       program>>
    BY <1>6 DEF BeginLoadPlugin
  <2> QED
    BY <2>1 DEF HostTypes, Creating, Enlisting
<1>7. ASSUME NEW t \in Loaders, ListPlugin(t)
      PROVE  HostTypes'
  <2>1. UNCHANGED <<active, starting, step, nextPlugin, fresh, setUps, program>>
    BY <1>7 DEF ListPlugin
  <2>2. CASE loading[t].file \in BadPlugins
    <3>1. loading' = [loading EXCEPT ![t] = NotLoading] /\ plugins_list' = plugins_list
      BY <1>7, <2>2 DEF ListPlugin
    <3> QED
      BY <2>1, <3>1 DEF HostTypes, Creating, Enlisting, NotLoading
  <2>3. CASE loading[t].file \notin BadPlugins
    <3>1. /\ plugins_list' = Append(plugins_list, loading[t].file)
          /\ loading' = [loading EXCEPT ![t] =
               [file |-> loading[t].file, at |-> "register", state |-> 1]]
          /\ loading[t].file \in PluginFiles \ BadPlugins
      BY <1>7, <2>3 DEF ListPlugin, HostTypes, Creating
    <3>2. /\ plugins_list' \in Seq(PluginFiles \ BadPlugins)
          /\ nextPlugin \in 1..(Len(plugins_list') + 1)
      BY <3>1, OneMore DEF HostTypes
    <3> QED
      BY <2>1, <3>1, <3>2 DEF HostTypes, Creating, Enlisting
  <2> QED
    BY <2>2, <2>3
<1>8. ASSUME NEW t \in Loaders, RegisterPlugin(t)
      PROVE  HostTypes'
  <2>0. loading[t].state \in Nat /\ loading[t].state >= 1
    BY <1>8 DEF HostTypes, RegisterPlugin, Enlisting
  <2>1. UNCHANGED <<active, plugins_list, starting, step, nextPlugin, fresh, program>>
    BY <1>8 DEF RegisterPlugin
  <2>2. CASE loading[t].state <= Len(active)
    <3>1. /\ SetUp(active[loading[t].state], loading[t].file)
          /\ loading' = [loading EXCEPT ![t].state = @ + 1]
      BY <1>8, <2>2 DEF RegisterPlugin
    <3>2. active[loading[t].state] \in HostStates /\ loading[t].file \in PluginFiles
      BY <1>8, <2>2, <2>0 DEF HostTypes, RegisterPlugin, Enlisting
    <3>3. setUps' \in [HostStates -> [PluginFiles -> Nat]]
      BY <3>1, <3>2, SetUpDoes
    <3> QED
      BY <2>1, <3>1, <3>3 DEF HostTypes, Creating, Enlisting
  <2>3. CASE ~(loading[t].state <= Len(active))
    <3>1. loading' = [loading EXCEPT ![t] = NotLoading] /\ setUps' = setUps
      BY <1>8, <2>3 DEF RegisterPlugin
    <3> QED
      BY <2>1, <3>1 DEF HostTypes, Creating, Enlisting, NotLoading
  <2> QED
    BY <2>2, <2>3
<1>9. CASE UNCHANGED hostVars
  BY <1>9 DEF hostVars, HostTypes, Creating, Enlisting
<1> QED
  BY <1>1, <1>2, <1>3, <1>4, <1>5, <1>6, <1>7, <1>8, <1>9 DEF HostNext

(* What the steps of a load do to the loaders. *)
LEMMA ListingDoes ==
  ASSUME HostTypes, NEW t \in Loaders, ListPlugin(t)
  PROVE  /\ UNCHANGED <<active, starting, step, nextPlugin, basemod, fresh, setUps>>
         /\ Creating(t) /\ program = "running"
         /\ \A u \in Loaders : u # t => loading'[u] = loading[u]
         /\ \/ /\ loading'[t] = NotLoading
               /\ UNCHANGED <<plugins_list, raced>>
            \/ /\ loading'[t] = [file |-> loading[t].file, at |-> "register", state |-> 1]
               /\ loading[t].file \in PluginFiles \ BadPlugins
               /\ plugins_list' = Append(plugins_list, loading[t].file)
               /\ raced \subseteq raced'
               /\ starting # NoState /\ step # "base" =>
                    <<starting, loading[t].file>> \in raced'
               /\ \A u \in Loaders \ {t}, s \in HostStates :
                    Creating(u) /\ loading[u].file = loading[t].file =>
                      <<s, loading[t].file>> \in raced'
<1>1. /\ UNCHANGED <<active, starting, step, nextPlugin, basemod, fresh, setUps>>
      /\ Creating(t) /\ program = "running"
  BY DEF ListPlugin, Creating
<1>2. CASE loading[t].file \in BadPlugins
  <2>1. loading' = [loading EXCEPT ![t] = NotLoading] /\ UNCHANGED <<plugins_list, raced>>
    BY <1>2 DEF ListPlugin
  <2> QED
    BY <1>1, <2>1 DEF HostTypes
<1>3. CASE loading[t].file \notin BadPlugins
  <2>1. /\ plugins_list' = Append(plugins_list, loading[t].file)
        /\ loading' = [loading EXCEPT ![t] =
             [file |-> loading[t].file, at |-> "register", state |-> 1]]
        /\ raced' = raced
             \cup {<<s, loading[t].file>> : s \in {r \in {starting} \ {NoState} : step # "base"}}
             \cup {<<s, loading[t].file>> : s \in {r \in HostStates :
                    \E u \in Loaders \ {t} :
                      loading[u].file = loading[t].file /\ loading[u].at = "create"}}
    BY <1>3 DEF ListPlugin
  <2>2. loading[t].file \in PluginFiles \ BadPlugins
    BY <1>1, <1>3 DEF HostTypes
  <2>3. /\ loading'[t] = [file |-> loading[t].file, at |-> "register", state |-> 1]
        /\ \A u \in Loaders : u # t => loading'[u] = loading[u]
    BY <2>1 DEF HostTypes
  <2>4. /\ raced \subseteq raced'
        /\ starting # NoState /\ step # "base" => <<starting, loading[t].file>> \in raced'
        /\ \A u \in Loaders \ {t}, s \in HostStates :
             Creating(u) /\ loading[u].file = loading[t].file =>
               <<s, loading[t].file>> \in raced'
    BY <2>1 DEF Creating
  <2> QED
    BY <1>1, <2>1, <2>2, <2>3, <2>4
<1> QED
  BY <1>2, <1>3

LEMMA RegisteringDoes ==
  ASSUME HostTypes, NEW t \in Loaders, RegisterPlugin(t)
  PROVE  /\ UNCHANGED <<active, plugins_list, starting, step, nextPlugin, basemod, fresh,
                       raced>>
         /\ Enlisting(t) /\ loading[t].state \in Nat \ {0}
         /\ \A u \in Loaders : u # t => loading'[u] = loading[u]
         /\ \/ /\ loading[t].state <= Len(active)
               /\ SetUp(active[loading[t].state], loading[t].file)
               /\ loading'[t].file = loading[t].file /\ Enlisting(t)'
               /\ loading'[t].state = loading[t].state + 1
            \/ /\ loading[t].state > Len(active)
               /\ loading'[t] = NotLoading /\ setUps' = setUps
<1>1. /\ UNCHANGED <<active, plugins_list, starting, step, nextPlugin, basemod, fresh,
                    raced>>
      /\ Enlisting(t) /\ loading[t].state \in Nat \ {0}
  BY DEF RegisterPlugin, Enlisting, HostTypes
<1>2. CASE loading[t].state <= Len(active)
  <2>1. /\ SetUp(active[loading[t].state], loading[t].file)
        /\ loading' = [loading EXCEPT ![t].state = @ + 1]
    BY <1>2 DEF RegisterPlugin
  <2>2. /\ \A u \in Loaders : u # t => loading'[u] = loading[u]
        /\ loading'[t] = [loading[t] EXCEPT !.state = @ + 1]
    BY <2>1 DEF HostTypes
  <2>3. /\ loading'[t].file = loading[t].file /\ loading'[t].at = loading[t].at
        /\ loading'[t].state = loading[t].state + 1
    BY <2>2 DEF HostTypes
  <2> QED
    BY <1>1, <1>2, <2>1, <2>2, <2>3 DEF Enlisting
<1>3. CASE ~(loading[t].state <= Len(active))
  <2>1. loading' = [loading EXCEPT ![t] = NotLoading] /\ setUps' = setUps
    BY <1>3 DEF RegisterPlugin
  <2>2. loading[t].state > Len(active)
    BY <1>1, <1>3 DEF HostTypes
  <2>3. /\ \A u \in Loaders : u # t => loading'[u] = loading[u]
        /\ loading'[t] = NotLoading
    BY <2>1 DEF HostTypes
  <2> QED
    BY <1>1, <2>1, <2>2, <2>3
<1> QED
  BY <1>2, <1>3

LEMMA ListsStep ==
  ASSUME HostTypes, ListsInv, [HostNext]_hostVars
  PROVE  ListsInv'
<1>0. /\ Len(active) \in Nat /\ DOMAIN active = 1..Len(active)
      /\ \A i \in DOMAIN active : active[i] \in HostStates
      /\ NoState \notin HostStates
  BY HostAssumption DEF HostTypes
<1>1. ASSUME NEW s \in HostStates, CreateLuaState(s)
      PROVE  ListsInv'
  <2>1. /\ s \in fresh /\ fresh' = fresh \ {s} /\ starting' = s
        /\ step' = "check" /\ nextPlugin' = 1
        /\ active' = Append(active, s) /\ active \in Seq(HostStates)
        /\ UNCHANGED <<plugins_list, basemod, loading>>
    BY <1>1 DEF CreateLuaState, HostTypes
  <2>2. /\ DOMAIN active' = DOMAIN active \cup {Len(active) + 1}
        /\ Len(active) + 1 \notin DOMAIN active
        /\ \A i \in DOMAIN active : active'[i] = active[i]
        /\ active'[Len(active) + 1] = s
    BY <2>1, OneMore
  <2>3. \A i \in DOMAIN active : active[i] # s
    BY <2>1 DEF ListsInv
  <2> QED
    BY <2>1, <2>2, <2>3 DEF ListsInv, Enlisting
<1>2. ASSUME NEW s \in HostStates, CloseLuaState(s)
      PROVE  ListsInv'
  <2>1. PICK k \in DOMAIN active : active' = RemoveAt(active, k)
    BY <1>2 DEF CloseLuaState
  <2>2. UNCHANGED <<plugins_list, starting, step, nextPlugin, basemod, fresh, loading>>
        /\ starting = NoState
    BY <1>2 DEF CloseLuaState
  <2>3. /\ DOMAIN active' = 1..(Len(active) - 1)
        /\ \A i \in 1..(k - 1) : active'[i] = active[i]
        /\ \A i \in k..(Len(active) - 1) : active'[i] = active[i + 1]
    BY <2>1, Removed DEF HostTypes
  <2>4. ASSUME NEW i \in DOMAIN active'
        PROVE  /\ i < k => active'[i] = active[i] /\ i \in DOMAIN active
               /\ i >= k => active'[i] = active[i + 1] /\ i + 1 \in DOMAIN active
               /\ i \in Int
    BY <1>0, <2>1, <2>3
  <2>5. k \in Int
    BY <1>0
  <2>6. ASSUME NEW i \in DOMAIN active', NEW j \in DOMAIN active', active'[i] = active'[j]
        PROVE  i = j
    <3>1. CASE i < k /\ j < k
      BY <2>4, <2>6, <3>1 DEF ListsInv
    <3>2. CASE i >= k /\ j >= k
      <4>1. i + 1 = j + 1
        BY <2>4, <2>6, <3>2 DEF ListsInv
      <4> QED
        BY <2>4, <4>1
    <3>3. CASE i < k /\ j >= k
      <4>1. i = j + 1
        BY <2>4, <2>6, <3>3 DEF ListsInv
      <4> QED
        BY <2>4, <2>5, <3>3, <4>1
    <3>4. CASE i >= k /\ j < k
      <4>1. i + 1 = j
        BY <2>4, <2>6, <3>4 DEF ListsInv
      <4> QED
        BY <2>4, <2>5, <3>4, <4>1
    <3> QED
      BY <2>4, <2>5, <3>1, <3>2, <3>3, <3>4
  <2>7. \A i \in DOMAIN active' : active'[i] \notin fresh
    BY <2>4, <2>5 DEF ListsInv
  <2> QED
    BY <2>2, <2>6, <2>7 DEF ListsInv, Enlisting
<1>3. CASE CheckSetup
  <2>1. /\ starting' \in {starting, NoState} /\ step' \in {step, "plugins"}
        /\ UNCHANGED <<active, plugins_list, nextPlugin, basemod, fresh, loading>>
    BY <1>3 DEF CheckSetup
  <2> QED
    BY <2>1 DEF ListsInv, Enlisting
<1>4. CASE SetUpPlugin
  <2>1. /\ step' \in {"plugins", "base"}
        /\ UNCHANGED <<active, plugins_list, starting, basemod, fresh, loading>>
    BY <1>4 DEF SetUpPlugin
  <2> QED
    BY <2>1 DEF ListsInv, Enlisting
<1>5. CASE RunBase
  <2>1. /\ starting' \in {starting, NoState}
        /\ UNCHANGED <<active, plugins_list, step, nextPlugin, basemod, fresh, loading>>
    BY <1>5 DEF RunBase
  <2> QED
    BY <2>1 DEF ListsInv, Enlisting
<1>6. ASSUME NEW t \in Loaders, NEW f \in PluginFiles, BeginLoadPlugin(t, f)
      PROVE  ListsInv'
  <2>1. /\ basemod = "present"
        /\ loading' = [loading EXCEPT ![t] = [file |-> f, at |-> "create", state |-> 0]]
        /\ UNCHANGED <<active, plugins_list, starting, step, nextPlugin, basemod, fresh>>
    BY <1>6 DEF BeginLoadPlugin, CanLoad
  <2>2. \A u \in Loaders : Enlisting(u)' => loading'[u] = loading[u] /\ Enlisting(u)
    BY <2>1 DEF Enlisting, HostTypes
  <2> QED
    BY <2>1, <2>2 DEF ListsInv
<1>7. ASSUME NEW t \in Loaders, Creating(t) \/ Enlisting(t)
      PROVE  basemod = "present"
  BY <1>7 DEF ListsInv, NotLoading, Creating, Enlisting
<1>8. ASSUME NEW t \in Loaders, ListPlugin(t)
      PROVE  ListsInv'
  <2>1. /\ basemod = "present" /\ UNCHANGED basemod
        /\ UNCHANGED <<active, starting, step, nextPlugin, fresh>>
    BY <1>7, <1>8 DEF ListPlugin, Creating
  <2>2. CASE loading[t].file \in BadPlugins
    <3>1. loading' = [loading EXCEPT ![t] = NotLoading] /\ plugins_list' = plugins_list
      BY <1>8, <2>2 DEF ListPlugin
    <3>2. \A u \in Loaders : Enlisting(u)' => loading'[u] = loading[u] /\ Enlisting(u)
      BY <3>1 DEF Enlisting, HostTypes, NotLoading
    <3> QED
      BY <2>1, <3>1, <3>2 DEF ListsInv
  <2>3. CASE loading[t].file \notin BadPlugins
    <3>1. /\ plugins_list' = Append(plugins_list, loading[t].file)
          /\ loading' = [loading EXCEPT ![t] =
               [file |-> loading[t].file, at |-> "register", state |-> 1]]
          /\ loading[t].file \in PluginFiles \ BadPlugins
      BY <1>8, <2>3 DEF ListPlugin, HostTypes, Creating
    <3>2. /\ DOMAIN plugins_list \subseteq DOMAIN plugins_list'
          /\ \A j \in DOMAIN plugins_list : plugins_list'[j] = plugins_list[j]
          /\ \E j \in DOMAIN plugins_list' : plugins_list'[j] = loading[t].file
      BY <3>1, OneMore DEF HostTypes
    <3>3. /\ \A u \in Loaders : u # t => loading'[u] = loading[u]
          /\ loading'[t].file = loading[t].file
      BY <3>1 DEF HostTypes
    <3>4. ASSUME NEW u \in Loaders, Enlisting(u)'
          PROVE  \E j \in DOMAIN plugins_list' : plugins_list'[j] = loading'[u].file
      BY <3>2, <3>3, <3>4 DEF ListsInv, Enlisting
    <3> QED
      BY <2>1, <3>4 DEF ListsInv
  <2> QED
    BY <2>2, <2>3
<1>9. ASSUME NEW t \in Loaders, RegisterPlugin(t)
      PROVE  ListsInv'
  <2>1. /\ basemod = "present" /\ UNCHANGED basemod
        /\ UNCHANGED <<active, plugins_list, starting, step, nextPlugin, fresh>>
    BY <1>7, <1>9 DEF RegisterPlugin, Enlisting
  <2>2. ASSUME NEW u \in Loaders, Enlisting(u)'
        PROVE  loading'[u].file = loading[u].file /\ Enlisting(u)
    BY <1>9, <2>2, RegisteringDoes DEF Enlisting, NotLoading
  <2> QED
    BY <2>1, <2>2 DEF ListsInv
<1>10. CASE UNCHANGED hostVars
  BY <1>10 DEF hostVars, ListsInv, Enlisting
<1> QED
  BY <1>1, <1>2, <1>3, <1>4, <1>5, <1>6, <1>8, <1>9, <1>10 DEF HostNext

-----------------------------------------------------------------------------
(* What another thread may come into. *)

(* A load that finds its file listed, or registers it with another load,   *)
(* or while a start is past the file, is a raced one.                      *)
RacedInv ==
  /\ \A t \in Loaders, j \in DOMAIN plugins_list, s \in HostStates :
       Creating(t) /\ plugins_list[j] = loading[t].file => <<s, loading[t].file>> \in raced
  /\ \A s \in HostStates, i, j \in DOMAIN plugins_list :
       plugins_list[i] = plugins_list[j] /\ i # j => <<s, plugins_list[i]>> \in raced
  /\ \A s \in HostStates, t, u \in Loaders :
       Enlisting(t) /\ Enlisting(u) /\ loading[t].file = loading[u].file /\ t # u =>
         <<s, loading[t].file>> \in raced
  /\ \A t \in Loaders :
       Enlisting(t) /\ starting # NoState /\ step # "base" =>
         <<starting, loading[t].file>> \in raced

LEMMA RacedKept ==
  ASSUME RacedInv, raced \subseteq raced', UNCHANGED plugins_list,
         \A t \in Loaders : Creating(t)' => Creating(t) /\ loading'[t].file = loading[t].file,
         \A t \in Loaders : Enlisting(t)' => Enlisting(t) /\ loading'[t].file = loading[t].file,
         \/ starting' = NoState \/ step' = "base"
         \/ starting' = starting /\ step # "base"
         \/ \A t \in Loaders : Enlisting(t) => <<starting', loading[t].file>> \in raced'
  PROVE  RacedInv'
<1>1. ASSUME NEW t \in Loaders, NEW j \in DOMAIN plugins_list, NEW s \in HostStates,
             Creating(t)', plugins_list[j] = loading'[t].file
      PROVE  <<s, loading'[t].file>> \in raced'
  BY <1>1 DEF RacedInv
<1>2. ASSUME NEW s \in HostStates, NEW i \in DOMAIN plugins_list,
             NEW j \in DOMAIN plugins_list, plugins_list[i] = plugins_list[j], i # j
      PROVE  <<s, plugins_list[i]>> \in raced'
  BY <1>2 DEF RacedInv
<1>3. ASSUME NEW s \in HostStates, NEW t \in Loaders, NEW u \in Loaders,
             Enlisting(t)', Enlisting(u)', loading'[t].file = loading'[u].file, t # u
      PROVE  <<s, loading'[t].file>> \in raced'
  <2>1. /\ loading'[t].file = loading[t].file /\ loading'[u].file = loading[u].file
        /\ Enlisting(t) /\ Enlisting(u)
    BY <1>3
  <2> QED
    BY <1>3, <2>1 DEF RacedInv
<1>4. ASSUME NEW t \in Loaders, Enlisting(t)', starting' # NoState, step' # "base"
      PROVE  <<starting', loading'[t].file>> \in raced'
  <2>1. Enlisting(t) /\ loading'[t].file = loading[t].file
    BY <1>4
  <2>2. CASE starting' = starting /\ step # "base"
    BY <1>4, <2>1, <2>2 DEF RacedInv
  <2> QED
    BY <1>4, <2>1, <2>2
<1> QED
  BY <1>1, <1>2, <1>3, <1>4 DEF RacedInv

LEMMA RacedStep ==
  ASSUME HostTypes, ListsInv, RacedInv, [HostNext]_hostVars
  PROVE  RacedInv'
<1>0. ASSUME UNCHANGED <<plugins_list, loading>>, raced \subseteq raced',
             \/ starting' = NoState \/ step' = "base"
             \/ starting' = starting /\ step # "base"
             \/ \A t \in Loaders : Enlisting(t) => <<starting', loading[t].file>> \in raced'
      PROVE  RacedInv'
  <2>1. /\ \A t \in Loaders : Creating(t)' => Creating(t) /\ loading'[t].file = loading[t].file
        /\ \A t \in Loaders : Enlisting(t)' => Enlisting(t) /\ loading'[t].file = loading[t].file
    BY <1>0 DEF Creating, Enlisting
  <2> QED
    BY <1>0, <2>1, RacedKept
<1>1. ASSUME NEW s \in HostStates, CreateLuaState(s)
      PROVE  RacedInv'
  <2>1. /\ UNCHANGED <<plugins_list, loading>> /\ starting' = s
        /\ raced' = raced \cup {<<s, f>> : f \in Registering}
    BY <1>1 DEF CreateLuaState
  <2>2. \A t \in Loaders : Enlisting(t) => <<starting', loading[t].file>> \in raced'
    BY <2>1 DEF Registering, Enlisting
  <2> QED
    BY <1>0, <2>1, <2>2
<1>2. ASSUME NEW s \in HostStates, CloseLuaState(s)
      PROVE  RacedInv'
  BY <1>0, <1>2 DEF CloseLuaState
<1>3. CASE CheckSetup
  <2>1. /\ UNCHANGED <<plugins_list, loading, raced>> /\ step # "base"
        /\ starting' = NoState \/ starting' = starting
    BY <1>3 DEF CheckSetup
  <2> QED
    BY <1>0, <2>1
<1>4. CASE SetUpPlugin
  <2>1. UNCHANGED <<plugins_list, loading, raced, starting>> /\ step # "base"
    BY <1>4 DEF SetUpPlugin
  <2> QED
    BY <1>0, <2>1
<1>5. CASE RunBase
  <2>1. UNCHANGED <<plugins_list, loading, raced, step>> /\ step = "base"
    BY <1>5 DEF RunBase
  <2> QED
    BY <1>0, <2>1
<1>6. ASSUME NEW t \in Loaders, NEW f \in PluginFiles, BeginLoadPlugin(t, f)
      PROVE  RacedInv'
  <2>1. /\ UNCHANGED <<plugins_list, starting, step, raced>> /\ f \notin Plugins
        /\ loading' = [loading EXCEPT ![t] = [file |-> f, at |-> "create", state |-> 0]]
    BY <1>6 DEF BeginLoadPlugin, AlreadyLoaded
  <2>2. /\ \A u \in Loaders : u # t => loading'[u] = loading[u]
        /\ loading'[t] = [file |-> f, at |-> "create", state |-> 0]
    BY <2>1 DEF HostTypes
  <2>3. \A u \in Loaders : Enlisting(u)' => Enlisting(u) /\ loading'[u] = loading[u]
    BY <2>2 DEF Enlisting
  <2>4. ASSUME NEW u \in Loaders, NEW j \in DOMAIN plugins_list, NEW s \in HostStates,
               Creating(u)', plugins_list[j] = loading'[u].file
        PROVE  <<s, loading'[u].file>> \in raced
    <3>1. u # t
      BY <2>1, <2>2, <2>4, PluginsAre
    <3> QED
      BY <2>2, <2>4, <3>1 DEF RacedInv, Creating
  <2>5. \A s \in HostStates, u, v \in Loaders :
          Enlisting(u)' /\ Enlisting(v)' /\ loading'[u].file = loading'[v].file /\ u # v =>
            <<s, loading'[u].file>> \in raced
    BY <2>3 DEF RacedInv
  <2>6. \A u \in Loaders :
          Enlisting(u)' /\ starting # NoState /\ step # "base" =>
            <<starting, loading'[u].file>> \in raced
    BY <2>3 DEF RacedInv
  <2> QED
    BY <2>1, <2>4, <2>5, <2>6 DEF RacedInv
<1>7. ASSUME NEW t \in Loaders, ListPlugin(t)
      PROVE  RacedInv'
  <2> DEFINE f == loading[t].file
  <2>1. /\ UNCHANGED <<starting, step>> /\ Creating(t)
        /\ \A u \in Loaders : u # t => loading'[u] = loading[u]
    BY <1>7, ListingDoes
  <2>2. CASE loading'[t] = NotLoading /\ UNCHANGED <<plugins_list, raced>>
    <3>1. /\ \A u \in Loaders : Creating(u)' => Creating(u) /\ loading'[u].file = loading[u].file
          /\ \A u \in Loaders : Enlisting(u)' => Enlisting(u) /\ loading'[u].file = loading[u].file
      BY <2>1, <2>2 DEF NotLoading, Creating, Enlisting
    <3> QED
      BY <2>1, <2>2, <3>1, RacedKept
  <2>3. CASE ~(loading'[t] = NotLoading /\ UNCHANGED <<plugins_list, raced>>)
    <3>1. /\ loading'[t] = [file |-> f, at |-> "register", state |-> 1]
          /\ f \in PluginFiles \ BadPlugins
          /\ plugins_list' = Append(plugins_list, f)
          /\ raced \subseteq raced'
          /\ starting # NoState /\ step # "base" => <<starting, f>> \in raced'
          /\ \A u \in Loaders \ {t}, s \in HostStates :
               Creating(u) /\ loading[u].file = f => <<s, f>> \in raced'
      BY <1>7, <2>3, ListingDoes
    <3>2. /\ DOMAIN plugins_list' = DOMAIN plugins_list \cup {Len(plugins_list) + 1}
          /\ Len(plugins_list) + 1 \notin DOMAIN plugins_list
          /\ \A j \in DOMAIN plugins_list : plugins_list'[j] = plugins_list[j]
          /\ plugins_list'[Len(plugins_list) + 1] = f
      BY <3>1, OneMore DEF HostTypes
    <3>3. \A j \in DOMAIN plugins_list, s \in HostStates :
            plugins_list[j] = f => <<s, f>> \in raced
      BY <2>1 DEF RacedInv
    <3> HIDE DEF f
    <3>4. ASSUME NEW u \in Loaders, NEW j \in DOMAIN plugins_list', NEW s \in HostStates,
                 Creating(u)', plugins_list'[j] = loading'[u].file
          PROVE  <<s, loading'[u].file>> \in raced'
      <4>1. u # t /\ loading'[u] = loading[u] /\ Creating(u)
        BY <2>1, <3>1, <3>4 DEF Creating
      <4>2. CASE j \in DOMAIN plugins_list
        BY <3>1, <3>2, <3>4, <4>1, <4>2 DEF RacedInv
      <4>3. CASE j \notin DOMAIN plugins_list
        BY <3>1, <3>2, <3>4, <4>1, <4>3
      <4> QED
        BY <4>2, <4>3
    <3>5. ASSUME NEW s \in HostStates, NEW i \in DOMAIN plugins_list',
                 NEW j \in DOMAIN plugins_list', plugins_list'[i] = plugins_list'[j], i # j
          PROVE  <<s, plugins_list'[i]>> \in raced'
      <4>1. CASE i \in DOMAIN plugins_list /\ j \in DOMAIN plugins_list
        BY <3>1, <3>2, <3>5, <4>1 DEF RacedInv
      <4>2. CASE i \notin DOMAIN plugins_list
        BY <3>1, <3>2, <3>3, <3>5, <4>2
      <4>3. CASE j \notin DOMAIN plugins_list
        BY <3>1, <3>2, <3>3, <3>5, <4>3
      <4> QED
        BY <4>1, <4>2, <4>3
    <3>6. ASSUME NEW u \in Loaders, u # t, Enlisting(u)', NEW s \in HostStates,
                 loading'[u].file = f
          PROVE  <<s, f>> \in raced'
      <4>1. Enlisting(u) /\ loading[u].file = f
        BY <2>1, <3>6 DEF Enlisting
      <4>2. \E j \in DOMAIN plugins_list : plugins_list[j] = f
        BY <4>1 DEF ListsInv
      <4> QED
        BY <3>1, <3>3, <4>2
    <3>7. ASSUME NEW s \in HostStates, NEW u \in Loaders, NEW v \in Loaders,
                 Enlisting(u)', Enlisting(v)', loading'[u].file = loading'[v].file, u # v
          PROVE  <<s, loading'[u].file>> \in raced'
      <4>1. CASE u = t \/ v = t
        BY <3>1, <3>6, <3>7, <4>1
      <4>2. CASE u # t /\ v # t
        <5>1. /\ Enlisting(u) /\ loading'[u].file = loading[u].file
              /\ Enlisting(v) /\ loading'[v].file = loading[v].file
          BY <2>1, <3>7, <4>2 DEF Enlisting
        <5> QED
          BY <3>1, <3>7, <5>1 DEF RacedInv
      <4> QED
        BY <4>1, <4>2
    <3>8. ASSUME NEW u \in Loaders, Enlisting(u)', starting # NoState, step # "base"
          PROVE  <<starting, loading'[u].file>> \in raced'
      <4>1. CASE u = t
        BY <3>1, <3>8, <4>1
      <4>2. CASE u # t
        BY <2>1, <3>1, <3>8, <4>2 DEF RacedInv, Enlisting
      <4> QED
        BY <4>1, <4>2
    <3> QED
      BY <2>1, <3>4, <3>5, <3>7, <3>8 DEF RacedInv
  <2> QED
    BY <2>2, <2>3
<1>8. ASSUME NEW t \in Loaders, RegisterPlugin(t)
      PROVE  RacedInv'
  <2>1. /\ UNCHANGED <<plugins_list, starting, step, raced>>
        /\ Enlisting(t)
        /\ \A u \in Loaders : u # t => loading'[u] = loading[u]
        /\ \/ loading'[t].file = loading[t].file /\ Enlisting(t)'
           \/ loading'[t] = NotLoading
    BY <1>8, RegisteringDoes
  <2>2. /\ \A u \in Loaders : Creating(u)' => Creating(u) /\ loading'[u].file = loading[u].file
        /\ \A u \in Loaders : Enlisting(u)' => Enlisting(u) /\ loading'[u].file = loading[u].file
    BY <2>1 DEF NotLoading, Creating, Enlisting
  <2> QED
    BY <2>1, <2>2, RacedKept
<1>9. CASE UNCHANGED hostVars
  BY <1>0, <1>9 DEF hostVars
<1> QED
  BY <1>1, <1>2, <1>3, <1>4, <1>5, <1>6, <1>7, <1>8, <1>9 DEF HostNext

-----------------------------------------------------------------------------
(* How often a plugin was set up. *)

(* The start of state r has the plugin at j of the list still to set up. *)
Due(r, j) == r = starting /\ step # "base" /\ nextPlugin <= j

SetUpInv ==
  /\ \A s \in HostStates, f \in PluginFiles :
       f \notin Plugins \/ s \in fresh => setUps[s][f] = 0
  /\ \A i \in DOMAIN active, t \in Loaders :
       Enlisting(t) /\ <<active[i], loading[t].file>> \notin raced =>
         setUps[active[i]][loading[t].file] = IF i < loading[t].state THEN 1 ELSE 0
  /\ \A i \in DOMAIN active, j \in DOMAIN plugins_list :
       plugins_list[j] \notin Registering /\ <<active[i], plugins_list[j]>> \notin raced =>
         setUps[active[i]][plugins_list[j]] = IF Due(active[i], j) THEN 0 ELSE 1

LEMMA SetUpStep ==
  ASSUME HostTypes, ListsInv, RacedInv, SetUpInv, [HostNext]_hostVars
  PROVE  SetUpInv'
<1>0. /\ Len(active) \in Nat /\ DOMAIN active = 1..Len(active)
      /\ \A i \in DOMAIN active : active[i] \in HostStates /\ active[i] # NoState
      /\ Len(plugins_list) \in Nat /\ DOMAIN plugins_list = 1..Len(plugins_list)
      /\ \A j \in DOMAIN plugins_list : plugins_list[j] \in PluginFiles
      /\ setUps \in [HostStates -> [PluginFiles -> Nat]]
      /\ nextPlugin \in Nat
      /\ \A t \in Loaders : Enlisting(t) => loading[t].file \in PluginFiles
  BY HostAssumption DEF HostTypes
<1>1. ASSUME NEW s \in HostStates, CreateLuaState(s)
      PROVE  SetUpInv'
  <2>1. /\ s \in fresh /\ fresh' = fresh \ {s} /\ starting' = s /\ starting = NoState
        /\ step' = "check" /\ nextPlugin' = 1
        /\ active' = Append(active, s) /\ active \in Seq(HostStates)
        /\ raced' = raced \cup {<<s, f>> : f \in Registering}
        /\ UNCHANGED <<plugins_list, loading, setUps>>
    BY <1>1 DEF CreateLuaState, HostTypes
  <2>2. /\ DOMAIN active' = DOMAIN active \cup {Len(active) + 1}
        /\ Len(active) + 1 \notin DOMAIN active
        /\ \A i \in DOMAIN active : active'[i] = active[i]
        /\ active'[Len(active) + 1] = s
    BY <2>1, OneMore
  <2>3. Registering' = Registering /\ Plugins' = Plugins
    BY <2>1 DEF Registering, Plugins
  <2>4. \A r \in HostStates, f \in PluginFiles :
          f \notin Plugins \/ r \in fresh' => setUps[r][f] = 0
    BY <2>1 DEF SetUpInv
  <2>5. ASSUME NEW i \in DOMAIN active', NEW t \in Loaders,
               Enlisting(t), <<active'[i], loading[t].file>> \notin raced'
        PROVE  setUps[active'[i]][loading[t].file] = IF i < loading[t].state THEN 1 ELSE 0
    <3>1. loading[t].file \in Registering
      BY <2>5 DEF Registering, Enlisting
    <3>2. i \in DOMAIN active
      BY <2>1, <2>2, <2>5, <3>1
    <3> QED
      BY <2>1, <2>2, <2>5, <3>2 DEF SetUpInv
  <2>6. ASSUME NEW i \in DOMAIN active', NEW j \in DOMAIN plugins_list,
               plugins_list[j] \notin Registering,
               <<active'[i], plugins_list[j]>> \notin raced'
        PROVE  setUps[active'[i]][plugins_list[j]] =
                 IF active'[i] = s /\ 1 <= j THEN 0 ELSE 1
    <3>1. CASE i \in DOMAIN active
      <4>1. active'[i] = active[i] /\ active[i] # s /\ active[i] # starting
        BY <1>0, <2>1, <2>2, <3>1 DEF ListsInv
      <4>2. ~Due(active[i], j)
        BY <4>1 DEF Due
      <4> QED
        BY <2>1, <2>6, <3>1, <4>1, <4>2 DEF SetUpInv
    <3>2. CASE i \notin DOMAIN active
      <4>1. active'[i] = s /\ 1 <= j
        BY <1>0, <2>2, <3>2
      <4>2. setUps[s][plugins_list[j]] = 0
        BY <1>0, <2>1 DEF SetUpInv
      <4> QED
        BY <4>1, <4>2
    <3> QED
      BY <3>1, <3>2
  <2>7. \A i \in DOMAIN active', j \in DOMAIN plugins_list :
          Due(active[i], j)' <=> active'[i] = s /\ 1 <= j
    BY <2>1 DEF Due
  <2> QED
    BY <2>1, <2>3, <2>4, <2>5, <2>6, <2>7 DEF SetUpInv, Enlisting
<1>2. ASSUME NEW s \in HostStates, CloseLuaState(s)
      PROVE  SetUpInv'
  <2>1. PICK k \in DOMAIN active : active' = RemoveAt(active, k)
    BY <1>2 DEF CloseLuaState
  <2>2. /\ UNCHANGED <<plugins_list, starting, step, nextPlugin, fresh, loading, setUps>>
        /\ starting = NoState
        /\ raced' = raced \cup (Range(active) \X Registering)
    BY <1>2 DEF CloseLuaState
  <2>3. /\ DOMAIN active' = 1..(Len(active) - 1)
        /\ \A i \in 1..(k - 1) : active'[i] = active[i]
        /\ \A i \in k..(Len(active) - 1) : active'[i] = active[i + 1]
    <3>1. active \in Seq(HostStates)
      BY DEF HostTypes
    <3> QED
      BY <2>1, <3>1, Removed
  <2>4. ASSUME NEW i \in DOMAIN active'
        PROVE  \E m \in DOMAIN active : active'[i] = active[m]
    <3>1. i \in 1..(Len(active) - 1) /\ k \in 1..Len(active)
      BY <1>0, <2>3
    <3>2. CASE i < k
      <4>1. i \in 1..(k - 1) /\ i \in 1..Len(active)
        BY <1>0, <3>1, <3>2
      <4> QED
        BY <1>0, <2>3, <4>1
    <3>3. CASE ~(i < k)
      <4>1. i \in k..(Len(active) - 1) /\ i + 1 \in 1..Len(active)
        BY <1>0, <3>1, <3>3
      <4> QED
        BY <1>0, <2>3, <4>1
    <3> QED
      BY <3>2, <3>3
  <2>5. Registering' = Registering /\ Plugins' = Plugins
    BY <2>2 DEF Registering, Plugins
  <2>6. ASSUME NEW i \in DOMAIN active', NEW t \in Loaders, Enlisting(t)
        PROVE  <<active'[i], loading[t].file>> \in raced'
    <3>1. loading[t].file \in Registering /\ active'[i] \in Range(active)
      BY <2>4, <2>6 DEF Registering, Enlisting, Range
    <3> QED
      BY <2>2, <3>1
  <2>7. ASSUME NEW i \in DOMAIN active', NEW j \in DOMAIN plugins_list,
               plugins_list[j] \notin Registering,
               <<active'[i], plugins_list[j]>> \notin raced'
        PROVE  setUps[active'[i]][plugins_list[j]] = 1 /\ active'[i] # NoState
    <3>1. PICK m \in DOMAIN active : active'[i] = active[m]
      BY <2>4
    <3>2. ~Due(active[m], j)
      BY <1>0, <2>2 DEF Due
    <3> QED
      BY <1>0, <2>2, <2>7, <3>1, <3>2 DEF SetUpInv
  <2> QED
    BY <2>2, <2>5, <2>6, <2>7 DEF SetUpInv, Enlisting, Due
<1>3. CASE CheckSetup
  <2>1. /\ UNCHANGED <<active, plugins_list, nextPlugin, fresh, setUps, loading, raced>>
        /\ step = "check" /\ step' \in {"check", "plugins"}
        /\ starting' = starting \/ (basemod = "missing" /\ starting' = NoState)
    BY <1>3 DEF CheckSetup
  <2>2. Registering' = Registering /\ Plugins' = Plugins
    BY <2>1 DEF Registering, Plugins
  <2>3. \A i \in DOMAIN active, j \in DOMAIN plugins_list :
          Due(active[i], j)' <=> Due(active[i], j)
    BY <2>1 DEF Due, ListsInv
  <2> QED
    BY <2>1, <2>2, <2>3 DEF SetUpInv, Enlisting
<1>4. CASE SetUpPlugin
  <2>1. /\ UNCHANGED <<active, plugins_list, starting, fresh, loading, raced>>
        /\ starting # NoState /\ step = "plugins"
    BY <1>4 DEF SetUpPlugin
  <2>2. Registering' = Registering /\ Plugins' = Plugins
    BY <2>1 DEF Registering, Plugins
  <2>3. CASE nextPlugin <= Len(plugins_list)
    <3> DEFINE f == plugins_list[nextPlugin]
    <3>1. /\ SetUp(starting, f) /\ nextPlugin' = nextPlugin + 1
          /\ step' = step
      BY <1>4, <2>3 DEF SetUpPlugin
    <3>2. /\ starting \in HostStates /\ f \in PluginFiles /\ f \in Plugins
          /\ starting \notin fresh /\ nextPlugin \in DOMAIN plugins_list
      <4>1. starting \in HostStates /\ starting \notin fresh
        BY <1>0, <2>1 DEF HostTypes, ListsInv
      <4>2. nextPlugin \in DOMAIN plugins_list
        BY <1>0, <2>3 DEF HostTypes
      <4> QED
        BY <1>0, <4>1, <4>2, PluginsAre
    <3>3. /\ setUps'[starting][f] = setUps[starting][f] + 1
          /\ \A r \in HostStates, g \in PluginFiles :
               r # starting \/ g # f => setUps'[r][g] = setUps[r][g]
      BY <3>1, <3>2, SetUpDoes
    <3>4. \A r \in HostStates, g \in PluginFiles :
            g \notin Plugins \/ r \in fresh => setUps'[r][g] = 0
      BY <3>2, <3>3 DEF SetUpInv
    <3>5. ASSUME NEW i \in DOMAIN active, NEW t \in Loaders,
                 Enlisting(t), <<active[i], loading[t].file>> \notin raced
          PROVE  setUps'[active[i]][loading[t].file] = IF i < loading[t].state THEN 1 ELSE 0
      <4>1. active[i] # starting
        BY <2>1, <3>5 DEF RacedInv
      <4> QED
        BY <1>0, <3>3, <3>5, <4>1 DEF SetUpInv
    <3>6. ASSUME NEW i \in DOMAIN active, NEW j \in DOMAIN plugins_list,
                 plugins_list[j] \notin Registering,
                 <<active[i], plugins_list[j]>> \notin raced
          PROVE  setUps'[active[i]][plugins_list[j]] = IF Due(active[i], j)' THEN 0 ELSE 1
      <4>1. setUps[active[i]][plugins_list[j]] = IF Due(active[i], j) THEN 0 ELSE 1
        BY <3>6 DEF SetUpInv
      <4>2. CASE active[i] # starting
        BY <1>0, <2>1, <3>3, <4>1, <4>2 DEF Due
      <4>3. CASE active[i] = starting /\ j = nextPlugin
        <5>1. setUps[starting][f] = 0
          BY <1>0, <2>1, <4>1, <4>3 DEF Due
        <5>2. ~Due(active[i], j)'
          BY <1>0, <3>1, <4>3 DEF Due
        <5> QED
          BY <3>3, <4>3, <5>1, <5>2
      <4>4. CASE active[i] = starting /\ j # nextPlugin
        <5>1. plugins_list[j] # f
          BY <1>0, <3>2, <3>6, <4>4 DEF RacedInv
        <5>2. nextPlugin <= j <=> nextPlugin + 1 <= j
          BY <1>0, <4>4
        <5>3. Due(active[i], j)' <=> Due(active[i], j)
          BY <2>1, <3>1, <5>2 DEF Due
        <5> QED
          BY <1>0, <3>3, <4>1, <5>1, <5>3
      <4> QED
        BY <4>2, <4>3, <4>4
    <3> HIDE DEF f
    <3> QED
      BY <2>1, <2>2, <3>4, <3>5, <3>6 DEF SetUpInv, Enlisting
  <2>4. CASE ~(nextPlugin <= Len(plugins_list))
    <3>1. step' = "base" /\ UNCHANGED <<setUps, nextPlugin>>
      BY <1>4, <2>4 DEF SetUpPlugin
    <3>2. \A i \in DOMAIN active, j \in DOMAIN plugins_list :
            ~Due(active[i], j) /\ ~Due(active[i], j)'
      BY <1>0, <2>1, <2>4, <3>1 DEF Due
    <3> QED
      BY <2>1, <2>2, <3>1, <3>2 DEF SetUpInv, Enlisting
  <2> QED
    BY <2>3, <2>4
<1>5. CASE RunBase
  <2>1. /\ UNCHANGED <<active, plugins_list, step, nextPlugin, fresh, setUps, loading, raced>>
        /\ step = "base"
    BY <1>5 DEF RunBase
  <2>2. Registering' = Registering /\ Plugins' = Plugins
    BY <2>1 DEF Registering, Plugins
  <2>3. \A i \in DOMAIN active, j \in DOMAIN plugins_list :
          ~Due(active[i], j) /\ ~Due(active[i], j)'
    BY <2>1 DEF Due
  <2> QED
    BY <2>1, <2>2, <2>3 DEF SetUpInv, Enlisting
<1>6. ASSUME NEW t \in Loaders, NEW f \in PluginFiles, BeginLoadPlugin(t, f)
      PROVE  SetUpInv'
  <2>1. /\ UNCHANGED <<active, plugins_list, starting, step, nextPlugin, fresh, setUps, raced>>
        /\ loading[t] = NotLoading
        /\ loading' = [loading EXCEPT ![t] = [file |-> f, at |-> "create", state |-> 0]]
    BY <1>6 DEF BeginLoadPlugin, CanLoad
  <2>2. /\ \A u \in Loaders : u # t => loading'[u] = loading[u]
        /\ loading'[t] = [file |-> f, at |-> "create", state |-> 0]
    BY <2>1 DEF HostTypes
  <2>3. /\ \A u \in Loaders : Enlisting(u)' => Enlisting(u) /\ loading'[u] = loading[u]
        /\ \A u \in Loaders : Enlisting(u) => Enlisting(u)' /\ loading'[u] = loading[u]
    BY <2>1, <2>2 DEF Enlisting, NotLoading
  <2>4. Registering' = Registering /\ Plugins' = Plugins
    BY <2>1, <2>3 DEF Registering, Plugins, Enlisting
  <2>5. \A i \in DOMAIN active, j \in DOMAIN plugins_list :
          Due(active[i], j)' <=> Due(active[i], j)
    BY <2>1 DEF Due
  <2> QED
    BY <2>1, <2>3, <2>4, <2>5 DEF SetUpInv
<1>7. ASSUME NEW t \in Loaders, ListPlugin(t)
      PROVE  SetUpInv'
  <2> DEFINE f == loading[t].file
  <2>1. /\ UNCHANGED <<active, starting, step, nextPlugin, fresh, setUps>> /\ Creating(t)
        /\ \A u \in Loaders : u # t => loading'[u] = loading[u]
    BY <1>7, ListingDoes
  <2>2. \A r, j : Due(r, j)' <=> Due(r, j)
    BY <2>1 DEF Due
  <2>3. \A u \in Loaders : Enlisting(u) => u # t /\ Enlisting(u)' /\ loading'[u] = loading[u]
    BY <2>1 DEF Enlisting, Creating
  <2>4. CASE loading'[t] = NotLoading /\ UNCHANGED <<plugins_list, raced>>
    <3>1. \A u \in Loaders : Enlisting(u)' => Enlisting(u) /\ loading'[u] = loading[u]
      BY <2>1, <2>4 DEF NotLoading, Enlisting
    <3>2. Registering' = Registering /\ Plugins' = Plugins
      BY <2>3, <2>4, <3>1 DEF Registering, Plugins, Enlisting
    <3> QED
      BY <2>1, <2>2, <2>4, <3>1, <3>2 DEF SetUpInv
  <2>5. CASE ~(loading'[t] = NotLoading /\ UNCHANGED <<plugins_list, raced>>)
    <3>1. /\ loading'[t] = [file |-> f, at |-> "register", state |-> 1]
          /\ f \in PluginFiles
          /\ plugins_list' = Append(plugins_list, f)
          /\ raced \subseteq raced'
      BY <1>7, <2>5, ListingDoes
    <3>2. /\ DOMAIN plugins_list' = DOMAIN plugins_list \cup {Len(plugins_list) + 1}
          /\ \A j \in DOMAIN plugins_list : plugins_list'[j] = plugins_list[j]
          /\ plugins_list'[Len(plugins_list) + 1] = f
      <4>1. f \in PluginFiles \ BadPlugins
        BY <1>7, <2>5, ListingDoes
      <4> QED
        BY <3>1, <4>1, OneMore DEF HostTypes
    <3>3. \A s \in HostStates : <<s, f>> \notin raced' => f \notin Plugins
      BY <2>1, <3>1, PluginsAre DEF RacedInv
    <3> HIDE DEF f
    <3>4. Plugins \subseteq Plugins'
      <4>1. Plugins' = {plugins_list'[j] : j \in DOMAIN plugins_list'}
        BY DEF Plugins, Range
      <4> QED
        BY <3>2, <4>1, PluginsAre
    <3>5. Registering \subseteq Registering' /\ f \in Registering'
      BY <2>3, <3>1 DEF Registering, Enlisting
    <3>6. \A s \in HostStates, g \in PluginFiles :
            g \notin Plugins' \/ s \in fresh' => setUps'[s][g] = 0
      BY <2>1, <3>4 DEF SetUpInv
    <3>7. ASSUME NEW i \in DOMAIN active, NEW u \in Loaders,
                 Enlisting(u)', <<active[i], loading'[u].file>> \notin raced'
          PROVE  setUps[active[i]][loading'[u].file] = IF i < loading'[u].state THEN 1 ELSE 0
      <4>1. CASE u = t
        <5>1. f \notin Plugins /\ loading'[u].file = f /\ loading'[u].state = 1
          BY <1>0, <3>1, <3>3, <3>7, <4>1
        <5>2. setUps[active[i]][f] = 0
          BY <1>0, <3>1, <5>1 DEF SetUpInv
        <5>3. ~(i < 1)
          BY <1>0
        <5> QED
          BY <5>1, <5>2, <5>3
      <4>2. CASE u # t
        BY <2>1, <3>1, <3>7, <4>2 DEF SetUpInv, Enlisting
      <4> QED
        BY <4>1, <4>2
    <3>8. ASSUME NEW i \in DOMAIN active, NEW j \in DOMAIN plugins_list',
                 plugins_list'[j] \notin Registering',
                 <<active[i], plugins_list'[j]>> \notin raced'
          PROVE  setUps[active[i]][plugins_list'[j]] = IF Due(active[i], j) THEN 0 ELSE 1
      <4>1. j \in DOMAIN plugins_list /\ plugins_list'[j] = plugins_list[j]
        BY <3>2, <3>5, <3>8
      <4> QED
        BY <3>1, <3>5, <3>8, <4>1 DEF SetUpInv
    <3> QED
      BY <2>1, <2>2, <3>6, <3>7, <3>8 DEF SetUpInv
  <2> QED
    BY <2>4, <2>5
<1>8. ASSUME NEW t \in Loaders, RegisterPlugin(t)
      PROVE  SetUpInv'
  <2> DEFINE f == loading[t].file
             k == loading[t].state
  <2>1. /\ UNCHANGED <<active, plugins_list, starting, step, nextPlugin, fresh, raced>>
        /\ Enlisting(t) /\ k \in Nat \ {0}
        /\ \A u \in Loaders : u # t => loading'[u] = loading[u]
    BY <1>8, RegisteringDoes
  <2>2. Plugins' = Plugins /\ f \in PluginFiles /\ f \in Plugins /\ f \in Registering
    BY <1>0, <2>1, PluginsAre DEF Plugins, ListsInv, Registering, Enlisting
  <2>3. \A r, j : Due(r, j)' <=> Due(r, j)
    BY <2>1 DEF Due
  <2>4. CASE k <= Len(active)
    <3>1. /\ SetUp(active[k], f) /\ loading'[t].file = f /\ Enlisting(t)'
          /\ loading'[t].state = k + 1
      BY <1>0, <1>8, <2>1, <2>4, RegisteringDoes
    <3>2. k \in DOMAIN active /\ active[k] \in HostStates /\ active[k] \notin fresh
      BY <1>0, <2>1, <2>4 DEF ListsInv
    <3>3. /\ setUps'[active[k]][f] = setUps[active[k]][f] + 1
          /\ \A r \in HostStates, g \in PluginFiles :
               r # active[k] \/ g # f => setUps'[r][g] = setUps[r][g]
      BY <2>2, <3>1, <3>2, SetUpDoes
    <3>4. /\ \A u \in Loaders : Enlisting(u)' => Enlisting(u) /\ loading'[u].file = loading[u].file
          /\ \A u \in Loaders : Enlisting(u) => Enlisting(u)' /\ loading'[u].file = loading[u].file
      BY <2>1, <3>1 DEF Enlisting
    <3>5. Registering' = Registering
      BY <3>4 DEF Registering, Enlisting
    <3>6. \A s \in HostStates, g \in PluginFiles :
            g \notin Plugins \/ s \in fresh => setUps'[s][g] = 0
      BY <2>2, <3>2, <3>3 DEF SetUpInv
    <3>7. ASSUME NEW i \in DOMAIN active, NEW u \in Loaders,
                 Enlisting(u)', <<active[i], loading'[u].file>> \notin raced
          PROVE  setUps'[active[i]][loading'[u].file] = IF i < loading'[u].state THEN 1 ELSE 0
      <4>1. /\ Enlisting(u) /\ loading'[u].file = loading[u].file
            /\ setUps[active[i]][loading[u].file] = IF i < loading[u].state THEN 1 ELSE 0
        BY <3>4, <3>7 DEF SetUpInv
      <4>2. CASE u # t
        <5>1. loading[u].file # f
          BY <1>0, <2>1, <3>7, <4>1, <4>2 DEF RacedInv
        <5> QED
          BY <1>0, <2>1, <3>3, <4>1, <4>2, <5>1
      <4>3. CASE u = t /\ i = k
        <5>1. setUps[active[k]][f] = 0 /\ i < k + 1
          BY <1>0, <2>1, <4>1, <4>3
        <5> QED
          BY <3>1, <3>3, <4>3, <5>1
      <4>4. CASE u = t /\ i # k
        <5>1. active[i] # active[k]
          BY <3>2, <4>4 DEF ListsInv
        <5>2. i < k <=> i < k + 1
          BY <1>0, <2>1, <4>4
        <5> QED
          BY <1>0, <2>2, <3>1, <3>3, <4>1, <4>4, <5>1, <5>2
      <4> QED
        BY <4>2, <4>3, <4>4
    <3>8. ASSUME NEW i \in DOMAIN active, NEW j \in DOMAIN plugins_list,
                 plugins_list[j] \notin Registering,
                 <<active[i], plugins_list[j]>> \notin raced
          PROVE  setUps'[active[i]][plugins_list[j]] = IF Due(active[i], j) THEN 0 ELSE 1
      BY <1>0, <2>2, <3>3, <3>8 DEF SetUpInv
    <3> HIDE DEF f, k
    <3> QED
      BY <2>1, <2>2, <2>3, <3>5, <3>6, <3>7, <3>8 DEF SetUpInv
  <2>5. CASE ~(k <= Len(active))
    <3>1. k > Len(active) /\ loading'[t] = NotLoading /\ setUps' = setUps
      BY <1>0, <1>8, <2>1, <2>5, RegisteringDoes
    <3>2. \A u \in Loaders : Enlisting(u)' => u # t /\ Enlisting(u) /\ loading'[u] = loading[u]
      BY <2>1, <3>1 DEF Enlisting, NotLoading
    <3>3. \A g \in Registering : g = f \/ g \in Registering'
      BY <2>1 DEF Registering
    <3>4. ASSUME NEW i \in DOMAIN active, NEW j \in DOMAIN plugins_list,
                 plugins_list[j] \notin Registering',
                 <<active[i], plugins_list[j]>> \notin raced
          PROVE  setUps[active[i]][plugins_list[j]] = IF Due(active[i], j) THEN 0 ELSE 1
      <4>1. CASE plugins_list[j] \notin Registering
        BY <3>4, <4>1 DEF SetUpInv
      <4>2. CASE plugins_list[j] = f
        <5>1. i < k
          BY <1>0, <2>1, <3>1
        <5>2. setUps[active[i]][f] = 1
          BY <2>1, <3>4, <4>2, <5>1 DEF SetUpInv
        <5>3. ~Due(active[i], j)
          BY <1>0, <2>1, <3>4, <4>2 DEF Due, RacedInv
        <5> QED
          BY <4>2, <5>2, <5>3
      <4> QED
        BY <3>3, <3>4, <4>1, <4>2
    <3> HIDE DEF f, k
    <3> QED
      BY <2>1, <2>2, <2>3, <3>1, <3>2, <3>4 DEF SetUpInv
  <2> QED
    BY <2>4, <2>5
<1>9. CASE UNCHANGED hostVars
  BY <1>9 DEF hostVars, SetUpInv, Enlisting, Registering, Plugins, Due
<1> QED
  BY <1>1, <1>2, <1>3, <1>4, <1>5, <1>6, <1>7, <1>8, <1>9 DEF HostNext

-----------------------------------------------------------------------------
(* What holds of every behaviour. *)

LEMMA HostInitial ==
  ASSUME HostInit
  PROVE  HostTypes /\ ListsInv /\ RacedInv /\ SetUpInv
<1>1. /\ active = <<>> /\ plugins_list = <<>> /\ starting = NoState
      /\ step = "check" /\ nextPlugin = 1 /\ fresh = HostStates
      /\ program = "running"
      /\ \A t \in Loaders : loading[t] = NotLoading
  BY DEF HostInit
<1>2. \A t \in Loaders : loading[t].at = "idle"
  BY <1>1 DEF NotLoading
<1>3. loading \in [Loaders -> [file : PluginFiles \cup {"none"}, state : Nat,
                               at : {"idle", "create", "register"}]]
  BY DEF HostInit, NotLoading
<1>4. /\ setUps \in [HostStates -> [PluginFiles -> Nat]]
      /\ \A s \in HostStates, f \in PluginFiles : setUps[s][f] = 0
  BY DEF HostInit
<1>5. HostTypes /\ ListsInv
  BY <1>1, <1>2, <1>3, <1>4 DEF HostTypes, ListsInv, Creating, Enlisting
<1> QED
  BY <1>1, <1>2, <1>4, <1>5 DEF RacedInv, SetUpInv, Creating, Enlisting

LEMMA HostInvariant == HostSpec => [](HostTypes /\ ListsInv /\ RacedInv /\ SetUpInv)
<1>1. HostInit => HostTypes /\ ListsInv /\ RacedInv /\ SetUpInv
  BY HostInitial
<1>2. HostTypes /\ ListsInv /\ RacedInv /\ SetUpInv /\ [HostNext]_hostVars
        => HostTypes' /\ ListsInv' /\ RacedInv' /\ SetUpInv'
  BY HostTypesStep, ListsStep, RacedStep, SetUpStep
<1> QED
  BY <1>1, <1>2, PTL DEF HostSpec

(* The lists, the counts and the loaders keep their types, and a state that *)
(* is listed is no longer to be created.                                    *)
THEOREM HostTypeCorrect == HostSpec => []HostTypeOK
<1>1. HostTypes /\ ListsInv => HostTypeOK
  <2> SUFFICES ASSUME HostTypes, ListsInv
               PROVE  HostTypeOK
    OBVIOUS
  <2>1. Range(active) \subseteq HostStates \ fresh
    BY DEF HostTypes, ListsInv, Range
  <2>2. Plugins \subseteq PluginFiles \ BadPlugins
    BY PluginsAre DEF HostTypes
  <2> QED
    BY <2>1, <2>2 DEF HostTypes, HostTypeOK
<1> QED
  BY <1>1, HostInvariant, PTL

(* Between starts, every listed plugin has been set up in every listed      *)
(* state, and once, whatever order starts, ends and loads of plugins come   *)
(* in: all but those whose set-up a step of the other thread came into.     *)
THEOREM SetUpOnce == HostSpec => []PluginsSetUpOnce
<1>1. HostTypes /\ SetUpInv => PluginsSetUpOnce
  <2> SUFFICES ASSUME HostTypes, SetUpInv, starting = NoState,
                      NEW s \in Range(active), NEW f \in Plugins \ Registering,
                      <<s, f>> \notin raced
               PROVE  setUps[s][f] = 1
    BY DEF PluginsSetUpOnce
  <2>1. PICK i \in DOMAIN active : active[i] = s
    BY DEF Range
  <2>2. PICK j \in DOMAIN plugins_list : plugins_list[j] = f
    BY PluginsAre
  <2>3. ~Due(s, j)
    BY <2>1, HostAssumption DEF Due, HostTypes
  <2> QED
    BY <2>1, <2>2, <2>3 DEF SetUpInv
<1> QED
  BY <1>1, HostInvariant, PTL

-----------------------------------------------------------------------------
(* Stacks. *)

(* The head and the tail of a sequence of two parts. *)
LEMMA Parts ==
  ASSUME NEW S, NEW a \in Seq(S), NEW b \in Seq(S)
  PROVE  /\ SubSeq(a \o b, 1, Len(a)) = a
         /\ SubSeq(a \o b, Len(a) + 1, Len(a) + Len(b)) = b
<1> DEFINE s == a \o b
<1>1. /\ s \in Seq(S) /\ Len(s) = Len(a) + Len(b)
      /\ \A i \in 1..(Len(a) + Len(b)) : s[i] = IF i <= Len(a) THEN a[i] ELSE b[i - Len(a)]
  BY ConcatProperties
<1>2. Len(a) \in Nat /\ Len(b) \in Nat
  OBVIOUS
<1> HIDE DEF s
<1>3. SubSeq(s, 1, Len(a)) = a
  <2>1. \A i \in 1..Len(a) : s[i] \in S /\ s[i] = a[i]
    BY <1>1, <1>2
  <2>2. /\ SubSeq(s, 1, Len(a)) \in Seq(S)
        /\ Len(SubSeq(s, 1, Len(a))) = Len(a)
        /\ \A i \in 1..Len(a) : SubSeq(s, 1, Len(a))[i] = s[i]
    BY <2>1, <1>2, SubSeqProperties
  <2> QED
    BY <2>1, <2>2, SeqEqual
<1>4. SubSeq(s, Len(a) + 1, Len(a) + Len(b)) = b
  <2>1. \A i \in (Len(a) + 1)..(Len(a) + Len(b)) : s[i] \in S
    BY <1>1, <1>2
  <2> DEFINE t == SubSeq(s, Len(a) + 1, Len(a) + Len(b))
  <2>2. /\ t \in Seq(S) /\ Len(t) = Len(b)
        /\ \A i \in 1..Len(b) : t[i] = s[Len(a) + i]
    BY <2>1, <1>2, SubSeqProperties
  <2>3. \A i \in 1..Len(b) : s[Len(a) + i] = b[i]
    BY <1>1, <1>2
  <2> HIDE DEF t
  <2>4. t = b
    BY <2>2, <2>3, SeqEqual
  <2> QED
    BY <2>4 DEF t
<1> QED
  BY <1>3, <1>4 DEF s

LEMMA Popped ==
  ASSUME NEW S, NEW a \in Seq(S), NEW b \in Seq(S)
  PROVE  Pop(a \o b, Len(b)) = a
<1>1. Len(a \o b) - Len(b) = Len(a)
  BY ConcatProperties
<1> QED
  BY <1>1, Parts DEF Pop

LEMMA OnePopped ==
  ASSUME NEW S, NEW a \in Seq(S), NEW x \in S
  PROVE  Pop(Append(a, x), 1) = a /\ Last(Append(a, x)) = x
<1>1. <<x>> \in Seq(S) /\ Len(<<x>>) = 1 /\ Append(a, x) = a \o <<x>>
  BY AppendIsConcat
<1>2. Pop(a \o <<x>>, 1) = a
  BY <1>1, Popped
<1>3. Len(Append(a, x)) = Len(a) + 1 /\ Append(a, x)[Len(a) + 1] = x
  BY AppendProperties
<1> QED
  BY <1>1, <1>2, <1>3 DEF Last

(* lua_insert puts the value on the top under the values above a. *)
LEMMA Inserted ==
  ASSUME NEW S, NEW a \in Seq(S), NEW b \in Seq(S), NEW x \in S
  PROVE  lua_insert(Append(a \o b, x), Len(a) + 1) = a \o <<x>> \o b
<1>1. a \o b \in Seq(S) /\ Len(a \o b) = Len(a) + Len(b)
  BY ConcatProperties
<1>2. Pop(Append(a \o b, x), 1) = a \o b /\ Last(Append(a \o b, x)) = x
  BY <1>1, OnePopped
<1>3. SubSeq(a \o b, 1, Len(a) + 1 - 1) = a
  BY Parts
<1>4. SubSeq(a \o b, Len(a) + 1, Len(a \o b)) = b
  BY <1>1, Parts
<1> DEFINE q == Append(a \o b, x)
           p == Pop(q, 1)
           i == Len(a) + 1
<1>5. lua_insert(q, i) = SubSeq(p, 1, i - 1) \o <<Last(q)>> \o SubSeq(p, i, Len(p))
  BY DEF lua_insert, InsertAt
<1>6. p = a \o b /\ Last(q) = x /\ SubSeq(p, 1, i - 1) = a /\ SubSeq(p, i, Len(p)) = b
  BY <1>2, <1>3, <1>4
<1> HIDE DEF q, p, i
<1>7. lua_insert(q, i) = a \o <<x>> \o b
  BY <1>5, <1>6
<1> QED
  BY <1>7 DEF q, i

LEMMA TakenOut ==
  ASSUME NEW S, NEW a \in Seq(S), NEW b \in Seq(S), NEW x \in S
  PROVE  RemoveAt(a \o <<x>> \o b, Len(a) + 1) = a \o b
<1>1. <<x>> \in Seq(S) /\ Len(<<x>>) = 1
  OBVIOUS
<1>2. a \o <<x>> \in Seq(S) /\ Len(a \o <<x>>) = Len(a) + 1
  BY <1>1, ConcatProperties
<1>3. <<x>> \o b \in Seq(S) /\ (a \o <<x>>) \o b = a \o (<<x>> \o b)
  BY <1>1, ConcatProperties, ConcatAssociative
<1>4. SubSeq(a \o (<<x>> \o b), 1, Len(a)) = a
  BY <1>3, Parts
<1>5. /\ SubSeq((a \o <<x>>) \o b, Len(a) + 2, Len(a) + 1 + Len(b)) = b
      /\ Len((a \o <<x>>) \o b) = Len(a) + 1 + Len(b)
  <2>1. SubSeq((a \o <<x>>) \o b, Len(a \o <<x>>) + 1, Len(a \o <<x>>) + Len(b)) = b
    BY <1>2, Parts
  <2>2. Len((a \o <<x>>) \o b) = Len(a \o <<x>>) + Len(b)
    BY <1>2, ConcatProperties
  <2>3. Len(a) + 1 + 1 = Len(a) + 2
    OBVIOUS
  <2> QED
    BY <2>1, <2>2, <2>3, <1>2
<1>6. Len(a) + 1 - 1 = Len(a) /\ Len(a) + 1 + 1 = Len(a) + 2
  OBVIOUS
<1> DEFINE q == (a \o <<x>>) \o b
           i == Len(a) + 1
<1>7. RemoveAt(q, i) = SubSeq(q, 1, i - 1) \o SubSeq(q, i + 1, Len(q))
  BY DEF RemoveAt
<1>8. SubSeq(q, 1, i - 1) = a /\ SubSeq(q, i + 1, Len(q)) = b
  <2>1. SubSeq(q, 1, i - 1) = SubSeq(q, 1, Len(a))
    BY <1>6
  <2>2. SubSeq(q, 1, Len(a)) = a
    BY <1>3, <1>4
  <2>3. i + 1 = Len(a) + 2 /\ Len(q) = Len(a) + 1 + Len(b)
    BY <1>5, <1>6
  <2>4. SubSeq(q, Len(a) + 2, Len(a) + 1 + Len(b)) = b
    BY <1>5
  <2> HIDE DEF q, i
  <2> QED
    BY <2>1, <2>2, <2>3, <2>4
<1> HIDE DEF q, i
<1>9. RemoveAt(q, i) = a \o b
  BY <1>7, <1>8
<1> QED
  BY <1>9 DEF q, i

(* lua_replace, of the lowest value. *)
LEMMA Replaced ==
  ASSUME NEW S, NEW b \in Seq(S), NEW x \in S, NEW y \in S
  PROVE  lua_replace(Append(<<x>> \o b, y), 1) = <<y>> \o b
<1>1. <<x>> \in Seq(S) /\ <<y>> \in Seq(S) /\ Len(<<x>>) = 1 /\ Len(<<y>>) = 1
      /\ <<y>>[1] = y
  OBVIOUS
<1>2. /\ <<x>> \o b \in Seq(S) /\ Len(<<x>> \o b) = 1 + Len(b)
      /\ \A i \in 1..(1 + Len(b)) :
           (<<x>> \o b)[i] = IF i <= 1 THEN <<x>>[i] ELSE b[i - 1]
  BY <1>1, ConcatProperties
<1>3. /\ <<y>> \o b \in Seq(S) /\ Len(<<y>> \o b) = 1 + Len(b)
      /\ \A i \in 1..(1 + Len(b)) :
           (<<y>> \o b)[i] = IF i <= 1 THEN <<y>>[i] ELSE b[i - 1]
  BY <1>1, ConcatProperties
<1>4. Pop(Append(<<x>> \o b, y), 1) = <<x>> \o b /\ Last(Append(<<x>> \o b, y)) = y
  BY <1>2, OnePopped
<1> DEFINE s == <<x>> \o b
           t == [s EXCEPT ![1] = y]
<1>5. s \in Seq(S) /\ 1 \in 1..Len(s) /\ Len(s) = 1 + Len(b)
  BY <1>2
<1> HIDE DEF s
<1>6. /\ t \in Seq(S) /\ Len(t) = 1 + Len(b)
      /\ \A j \in 1..(1 + Len(b)) : t[j] = IF j = 1 THEN y ELSE s[j]
  BY <1>5, ExceptSeq
<1> HIDE DEF t
<1> DEFINE u == <<y>> \o b
<1>7. \A i \in 1..(1 + Len(b)) : s[i] = IF i <= 1 THEN <<x>>[i] ELSE b[i - 1]
  BY <1>2 DEF s
<1>8. /\ u \in Seq(S) /\ Len(u) = 1 + Len(b)
      /\ \A i \in 1..(1 + Len(b)) : u[i] = IF i = 1 THEN y ELSE b[i - 1]
  BY <1>1, <1>3
<1> HIDE DEF u
<1>9. ASSUME NEW i \in 1..(1 + Len(b))
      PROVE  t[i] = u[i]
  <2>1. CASE i = 1
    BY <2>1, <1>6, <1>8
  <2>2. CASE i # 1
    <3>1. ~(i <= 1)
      BY <2>2
    <3> QED
      BY <2>2, <3>1, <1>6, <1>7, <1>8
  <2> QED
    BY <2>1, <2>2
<1>10. t = u
  BY <1>6, <1>8, <1>9, SeqEqual
<1>11. lua_replace(Append(s, y), 1) = t
  BY <1>4 DEF lua_replace, ReplaceAt, s, t
<1> QED
  BY <1>10, <1>11 DEF s, u

-----------------------------------------------------------------------------
(* Calls. *)

Slots == {"result", "message", "handler", "function", "argument", "true", "false",
          "nil", "error"}
(* What a protected call puts in place of the function and its arguments. *)
Left(outcome, nresults) ==
  IF outcome.status = "ok" THEN Adjusted(outcome, nresults) ELSE <<"message">>

LEMMA CopiesAre ==
  ASSUME NEW S, NEW x \in S, NEW n \in Nat
  PROVE  Copies(x, n) \in Seq(S) /\ Len(Copies(x, n)) = n
  BY DEF Copies

LEMMA LeftIs ==
  ASSUME NEW outcome \in Outcomes, NEW n \in Nat \cup {MULTRET}
  PROVE  /\ Left(outcome, n) \in Seq({"result", "message"})
         /\ Left(outcome, n) \in Seq(Slots)
         /\ outcome.results \in Nat /\ outcome.status \in {"ok", "run", "other"}
<1>1. outcome.results \in Nat /\ outcome.status \in {"ok", "run", "other"}
  BY CallsAssumption DEF Outcomes
<1>2. ASSUME NEW S, {"result", "message"} \subseteq S
      PROVE  Left(outcome, n) \in Seq(S)
  <2>1. <<"message">> \in Seq(S)
    BY <1>2
  <2>2. Adjusted(outcome, n) \in Seq(S)
    <3>1. CASE n = MULTRET
      <4>1. Copies("result", outcome.results) \in Seq(S)
        BY <1>1, <1>2, CopiesAre
      <4> QED
        BY <3>1, <4>1 DEF Adjusted
    <3>2. CASE n # MULTRET
      <4>1. Copies("result", n) \in Seq(S)
        BY <3>2, <1>2, CopiesAre
      <4> QED
        BY <3>2, <4>1 DEF Adjusted
    <3> QED
      BY <3>1, <3>2
  <2> QED
    BY <2>1, <2>2 DEF Left
<1>3. {"result", "message"} \subseteq Slots
  BY DEF Slots
<1> QED
  BY <1>1, <1>2, <1>3

(* A function and its arguments above what a holds. *)
LEMMA PushedIs ==
  ASSUME NEW a \in Seq(Slots), NEW n \in Nat
  PROVE  LET call == <<"function">> \o Copies("argument", n)
             s == a \o <<"function">> \o Copies("argument", n)
         IN /\ call \in Seq(Slots) /\ Len(call) = n + 1
            /\ s = a \o call /\ s \in Seq(Slots) /\ Len(s) = Len(a) + n + 1
<1>1. /\ <<"function">> \in Seq(Slots) /\ Len(<<"function">>) = 1
      /\ "argument" \in Slots
  BY DEF Slots
<1> DEFINE args == Copies("argument", n)
           call == <<"function">> \o args
<1>2. args \in Seq(Slots) /\ Len(args) = n
  BY <1>1, CopiesAre
<1> HIDE DEF args
<1>3. call \in Seq(Slots) /\ Len(call) = n + 1
  BY <1>1, <1>2, ConcatProperties
<1>4. (a \o <<"function">>) \o args = a \o call
  BY <1>1, <1>2, ConcatAssociative
<1>5. a \o call \in Seq(Slots) /\ Len(a \o call) = Len(a) + Len(call)
  BY <1>3, ConcatProperties
<1>6. Len(a \o call) = Len(a) + n + 1
  BY <1>3, <1>5
<1> QED
  BY <1>3, <1>4, <1>5, <1>6 DEF args

LEMMA Called ==
  ASSUME NEW a \in Seq(Slots), NEW n \in Nat, NEW outcome \in Outcomes, NEW nresults
  PROVE  lua_pcall(a \o <<"function">> \o Copies("argument", n), n, nresults, outcome)
           = a \o Left(outcome, nresults)
<1> DEFINE call == <<"function">> \o Copies("argument", n)
           s == a \o <<"function">> \o Copies("argument", n)
<1>1. call \in Seq(Slots) /\ Len(call) = n + 1 /\ s = a \o call
  BY PushedIs
<1> HIDE DEF call, s
<1>2. Pop(s, n + 1) = a
  BY <1>1, Popped
<1>3. lua_pcall(s, n, nresults, outcome) = Pop(s, n + 1) \o Left(outcome, nresults)
  BY DEF lua_pcall, Left
<1>4. lua_pcall(s, n, nresults, outcome) = a \o Left(outcome, nresults)
  BY <1>2, <1>3
<1> QED
  BY <1>4 DEF s

LEMMA HandlerUnder ==
  ASSUME NEW a \in Seq(Slots), NEW n \in Nat
  PROVE  WithHandler(a \o <<"function">> \o Copies("argument", n), n)
           = (a \o <<"handler">>) \o <<"function">> \o Copies("argument", n)
<1> DEFINE call == <<"function">> \o Copies("argument", n)
           s == a \o <<"function">> \o Copies("argument", n)
           h == a \o <<"handler">>
<1>1. /\ call \in Seq(Slots) /\ Len(call) = n + 1
      /\ s = a \o call /\ s \in Seq(Slots) /\ Len(s) = Len(a) + n + 1
  BY PushedIs
<1>2. "handler" \in Slots /\ <<"handler">> \in Seq(Slots)
  BY DEF Slots
<1>3. h \in Seq(Slots)
  BY <1>2, ConcatProperties
<1>4. (h \o <<"function">>) \o Copies("argument", n) = h \o call
  BY <1>3, PushedIs
<1> HIDE DEF call, s
<1>5. Len(Append(s, "handler")) - n - 1 = Len(a) + 1
  <2>0. s \in Seq(Slots) /\ "handler" \in Slots
    BY <1>1, <1>2
  <2>1. Len(Append(s, "handler")) = Len(s) + 1
    BY <2>0, AppendProperties
  <2> HIDE DEF h
  <2> QED
    BY <1>1, <2>1
<1>6. lua_insert(Append(a \o call, "handler"), Len(a) + 1) = a \o <<"handler">> \o call
  BY <1>1, <1>2, Inserted
<1>7. WithHandler(s, n) = lua_insert(Append(s, "handler"), Len(Append(s, "handler")) - n - 1)
  BY DEF WithHandler
<1>8. WithHandler(s, n) = h \o call
  BY <1>1, <1>5, <1>6, <1>7
<1> QED
  BY <1>4, <1>8 DEF s

(* What perform_lua_pcall makes of the stack of the game. *)
LEMMA PerformDoes ==
  ASSUME NEW a \in Seq(Slots), NEW n \in Nat, NEW r \in Nat, NEW outcome \in Outcomes,
         NEW overlay \in Overlays
  PROVE  perform_lua_pcall(a \o <<"function">> \o Copies("argument", n), n, r,
                           outcome, overlay)
           = a \o (IF outcome.status = "ok" THEN Copies("result", r)
                   ELSE IF overlay = "other" THEN <<"message">> ELSE <<>>)
<1> DEFINE s == a \o <<"function">> \o Copies("argument", n)
           h == a \o <<"handler">>
           called == lua_pcall(WithHandler(s, n), n, r, outcome)
           rest == IF outcome.status = "ok" THEN Copies("result", r)
                   ELSE IF overlay = "other" THEN <<"message">> ELSE <<>>
<1>1. {"message", "handler", "result"} \subseteq Slots /\ <<"handler">> \in Seq(Slots)
      /\ <<"message">> \in Seq(Slots) /\ <<>> \in Seq(Slots)
  BY DEF Slots
<1>2. h \in Seq(Slots)
  BY <1>1, ConcatProperties
<1>3. WithHandler(s, n) = h \o <<"function">> \o Copies("argument", n)
  BY HandlerUnder
<1>4. lua_pcall(h \o <<"function">> \o Copies("argument", n), n, r, outcome)
        = h \o Left(outcome, r)
  BY <1>2, Called
<1>5. called = h \o Left(outcome, r)
  BY <1>3, <1>4
<1>6. Len(s) - n = Len(a) + 1
  <2>1. Len(s) = Len(a) + n + 1
    BY PushedIs
  <2> HIDE DEF s
  <2> QED
    BY <2>1
<1>7. perform_lua_pcall(s, n, r, outcome, overlay)
        = RemoveAt(IF outcome.status = "ok" THEN called
                   ELSE Pop(NotifyErrorOverlay(called, overlay), 1), Len(s) - n)
  BY DEF perform_lua_pcall, WithoutHandler
<1>8. Copies("result", r) \in Seq(Slots) /\ rest \in Seq(Slots)
  BY <1>1, CopiesAre
<1> HIDE DEF called, s
<1>9. (IF outcome.status = "ok" THEN called
       ELSE Pop(NotifyErrorOverlay(called, overlay), 1)) = h \o rest
  <2>1. CASE outcome.status = "ok"
    <3>1. r # MULTRET
      BY DEF MULTRET
    <3> QED
      BY <2>1, <3>1, <1>5 DEF Left, Adjusted
  <2>2. CASE outcome.status # "ok"
    <3>1. called = h \o <<"message">>
      BY <2>2, <1>5 DEF Left
    <3>2. called \in Seq(Slots) /\ called = Append(h, "message")
      BY <3>1, <1>1, <1>2, AppendIsConcat, ConcatProperties
    <3>3. Pop(called, 1) = h
      BY <3>2, <1>1, <1>2, OnePopped
    <3>4. Pop(Append(called, "message"), 1) = called
      <4>1. "message" \in Slots
        BY <1>1
      <4> QED
        BY <3>2, <4>1, OnePopped
    <3>5. h \o <<>> = h
      BY <1>2, ConcatEmptySeq
    <3>6. CASE overlay = "other"
      BY <2>2, <3>1, <3>4, <3>6 DEF NotifyErrorOverlay
    <3>7. CASE overlay # "other"
      BY <2>2, <3>3, <3>5, <3>7 DEF NotifyErrorOverlay
    <3> QED
      BY <3>6, <3>7
  <2> QED
    BY <2>1, <2>2
<1>10. RemoveAt(h \o rest, Len(a) + 1) = a \o rest
  <2>1. "handler" \in Slots
    BY <1>1
  <2> HIDE DEF rest
  <2> QED
    BY <2>1, <1>8, TakenOut
<1> HIDE DEF rest, h
<1>11. perform_lua_pcall(s, n, r, outcome, overlay) = a \o rest
  BY <1>6, <1>7, <1>9, <1>10
<1> QED
  BY <1>11 DEF s, rest

-----------------------------------------------------------------------------
(* The functions that Lua calls. *)

LEMMA FirstTaken ==
  ASSUME NEW S, NEW b \in Seq(S), NEW x \in S
  PROVE  RemoveAt(<<x>> \o b, 1) = b
<1>1. <<>> \in Seq(S) /\ <<x>> \in Seq(S) /\ Len(<<>>) + 1 = 1
  OBVIOUS
<1>2. RemoveAt(<<>> \o <<x>> \o b, Len(<<>>) + 1) = <<>> \o b
  BY <1>1, TakenOut
<1>3. <<>> \o <<x>> = <<x>> /\ <<>> \o b = b
  BY <1>1, ConcatEmptySeq
<1> QED
  BY <1>1, <1>2, <1>3

LEMMA FirstInserted ==
  ASSUME NEW S, NEW b \in Seq(S), NEW x \in S
  PROVE  lua_insert(Append(b, x), 1) = <<x>> \o b
<1>1. <<>> \in Seq(S) /\ <<x>> \in Seq(S) /\ Len(<<>>) + 1 = 1
  OBVIOUS
<1>2. lua_insert(Append(<<>> \o b, x), Len(<<>>) + 1) = <<>> \o <<x>> \o b
  BY <1>1, Inserted
<1>3. <<>> \o <<x>> = <<x>> /\ <<>> \o b = b
  BY <1>1, ConcatEmptySeq
<1> QED
  BY <1>1, <1>2, <1>3

LEMMA AppendThird ==
  ASSUME NEW S, NEW a \in Seq(S), NEW b \in Seq(S), NEW c \in Seq(S), NEW x \in S
  PROVE  Append((a \o b) \o c, x) = (a \o b) \o Append(c, x)
<1> DEFINE d == a \o b
<1>1. d \in Seq(S) /\ <<x>> \in Seq(S)
  BY ConcatProperties
<1> HIDE DEF d
<1>2. d \o c \in Seq(S)
  BY <1>1, ConcatProperties
<1>3. Append(d \o c, x) = (d \o c) \o <<x>> /\ Append(c, x) = c \o <<x>>
  BY <1>2, AppendIsConcat
<1>4. (d \o c) \o <<x>> = d \o (c \o <<x>>)
  BY <1>1, ConcatAssociative
<1>5. Append(d \o c, x) = d \o Append(c, x)
  BY <1>3, <1>4
<1> QED
  BY <1>5 DEF d

LEMMA PairIs ==
  ASSUME NEW S, NEW x \in S, NEW y \in S
  PROVE  <<x>> \o <<y>> = <<x, y>>
<1>1. /\ <<x>> \in Seq(S) /\ <<y>> \in Seq(S) /\ Len(<<x>>) = 1 /\ Len(<<y>>) = 1
      /\ <<x>>[1] = x /\ <<y>>[1] = y
  OBVIOUS
<1> DEFINE a == <<x>>
           b == <<y>>
           s == a \o b
           t == <<x, y>>
<1>2. t \in Seq(S) /\ Len(t) = 2 /\ t[1] = x /\ t[2] = y
  OBVIOUS
<1>3. a \in Seq(S) /\ b \in Seq(S) /\ Len(a) = 1 /\ Len(b) = 1 /\ a[1] = x /\ b[1] = y
  BY <1>1
<1> HIDE DEF a, b, t
<1>4. /\ s \in Seq(S) /\ Len(s) = 2
      /\ \A i \in 1..2 : s[i] = IF i <= 1 THEN a[i] ELSE b[i - 1]
  BY <1>3, ConcatProperties
<1> HIDE DEF s
<1>5. s[1] = x /\ s[2] = y
  BY <1>3, <1>4
<1>6. \A i \in 1..2 : s[i] = t[i]
  BY <1>2, <1>5
<1>7. s = t
  BY <1>2, <1>4, <1>6, SeqEqual
<1> QED
  BY <1>7 DEF s, a, b, t

LEMMA ArgumentsAre ==
  ASSUME NEW n \in Nat
  PROVE  /\ Arguments(n) = <<>> \o <<"function">> \o Copies("argument", n)
         /\ Arguments(n) \in Seq(Slots) /\ Len(Arguments(n)) = n + 1
<1>1. "function" \in Slots /\ "argument" \in Slots
  BY DEF Slots
<1>2. <<"function">> \in Seq(Slots) /\ Len(<<"function">>) = 1
  BY <1>1
<1>3. <<>> \o <<"function">> = <<"function">>
  BY <1>2, ConcatEmptySeq
<1>4. Copies("argument", n) \in Seq(Slots) /\ Len(Copies("argument", n)) = n
  BY <1>1, CopiesAre
<1>5. /\ <<"function">> \o Copies("argument", n) \in Seq(Slots)
      /\ Len(<<"function">> \o Copies("argument", n)) = 1 + n
  BY <1>2, <1>4, ConcatProperties
<1> QED
  BY <1>3, <1>5 DEF Arguments

Status(outcome) == IF outcome.status = "ok" THEN "true" ELSE "false"
Values(outcome) == Left(outcome, MULTRET)

LEMMA PcallGives ==
  ASSUME NEW n \in Nat, NEW outcome \in Outcomes
  PROVE  pcall(n, outcome) = IF outcome.status = "run" THEN <<>>
                             ELSE <<Status(outcome)>> \o Values(outcome)
<1>1. /\ <<"handler">> \in Seq(Slots) /\ <<>> \in Seq(Slots)
      /\ "handler" \in Slots /\ Status(outcome) \in Slots
  BY DEF Slots, Status
<1>2. WithHandler(<<>> \o <<"function">> \o Copies("argument", n), n)
        = (<<>> \o <<"handler">>) \o <<"function">> \o Copies("argument", n)
  BY <1>1, HandlerUnder
<1>3. <<>> \o <<"handler">> = <<"handler">>
  BY <1>1, ConcatEmptySeq
<1>4. WithHandler(Arguments(n), n) = <<"handler">> \o <<"function">> \o Copies("argument", n)
  BY <1>2, <1>3, ArgumentsAre
<1>5. lua_pcall(<<"handler">> \o <<"function">> \o Copies("argument", n), n, MULTRET, outcome)
        = <<"handler">> \o Values(outcome)
  BY <1>1, Called DEF Values
<1>6. Values(outcome) \in Seq(Slots)
  BY LeftIs DEF Values
<1> DEFINE called == lua_pcall(WithHandler(Arguments(n), n), n, MULTRET, outcome)
<1>7. RemoveAt(called, 1) = Values(outcome)
  <2>1. RemoveAt(<<"handler">> \o Values(outcome), 1) = Values(outcome)
    BY <1>1, <1>6, FirstTaken
  <2> QED
    BY <1>4, <1>5, <2>1
<1>8. lua_insert(Append(Values(outcome), Status(outcome)), 1)
        = <<Status(outcome)>> \o Values(outcome)
  BY <1>1, <1>6, FirstInserted
<1>9. pcall(n, outcome) = IF outcome.status = "run" THEN <<>>
                          ELSE lua_insert(Append(RemoveAt(called, 1), Status(outcome)), 1)
  BY DEF pcall, Status
<1> HIDE DEF called
<1> QED
  BY <1>7, <1>8, <1>9

LEMMA ProperPcallGives ==
  ASSUME NEW n \in Nat, NEW outcome \in Outcomes
  PROVE  pcall_proper(n, outcome) = <<Status(outcome)>> \o Values(outcome)
<1>1. <<>> \in Seq(Slots) /\ Status(outcome) \in Slots
  BY DEF Slots, Status
<1>2. Values(outcome) \in Seq(Slots)
  BY LeftIs DEF Values
<1>3. lua_pcall(<<>> \o <<"function">> \o Copies("argument", n), n, MULTRET, outcome)
        = <<>> \o Values(outcome)
  BY <1>1, Called DEF Values
<1>4. lua_pcall(Arguments(n), n, MULTRET, outcome) = Values(outcome)
  BY <1>2, <1>3, ArgumentsAre, ConcatEmptySeq
<1>5. lua_insert(Append(Values(outcome), Status(outcome)), 1)
        = <<Status(outcome)>> \o Values(outcome)
  BY <1>1, <1>2, FirstInserted
<1>6. pcall_proper(n, outcome)
        = lua_insert(Append(lua_pcall(Arguments(n), n, MULTRET, outcome),
                            Status(outcome)), 1)
  BY DEF pcall_proper, Status
<1> QED
  BY <1>4, <1>5, <1>6

LEMMA XpcallGives ==
  ASSUME NEW n \in Nat, NEW outcome \in Outcomes
  PROVE  xpcall(n, outcome) = <<Status(outcome)>> \o Values(outcome)
<1> DEFINE args == Copies("argument", n)
           given == <<"function", "handler">> \o args
           copied == RemoveAt(Append(given, given[2]), 2)
           f == <<"function">>
           h == <<"handler">>
<1>1. /\ f \in Seq(Slots) /\ h \in Seq(Slots) /\ Len(f) = 1 /\ Len(h) = 1
      /\ f \o h = <<"function", "handler">> /\ Len(f) + 1 = 2
  <2>1. "function" \in Slots /\ "handler" \in Slots
    BY DEF Slots
  <2>2. f \o h = <<"function", "handler">>
    BY <2>1, PairIs
  <2>3. f \in Seq(Slots) /\ h \in Seq(Slots) /\ Len(f) = 1 /\ Len(h) = 1
    BY <2>1
  <2> QED
    BY <2>2, <2>3
<1>2. {"handler", "argument", Status(outcome)} \subseteq Slots
  BY DEF Slots, Status
<1>3. args \in Seq(Slots)
  BY <1>2, CopiesAre
<1>4. given[2] = "handler"
  <2>1. /\ <<"function", "handler">> \in Seq(Slots)
        /\ Len(<<"function", "handler">>) = 2 /\ <<"function", "handler">>[2] = "handler"
    BY DEF Slots
  <2>2. 2 \in 1..(Len(<<"function", "handler">>) + Len(args))
    BY <1>3, <2>1
  <2> HIDE DEF args
  <2> QED
    BY <1>3, <2>1, <2>2, ConcatProperties
<1> HIDE DEF args
<1>5. /\ Append(args, "handler") \in Seq(Slots) /\ f \o h \in Seq(Slots)
      /\ f \o args \in Seq(Slots) /\ (f \o h) \o args \in Seq(Slots)
  <2>1. "handler" \in Slots
    BY <1>2
  <2>2. Append(args, "handler") \in Seq(Slots)
    BY <1>3, <2>1, AppendProperties
  <2>3. f \o h \in Seq(Slots) /\ f \o args \in Seq(Slots)
    BY <1>1, <1>3, ConcatProperties
  <2>4. (f \o h) \o args \in Seq(Slots)
    BY <1>3, <2>3, ConcatProperties
  <2> QED
    BY <2>2, <2>3, <2>4
<1> HIDE DEF f, h
<1>6. Append((f \o h) \o args, "handler") = (f \o h) \o Append(args, "handler")
  <2>1. "handler" \in Slots
    BY <1>2
  <2> QED
    BY <1>1, <1>3, <2>1, AppendThird
<1>7. copied = f \o Append(args, "handler")
  <2>1. "handler" \in Slots /\ <<"handler">> = h
    BY <1>2 DEF h
  <2>2. RemoveAt(f \o <<"handler">> \o Append(args, "handler"), Len(f) + 1)
          = f \o Append(args, "handler")
    BY <1>1, <1>5, <2>1, TakenOut
  <2> QED
    BY <1>1, <1>4, <1>6, <2>1, <2>2
<1>8. copied = Append(f \o args, "handler")
  <2>1. "handler" \in Slots
    BY <1>2
  <2>2. Append(f \o args, "handler") = f \o Append(args, "handler")
    <3>1. f \in Seq(Slots) /\ args \in Seq(Slots)
      BY <1>1, <1>3
    <3> HIDE DEF given, copied
    <3> DEFINE x == "handler"
    <3>2. x \in Slots
      BY <2>1
    <3> HIDE DEF x
    <3>4. f \o args \in Seq(Slots) /\ <<x>> \in Seq(Slots)
      BY <1>5, <3>2
    <3>5. Append(f \o args, x) = (f \o args) \o <<x>> /\ Append(args, x) = args \o <<x>>
      BY <3>1, <3>2, <3>4, AppendIsConcat
    <3>6. (f \o args) \o <<x>> = f \o (args \o <<x>>)
      BY <3>1, <3>4, ConcatAssociative
    <3>3. Append(f \o args, x) = f \o Append(args, x)
      BY <3>5, <3>6
    <3> QED
      BY <3>3 DEF x
  <2> QED
    BY <1>7, <2>2
<1>9. lua_insert(copied, 1) = <<"handler">> \o <<"function">> \o Copies("argument", n)
  <2>1. "handler" \in Slots /\ <<"handler">> \in Seq(Slots)
    BY <1>2
  <2>2. lua_insert(Append(f \o args, "handler"), 1) = <<"handler">> \o (f \o args)
    BY <1>5, <2>1, FirstInserted
  <2>3. <<"handler">> \o (f \o args) = (<<"handler">> \o f) \o args
    BY <1>1, <1>3, <2>1, ConcatAssociative
  <2> QED
    BY <1>8, <2>2, <2>3 DEF f, args
<1>10. <<"handler">> \in Seq(Slots) /\ Values(outcome) \in Seq(Slots)
       /\ "handler" \in Slots /\ Status(outcome) \in Slots
  <2>1. "handler" \in Slots /\ Status(outcome) \in Slots
    BY <1>2
  <2>2. Values(outcome) \in Seq(Slots)
    BY LeftIs DEF Values
  <2> QED
    BY <2>1, <2>2
<1>11. lua_pcall(lua_insert(copied, 1), n, MULTRET, outcome)
         = <<"handler">> \o Values(outcome)
  <2>1. lua_pcall(<<"handler">> \o <<"function">> \o Copies("argument", n), n, MULTRET, outcome)
          = <<"handler">> \o Values(outcome)
    BY <1>10, Called DEF Values
  <2> QED
    BY <1>9, <2>1
<1>12. lua_replace(Append(<<"handler">> \o Values(outcome), Status(outcome)), 1)
         = <<Status(outcome)>> \o Values(outcome)
  BY <1>10, Replaced
<1>13. xpcall(n, outcome)
         = lua_replace(Append(lua_pcall(lua_insert(copied, 1), n, MULTRET, outcome),
                              Status(outcome)), 1)
  BY DEF xpcall, Status, args
<1> HIDE DEF copied
<1> QED
  BY <1>11, <1>12, <1>13

LEMMA DofileGives ==
  ASSUME NEW n \in Nat, NEW outcome \in Outcomes
  PROVE  vm_dofile(n, outcome) = IF outcome.status = "ok" THEN Values(outcome)
                                 ELSE <<"error">>
<1> DEFINE a == Arguments(n)
           v == Values(outcome)
           called == lua_pcall(Append(a, "function"), 0, MULTRET, outcome)
<1>1. a \in Seq(Slots) /\ Len(a) = n + 1
  BY ArgumentsAre
<1>2. v \in Seq(Slots)
  BY LeftIs DEF Values
<1>3. "function" \in Slots /\ "argument" \in Slots
  BY DEF Slots
<1> HIDE DEF a
<1>4. Append(a, "function") = a \o <<"function">> \o Copies("argument", 0)
  <2>1. Copies("argument", 0) \in Seq(Slots) /\ Len(Copies("argument", 0)) = 0
    BY <1>3, CopiesAre
  <2>2. Copies("argument", 0) = <<>>
    BY <2>1
  <2>3. <<"function">> \in Seq(Slots)
    BY <1>3
  <2>4. a \o <<"function">> \in Seq(Slots)
    BY <1>1, <2>3, ConcatProperties
  <2>5. (a \o <<"function">>) \o <<>> = a \o <<"function">>
    BY <2>4, ConcatEmptySeq
  <2>6. Append(a, "function") = a \o <<"function">>
    BY <1>1, <1>3, AppendIsConcat
  <2> QED
    BY <2>2, <2>5, <2>6
<1>5. called = a \o v
  <2>1. 0 \in Nat
    OBVIOUS
  <2>2. lua_pcall(a \o <<"function">> \o Copies("argument", 0), 0, MULTRET, outcome)
          = a \o Left(outcome, MULTRET)
    BY <1>1, <2>1, Called
  <2> QED
    BY <1>4, <2>2 DEF Values
<1> HIDE DEF v, called
<1>6. SubSeq(called, n + 1 + 1, Len(called)) = v
  <2>1. Len(called) = Len(a) + Len(v)
    BY <1>1, <1>2, <1>5, ConcatProperties
  <2>2. SubSeq(a \o v, Len(a) + 1, Len(a) + Len(v)) = v
    BY <1>1, <1>2, Parts
  <2> QED
    BY <1>1, <1>5, <2>1, <2>2
<1>7. vm_dofile(n, outcome) = IF outcome.status = "ok"
                              THEN SubSeq(called, n + 1 + 1, Len(called))
                              ELSE <<"error">>
  BY DEF vm_dofile, called, a
<1> QED
  BY <1>6, <1>7 DEF v

LEMMA LoadGives ==
  ASSUME NEW n \in Nat, NEW outcome \in Outcomes
  PROVE  load(n, outcome) = IF outcome.status = "ok" THEN <<"function">>
                            ELSE <<"nil", "message">>
<1> DEFINE a == Arguments(n)
           m == <<"message">>
           loaded == Append(Append(a, "message"), "nil")
           ordered == lua_insert(loaded, Len(loaded) - 1)
<1>1. a \in Seq(Slots) /\ Len(a) \in Nat
  <2>1. Arguments(n) \in Seq(Slots)
    BY ArgumentsAre
  <2> QED
    BY <2>1
<1>2. "message" \in Slots /\ "nil" \in Slots
  BY DEF Slots
<1>3. m \in Seq(Slots) /\ Len(m) = 1 /\ <<"nil">> \in Seq(Slots)
  BY <1>2
<1>4. <<"nil">> \o m = <<"nil", "message">>
  BY <1>2, PairIs
<1>5. Append(a, "message") = a \o m
  BY <1>1, <1>2, AppendIsConcat
<1>6. a \o m \in Seq(Slots) /\ Len(a \o m) = Len(a) + 1
  BY <1>1, <1>3, ConcatProperties
<1> HIDE DEF a, m
<1>7. Len(loaded) - 1 = Len(a) + 1
  <2>1. Len(Append(a \o m, "nil")) = Len(a \o m) + 1
    BY <1>2, <1>6, AppendProperties
  <2> HIDE DEF loaded
  <2>2. Len(loaded) = Len(a \o m) + 1
    BY <1>5, <2>1 DEF loaded
  <2> QED
    BY <1>1, <1>6, <2>2
<1>8. ordered = a \o <<"nil">> \o m
  <2>1. lua_insert(Append(a \o m, "nil"), Len(a) + 1) = a \o <<"nil">> \o m
    BY <1>1, <1>2, <1>3, Inserted
  <2> QED
    BY <1>5, <1>7, <2>1
<1> DEFINE b == <<"nil">> \o m
<1>9. b \in Seq(Slots) /\ Len(b) = 2
  BY <1>3, ConcatProperties
<1>10. ordered = a \o b
  BY <1>1, <1>3, <1>8, ConcatAssociative
<1> HIDE DEF ordered, b
<1>11. SubSeq(ordered, Len(ordered) - 1, Len(ordered)) = b
  <2>1. Len(ordered) = Len(a) + 2
    <3>1. Len(a \o b) = Len(a) + Len(b)
      BY <1>1, <1>9, ConcatProperties
    <3> QED
      BY <1>9, <1>10, <3>1
  <2>2. SubSeq(a \o b, Len(a) + 1, Len(a) + Len(b)) = b
    BY <1>1, <1>9, Parts
  <2>3. Len(ordered) - 1 = Len(a) + 1 /\ Len(ordered) = Len(a) + Len(b)
    BY <1>1, <1>9, <2>1
  <2> QED
    BY <1>10, <2>2, <2>3
<1>12. load(n, outcome) = IF outcome.status = "ok" THEN <<"function">>
                          ELSE SubSeq(ordered, Len(ordered) - 1, Len(ordered))
  BY DEF load, ordered, a
<1> QED
  BY <1>4, <1>11, <1>12 DEF b

LEMMA LoadNativeGives ==
  ASSUME NEW n \in Nat, NEW outcome \in Outcomes
  PROVE  load_native(n, outcome) = IF outcome.status = "ok"
                                   THEN <<"true">> \o Copies("result", outcome.results)
                                   ELSE <<"error">>
<1> DEFINE a == Arguments(n)
           c == Copies("result", outcome.results)
           pushed == Append(a \o c, "true")
           ordered == lua_insert(pushed, Len(pushed) - outcome.results)
<1>1. a \in Seq(Slots) /\ Len(a) \in Nat
  <2>1. Arguments(n) \in Seq(Slots)
    BY ArgumentsAre
  <2> QED
    BY <2>1
<1>2. "true" \in Slots /\ "result" \in Slots
  BY DEF Slots
<1>3. outcome.results \in Nat
  BY LeftIs
<1>4. c \in Seq(Slots) /\ Len(c) = outcome.results
  BY <1>2, <1>3, CopiesAre
<1>5. <<"true">> \in Seq(Slots) /\ Len(<<"true">>) = 1
  BY <1>2
<1> HIDE DEF a, c
<1>6. a \o c \in Seq(Slots) /\ Len(a \o c) = Len(a) + Len(c)
  BY <1>1, <1>4, ConcatProperties
<1>7. Len(pushed) - outcome.results = Len(a) + 1
  <2>1. Len(pushed) = Len(a \o c) + 1
    BY <1>2, <1>6, AppendProperties
  <2> HIDE DEF pushed
  <2> QED
    BY <1>1, <1>3, <1>4, <1>6, <2>1
<1>8. ordered = a \o <<"true">> \o c
  <2>1. lua_insert(Append(a \o c, "true"), Len(a) + 1) = a \o <<"true">> \o c
    BY <1>1, <1>2, <1>4, Inserted
  <2> QED
    BY <1>7, <2>1
<1> DEFINE b == <<"true">> \o c
<1>9. b \in Seq(Slots) /\ Len(b) = 1 + outcome.results
  BY <1>4, <1>5, ConcatProperties
<1>10. ordered = a \o b
  <2>1. (a \o <<"true">>) \o c = a \o (<<"true">> \o c)
    BY <1>1, <1>4, <1>5, ConcatAssociative
  <2> QED
    BY <1>8, <2>1
<1> HIDE DEF ordered, b
<1>11. SubSeq(ordered, Len(ordered) - outcome.results, Len(ordered)) = b
  <2>1. Len(ordered) = Len(a) + Len(b)
    BY <1>1, <1>9, <1>10, ConcatProperties
  <2>2. SubSeq(a \o b, Len(a) + 1, Len(a) + Len(b)) = b
    BY <1>1, <1>9, Parts
  <2>3. Len(ordered) - outcome.results = Len(a) + 1
    BY <1>1, <1>3, <1>9, <2>1
  <2> QED
    BY <1>10, <2>1, <2>2, <2>3
<1>12. load_native(n, outcome)
         = IF outcome.status = "ok"
           THEN SubSeq(ordered, Len(ordered) - outcome.results, Len(ordered))
           ELSE <<"error">>
  BY DEF load_native, ordered, pushed, a, c
<1> QED
  BY <1>11, <1>12 DEF b, c

(* Whatever a function was given and however its callee ends. *)
LEMMA ResultsStep ==
  ASSUME LuaCallsFunction
  PROVE  LuaGetsResults' /\ returned'.func \in FunctionNames
<1>1. PICK n \in 0..MaxValues, outcome \in Outcomes :
        \/ Returns("pcall", outcome, pcall(n, outcome))
        \/ Returns("blt.pcall", outcome, pcall_proper(n, outcome))
        \/ Returns("blt.xpcall", outcome, xpcall(n, outcome))
        \/ Returns("dofile", outcome, dofile(n, outcome))
        \/ Returns("blt.vm.dofile", outcome, vm_dofile(n, outcome))
        \/ Returns("blt.vm.load", outcome, load(n, outcome))
        \/ Returns("blt.load_native", outcome, load_native(n, outcome))
  BY DEF LuaCallsFunction
<1>2. n \in Nat
  BY <1>1, CallsAssumption
<1> DEFINE status == IF outcome.status = "ok" THEN <<"true">> ELSE <<"false">>
           values == IF outcome.status = "ok" THEN Copies("result", outcome.results)
                                              ELSE <<"message">>
<1>3. <<Status(outcome)>> = status
  BY DEF Status
<1>4. Values(outcome) = values
  BY DEF Values, Left, Adjusted
<1> HIDE DEF status, values
<1>5. outcome.status = "ok" =>
        status = <<"true">> /\ values = Copies("result", outcome.results)
  BY DEF status, values
<1>6. CASE Returns("pcall", outcome, pcall(n, outcome))
  <2>1. pcall(n, outcome) = IF outcome.status = "run" THEN <<>> ELSE status \o values
    BY <1>2, <1>3, <1>4, PcallGives
  <2> QED
    BY <1>6, <2>1 DEF Returns, LuaGetsResults, FunctionNames, status, values
<1>7. CASE Returns("blt.pcall", outcome, pcall_proper(n, outcome))
  <2>1. pcall_proper(n, outcome) = status \o values
    BY <1>2, <1>3, <1>4, ProperPcallGives
  <2> QED
    BY <1>7, <2>1 DEF Returns, LuaGetsResults, FunctionNames, status, values
<1>8. CASE Returns("blt.xpcall", outcome, xpcall(n, outcome))
  <2>1. xpcall(n, outcome) = status \o values
    BY <1>2, <1>3, <1>4, XpcallGives
  <2> QED
    BY <1>8, <2>1 DEF Returns, LuaGetsResults, FunctionNames, status, values
<1>9. CASE Returns("dofile", outcome, dofile(n, outcome))
  BY <1>9 DEF Returns, LuaGetsResults, FunctionNames, dofile
<1>10. CASE Returns("blt.vm.dofile", outcome, vm_dofile(n, outcome))
  <2>1. vm_dofile(n, outcome) = IF outcome.status = "ok" THEN values ELSE <<"error">>
    BY <1>2, <1>4, DofileGives
  <2> QED
    BY <1>10, <2>1 DEF Returns, LuaGetsResults, FunctionNames, values
<1>11. CASE Returns("blt.vm.load", outcome, load(n, outcome))
  BY <1>2, <1>11, LoadGives DEF Returns, LuaGetsResults, FunctionNames
<1>12. CASE Returns("blt.load_native", outcome, load_native(n, outcome))
  <2>1. load_native(n, outcome) = IF outcome.status = "ok" THEN status \o values
                                  ELSE <<"error">>
    BY <1>2, <1>5, LoadNativeGives
  <2> QED
    BY <1>12, <2>1 DEF Returns, LuaGetsResults, FunctionNames, status, values
<1> QED
  BY <1>1, <1>6, <1>7, <1>8, <1>9, <1>10, <1>11, <1>12

-----------------------------------------------------------------------------
(* References. *)

(* A registry whose free slots are some of its slots, each once. *)
Sound(reg) ==
  /\ reg \in [size : Nat, free : Seq(Nat)]
  /\ \A i \in DOMAIN reg.free : reg.free[i] \in 1..reg.size
  /\ IsInjective(reg.free)

FreeIn(reg, ref) == \E i \in DOMAIN reg.free : reg.free[i] = ref

(* luaL_ref gives a slot that was free or is new. *)
LEMMA RefIs ==
  ASSUME NEW reg, Sound(reg)
  PROVE  LET ref == luaL_ref(reg)
         IN /\ Sound(Taken(reg)) /\ Taken(reg).size >= reg.size
            /\ ref \in 1..Taken(reg).size /\ ~FreeIn(Taken(reg), ref)
            /\ \A x : FreeIn(Taken(reg), x) => FreeIn(reg, x)
            /\ FreeIn(reg, ref) \/ ref > reg.size
<1>1. /\ reg = [size |-> reg.size, free |-> reg.free] /\ reg.size \in Nat
      /\ reg.free \in Seq(Nat)
  BY DEF Sound
<1>2. CASE reg.free = <<>>
  <2>1. /\ Taken(reg) = [size |-> reg.size + 1, free |-> reg.free]
        /\ luaL_ref(reg) = reg.size + 1
    BY <1>1, <1>2 DEF Taken, luaL_ref
  <2>2. /\ Taken(reg) \in [size : Nat, free : Seq(Nat)]
        /\ Taken(reg).size = reg.size + 1 /\ Taken(reg).free = reg.free
    BY <1>1, <2>1
  <2>3. DOMAIN reg.free = {}
    BY <1>2
  <2> QED
    BY <1>1, <2>1, <2>2, <2>3 DEF Sound, FreeIn, IsInjective
<1>3. CASE reg.free # <<>>
  <2> DEFINE q == reg.free
             t == Tail(reg.free)
  <2>1. q \in Seq(Nat) /\ q # <<>>
    BY <1>1, <1>3
  <2> HIDE DEF q
  <2>2. /\ Len(q) \in Nat /\ 1 \in DOMAIN q /\ Head(q) = q[1] /\ DOMAIN q = 1..Len(q)
        /\ Tail(q) \in Seq(Nat) /\ DOMAIN Tail(q) = 1..(Len(q) - 1)
        /\ \A i \in 1..(Len(q) - 1) : Tail(q)[i] = q[i + 1]
    BY <2>1
  <2>3. t = Tail(q) /\ reg.free = q
    BY DEF q
  <2> HIDE DEF t
  <2>4. /\ Taken(reg) = [size |-> reg.size, free |-> t] /\ luaL_ref(reg) = Head(q)
    BY <1>1, <1>3, <2>3 DEF Taken, luaL_ref, t
  <2>5. /\ Taken(reg) \in [size : Nat, free : Seq(Nat)]
        /\ Taken(reg).size = reg.size /\ Taken(reg).free = t
    BY <1>1, <2>2, <2>3, <2>4
  <2>6. \A i, j \in DOMAIN q : q[i] = q[j] => i = j
    BY <2>3 DEF Sound, IsInjective
  <2>7. \A i \in DOMAIN t : i + 1 \in DOMAIN q /\ t[i] = q[i + 1] /\ i \in Int /\ i >= 1
    BY <2>2, <2>3
  <2>8. \A i, j \in DOMAIN t : t[i] = t[j] => i = j
    <3> SUFFICES ASSUME NEW i \in DOMAIN t, NEW j \in DOMAIN t, t[i] = t[j]
                 PROVE  i = j
      OBVIOUS
    <3>1. i + 1 = j + 1
      BY <2>6, <2>7
    <3> QED
      BY <2>7, <3>1
  <2>9. ~FreeIn(Taken(reg), luaL_ref(reg))
    <3> SUFFICES ASSUME NEW i \in DOMAIN t, t[i] = q[1]
                 PROVE  FALSE
      BY <2>2, <2>4, <2>5 DEF FreeIn
    <3>1. i + 1 = 1
      BY <2>2, <2>6, <2>7
    <3> QED
      BY <2>7, <3>1
  <2>10. \A i \in DOMAIN q : q[i] \in 1..reg.size
    BY <2>3 DEF Sound
  <2>11. Sound(Taken(reg))
    BY <2>5, <2>7, <2>8, <2>10 DEF Sound, IsInjective
  <2>12. \A x : FreeIn(Taken(reg), x) => FreeIn(reg, x)
    BY <2>3, <2>5, <2>7 DEF FreeIn
  <2>13. FreeIn(reg, luaL_ref(reg)) /\ luaL_ref(reg) \in 1..reg.size
    BY <2>2, <2>3, <2>4, <2>10 DEF FreeIn
  <2> QED
    BY <1>1, <2>5, <2>9, <2>11, <2>12, <2>13
<1> QED
  BY <1>2, <1>3

(* luaL_unref makes the slot free, or forgets the free slots. *)
LEMMA UnrefIs ==
  ASSUME NEW reg, Sound(reg), NEW ref \in 0..reg.size, ~FreeIn(reg, ref)
  PROVE  /\ Sound(luaL_unref(reg, ref)) /\ luaL_unref(reg, ref).size = reg.size
         /\ \A x : FreeIn(luaL_unref(reg, ref), x) => FreeIn(reg, x) \/ (x = ref /\ x # 0)
<1>1. /\ reg = [size |-> reg.size, free |-> reg.free] /\ reg.size \in Nat
      /\ reg.free \in Seq(Nat) /\ ref \in Nat
  BY DEF Sound
<1>2. CASE ref = 0
  <2>1. luaL_unref(reg, ref) = [size |-> reg.size, free |-> <<>>]
    BY <1>1, <1>2 DEF luaL_unref
  <2>2. <<>> \in Seq(Nat) /\ DOMAIN <<>> = {}
    OBVIOUS
  <2>3. /\ luaL_unref(reg, ref) \in [size : Nat, free : Seq(Nat)]
        /\ luaL_unref(reg, ref).free = <<>> /\ luaL_unref(reg, ref).size = reg.size
    BY <1>1, <2>1, <2>2
  <2> QED
    BY <2>2, <2>3 DEF Sound, FreeIn, IsInjective
<1>3. CASE ref # 0
  <2> DEFINE q == reg.free
             t == <<ref>> \o q
  <2>1. /\ q \in Seq(Nat) /\ <<ref>> \in Seq(Nat) /\ Len(<<ref>>) = 1 /\ <<ref>>[1] = ref
        /\ Len(q) \in Nat /\ DOMAIN q = 1..Len(q)
    BY <1>1
  <2> HIDE DEF q
  <2>2. /\ t \in Seq(Nat) /\ Len(t) = 1 + Len(q)
        /\ \A i \in 1..(1 + Len(q)) : t[i] = IF i <= 1 THEN <<ref>>[i] ELSE q[i - 1]
    BY <2>1, ConcatProperties
  <2> HIDE DEF t
  <2>3. /\ DOMAIN t = 1..(1 + Len(q)) /\ t[1] = ref
        /\ \A i \in DOMAIN t : i # 1 => i - 1 \in DOMAIN q /\ t[i] = q[i - 1]
    BY <2>1, <2>2
  <2>4. luaL_unref(reg, ref) = [size |-> reg.size, free |-> t]
    <3>1. luaL_unref(reg, ref) = [reg EXCEPT !.free = t]
      BY <1>3 DEF luaL_unref, t, q
    <3> QED
      BY <1>1, <3>1
  <2>5. /\ luaL_unref(reg, ref) \in [size : Nat, free : Seq(Nat)]
        /\ luaL_unref(reg, ref).size = reg.size /\ luaL_unref(reg, ref).free = t
    BY <1>1, <2>2, <2>4
  <2>6. \A i, j \in DOMAIN q : q[i] = q[j] => i = j
    BY DEF Sound, IsInjective, q
  <2>7. \A i \in DOMAIN q : q[i] \in 1..reg.size /\ q[i] # ref
    BY DEF Sound, FreeIn, q
  <2>8. ref \in 1..reg.size
    BY <1>1, <1>3
  <2>9. \A i \in DOMAIN t : t[i] \in 1..reg.size
    BY <2>3, <2>7, <2>8
  <2>10. \A i, j \in DOMAIN t : t[i] = t[j] => i = j
    <3> SUFFICES ASSUME NEW i \in DOMAIN t, NEW j \in DOMAIN t, t[i] = t[j]
                 PROVE  i = j
      OBVIOUS
    <3>1. i \in Int /\ j \in Int
      BY <2>1, <2>3
    <3>2. CASE i = 1 \/ j = 1
      BY <2>3, <2>7, <3>2
    <3>3. CASE i # 1 /\ j # 1
      <4>1. i - 1 = j - 1
        BY <2>3, <2>6, <3>3
      <4> QED
        BY <3>1, <4>1
    <3> QED
      BY <3>2, <3>3
  <2>11. Sound(luaL_unref(reg, ref))
    BY <2>5, <2>9, <2>10 DEF Sound, IsInjective
  <2>12. \A i \in DOMAIN t : t[i] = ref \/ FreeIn(reg, t[i])
    BY <2>3 DEF FreeIn, q
  <2>13. \A x : FreeIn(luaL_unref(reg, ref), x) => FreeIn(reg, x) \/ (x = ref /\ x # 0)
    BY <1>3, <2>5, <2>12 DEF FreeIn
  <2> QED
    BY <2>5, <2>11, <2>13
<1> QED
  BY <1>2, <1>3

Asks == [kind : {"http", "hash"}, func : Nat, progress : Nat]

(* The two references of every callback that waits are its own. *)
RefsInv ==
  /\ Sound(registry)
  /\ asked \subseteq Asks
  /\ \A a \in asked :
        /\ a.func \in 1..registry.size /\ ~FreeIn(registry, a.func)
        /\ a.progress \in 0..registry.size
        /\ a.progress # 0 => ~FreeIn(registry, a.progress) /\ a.progress # a.func
  /\ \A a, b \in asked : a # b =>
        /\ a.func # b.func /\ a.func # b.progress
        /\ a.progress # 0 => a.progress # b.progress

LEMMA RefsOwned ==
  ASSUME RefsInv
  PROVE  RefsOwnedOnce
<1>1. IsInjective(registry.free)
  BY DEF RefsInv, Sound
<1>2. ASSUME NEW r \in References
      PROVE  \E a \in asked : /\ r = <<a, r[2], r[3]>>
                              /\ \/ r[2] = "func" /\ r[3] = a.func
                                 \/ r[2] = "progress" /\ r[3] = a.progress /\ a.progress # 0
  BY <1>2 DEF References
<1>3. ASSUME NEW r \in References
      PROVE  r[3] \notin Range(registry.free)
  BY <1>2 DEF RefsInv, FreeIn, Range
<1>4. ASSUME NEW r \in References, NEW s \in References, r[3] = s[3]
      PROVE  r = s
  <2>1. PICK a \in asked : /\ r = <<a, r[2], r[3]>>
                           /\ \/ r[2] = "func" /\ r[3] = a.func
                              \/ r[2] = "progress" /\ r[3] = a.progress /\ a.progress # 0
    BY <1>2
  <2>2. PICK b \in asked : /\ s = <<b, s[2], s[3]>>
                           /\ \/ s[2] = "func" /\ s[3] = b.func
                              \/ s[2] = "progress" /\ s[3] = b.progress /\ b.progress # 0
    BY <1>2
  <2>3. a = b
    BY <1>4, <2>1, <2>2 DEF RefsInv
  <2>4. r[2] = s[2]
    BY <1>4, <2>1, <2>2, <2>3 DEF RefsInv
  <2> QED
    BY <1>4, <2>1, <2>2, <2>3, <2>4
<1> QED
  BY <1>1, <1>3, <1>4 DEF RefsOwnedOnce

LEMMA AskStep ==
  ASSUME RefsInv, NEW kind \in {"http", "hash"}, NEW withProgress \in BOOLEAN,
         Ask(kind, withProgress)
  PROVE  RefsInv'
<1> DEFINE first == IF withProgress THEN Taken(registry) ELSE registry
           func == luaL_ref(first)
           progress == IF withProgress THEN luaL_ref(registry) ELSE 0
           new == [kind |-> kind, func |-> func, progress |-> progress]
<1>1. registry' = Taken(first) /\ asked' = asked \cup {new}
  BY DEF Ask
<1>2. Sound(registry) /\ registry.size \in Nat
  BY DEF RefsInv, Sound
<1>3. /\ Sound(first) /\ first.size \in Nat /\ first.size >= registry.size
      /\ progress \in 0..first.size /\ ~FreeIn(first, progress)
      /\ \A x : FreeIn(first, x) => FreeIn(registry, x)
      /\ progress # 0 => FreeIn(registry, progress) \/ progress > registry.size
  <2>1. CASE withProgress
    <3>1. first = Taken(registry) /\ progress = luaL_ref(registry)
      BY <2>1
    <3> HIDE DEF first, progress
    <3>2. Sound(first) /\ progress \in 1..first.size
      BY <1>2, <3>1, RefIs
    <3>3. first.size \in Nat
      BY <3>2 DEF Sound
    <3>4. /\ first.size >= registry.size /\ ~FreeIn(first, progress)
          /\ FreeIn(registry, progress) \/ progress > registry.size
          /\ \A x : FreeIn(first, x) => FreeIn(registry, x)
      BY <1>2, <3>1, RefIs
    <3> QED
      BY <3>2, <3>3, <3>4
  <2>2. CASE ~withProgress
    <3>1. first = registry /\ progress = 0
      BY <2>2
    <3>2. ~FreeIn(registry, 0)
      BY <1>2 DEF Sound, FreeIn
    <3> HIDE DEF first, progress
    <3> QED
      BY <1>2, <3>1, <3>2
  <2> QED
    BY <2>1, <2>2
<1> HIDE DEF first, progress
<1>4. /\ Sound(registry') /\ registry'.size >= first.size
      /\ func \in 1..registry'.size /\ ~FreeIn(registry', func)
      /\ \A x : FreeIn(registry', x) => FreeIn(first, x)
      /\ FreeIn(first, func) \/ func > first.size
  BY <1>1, <1>3, RefIs
<1> HIDE DEF func
<1>5. registry'.size \in Nat
  BY <1>4 DEF Sound
<1>6. new \in Asks /\ new.func = func /\ new.progress = progress
  BY <1>3, <1>4, <1>5 DEF Asks
<1> HIDE DEF new
<1>7. \A x : FreeIn(registry', x) => FreeIn(registry, x)
  BY <1>3, <1>4
<1>8. func # progress
  BY <1>3, <1>4, <1>5
<1>9. /\ func \in 1..registry'.size /\ progress \in 0..registry'.size
      /\ ~FreeIn(registry', func) /\ ~FreeIn(registry', progress)
  BY <1>3, <1>4, <1>5
<1>10. ASSUME NEW a \in asked
       PROVE  /\ a.func \in 1..registry'.size /\ ~FreeIn(registry', a.func)
              /\ a.progress \in 0..registry'.size
              /\ a.progress # 0 => ~FreeIn(registry', a.progress) /\ a.progress # a.func
              /\ a.func # func /\ a.func # progress
              /\ progress # 0 => progress # a.progress
              /\ func # a.progress
  <2>1. /\ a.func \in 1..registry.size /\ ~FreeIn(registry, a.func)
        /\ a.progress \in 0..registry.size
        /\ a.progress # 0 => ~FreeIn(registry, a.progress) /\ a.progress # a.func
    BY DEF RefsInv
  <2>2. a.func \in 1..registry'.size /\ a.progress \in 0..registry'.size
    BY <1>2, <1>3, <1>4, <1>5, <2>1
  <2>3. a.func # func /\ a.func # progress
    BY <1>2, <1>3, <1>4, <1>5, <2>1
  <2>4. (progress # 0 => progress # a.progress) /\ func # a.progress
    BY <1>2, <1>3, <1>4, <1>5, <2>1
  <2> QED
    BY <1>7, <2>1, <2>2, <2>3, <2>4
<1>11. asked' \subseteq Asks
  BY <1>1, <1>6 DEF RefsInv
<1>12. ASSUME NEW a \in asked', NEW b \in asked', a # b
       PROVE  /\ a.func # b.func /\ a.func # b.progress
              /\ a.progress # 0 => a.progress # b.progress
  <2>1. CASE a \in asked /\ b \in asked
    BY <1>12, <2>1 DEF RefsInv
  <2>2. CASE a = new
    <3>1. b \in asked
      BY <1>1, <1>12, <2>2
    <3> QED
      BY <1>6, <1>10, <2>2, <3>1
  <2>3. CASE b = new
    <3>1. a \in asked
      BY <1>1, <1>12, <2>3
    <3> QED
      BY <1>6, <1>10, <2>3, <3>1
  <2> QED
    BY <1>1, <2>1, <2>2, <2>3
<1>13. ASSUME NEW a \in asked'
       PROVE  /\ a.func \in 1..registry'.size /\ ~FreeIn(registry', a.func)
              /\ a.progress \in 0..registry'.size
              /\ a.progress # 0 => ~FreeIn(registry', a.progress) /\ a.progress # a.func
  <2>1. CASE a = new
    BY <1>6, <1>8, <1>9, <2>1
  <2>2. CASE a # new
    BY <1>1, <1>10, <2>2
  <2> QED
    BY <2>1, <2>2
<1> QED
  BY <1>4, <1>11, <1>12, <1>13 DEF RefsInv

(* A callback that has run gives its references back. *)
LEMMA GivenBackStep ==
  ASSUME RefsInv, NEW a \in asked, asked' = asked \ {a},
         \/ registry' = luaL_unref(luaL_unref(registry, a.func), a.progress)
         \/ registry' = luaL_unref(registry, a.func)
  PROVE  RefsInv'
<1>1. /\ Sound(registry) /\ a.func \in 1..registry.size /\ ~FreeIn(registry, a.func)
      /\ a.progress \in 0..registry.size /\ registry.size \in Nat
      /\ a.progress # 0 => ~FreeIn(registry, a.progress) /\ a.progress # a.func
  BY DEF RefsInv, Sound
<1> DEFINE once == luaL_unref(registry, a.func)
<1>2. a.func \in 0..registry.size
  BY <1>1
<1>3. /\ Sound(once) /\ once.size = registry.size
      /\ \A x : FreeIn(once, x) => FreeIn(registry, x) \/ (x = a.func /\ x # 0)
  BY <1>1, <1>2, UnrefIs
<1> HIDE DEF once
<1>4. /\ Sound(registry') /\ registry'.size = registry.size
      /\ \A x : FreeIn(registry', x) =>
           FreeIn(registry, x) \/ x = a.func \/ (x = a.progress /\ x # 0)
  <2>1. CASE registry' = once
    BY <1>3, <2>1
  <2>2. CASE registry' = luaL_unref(once, a.progress)
    <3>1. ~FreeIn(once, 0)
      BY <1>3 DEF Sound, FreeIn
    <3>2. ~FreeIn(once, a.progress)
      BY <1>1, <1>3, <3>1
    <3>3. a.progress \in 0..once.size
      BY <1>1, <1>3
    <3>4. /\ Sound(registry') /\ registry'.size = once.size
          /\ \A x : FreeIn(registry', x) =>
               FreeIn(once, x) \/ (x = a.progress /\ x # 0)
      BY <1>3, <2>2, <3>2, <3>3, UnrefIs
    <3> QED
      BY <1>3, <3>4
  <2> QED
    BY <2>1, <2>2 DEF once
<1>5. ASSUME NEW b \in asked'
      PROVE  /\ b.func \in 1..registry'.size /\ ~FreeIn(registry', b.func)
             /\ b.progress \in 0..registry'.size
             /\ b.progress # 0 => ~FreeIn(registry', b.progress) /\ b.progress # b.func
  <2>1. b \in asked /\ b # a
    OBVIOUS
  <2>2. /\ b.func \in 1..registry.size /\ ~FreeIn(registry, b.func)
        /\ b.progress \in 0..registry.size
        /\ b.progress # 0 => ~FreeIn(registry, b.progress) /\ b.progress # b.func
    BY <2>1 DEF RefsInv
  <2>3. b.func # a.func /\ b.func # a.progress
    BY <2>1 DEF RefsInv
  <2>4. b.progress # 0 => b.progress # a.progress /\ b.progress # a.func
    BY <2>1 DEF RefsInv
  <2> QED
    BY <1>4, <2>2, <2>3, <2>4
<1>6. asked' \subseteq Asks
  BY DEF RefsInv
<1>7. \A b, c \in asked' : b # c =>
        /\ b.func # c.func /\ b.func # c.progress
        /\ b.progress # 0 => b.progress # c.progress
  BY DEF RefsInv
<1> QED
  BY <1>4, <1>5, <1>6, <1>7 DEF RefsInv

-----------------------------------------------------------------------------
(* Every step. *)

(* The stack holds what a game that was never let down takes to be there. *)
StackInv ==
  /\ luaStack \in Seq({"result", "message", "handler"})
  /\ expected \in Seq({"result"})
  /\ {failed, aborted} \subseteq BOOLEAN
  /\ StackKept

LEMMA OnStack ==
  ASSUME luaStack \in Seq({"result", "message", "handler"})
  PROVE  luaStack \in Seq(Slots)
<1>1. {"result", "message", "handler"} \subseteq Slots
  BY DEF Slots
<1> QED
  BY <1>1, SeqMonotonic

LEMMA Grown ==
  ASSUME NEW S, NEW T, S \subseteq T, NEW a \in Seq(T), NEW b \in Seq(S)
  PROVE  a \o b \in Seq(T)
<1>1. b \in Seq(T)
  BY SeqMonotonic
<1> QED
  BY <1>1, ConcatProperties

(* A call leaves the stack it found, and above it results or a message. *)
LEMMA ForcedCallStep ==
  ASSUME StackInv, ForcedCall
  PROVE  StackInv'
<1>1. PICK n \in 0..MaxValues, r \in 0..MaxValues, outcome \in Outcomes,
           overlay \in Overlays, debug \in BOOLEAN :
        LET pushed == luaStack \o <<"function">> \o Copies("argument", n) IN
        /\ ~aborted
        /\ expected' = expected \o Copies("result", r)
        /\ IF debug
             THEN /\ luaStack' = perform_lua_pcall(pushed, n, r, outcome, overlay)
                  /\ failed' = (failed \/ (outcome.status # "ok" /\
                                            (r > 0 \/ overlay = "other")))
                  /\ UNCHANGED aborted
             ELSE /\ luaStack' = lua_pcall(pushed, n, r, outcome)
                  /\ aborted' = (outcome.status # "ok")
                  /\ UNCHANGED failed
  BY DEF ForcedCall, HostCall
<1>2. n \in Nat /\ r \in Nat /\ luaStack \in Seq(Slots)
  BY CallsAssumption, OnStack DEF StackInv
<1> DEFINE S == {"result", "message"}
           T == {"result", "message", "handler"}
           c == Copies("result", r)
           rest == IF outcome.status = "ok" THEN c
                   ELSE IF overlay = "other" THEN <<"message">> ELSE <<>>
<1>3. /\ c \in Seq({"result"}) /\ Len(c) = r /\ c \in Seq(S)
      /\ <<"message">> \in Seq(S) /\ <<>> \in Seq(S)
  <2>1. "result" \in {"result"} /\ "result" \in S /\ "message" \in S
    OBVIOUS
  <2>2. c \in Seq({"result"}) /\ Len(c) = r
    BY <1>2, <2>1, CopiesAre
  <2>3. c \in Seq(S)
    BY <1>2, <2>1, CopiesAre
  <2> QED
    BY <2>1, <2>2, <2>3
<1>4. rest \in Seq(S)
  BY <1>3
<1>5. expected' \in Seq({"result"})
  BY <1>1, <1>3, ConcatProperties DEF StackInv
<1>6. CASE debug
  <2>1. luaStack' = luaStack \o rest
    BY <1>1, <1>2, <1>6, PerformDoes
  <2> HIDE DEF rest
  <2>2. luaStack' \in Seq(T)
    BY <1>4, <2>1, Grown DEF StackInv
  <2>3. ~failed' => ~failed /\ rest = c
    <3>1. ASSUME ~failed', outcome.status # "ok"
          PROVE  rest = c
      <4>1. ~(r > 0) /\ overlay # "other"
        BY <1>1, <1>6, <3>1
      <4>2. c = <<>>
        BY <1>2, <1>3, <4>1
      <4> QED
        BY <3>1, <4>1, <4>2 DEF rest
    <3>2. ~failed' => ~failed
      BY <1>1, <1>6
    <3> QED
      BY <3>1, <3>2 DEF rest
  <2>4. StackKept'
    BY <1>1, <1>6, <2>1, <2>3 DEF StackKept, StackInv
  <2>5. {failed', aborted'} \subseteq BOOLEAN
    BY <1>1, <1>6 DEF StackInv
  <2> QED
    BY <1>5, <2>2, <2>4, <2>5 DEF StackInv
<1>7. CASE ~debug
  <2>1. luaStack' = luaStack \o Left(outcome, r)
    BY <1>1, <1>2, <1>7, Called
  <2>2. Left(outcome, r) \in Seq(S) /\ (outcome.status = "ok" => Left(outcome, r) = c)
    <3>1. r # MULTRET
      BY <1>2 DEF MULTRET
    <3> QED
      BY <1>2, <3>1, LeftIs DEF Left, Adjusted
  <2>3. luaStack' \in Seq(T)
    BY <2>1, <2>2, Grown DEF StackInv
  <2>4. StackKept'
    BY <1>1, <1>7, <2>1, <2>2 DEF StackKept, StackInv
  <2>5. {failed', aborted'} \subseteq BOOLEAN
    BY <1>1, <1>7 DEF StackInv
  <2> QED
    BY <1>5, <2>3, <2>4, <2>5 DEF StackInv
<1> QED
  BY <1>6, <1>7

LEMMA GameTakesStep ==
  ASSUME StackInv, GameTakes
  PROVE  StackInv'
<1>1. ASSUME NEW S, NEW q \in Seq(S), q # <<>>
      PROVE  Pop(q, 1) \in Seq(S)
  <2>1. Len(q) \in Nat /\ \A i \in 1..(Len(q) - 1) : q[i] \in S
    BY <1>1
  <2> QED
    BY <2>1, SubSeqProperties DEF Pop
<1>2. /\ luaStack # <<>> /\ luaStack' = Pop(luaStack, 1)
      /\ expected # <<>> /\ expected' = Pop(expected, 1)
      /\ failed' = failed /\ aborted' = aborted
  BY DEF GameTakes
<1>3. luaStack' \in Seq({"result", "message", "handler"})
  BY <1>1, <1>2 DEF StackInv
<1>4. expected' \in Seq({"result"})
  BY <1>1, <1>2 DEF StackInv
<1> QED
  BY <1>2, <1>3, <1>4 DEF StackInv, StackKept

(* A callback leaves nothing, or the message that nothing takes away. *)
LEMMA CallbackStep ==
  ASSUME StackInv, ~aborted, NEW n \in Nat, NEW outcome \in Outcomes,
         Callback(n, outcome), UNCHANGED <<expected, aborted>>
  PROVE  StackInv'
<1> DEFINE S == {"result", "message"}
           T == {"result", "message", "handler"}
<1>1. luaStack \in Seq(Slots)
  BY OnStack DEF StackInv
<1>2. luaStack' = luaStack \o Left(outcome, 0)
  BY <1>1, Called DEF Callback
<1>3. Left(outcome, 0) \in Seq(S) /\ (outcome.status = "ok" => Left(outcome, 0) = <<>>)
  <2>1. 0 \in Nat /\ 0 # MULTRET
    BY DEF MULTRET
  <2>2. Copies("result", 0) = <<>>
    BY DEF Copies
  <2> QED
    BY <2>1, <2>2, LeftIs DEF Left, Adjusted
<1>4. luaStack' \in Seq(T)
  BY <1>2, <1>3, Grown DEF StackInv
<1>5. failed' = (failed \/ outcome.status # "ok")
  BY DEF Callback
<1>6. ~failed' => luaStack' = luaStack
  BY <1>1, <1>2, <1>3, <1>5, ConcatEmptySeq
<1> QED
  BY <1>4, <1>5, <1>6 DEF StackInv, StackKept

LEMMA invoke_on_updateStep ==
  ASSUME StackInv, invoke_on_update
  PROVE  StackInv'
<1> DEFINE S == {"result", "message"}
           T == {"result", "message", "handler"}
<1>1. PICK outcome \in Outcomes :
        LET called == lua_pcall(luaStack \o <<"function", "argument">>, 1, 0, outcome)
            after == IF outcome.status = "run" THEN Pop(called, 1) ELSE called
        IN /\ luaStack' = after /\ aborted' = (Len(after) # Len(luaStack))
           /\ UNCHANGED <<expected, failed>> /\ ~aborted
  BY DEF invoke_on_update, HostCall
<1>2. luaStack \in Seq(Slots)
  BY OnStack DEF StackInv
<1>3. "function" \in Slots /\ "argument" \in Slots /\ "message" \in Slots /\ 1 \in Nat
  BY DEF Slots
<1>4. <<"function">> \in Seq(Slots) /\ <<"argument">> \in Seq(Slots)
  BY <1>3
<1>5. luaStack \o <<"function", "argument">>
        = luaStack \o <<"function">> \o Copies("argument", 1)
  <2>1. Copies("argument", 1) = <<"argument">>
    BY DEF Copies
  <2>2. <<"function">> \o <<"argument">> = <<"function", "argument">>
    BY <1>3, PairIs
  <2>3. (luaStack \o <<"function">>) \o <<"argument">>
          = luaStack \o (<<"function">> \o <<"argument">>)
    BY <1>2, <1>4, ConcatAssociative
  <2> QED
    BY <2>1, <2>2, <2>3
<1> DEFINE called == lua_pcall(luaStack \o <<"function", "argument">>, 1, 0, outcome)
<1>6. called = luaStack \o Left(outcome, 0)
  BY <1>2, <1>3, <1>5, Called
<1> HIDE DEF called
<1>7. CASE outcome.status = "ok"
  <2>1. Left(outcome, 0) = <<>>
    BY <1>7 DEF Left, Adjusted, MULTRET, Copies
  <2>2. luaStack' = luaStack
    BY <1>1, <1>2, <1>6, <1>7, <2>1, ConcatEmptySeq DEF called
  <2> QED
    BY <1>1, <2>2 DEF StackInv, StackKept
<1>8. CASE outcome.status # "ok"
  <2>1. called = luaStack \o <<"message">>
    BY <1>6, <1>8 DEF Left
  <2>2. called = Append(luaStack, "message")
    BY <1>2, <1>3, <2>1, AppendIsConcat
  <2>3. CASE outcome.status = "run"
    <3>1. Pop(called, 1) = luaStack
      BY <1>2, <1>3, <2>2, OnePopped
    <3>2. luaStack' = luaStack
      BY <1>1, <2>3, <3>1 DEF called
    <3> QED
      BY <1>1, <3>2 DEF StackInv, StackKept
  <2>4. CASE outcome.status # "run"
    <3>1. luaStack' = called /\ aborted' = (Len(called) # Len(luaStack))
      BY <1>1, <2>4 DEF called
    <3>2. Len(called) = Len(luaStack) + 1 /\ Len(luaStack) \in Nat
      BY <1>2, <1>3, <2>2, AppendProperties
    <3>3. aborted'
      <4>1. Len(called) # Len(luaStack)
        BY <3>2
      <4> QED
        BY <3>1, <4>1, Zenon
    <3>4. luaStack' \in Seq(T)
      <4>1. "message" \in T /\ luaStack \in Seq(T)
        BY DEF StackInv
      <4> QED
        BY <2>2, <3>1, <4>1, AppendProperties
    <3> QED
      BY <1>1, <3>3, <3>4 DEF StackInv, StackKept
  <2> QED
    BY <2>3, <2>4
<1> QED
  BY <1>7, <1>8

CallsInv ==
  /\ StackInv /\ RefsInv /\ LuaGetsResults
  /\ returned.func \in FunctionNames \cup {"none"} /\ hostCalls \in 0..MaxHostCalls

LEMMA CallsStep ==
  ASSUME CallsInv, [CallsNext]_callVars
  PROVE  CallsInv'
<1> USE DEF CallsInv
<1>0. ASSUME HostCall
      PROVE  hostCalls' \in 0..MaxHostCalls /\ ~aborted
  BY <1>0, CallsAssumption DEF HostCall
<1>1. CASE ForcedCall
  <2>1. UNCHANGED <<registry, asked, returned>> /\ HostCall
    BY <1>1 DEF ForcedCall
  <2>2. RefsInv' /\ LuaGetsResults'
    BY <2>1 DEF RefsInv, LuaGetsResults
  <2> QED
    BY <1>0, <1>1, <2>1, <2>2, ForcedCallStep
<1>2. CASE GameTakes
  <2>1. UNCHANGED <<registry, asked, returned, hostCalls>>
    BY <1>2 DEF GameTakes
  <2>2. RefsInv' /\ LuaGetsResults'
    BY <2>1 DEF RefsInv, LuaGetsResults
  <2> QED
    BY <1>2, <2>1, <2>2, GameTakesStep
<1>3. CASE dohttpreq \/ hash
  <2>1. PICK kind \in {"http", "hash"} :
          \E withProgress \in BOOLEAN : Ask(kind, withProgress)
    BY <1>3 DEF dohttpreq, hash
  <2>2. PICK withProgress \in BOOLEAN : Ask(kind, withProgress)
    BY <2>1
  <2>3. UNCHANGED <<luaStack, expected, returned, failed, aborted>> /\ HostCall
    BY <2>2 DEF Ask
  <2>4. StackInv' /\ LuaGetsResults'
    BY <2>3 DEF StackInv, StackKept, LuaGetsResults
  <2>5. RefsInv'
    BY <2>2, AskStep
  <2> QED
    BY <1>0, <2>3, <2>4, <2>5
<1>4. CASE return_lua_http
  <2>1. PICK a \in asked, outcome \in Outcomes :
          /\ HostCall /\ Callback(3, outcome)
          /\ registry' = luaL_unref(luaL_unref(registry, a.func), a.progress)
          /\ asked' = asked \ {a}
          /\ UNCHANGED <<expected, returned, aborted>>
    BY <1>4 DEF return_lua_http
  <2>2. StackInv'
    BY <1>0, <2>1, CallbackStep
  <2>3. RefsInv'
    BY <2>1, GivenBackStep
  <2>4. LuaGetsResults'
    BY <2>1 DEF LuaGetsResults
  <2> QED
    BY <1>0, <2>1, <2>2, <2>3, <2>4
<1>5. CASE call_hash_result
  <2>1. PICK a \in asked, outcome \in Outcomes :
          /\ HostCall /\ Callback(2, outcome)
          /\ registry' = luaL_unref(registry, a.func)
          /\ asked' = asked \ {a}
          /\ UNCHANGED <<expected, returned, aborted>>
    BY <1>5 DEF call_hash_result
  <2>2. StackInv'
    BY <1>0, <2>1, CallbackStep
  <2>3. RefsInv'
    BY <2>1, GivenBackStep
  <2>4. LuaGetsResults'
    BY <2>1 DEF LuaGetsResults
  <2> QED
    BY <1>0, <2>1, <2>2, <2>3, <2>4
<1>6. CASE progress_lua_http
  <2>1. PICK a \in asked, outcome \in Outcomes :
          /\ HostCall /\ Callback(3, outcome)
          /\ UNCHANGED <<expected, registry, asked, returned, aborted>>
    BY <1>6 DEF progress_lua_http
  <2>2. StackInv'
    BY <1>0, <2>1, CallbackStep
  <2>3. RefsInv' /\ LuaGetsResults'
    BY <2>1 DEF RefsInv, LuaGetsResults
  <2> QED
    BY <1>0, <2>1, <2>2, <2>3
<1>7. CASE invoke_on_update
  <2>1. UNCHANGED <<registry, asked, returned>> /\ HostCall
    BY <1>7 DEF invoke_on_update
  <2>2. RefsInv' /\ LuaGetsResults'
    BY <2>1 DEF RefsInv, LuaGetsResults
  <2> QED
    BY <1>0, <1>7, <2>1, <2>2, invoke_on_updateStep
<1>8. CASE LuaCallsFunction
  <2>1. UNCHANGED <<luaStack, expected, registry, asked, failed, aborted>> /\ HostCall
    BY <1>8 DEF LuaCallsFunction
  <2>2. StackInv' /\ RefsInv'
    BY <2>1 DEF StackInv, StackKept, RefsInv
  <2> QED
    BY <1>0, <1>8, <2>1, <2>2, ResultsStep
<1>9. CASE UNCHANGED callVars
  BY <1>9 DEF callVars, StackInv, StackKept, RefsInv, LuaGetsResults
<1> QED
  BY <1>1, <1>2, <1>3, <1>4, <1>5, <1>6, <1>7, <1>8, <1>9 DEF CallsNext

LEMMA CallsInvariant == CallsSpec => []CallsInv
<1>1. ASSUME CallsInit
      PROVE  CallsInv
  <2>1. StackInv
    <3>1. /\ luaStack = <<>> /\ expected = <<>>
          /\ failed = FALSE /\ aborted = FALSE
      BY <1>1 DEF CallsInit
    <3>2. /\ <<>> \in Seq({"result", "message", "handler"})
          /\ <<>> \in Seq({"result"})
      BY EmptySeq
    <3>3. StackKept
      BY <3>1 DEF StackKept
    <3> QED
      BY <3>1, <3>2, <3>3 DEF StackInv
  <2>2. RefsInv
    <3>1. /\ <<>> \in Seq(Nat) /\ DOMAIN <<>> = {}
          /\ registry = [size |-> 0, free |-> <<>>]
      BY <1>1 DEF CallsInit
    <3>2. Sound(registry)
      BY <3>1 DEF Sound, IsInjective
    <3> QED
      BY <1>1, <3>2 DEF CallsInit, RefsInv
  <2>3. returned.func = "none"
    BY <1>1 DEF CallsInit, NoCall
  <2>4. LuaGetsResults
    BY <2>3 DEF LuaGetsResults
  <2>5. hostCalls \in 0..MaxHostCalls
    BY <1>1, CallsAssumption DEF CallsInit
  <2> QED
    BY <2>1, <2>2, <2>3, <2>4, <2>5 DEF CallsInv
<1>2. CallsInv /\ [CallsNext]_callVars => CallsInv'
  BY CallsStep
<1> QED
  BY <1>1, <1>2, PTL DEF CallsSpec

(* The stack, the registry and the callbacks that wait keep their types, and *)
(* every reference that is out is a slot of the registry.                    *)
THEOREM CallsTypeCorrect == CallsSpec => []CallsTypeOK
<1>1. CallsInv => CallsTypeOK
  <2> SUFFICES ASSUME CallsInv
               PROVE  CallsTypeOK
    OBVIOUS
  <2>1. registry.size \in Nat /\ Range(registry.free) \subseteq 1..registry.size
    BY DEF CallsInv, RefsInv, Sound, Range
  <2>2. \A a \in asked : a.func \in 1..registry.size /\ a.progress \in 0..registry.size
    BY DEF CallsInv, RefsInv
  <2> QED
    BY <2>1, <2>2 DEF CallsInv, StackInv, CallsTypeOK
<1> QED
  BY <1>1, CallsInvariant, PTL

(* However many arguments and results calls have and however they end, the   *)
(* game finds its own values on the stack until a call fails in one of the   *)
(* ways that are not made good; no two callbacks share a reference; and Lua  *)
(* gets the status and the results of every function it is given.            *)
THEOREM CallsKeep == CallsSpec => []StackAndRefsKept
<1>1. CallsInv => StackAndRefsKept
  BY RefsOwned DEF CallsInv, StackInv, StackAndRefsKept
<1> QED
  BY <1>1, CallsInvariant, PTL

=============================================================================
