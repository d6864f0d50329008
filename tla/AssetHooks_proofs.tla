------------------------- MODULE AssetHooks_proofs -------------------------
(***************************************************************************)
(* For any threads, assets and bounds: the patch is always put back, an    *)
(* asset has one replacement at a time, a load that nothing overlaps with  *)
(* gets what its target says, and only an overlapping change crashes.      *)
(***************************************************************************)
EXTENDS AssetHooks, SequenceTheorems, TLAPS

-----------------------------------------------------------------------------
(* Sequences of frames. *)

LEMMA Popped ==
  ASSUME NEW s \in Seq(BOOLEAN), s # <<>>
  PROVE  /\ Len(s) \in Nat \ {0}
         /\ Front(s) \in Seq(BOOLEAN)
         /\ Len(Front(s)) = Len(s) - 1
         /\ \A i \in 1..Len(s) - 1 : Front(s)[i] = s[i]
         /\ Last(s) = s[Len(s)] /\ Last(s) \in BOOLEAN
         /\ Len(s) = 1 => Front(s) = <<>>
         /\ Len(s) # 1 => Front(s) # <<>>
<1>1. Len(s) \in Nat \ {0} /\ \A i \in 1..Len(s) : s[i] \in BOOLEAN
  BY LenProperties, EmptySeq
<1>2. Front(s) = SubSeq(s, 1, Len(s) - 1) /\ Last(s) = s[Len(s)]
  BY DEF Front, Last
<1>3. \A i \in 1..Len(s) - 1 : s[i] \in BOOLEAN
  BY <1>1
<1>4. /\ SubSeq(s, 1, Len(s) - 1) \in Seq(BOOLEAN)
      /\ Len(SubSeq(s, 1, Len(s) - 1)) =
           IF 1 <= Len(s) - 1 THEN Len(s) - 1 - 1 + 1 ELSE 0
      /\ \A i \in 1..Len(s) - 1 - 1 + 1 : SubSeq(s, 1, Len(s) - 1)[i] = s[1 + i - 1]
  BY <1>1, <1>3, SubSeqProperties
<1>5. Front(s) \in Seq(BOOLEAN) /\ Len(Front(s)) = Len(s) - 1
  <2>1. Front(s) \in Seq(BOOLEAN)
    BY <1>2, <1>4, Zenon
  <2>2. Len(Front(s)) = IF 1 <= Len(s) - 1 THEN Len(s) - 1 - 1 + 1 ELSE 0
    BY <1>2, <1>4, Zenon
  <2>3. ASSUME NEW n \in Nat \ {0}, NEW k,
               k = IF 1 <= n - 1 THEN n - 1 - 1 + 1 ELSE 0
        PROVE  k = n - 1
    BY <2>3
  <2> QED
    BY <1>1, <2>1, <2>2, <2>3, Zenon
<1>6. \A i \in 1..Len(s) - 1 : Front(s)[i] = s[i]
  BY <1>1, <1>2, <1>4
<1>7. Len(s) = 1 => Front(s) = <<>>
  BY <1>1, <1>5, EmptySeq
<1>8. Len(s) # 1 => Front(s) # <<>>
  BY <1>1, <1>5, EmptySeq
<1> QED
  BY <1>1, <1>2, <1>5, <1>6, <1>7, <1>8

-----------------------------------------------------------------------------
(* Type correctness.  A look-up in fallback mode is inside a scope, and a   *)
(* setter has a hook to set.                                                *)

Shape ==
  \A t \in Threads :
    pc[t] \in {"lookup", "test", "use", "wren"} /\ load[t].fallback_mode =>
      frames[t] # <<>>

HookedWrite ==
  \A t \in Threads : writing[t] # NoWrite /\ writing[t].what # "entry" =>
    target[writing[t].asset].hooked

Typed == TypeOK /\ Shape /\ HookedWrite

(* Only the load and the place of t change. *)
LEMMA TypeMove ==
  ASSUME Typed, NEW t \in Threads, NEW place \in LoadPlace \cup {"idle", "script"},
         Goto(t, place),
         load' \in [Threads -> {NoLoad} \cup Load],
         \A u \in Threads : u # t => load'[u] = load[u],
         place \in LoadPlace => load'[t] \in Load,
         place \in {"idle", "script", "done"} => frames[t] = <<>>,
         place \in {"call", "scope", "returned"} => frames[t] # <<>>,
         writing[t] # NoWrite => place \in {"script", "wren"},
         place \in {"lookup", "test", "use", "wren"} /\ load'[t].fallback_mode =>
           frames[t] # <<>>,
         vmLock' \in Threads \cup {Free}, scripts' \in 0..MaxScripts,
         status' \in {"running", "exited", "crashed"},
         loads' \in [Threads -> 0..MaxLoads],
         UNCHANGED <<packaged, target, writing, writes, installed, frames>>
  PROVE  Typed'
<1>1. pc' \in [Threads -> {"idle", "script"} \cup LoadPlace]
  BY DEF Typed, TypeOK, Goto
<1>2. pc'[t] = place /\ \A u \in Threads : u # t => pc'[u] = pc[u]
  BY DEF Typed, TypeOK, Goto
<1>3. ASSUME NEW u \in Threads
      PROVE  /\ pc'[u] \in LoadPlace => load'[u] \in Load
             /\ pc'[u] \in {"idle", "script", "done"} => frames[u] = <<>>
             /\ pc'[u] \in {"call", "scope", "returned"} => frames[u] # <<>>
             /\ writing[u] # NoWrite => pc'[u] \in {"script", "wren"}
             /\ pc'[u] \in {"lookup", "test", "use", "wren"}
                  /\ load'[u].fallback_mode => frames[u] # <<>>
  <2>1. CASE u = t
    BY <2>1, <1>2
  <2>2. CASE u # t
    BY <2>2, <1>2 DEF Typed, TypeOK, Shape
  <2> QED
    BY <2>1, <2>2
<1> QED
  BY <1>1, <1>3 DEF Typed, TypeOK, Shape, HookedWrite

(* The process stops. *)
LEMMA TypeStop ==
  ASSUME Typed, NEW how \in {"exited", "crashed"}, StopProcess(how),
         UNCHANGED <<hookVars, installed, frames, loads>>
  PROVE  Typed'
BY DEF Typed, TypeOK, Shape, HookedWrite, StopProcess, hookVars, wrenVars

(* A load and its fields. *)
LEMMA Loaded ==
  ASSUME TypeOK, NEW t \in Threads, pc[t] \in LoadPlace
  PROVE  /\ load[t] \in Load
         /\ load[t].asset \in Assets /\ load[t].fallback_mode \in BOOLEAN
         /\ load[t].source \in 1..3 /\ Source[load[t].source] \in Sources
         /\ load[t].got \in Sources \cup {"game", "nothing"}
         /\ load[t].seen \in BOOLEAN /\ load[t].stable \in BOOLEAN
         /\ target[load[t].asset] \in {Unhooked} \cup Targets
<1>1. load[t] \in Load
  BY DEF TypeOK
<1>2. /\ load[t].asset \in Assets /\ load[t].fallback_mode \in BOOLEAN
      /\ load[t].source \in 1..3
      /\ load[t].got \in Sources \cup {"game", "nothing"}
      /\ load[t].seen \in BOOLEAN /\ load[t].stable \in BOOLEAN
  BY <1>1 DEF Load
<1>3. Source[load[t].source] \in Sources
  BY <1>2 DEF Source, Sources
<1> QED
  BY <1>1, <1>2, <1>3 DEF TypeOK

(* One field of the load of t is set; the other loads stay. *)
LEMMA Tried ==
  ASSUME TypeOK, NEW t \in Threads, pc[t] \in LoadPlace,
         NEW value \in 1..3, Try(t, value)
  PROVE  /\ load' \in [Threads -> {NoLoad} \cup Load]
         /\ load'[t] \in Load
         /\ load'[t] = [load[t] EXCEPT !.source = value]
         /\ \A u \in Threads : u # t => load'[u] = load[u]
BY DEF TypeOK, Try, Load

LEMMA Gotten ==
  ASSUME TypeOK, NEW t \in Threads, pc[t] \in LoadPlace,
         NEW value \in Sources \cup {"game", "nothing"}, Get(t, value)
  PROVE  /\ load' \in [Threads -> {NoLoad} \cup Load]
         /\ load'[t] \in Load
         /\ load'[t] = [load[t] EXCEPT !.got = value]
         /\ \A u \in Threads : u # t => load'[u] = load[u]
BY DEF TypeOK, Get, Load

LEMMA Moded ==
  ASSUME TypeOK, NEW t \in Threads, pc[t] \in LoadPlace,
         NEW value \in BOOLEAN, Mode(t, value)
  PROVE  /\ load' \in [Threads -> {NoLoad} \cup Load]
         /\ load'[t] \in Load
         /\ load'[t] = [load[t] EXCEPT !.fallback_mode = value]
         /\ \A u \in Threads : u # t => load'[u] = load[u]
BY DEF TypeOK, Mode, Load

(* The loads of an asset in A are marked; nothing else of them changes. *)
LEMMA Disturbed ==
  ASSUME TypeOK, NEW A \in SUBSET Assets, Disturb(A)
  PROVE  /\ load' \in [Threads -> {NoLoad} \cup Load]
         /\ \A u \in Threads : load[u] \in Load =>
              /\ load'[u] \in Load
              /\ load'[u].asset = load[u].asset
              /\ load'[u].fallback_mode = load[u].fallback_mode
              /\ load'[u].source = load[u].source
              /\ load'[u].got = load[u].got
              /\ load'[u].seen = load[u].seen
              /\ load'[u].stable => load[u].stable /\ load[u].asset \notin A
<1>1. DOMAIN load' = Threads /\ load' = [u \in Threads |-> load'[u]]
  BY DEF Disturb
<1>2. ASSUME NEW u \in Threads, load[u] \in Load
      PROVE  /\ load'[u] \in Load
             /\ load'[u].asset = load[u].asset
             /\ load'[u].fallback_mode = load[u].fallback_mode
             /\ load'[u].source = load[u].source
             /\ load'[u].got = load[u].got
             /\ load'[u].seen = load[u].seen
             /\ load'[u].stable => load[u].stable /\ load[u].asset \notin A
  <2>1. CASE load[u].asset \in A
    <3>1. load'[u] = [load[u] EXCEPT !.stable = FALSE]
      BY <2>1 DEF Disturb
    <3> QED
      BY <3>1, <1>2 DEF Load
  <2>2. CASE load[u].asset \notin A
    <3>1. load'[u] = load[u]
      BY <2>2 DEF Disturb
    <3> QED
      BY <3>1, <2>2, <1>2
  <2> QED
    BY <2>1, <2>2
<1>3. ASSUME NEW u \in Threads, load[u] = NoLoad
      PROVE  load'[u] = NoLoad
  <2>1. load[u].asset \notin A
    BY <1>3, AssetAssumption DEF NoLoad
  <2> QED
    BY <2>1, <1>3 DEF Disturb
<1>4. \A u \in Threads : load[u] \in {NoLoad} \cup Load
  BY DEF TypeOK
<1>5. \A u \in Threads : load'[u] \in {NoLoad} \cup Load
  BY <1>2, <1>3, <1>4
<1> QED
  BY <1>1, <1>2, <1>5

(* A change by Wren code keeps the types. *)
LEMMA TypeWrite ==
  ASSUME Typed, NEW t \in Threads, CanWrite(t), NEW A \in SUBSET Assets,
         Disturb(A) \/ UNCHANGED load,
         target' \in [Assets -> {Unhooked} \cup Targets],
         writing' \in [Threads -> {NoWrite} \cup Write],
         \A u \in Threads : u # t => writing'[u] = writing[u],
         status' \in {"running", "exited", "crashed"},
         \A a \in Assets : target[a].hooked => target'[a].hooked,
         writing'[t] # NoWrite /\ writing'[t].what # "entry" =>
           target'[writing'[t].asset].hooked,
         UNCHANGED packaged
  PROVE  Typed'
<1>1. /\ load' \in [Threads -> {NoLoad} \cup Load]
      /\ \A u \in Threads : load[u] \in Load =>
           load'[u] \in Load /\ load'[u].fallback_mode = load[u].fallback_mode
  <2>1. CASE UNCHANGED load
    BY <2>1 DEF Typed, TypeOK
  <2>2. CASE Disturb(A)
    BY <2>2, Disturbed DEF Typed
  <2> QED
    BY <2>1, <2>2
<1>2. /\ pc[t] \in {"script", "wren"}
      /\ writes' = writes + 1 /\ writes < MaxWrites
      /\ UNCHANGED <<vmLock, scripts, installed, pc, frames, loads>>
  BY DEF CanWrite
<1>3. writes' \in 0..MaxWrites
  BY <1>2, AssetAssumption DEF Typed, TypeOK
<1>4. Shape'
  <2> SUFFICES ASSUME NEW u \in Threads,
                      pc[u] \in {"lookup", "test", "use", "wren"},
                      load'[u].fallback_mode
               PROVE  frames[u] # <<>>
    BY <1>2 DEF Shape
  <2>1. load[u] \in Load
    BY DEF Typed, TypeOK, LoadPlace
  <2> QED
    BY <2>1, <1>1 DEF Typed, Shape
<1>5. \A u \in Threads : writing'[u] # NoWrite => pc[u] \in {"script", "wren"}
  BY <1>2 DEF Typed, TypeOK
<1>6. HookedWrite'
  <2> SUFFICES ASSUME NEW u \in Threads,
                      writing'[u] # NoWrite, writing'[u].what # "entry"
               PROVE  target'[writing'[u].asset].hooked
    BY DEF HookedWrite
  <2>1. CASE u = t
    BY <2>1
  <2>2. CASE u # t
    <3>1. writing[u] \in Write /\ writing'[u] = writing[u]
      BY <2>2 DEF Typed, TypeOK
    <3>2. writing[u].asset \in Assets /\ target[writing[u].asset].hooked
      BY <3>1 DEF Typed, HookedWrite, Write
    <3> QED
      BY <3>1, <3>2
  <2> QED
    BY <2>1, <2>2
<1> QED
  BY <1>1, <1>2, <1>3, <1>4, <1>5, <1>6 DEF Typed, TypeOK

LEMMA TypeInit == Init => Typed
<1> SUFFICES ASSUME Init PROVE Typed
  OBVIOUS
<1>1. <<>> \in Seq(BOOLEAN)
  BY EmptySeq
<1> QED
  BY <1>1, AssetAssumption DEF Init, Typed, TypeOK, Shape, HookedWrite, LoadPlace

(* A load keeps the types. *)
LEMMA TypeLoad ==
  ASSUME Typed, status = "running", NEW t \in Threads, LoadStep(t)
  PROVE  Typed'
<1>1. TypeOK
  BY DEF Typed
<1>2. ASSUME pc[t] \in LoadPlace
      PROVE  /\ load[t] \in Load
             /\ pc[t] # "wren" => writing[t] = NoWrite
             /\ pc[t] \in {"lookup", "test", "use", "wren"} /\ load[t].fallback_mode
                  => frames[t] # <<>>
  BY <1>1, <1>2 DEF TypeOK, Typed, Shape, LoadPlace
<1>3. /\ NotFound(t) \in {"scope", "remove"} /\ Found(t) \in {"scope", "done", "returned"}
      /\ CallerOf(t) \in {"done", "returned"}
      /\ NotFound(t) = "scope" => load[t].fallback_mode
      /\ Found(t) = "scope" => load[t].fallback_mode
      /\ Found(t) = "done" => frames[t] = <<>>
      /\ Found(t) = "returned" => frames[t] # <<>>
      /\ CallerOf(t) = "done" => frames[t] = <<>>
      /\ CallerOf(t) = "returned" => frames[t] # <<>>
  BY DEF NotFound, Found, CallerOf
<1>4. /\ vmLock \in Threads \cup {Free} /\ scripts \in 0..MaxScripts
      /\ status \in {"running", "exited", "crashed"}
      /\ loads \in [Threads -> 0..MaxLoads]
      /\ load \in [Threads -> {NoLoad} \cup Load]
  BY <1>1 DEF TypeOK
<1>5. 1 \in 1..3 /\ Sources \subseteq Sources \cup {"game", "nothing"}
  OBVIOUS
<1>6. CASE LookUp(t)
  <2>1. pc[t] = "lookup" /\ pc[t] \in LoadPlace
    BY <1>6 DEF LookUp, LoadPlace
  <2>2. CASE StopProcess("crashed")
    BY <1>6, <2>2, TypeStop DEF LookUp
  <2>3. CASE ~StopProcess("crashed")
    <3>1. PICK place \in {"scope", "remove", "test"} :
            Goto(t, place) /\ (place = "scope" => load[t].fallback_mode)
      BY <1>6, <2>3, <1>3 DEF LookUp
    <3>2. Try(t, 1)
      BY <1>6, <2>3 DEF LookUp
    <3>3. /\ load' \in [Threads -> {NoLoad} \cup Load] /\ load'[t] \in Load
          /\ load'[t] = [load[t] EXCEPT !.source = 1]
          /\ \A u \in Threads : u # t => load'[u] = load[u]
      BY <1>1, <1>5, <2>1, <3>2, Tried
    <3>4. load'[t].fallback_mode = load[t].fallback_mode
      BY <3>3, <1>2, <2>1 DEF Load
    <3>5. /\ UNCHANGED <<packaged, target, writing, writes, installed, frames>>
          /\ UNCHANGED <<vmLock, scripts, loads, status>>
      BY <1>6, <2>3 DEF LookUp, hookVars, wrenVars
    <3>6. place \in LoadPlace
      BY DEF LoadPlace
    <3> QED
      BY <1>2, <1>4, <2>1, <3>1, <3>3, <3>4, <3>5, <3>6, TypeMove
  <2> QED
    BY <2>2, <2>3
<1>7. CASE TestSource(t)
  <2>1. pc[t] = "test" /\ pc[t] \in LoadPlace
    BY <1>7 DEF TestSource, LoadPlace
  <2>2. /\ UNCHANGED <<packaged, target, writing, writes, installed, frames>>
        /\ UNCHANGED <<vmLock, scripts, loads, status>>
    BY <1>7 DEF TestSource, hookVars, wrenVars
  <2>3. CASE UNCHANGED load
    <3>1. PICK place \in {"scope", "remove", "use"} :
            Goto(t, place) /\ (place = "scope" => load[t].fallback_mode)
      <4>1. load[t].source = 3 \/ Has(t) \/ Try(t, load[t].source + 1)
        BY <1>7 DEF TestSource
      <4>2. load[t].source \in 1..3
        BY <1>1, <2>1, Loaded
      <4>3. ASSUME Try(t, load[t].source + 1) PROVE FALSE
        <5>1. load'[t].source = load[t].source + 1
          BY <4>3, <1>2, <1>4, <2>1 DEF Try, Load
        <5> QED
          BY <5>1, <4>2, <2>3
      <4> QED
        BY <1>7, <1>3, <4>3 DEF TestSource
    <3>2. place \in LoadPlace
      BY DEF LoadPlace
    <3> QED
      BY <1>2, <1>4, <2>1, <2>2, <2>3, <3>1, <3>2, TypeMove
  <2>4. CASE ~UNCHANGED load
    <3>1. Try(t, load[t].source + 1) /\ load[t].source # 3 /\ UNCHANGED pc
      BY <1>7, <2>4 DEF TestSource
    <3>2. load[t].source + 1 \in 1..3
      BY <1>1, <2>1, <3>1, Loaded
    <3>3. /\ load' \in [Threads -> {NoLoad} \cup Load] /\ load'[t] \in Load
          /\ load'[t] = [load[t] EXCEPT !.source = load[t].source + 1]
          /\ \A u \in Threads : u # t => load'[u] = load[u]
      BY <1>1, <2>1, <3>1, <3>2, Tried
    <3>4. load'[t].fallback_mode = load[t].fallback_mode
      BY <3>3, <1>2, <2>1 DEF Load
    <3>5. Goto(t, "test")
      BY <2>1, <3>1, <1>1 DEF Goto, TypeOK
    <3>6. "test" \in LoadPlace
      BY DEF LoadPlace
    <3> QED
      BY <1>2, <1>4, <2>1, <2>2, <3>3, <3>4, <3>5, <3>6, TypeMove
  <2> QED
    BY <2>3, <2>4
<1>8. CASE OpenSource(t)
  <2>1. pc[t] = "use" /\ pc[t] \in LoadPlace
    BY <1>8 DEF OpenSource, LoadPlace
  <2>2. CASE StopProcess("crashed") \/ StopProcess("exited")
    BY <1>8, <2>2, TypeStop DEF OpenSource
  <2>3. CASE Get(t, Source[load[t].source]) /\ Goto(t, Found(t)) /\ UNCHANGED status
    <3>1. Source[load[t].source] \in Sources \cup {"game", "nothing"}
      BY <1>1, <2>1, Loaded
    <3>2. /\ load' \in [Threads -> {NoLoad} \cup Load] /\ load'[t] \in Load
          /\ load'[t] = [load[t] EXCEPT !.got = Source[load[t].source]]
          /\ \A u \in Threads : u # t => load'[u] = load[u]
      BY <1>1, <2>1, <2>3, <3>1, Gotten
    <3>3. /\ UNCHANGED <<packaged, target, writing, writes, installed, frames>>
          /\ UNCHANGED <<vmLock, scripts, loads>>
      BY <1>8 DEF OpenSource, hookVars, wrenVars
    <3>4. Found(t) \in LoadPlace
      BY <1>3 DEF LoadPlace
    <3> QED
      BY <1>2, <1>3, <1>4, <2>1, <2>3, <3>2, <3>3, <3>4, TypeMove
  <2> QED
    BY <1>8, <2>2, <2>3 DEF OpenSource
<1>9. CASE CallLoader(t)
  <2>1. pc[t] = "use" /\ pc[t] \in LoadPlace /\ "wren" \in LoadPlace
    BY <1>9 DEF CallLoader, LoadPlace
  <2>2. /\ UNCHANGED <<packaged, target, writing, writes, installed, frames>>
        /\ UNCHANGED <<scripts, loads>>
    BY <1>9 DEF CallLoader, wrenVars
  <2>3. CASE ~Has(t)
    BY <1>9, <2>2, <2>3, TypeStop DEF CallLoader, hookVars, wrenVars
  <2>4. CASE Has(t)
    <3>1. vmLock' = t /\ Goto(t, "wren") /\ UNCHANGED <<load, status>>
      BY <1>9, <2>4 DEF CallLoader
    <3> QED
      BY <1>2, <1>4, <2>1, <2>2, <3>1, TypeMove
  <2> QED
    BY <2>3, <2>4
<1>10. CASE LoaderReturns(t)
  <2>1. pc[t] = "wren" /\ pc[t] \in LoadPlace /\ writing[t] = NoWrite
    BY <1>10 DEF LoaderReturns, LoadPlace
  <2>2. /\ UNCHANGED <<packaged, target, writing, writes, installed, frames>>
        /\ UNCHANGED <<scripts, loads>>
    BY <1>10 DEF LoaderReturns, wrenVars
  <2>3. CASE StopProcess("exited") /\ UNCHANGED vmLock
    BY <1>10, <2>2, <2>3, TypeStop DEF hookVars, wrenVars
  <2>4. CASE vmLock' = Free /\ Get(t, "wren_loader") /\ Goto(t, Found(t))
               /\ UNCHANGED status
    <3>1. "wren_loader" \in Sources \cup {"game", "nothing"}
      BY DEF Sources
    <3>2. /\ load' \in [Threads -> {NoLoad} \cup Load] /\ load'[t] \in Load
          /\ load'[t] = [load[t] EXCEPT !.got = "wren_loader"]
          /\ \A u \in Threads : u # t => load'[u] = load[u]
      BY <1>1, <2>1, <2>4, <3>1, Gotten
    <3>3. Found(t) \in LoadPlace
      BY <1>3 DEF LoadPlace
    <3> QED
      BY <1>2, <1>3, <1>4, <2>1, <2>2, <2>4, <3>2, <3>3, TypeMove
  <2> QED
    BY <1>10, <2>3, <2>4 DEF LoaderReturns
<1>11. CASE CallOriginal(t)
  <2>1. pc[t] = "call" /\ pc[t] \in LoadPlace
    BY <1>11 DEF CallOriginal, LoadPlace
  <2>2. /\ UNCHANGED <<packaged, target, writing, writes, installed, frames>>
        /\ UNCHANGED <<vmLock, scripts, loads, status>>
    BY <1>11 DEF CallOriginal, hookVars, wrenVars
  <2>3. PICK place \in {"lookup", "running"} : Goto(t, place)
    BY <1>11 DEF CallOriginal
  <2>4. /\ load' \in [Threads -> {NoLoad} \cup Load] /\ load'[t] \in Load
        /\ load'[t] = [load[t] EXCEPT !.fallback_mode = FALSE]
        /\ \A u \in Threads : u # t => load'[u] = load[u]
    BY <1>11, <1>1, <2>1, Moded DEF CallOriginal
  <2>5. load'[t].fallback_mode = FALSE
    BY <2>4, <1>2, <2>1 DEF Load
  <2>6. place \in LoadPlace
    BY DEF LoadPlace
  <2> QED
    BY <1>2, <1>4, <2>1, <2>2, <2>3, <2>4, <2>5, <2>6, TypeMove
<1>12. CASE OriginalReturns(t)
  <2>1. pc[t] = "running" /\ pc[t] \in LoadPlace
    BY <1>12 DEF OriginalReturns, LoadPlace
  <2>2. /\ UNCHANGED <<packaged, target, writing, writes, installed, frames>>
        /\ UNCHANGED <<vmLock, scripts, loads, status>>
    BY <1>12 DEF OriginalReturns, hookVars, wrenVars
  <2>3. GameLoads(load[t].asset) \in Sources \cup {"game", "nothing"}
    BY DEF GameLoads
  <2>4. /\ load' \in [Threads -> {NoLoad} \cup Load] /\ load'[t] \in Load
        /\ \A u \in Threads : u # t => load'[u] = load[u]
    BY <1>12, <1>1, <2>1, <2>3, Gotten DEF OriginalReturns
  <2>5. Goto(t, CallerOf(t)) /\ CallerOf(t) \in LoadPlace
    BY <1>12, <1>3 DEF OriginalReturns, LoadPlace
  <2> QED
    BY <1>2, <1>3, <1>4, <2>1, <2>2, <2>4, <2>5, TypeMove
<1>13. CASE TestLoaded(t)
  <2>1. pc[t] = "returned" /\ pc[t] \in LoadPlace
    BY <1>13 DEF TestLoaded, LoadPlace
  <2>2. /\ UNCHANGED <<packaged, target, writing, writes, installed, frames>>
        /\ UNCHANGED <<vmLock, scripts, loads, status>>
    BY <1>13 DEF TestLoaded, hookVars, wrenVars
  <2>3. PICK place \in {"lookup", "scope"} : Goto(t, place)
    BY <1>13 DEF TestLoaded
  <2>4. Mode(t, TRUE) \/ UNCHANGED load
    BY <1>13 DEF TestLoaded
  <2>5. /\ load' \in [Threads -> {NoLoad} \cup Load] /\ load'[t] \in Load
        /\ \A u \in Threads : u # t => load'[u] = load[u]
    BY <1>1, <1>2, <1>4, <2>1, <2>4, Moded
  <2>6. frames[t] # <<>> /\ place \in LoadPlace
    BY <1>1, <2>1 DEF TypeOK, LoadPlace
  <2> QED
    BY <1>2, <1>4, <2>1, <2>2, <2>3, <2>5, <2>6, TypeMove
<1>14. CASE TakeArchive(t)
  <2>1. pc[t] = "done" /\ pc[t] \in LoadPlace /\ frames[t] = <<>>
    BY <1>14, <1>1 DEF TakeArchive, LoadPlace, TypeOK
  <2>2. /\ UNCHANGED <<packaged, target, writing, writes, installed, frames>>
        /\ UNCHANGED <<vmLock, scripts, loads, status>>
        /\ Goto(t, "idle") /\ load' = [load EXCEPT ![t] = NoLoad]
    BY <1>14 DEF TakeArchive, hookVars, wrenVars
  <2>3. /\ load' \in [Threads -> {NoLoad} \cup Load]
        /\ \A u \in Threads : u # t => load'[u] = load[u]
    BY <2>2, <1>4
  <2>4. "idle" \notin LoadPlace
    BY DEF LoadPlace
  <2> QED
    BY <1>2, <1>4, <2>1, <2>2, <2>3, <2>4, TypeMove
<1>15. CASE RemoveHook(t)
  <2>1. pc[t] = "remove" /\ pc[t] \in LoadPlace /\ "call" \in LoadPlace
    BY <1>15 DEF RemoveHook, LoadPlace
  <2>2. /\ UNCHANGED <<hookVars, load, loads, status>>
        /\ frames' = [frames EXCEPT ![t] = Append(@, installed)]
        /\ installed' = FALSE /\ pc' = [pc EXCEPT ![t] = "call"]
    BY <1>15 DEF RemoveHook, Goto
  <2>3. /\ frames[t] \in Seq(BOOLEAN) /\ installed \in BOOLEAN
        /\ Append(frames[t], installed) \in Seq(BOOLEAN)
        /\ Append(frames[t], installed) # <<>>
    <3>1. PICK S, s, x : S = BOOLEAN /\ s = frames[t] /\ x = installed
      OBVIOUS
    <3>2. s \in Seq(S) /\ x \in S
      BY <1>1, <3>1 DEF TypeOK
    <3>3. Append(s, x) \in Seq(S) /\ Append(s, x) # <<>>
      BY ONLY <3>2, AppendProperties
    <3> QED
      BY ONLY <3>1, <3>2, <3>3
  <2>4. frames' \in [Threads -> Seq(BOOLEAN)] /\ frames'[t] # <<>>
    BY <1>1, <2>2, <2>3 DEF TypeOK
  <2> QED
    BY <1>1, <1>2, <2>1, <2>2, <2>4
    DEF TypeOK, Typed, Shape, HookedWrite, hookVars, wrenVars
<1>16. CASE EndScope(t)
  <2>1. pc[t] = "scope" /\ pc[t] \in LoadPlace /\ frames[t] # <<>>
    BY <1>16, <1>1 DEF EndScope, LoadPlace, TypeOK
  <2>2. PICK place \in {"done", "returned"} :
          /\ pc' = [pc EXCEPT ![t] = place]
          /\ place = "done" <=> Len(frames[t]) = 1
    BY <1>16 DEF EndScope, Goto
  <2>3. /\ UNCHANGED <<hookVars, load, loads, status>>
        /\ frames' = [frames EXCEPT ![t] = Front(@)]
        /\ installed' = (installed \/ Last(frames[t]))
    BY <1>16 DEF EndScope
  <2>4. /\ Front(frames[t]) \in Seq(BOOLEAN)
        /\ Len(frames[t]) = 1 => Front(frames[t]) = <<>>
        /\ Len(frames[t]) # 1 => Front(frames[t]) # <<>>
    BY <1>1, <2>1, Popped DEF TypeOK
  <2>5. frames' \in [Threads -> Seq(BOOLEAN)] /\ frames'[t] = Front(frames[t])
    BY <1>1, <2>3, <2>4 DEF TypeOK
  <2>6. place \in LoadPlace
    BY DEF LoadPlace
  <2>7. installed' \in BOOLEAN
    BY <2>3
  <2> QED
    BY <1>1, <1>2, <2>1, <2>2, <2>3, <2>4, <2>5, <2>6, <2>7
    DEF TypeOK, Typed, Shape, HookedWrite, hookVars, wrenVars
<1> QED
  BY <1>6, <1>7, <1>8, <1>9, <1>10, <1>11, <1>12, <1>13, <1>14, <1>15, <1>16
  DEF LoadStep

(* A load begins, Wren code begins and ends. *)
LEMMA TypeBegin ==
  ASSUME Typed, NEW t \in Threads,
         \/ \E a \in Assets : Enter(t, a)
         \/ StartScript(t)
         \/ EndScript(t)
  PROVE  Typed'
<1>1. /\ TypeOK
      /\ vmLock \in Threads \cup {Free} /\ scripts \in 0..MaxScripts
      /\ status \in {"running", "exited", "crashed"}
      /\ loads \in [Threads -> 0..MaxLoads]
      /\ load \in [Threads -> {NoLoad} \cup Load]
  BY DEF TypeOK, Typed
<1>2. /\ "idle" \notin LoadPlace /\ "script" \notin LoadPlace
      /\ "lookup" \in LoadPlace /\ "running" \in LoadPlace
  BY DEF LoadPlace
<1>3. ASSUME NEW a \in Assets, Enter(t, a) PROVE Typed'
  <2> DEFINE stable == \A u \in Threads : ~Changes(u, a)
             r == [asset |-> a, fallback_mode |-> FALSE, source |-> 1,
                   got |-> "nothing", seen |-> installed, stable |-> stable]
  <2>1. /\ pc[t] = "idle" /\ frames[t] = <<>> /\ writing[t] = NoWrite
        /\ installed \in BOOLEAN
    BY <1>3, <1>1 DEF Enter, TypeOK
  <2>2. stable \in BOOLEAN
    OBVIOUS
  <2>3. load' = [load EXCEPT ![t] = r]
    BY <1>3 DEF Enter
  <2> HIDE DEF stable
  <2>4. r \in Load /\ r.fallback_mode = FALSE
    BY <2>1, <2>2 DEF Load
  <2> HIDE DEF r
  <2>5. /\ load' \in [Threads -> {NoLoad} \cup Load] /\ load'[t] = r
        /\ \A u \in Threads : u # t => load'[u] = load[u]
    BY <1>1, <2>3, <2>4
  <2>6. PICK place \in {"lookup", "running"} : Goto(t, place)
    BY <1>3 DEF Enter
  <2>7. /\ UNCHANGED <<packaged, target, writing, writes, installed, frames>>
        /\ UNCHANGED <<vmLock, scripts, status>>
        /\ loads[t] < MaxLoads /\ loads' = [loads EXCEPT ![t] = @ + 1]
    BY <1>3 DEF Enter, hookVars, wrenVars
  <2>8. loads' \in [Threads -> 0..MaxLoads]
    BY <1>1, <2>7, AssetAssumption
  <2>9. place \in LoadPlace
    BY <1>2, <2>6
  <2> QED
    BY <1>1, <1>2, <2>1, <2>4, <2>5, <2>6, <2>7, <2>8, <2>9, TypeMove
<1>4. CASE StartScript(t)
  <2>1. /\ pc[t] = "idle" /\ frames[t] = <<>> /\ writing[t] = NoWrite
    BY <1>4, <1>1 DEF StartScript, TypeOK
  <2>2. /\ scripts < MaxScripts /\ scripts' = scripts + 1 /\ vmLock' = t
        /\ Goto(t, "script")
        /\ UNCHANGED <<packaged, target, writing, writes, installed, frames>>
        /\ UNCHANGED <<load, loads, status>>
    BY <1>4 DEF StartScript
  <2>3. scripts' \in 0..MaxScripts
    BY <1>1, <2>2, AssetAssumption
  <2> QED
    BY <1>1, <1>2, <2>1, <2>2, <2>3, TypeMove
<1>5. CASE EndScript(t)
  <2>1. /\ pc[t] = "script" /\ frames[t] = <<>> /\ writing[t] = NoWrite
    BY <1>5, <1>1 DEF EndScript, TypeOK
  <2>2. /\ vmLock' = Free /\ Goto(t, "idle")
        /\ UNCHANGED <<packaged, target, writing, writes, installed, frames>>
        /\ UNCHANGED <<scripts, load, loads, status>>
    BY <1>5 DEF EndScript, wrenVars
  <2> QED
    BY <1>1, <1>2, <2>1, <2>2, TypeMove
<1> QED
  BY <1>3, <1>4, <1>5

(* A change to the target of an asset keeps the types. *)
LEMMA TypeChange ==
  ASSUME Typed, NEW t \in Threads, WrenWrite(t)
  PROVE  Typed'
<1>1. /\ TypeOK
      /\ target \in [Assets -> {Unhooked} \cup Targets]
      /\ writing \in [Threads -> {NoWrite} \cup Write]
      /\ status \in {"running", "exited", "crashed"}
  BY DEF TypeOK, Typed
<1>2. /\ Assets \in SUBSET Assets
      /\ \A a \in Assets : {a} \in SUBSET Assets
      /\ CanWrite(t) => writing[t] = NoWrite
  BY DEF CanWrite
<1>3. ASSUME NEW a \in Assets, register_asset_hook(t, a) PROVE Typed'
  <2>1. CanWrite(t) /\ UNCHANGED <<target, packaged>>
    BY <1>3 DEF register_asset_hook, CanWrite
  <2>2. CASE status' = "exited" /\ UNCHANGED <<writing, load>>
    BY <1>1, <1>2, <2>1, <2>2, TypeWrite
  <2>3. CASE /\ writing' = [writing EXCEPT ![t] = [what |-> "entry", asset |-> a]]
             /\ Disturb(Assets) /\ UNCHANGED status
    <3>1. [what |-> "entry", asset |-> a] \in Write
      BY DEF Write
    <3>2. /\ writing' \in [Threads -> {NoWrite} \cup Write]
          /\ \A u \in Threads : u # t => writing'[u] = writing[u]
          /\ writing'[t].what = "entry"
      BY <1>1, <2>3, <3>1
    <3> QED
      BY <1>1, <1>2, <2>1, <2>3, <3>2, TypeWrite
  <2> QED
    BY <1>3, <2>2, <2>3 DEF register_asset_hook
<1>4. ASSUME NEW a \in Assets, target[a].hooked, NEW T \in Targets,
             target' = [target EXCEPT ![a] = T]
      PROVE  /\ target' \in [Assets -> {Unhooked} \cup Targets]
             /\ \A b \in Assets : target[b].hooked => target'[b].hooked
             /\ target'[a].hooked
  BY <1>1, <1>4 DEF Targets
<1>5. ASSUME NEW a \in Assets, target[a].hooked
      PROVE  /\ [target[a] EXCEPT !.sources = {}] \in Targets
             /\ \A val \in BOOLEAN : [target[a] EXCEPT !.fallback = val] \in Targets
  <2>1. target[a] \in Targets
    BY <1>1, <1>5 DEF Unhooked
  <2> QED
    BY <2>1 DEF Targets
<1>6. ASSUME NEW a \in Assets, NEW s \in Sources, set_source(t, a, s) PROVE Typed'
  <2>1. /\ CanWrite(t) /\ target[a].hooked /\ Disturb({a}) /\ UNCHANGED status
        /\ target' = [target EXCEPT ![a] = [target[a] EXCEPT !.sources = {}]]
        /\ writing' = [writing EXCEPT ![t] = [what |-> s, asset |-> a]]
        /\ UNCHANGED packaged
    BY <1>6 DEF set_source, CanWrite
  <2>2. /\ target' \in [Assets -> {Unhooked} \cup Targets]
        /\ \A b \in Assets : target[b].hooked => target'[b].hooked
        /\ target'[a].hooked
    BY <1>4, <1>5, <2>1
  <2>3. [what |-> s, asset |-> a] \in Write
    BY DEF Write
  <2>4. /\ writing' \in [Threads -> {NoWrite} \cup Write]
        /\ \A u \in Threads : u # t => writing'[u] = writing[u]
        /\ writing'[t].asset = a
    BY <1>1, <2>1, <2>3
  <2> QED
    BY <1>1, <1>2, <2>1, <2>2, <2>4, TypeWrite
<1>7. ASSUME NEW a \in Assets, disable(t, a) PROVE Typed'
  <2>1. /\ CanWrite(t) /\ target[a].hooked /\ Disturb({a})
        /\ UNCHANGED <<writing, status, packaged>>
        /\ target' = [target EXCEPT ![a] = [target[a] EXCEPT !.sources = {}]]
    BY <1>7 DEF disable, CanWrite
  <2>2. /\ target' \in [Assets -> {Unhooked} \cup Targets]
        /\ \A b \in Assets : target[b].hooked => target'[b].hooked
        /\ target'[a].hooked
    BY <1>4, <1>5, <2>1
  <2> QED
    BY <1>1, <1>2, <2>1, <2>2, TypeWrite
<1>8. ASSUME NEW a \in Assets, NEW val \in BOOLEAN, setFallback(t, a, val)
      PROVE  Typed'
  <2>1. /\ CanWrite(t) /\ target[a].hooked /\ Disturb({a})
        /\ UNCHANGED <<writing, status, packaged>>
        /\ target' = [target EXCEPT ![a] = [target[a] EXCEPT !.fallback = val]]
    BY <1>8 DEF setFallback, CanWrite
  <2>2. /\ target' \in [Assets -> {Unhooked} \cup Targets]
        /\ \A b \in Assets : target[b].hooked => target'[b].hooked
        /\ target'[a].hooked
    BY <1>4, <1>5, <2>1
  <2> QED
    BY <1>1, <1>2, <2>1, <2>2, TypeWrite
<1> QED
  BY <1>3, <1>6, <1>7, <1>8 DEF WrenWrite

(* The second half of a change keeps the types. *)
LEMMA TypeFinish ==
  ASSUME Typed, NEW t \in Threads, FinishWrite(t)
  PROVE  Typed'
<1>1. /\ TypeOK
      /\ target \in [Assets -> {Unhooked} \cup Targets]
      /\ writing \in [Threads -> {NoWrite} \cup Write]
  BY DEF TypeOK, Typed
<1>2. writing[t] \in Write /\ writing[t].asset \in Assets
      /\ writing[t].what \in Sources \cup {"entry"}
  BY <1>1 DEF FinishWrite, Write
<1>3. /\ target' \in [Assets -> {Unhooked} \cup Targets]
      /\ writing' \in [Threads -> {NoWrite} \cup Write]
      /\ \A u \in Threads : writing'[u] # NoWrite => writing'[u] = writing[u]
      /\ \A a \in Assets : target[a].hooked => target'[a].hooked
      /\ status' \in {"running", "exited", "crashed"}
  <2>1. CASE UNCHANGED <<target, writing>> /\ status' = "exited"
    BY <1>1, <2>1
  <2>2. CASE /\ target' = [target EXCEPT ![writing[t].asset] =
                  IF writing[t].what = "entry" THEN Target(FALSE, {})
                  ELSE Target(@.fallback, @.sources \cup {writing[t].what})]
             /\ writing' = [writing EXCEPT ![t] = NoWrite]
             /\ UNCHANGED status
    <3>1. CASE writing[t].what = "entry"
      <4>1. Target(FALSE, {}) \in Targets
        BY DEF Target, Targets
      <4> QED
        BY <1>1, <1>2, <2>2, <3>1, <4>1 DEF TypeOK, Targets
    <3>2. CASE writing[t].what # "entry"
      <4>1. target[writing[t].asset] \in Targets
        BY <1>2, <3>2, <1>1 DEF Typed, HookedWrite, Unhooked, FinishWrite
      <4>2. Target(target[writing[t].asset].fallback,
                   target[writing[t].asset].sources \cup {writing[t].what}) \in Targets
        BY <1>2, <3>2, <4>1 DEF Target, Targets
      <4> QED
        BY <1>1, <1>2, <2>2, <3>2, <4>2 DEF TypeOK, Targets
    <3> QED
      BY <3>1, <3>2
  <2> QED
    BY <2>1, <2>2 DEF FinishWrite
<1>4. HookedWrite'
  <2> SUFFICES ASSUME NEW u \in Threads,
                      writing'[u] # NoWrite, writing'[u].what # "entry"
               PROVE  target'[writing'[u].asset].hooked
    BY DEF HookedWrite
  <2>1. writing[u] \in Write /\ writing'[u] = writing[u]
    BY <1>1, <1>3
  <2>2. writing[u].asset \in Assets /\ target[writing[u].asset].hooked
    BY <2>1 DEF Typed, HookedWrite, Write
  <2> QED
    BY <1>3, <2>1, <2>2
<1> QED
  BY <1>1, <1>3, <1>4 DEF FinishWrite, Typed, TypeOK, Shape

(* Every step keeps the types. *)
LEMMA TypeNext == Typed /\ [Next]_vars => Typed'
<1> SUFFICES ASSUME Typed, [Next]_vars PROVE Typed'
  OBVIOUS
<1>1. CASE UNCHANGED vars
  BY <1>1 DEF vars, hookVars, wrenVars, Typed, TypeOK, Shape, HookedWrite
<1>2. CASE Next
  BY <1>2, TypeBegin, TypeLoad, TypeChange, TypeFinish DEF Next, WrenStep
<1> QED
  BY <1>1, <1>2

(* Every variable stays in its set, and every load, frame and change is    *)
(* where the place of its thread says.                                      *)
THEOREM TypeCorrect == Spec => []TypeOK
<1>1. Typed => TypeOK
  BY DEF Typed
<1> QED
  BY <1>1, TypeInit, TypeNext, PTL DEF Spec

-----------------------------------------------------------------------------
(* The patch. *)

LEMMA HookInit == Init => HookRestored
BY DEF Init, HookRestored

LEMMA HookNext == Typed /\ HookRestored /\ [Next]_vars => HookRestored'
<1> SUFFICES ASSUME Typed, HookRestored, [Next]_vars PROVE HookRestored'
  OBVIOUS
<1>1. CASE UNCHANGED <<installed, frames>>
  BY <1>1 DEF HookRestored
<1>2. ASSUME NEW t \in Threads, RemoveHook(t) PROVE HookRestored'
  <2> DEFINE n == Len(frames[t]) + 1
  <2>1. /\ frames' = [frames EXCEPT ![t] = Append(@, installed)]
        /\ installed' = FALSE /\ installed \in BOOLEAN
        /\ frames \in [Threads -> Seq(BOOLEAN)]
    BY <1>2 DEF RemoveHook, Typed, TypeOK
  <2>2. /\ Len(frames[t]) \in Nat /\ DOMAIN frames[t] = 1..Len(frames[t])
        /\ frames'[t] = Append(frames[t], installed)
        /\ DOMAIN frames'[t] = 1..n
        /\ \A i \in 1..Len(frames[t]) : frames'[t][i] = frames[t][i]
        /\ frames'[t][n] = installed
        /\ \A u \in Threads : u # t => frames'[u] = frames[u]
    BY <2>1, LenProperties, AppendProperties
  <2>3. n \in 1..n /\ n \notin DOMAIN frames[t]
    BY <2>2
  <2>4. \A i \in DOMAIN frames'[t] : i = n \/ i \in DOMAIN frames[t]
    BY <2>2
  <2>5. CASE installed
    <3>1. \A u \in Threads : \A i \in DOMAIN frames[u] : ~frames[u][i]
      BY <2>5 DEF HookRestored
    <3>2. ASSUME NEW u \in Threads, NEW i \in DOMAIN frames'[u], frames'[u][i]
          PROVE  u = t /\ i = n
      BY <2>2, <2>4, <3>1, <3>2
    <3>3. frames'[t][n] /\ n \in DOMAIN frames'[t]
      BY <2>2, <2>3, <2>5
    <3> HIDE DEF n
    <3> QED
      BY <2>1, <3>2, <3>3 DEF HookRestored
  <2>6. CASE ~installed
    <3>1. PICK v \in Threads : \E k \in DOMAIN frames[v] : frames[v][k]
      BY <2>6 DEF HookRestored
    <3>2. PICK k \in DOMAIN frames[v] : frames[v][k]
      BY <3>1
    <3>3. k \in DOMAIN frames'[v] /\ frames'[v][k]
      <4>1. CASE v = t
        BY <4>1, <2>2, <3>2
      <4>2. CASE v # t
        BY <4>2, <2>2, <3>2
      <4> QED
        BY <4>1, <4>2
    <3>4. ASSUME NEW u \in Threads, NEW i \in DOMAIN frames'[u], frames'[u][i]
          PROVE  i \in DOMAIN frames[u] /\ frames[u][i]
      <4>1. CASE u = t
        BY <4>1, <2>2, <2>4, <2>6, <3>4
      <4>2. CASE u # t
        BY <4>2, <2>2, <3>4
      <4> QED
        BY <4>1, <4>2
    <3> HIDE DEF n
    <3>5. \A u, w \in Threads : \A i \in DOMAIN frames'[u], j \in DOMAIN frames'[w] :
            frames'[u][i] /\ frames'[w][j] => u = w /\ i = j
      BY <3>4 DEF HookRestored
    <3> QED
      BY <2>1, <3>3, <3>5 DEF HookRestored
  <2> QED
    BY <2>1, <2>5, <2>6
<1>3. ASSUME NEW t \in Threads, EndScope(t) PROVE HookRestored'
  <2> DEFINE n == Len(frames[t])
  <2>1. /\ frames' = [frames EXCEPT ![t] = Front(@)]
        /\ installed' = (installed \/ Last(frames[t])) /\ installed \in BOOLEAN
        /\ frames \in [Threads -> Seq(BOOLEAN)] /\ frames[t] # <<>>
    BY <1>3 DEF EndScope, Typed, TypeOK
  <2>2. /\ n \in Nat \ {0}
        /\ Front(frames[t]) \in Seq(BOOLEAN) /\ Len(Front(frames[t])) = n - 1
        /\ \A i \in 1..n - 1 : Front(frames[t])[i] = frames[t][i]
        /\ Last(frames[t]) = frames[t][n]
        /\ Last(frames[t]) \in BOOLEAN
    BY <2>1, Popped
  <2>3. /\ frames'[t] = Front(frames[t])
        /\ \A u \in Threads : u # t => frames'[u] = frames[u]
    BY <2>1
  <2>4. DOMAIN frames[t] = 1..n /\ DOMAIN frames'[t] = 1..n - 1
    BY <2>1, <2>2, <2>3, LenProperties
  <2>5. /\ n \in DOMAIN frames[t] /\ n \notin DOMAIN frames'[t]
        /\ \A i \in DOMAIN frames[t] : i = n \/ i \in DOMAIN frames'[t]
        /\ \A i \in DOMAIN frames'[t] :
             i \in DOMAIN frames[t] /\ frames'[t][i] = frames[t][i]
    BY <2>2, <2>3, <2>4
  <2> HIDE DEF n
  <2>6. ASSUME NEW u \in Threads, NEW i \in DOMAIN frames'[u]
        PROVE  /\ i \in DOMAIN frames[u] /\ frames'[u][i] = frames[u][i]
               /\ u = t => i # n
    BY <2>3, <2>5, <2>6
  <2>7. CASE Last(frames[t])
    <3>1. frames[t][n]
      BY <2>2, <2>7
    <3>2. ASSUME NEW u \in Threads, NEW i \in DOMAIN frames'[u] PROVE ~frames'[u][i]
      <4>1. CASE frames[u][i]
        <5>1. u = t /\ i = n
          BY <2>5, <2>6, <3>1, <3>2, <4>1 DEF HookRestored
        <5> QED
          BY <5>1, <2>6, <3>2
      <4>2. CASE ~frames[u][i]
        BY <4>2, <2>6, <3>2
      <4> QED
        BY <4>1, <4>2
    <3> QED
      BY <2>1, <2>7, <3>2 DEF HookRestored
  <2>8. CASE ~Last(frames[t])
    <3>1. installed' = installed /\ ~frames[t][n]
      BY <2>1, <2>2, <2>8
    <3>2. ASSUME NEW u \in Threads, NEW i \in DOMAIN frames[u], frames[u][i]
          PROVE  i \in DOMAIN frames'[u] /\ frames'[u][i]
      <4>1. CASE u = t
        BY <4>1, <2>5, <3>1, <3>2
      <4>2. CASE u # t
        BY <4>2, <2>3, <3>2
      <4> QED
        BY <4>1, <4>2
    <3>3. installed' <=> \A u \in Threads : \A i \in DOMAIN frames'[u] : ~frames'[u][i]
      <4>1. CASE installed
        BY <4>1, <2>6, <3>1 DEF HookRestored
      <4>2. CASE ~installed
        BY <4>2, <3>1, <3>2 DEF HookRestored
      <4> QED
        BY <4>1, <4>2, <2>1
    <3>4. \A u, w \in Threads : \A i \in DOMAIN frames'[u], j \in DOMAIN frames'[w] :
            frames'[u][i] /\ frames'[w][j] => u = w /\ i = j
      BY <2>6 DEF HookRestored
    <3> QED
      BY <3>3, <3>4 DEF HookRestored
  <2> QED
    BY <2>2, <2>7, <2>8
<1>4. \/ UNCHANGED <<installed, frames>>
      \/ \E t \in Threads : RemoveHook(t) \/ EndScope(t)
  <2>1. CASE UNCHANGED vars
    BY <2>1 DEF vars
  <2>2. ASSUME NEW t \in Threads, LoadStep(t), ~RemoveHook(t), ~EndScope(t)
        PROVE  UNCHANGED <<installed, frames>>
    BY <2>2 DEF LoadStep, LookUp, TestSource, OpenSource, CallLoader, LoaderReturns,
                CallOriginal, OriginalReturns, TestLoaded, TakeArchive
  <2>3. ASSUME NEW t \in Threads, WrenWrite(t)
        PROVE  UNCHANGED <<installed, frames>>
    BY <2>3 DEF WrenWrite, register_asset_hook, set_source, disable, setFallback,
                CanWrite
  <2>4. ASSUME NEW t \in Threads,
               WrenStep(t) \/ StartScript(t) \/ \E a \in Assets : Enter(t, a)
        PROVE  UNCHANGED <<installed, frames>>
    BY <2>4 DEF WrenStep, FinishWrite, EndScript, StartScript, Enter
  <2> QED
    BY <2>1, <2>2, <2>3, <2>4 DEF Next
<1> QED
  BY <1>1, <1>2, <1>3, <1>4

(* The patch is out of the game's function only while the one scope that   *)
(* took it out is open.                                                    *)
THEOREM HookIsRestored == Spec => []HookRestored
<1>1. Typed /\ HookRestored /\ [Next]_vars => (Typed /\ HookRestored)'
  BY TypeNext, HookNext
<1> QED
  BY <1>1, TypeInit, HookInit, PTL DEF Spec

-----------------------------------------------------------------------------
(* The lock of the Wren VM.  Whoever runs Wren code holds it; so one change *)
(* at most is under way, and until its second half the target is without a *)
(* source, or still without an entry.                                      *)

LockHeld == \A t \in Threads : pc[t] \in {"script", "wren"} => vmLock = t

HalfWritten ==
  \A t \in Threads : writing[t] # NoWrite =>
    LET T == target[writing[t].asset] IN
    IF writing[t].what = "entry" THEN ~T.hooked ELSE T.sources = {}

Locked == Typed /\ LockHeld /\ HalfWritten /\ OneSource

LEMMA LockInit == Init => Locked
<1> SUFFICES ASSUME Init PROVE Locked
  OBVIOUS
<1>1. LockHeld /\ HalfWritten /\ OneSource
  BY DEF Init, LockHeld, HalfWritten, OneSource
<1> QED
  BY <1>1, TypeInit DEF Locked

LEMMA LockNext == Typed /\ LockHeld /\ [Next]_vars => LockHeld'
<1> SUFFICES ASSUME Typed, LockHeld, [Next]_vars PROVE LockHeld'
  OBVIOUS
<1>1. TypeOK /\ pc \in [Threads -> {"idle", "script"} \cup LoadPlace]
  BY DEF Typed, TypeOK
<1>2. CASE UNCHANGED <<pc, vmLock>>
  BY <1>2 DEF LockHeld
<1>3. ASSUME NEW t \in Threads,
             NEW place \in {"idle", "lookup", "test", "use", "remove", "call", "running",
                            "returned", "scope", "done"},
             Goto(t, place),
             \/ UNCHANGED vmLock
             \/ vmLock' = Free /\ pc[t] \in {"script", "wren"}
      PROVE  LockHeld'
  BY <1>1, <1>3, AssetAssumption DEF LockHeld, Goto
<1>4. ASSUME NEW t \in Threads, NEW place \in {"script", "wren"}, Goto(t, place),
             vmLock = Free, vmLock' = t
      PROVE  LockHeld'
  BY <1>1, <1>4, AssetAssumption DEF LockHeld, Goto
<1>5. ASSUME NEW t \in Threads, LoadStep(t) PROVE LockHeld'
  <2>1. CASE CallLoader(t)
    BY <2>1, <1>2, <1>4 DEF CallLoader, StopProcess
  <2>2. CASE LoaderReturns(t)
    BY <2>2, <1>2, <1>3 DEF LoaderReturns, StopProcess, Found, CallerOf
  <2>3. CASE LookUp(t) \/ TestSource(t) \/ OpenSource(t)
    BY <2>3, <1>2, <1>3 DEF LookUp, TestSource, OpenSource, StopProcess, NotFound,
                            Found, CallerOf, hookVars
  <2>4. CASE RemoveHook(t) \/ CallOriginal(t) \/ OriginalReturns(t) \/ TestLoaded(t)
               \/ EndScope(t) \/ TakeArchive(t)
    BY <2>4, <1>3 DEF RemoveHook, CallOriginal, OriginalReturns, TestLoaded, EndScope,
                      TakeArchive, CallerOf, hookVars
  <2> QED
    BY <1>5, <2>1, <2>2, <2>3, <2>4 DEF LoadStep
<1>6. ASSUME NEW t \in Threads, WrenWrite(t) \/ FinishWrite(t)
      PROVE  UNCHANGED <<pc, vmLock>>
  BY <1>6 DEF WrenWrite, register_asset_hook, set_source, disable, setFallback,
              CanWrite, FinishWrite
<1>7. ASSUME NEW t \in Threads,
             EndScript(t) \/ StartScript(t) \/ \E a \in Assets : Enter(t, a)
      PROVE  LockHeld'
  BY <1>3, <1>4, <1>7 DEF EndScript, StartScript, Enter, hookVars
<1> QED
  BY <1>2, <1>5, <1>6, <1>7 DEF Next, WrenStep, vars, hookVars

(* One thread at a time changes a target. *)
LEMMA OneWriter ==
  ASSUME Typed, LockHeld, NEW t \in Threads, pc[t] \in {"script", "wren"}
  PROVE  \A u \in Threads : u # t => writing[u] = NoWrite
BY DEF Typed, TypeOK, LockHeld

LEMMA WriteNext ==
  Locked /\ [Next]_vars => HalfWritten' /\ OneSource'
<1> SUFFICES ASSUME Locked, [Next]_vars PROVE HalfWritten' /\ OneSource'
  OBVIOUS
<1> USE DEF Locked
<1>1. /\ TypeOK
      /\ target \in [Assets -> {Unhooked} \cup Targets]
      /\ writing \in [Threads -> {NoWrite} \cup Write]
  BY DEF TypeOK, Typed
<1>2. CASE UNCHANGED <<target, writing>>
  BY <1>2 DEF HalfWritten, OneSource
<1>3. ASSUME NEW t \in Threads, CanWrite(t)
      PROVE  \A u \in Threads : writing[u] = NoWrite
  BY <1>3, OneWriter DEF CanWrite
<1>4. ASSUME NEW t \in Threads, NEW a \in Assets, register_asset_hook(t, a)
      PROVE  HalfWritten' /\ OneSource'
  <2>1. UNCHANGED target /\ \A u \in Threads : writing[u] = NoWrite
    BY <1>3, <1>4 DEF register_asset_hook
  <2>2. CASE UNCHANGED writing
    BY <1>2, <2>1, <2>2
  <2>3. CASE ~target[a].hooked
               /\ writing' = [writing EXCEPT ![t] = [what |-> "entry", asset |-> a]]
    BY <1>1, <2>1, <2>3 DEF HalfWritten, OneSource
  <2> QED
    BY <1>4, <2>2, <2>3 DEF register_asset_hook
<1>5. ASSUME NEW a \in Assets, target[a].hooked
      PROVE  target[a] \in Targets
  BY <1>1, <1>5 DEF Unhooked
<1>6. ASSUME NEW t \in Threads, NEW a \in Assets, NEW s \in Sources, set_source(t, a, s)
      PROVE  HalfWritten' /\ OneSource'
  <2>1. /\ target[a].hooked /\ \A u \in Threads : writing[u] = NoWrite
        /\ target' = [target EXCEPT ![a] = [target[a] EXCEPT !.sources = {}]]
        /\ writing' = [writing EXCEPT ![t] = [what |-> s, asset |-> a]]
    BY <1>3, <1>6 DEF set_source
  <2>2. target'[a].sources = {} /\ \A b \in Assets : b # a => target'[b] = target[b]
    BY <1>1, <1>5, <2>1 DEF Targets
  <2>3. s # "entry"
    BY DEF Sources
  <2>4. /\ writing'[t].what = s /\ writing'[t].asset = a
        /\ \A u \in Threads : u # t => writing'[u] = NoWrite
    BY <1>1, <2>1
  <2>5. OneSource'
    BY <2>2 DEF OneSource, AtMostOne
  <2> QED
    BY <2>2, <2>3, <2>4, <2>5 DEF HalfWritten
<1>7. ASSUME NEW t \in Threads, NEW a \in Assets, disable(t, a)
      PROVE  HalfWritten' /\ OneSource'
  <2>1. /\ target[a].hooked /\ \A u \in Threads : writing[u] = NoWrite
        /\ target' = [target EXCEPT ![a] = [target[a] EXCEPT !.sources = {}]]
        /\ UNCHANGED writing
    BY <1>3, <1>7 DEF disable
  <2>2. target'[a].sources = {} /\ \A b \in Assets : b # a => target'[b] = target[b]
    BY <1>1, <1>5, <2>1 DEF Targets
  <2> QED
    BY <2>1, <2>2 DEF HalfWritten, OneSource, AtMostOne
<1>8. ASSUME NEW t \in Threads, NEW a \in Assets, NEW val \in BOOLEAN,
             setFallback(t, a, val)
      PROVE  HalfWritten' /\ OneSource'
  <2>1. /\ target[a].hooked /\ \A u \in Threads : writing[u] = NoWrite
        /\ target' = [target EXCEPT ![a] = [target[a] EXCEPT !.fallback = val]]
        /\ UNCHANGED writing
    BY <1>3, <1>8 DEF setFallback
  <2>2. /\ target'[a].sources = target[a].sources
        /\ \A b \in Assets : b # a => target'[b] = target[b]
    BY <1>1, <1>5, <2>1 DEF Targets
  <2> QED
    BY <2>1, <2>2 DEF HalfWritten, OneSource
<1>9. ASSUME NEW t \in Threads, FinishWrite(t)
      PROVE  HalfWritten' /\ OneSource'
  <2>1. writing[t] \in Write /\ writing[t].asset \in Assets
    BY <1>1, <1>9 DEF FinishWrite, Write
  <2>2. \A u \in Threads : u # t => writing[u] = NoWrite
    BY <1>1, <1>9, OneWriter DEF FinishWrite, TypeOK
  <2>3. CASE UNCHANGED <<target, writing>>
    BY <1>2, <2>3
  <2>4. CASE /\ target' = [target EXCEPT ![writing[t].asset] =
                  IF writing[t].what = "entry" THEN Target(FALSE, {})
                  ELSE Target(@.fallback, @.sources \cup {writing[t].what})]
             /\ writing' = [writing EXCEPT ![t] = NoWrite]
    <3>1. \A u \in Threads : writing'[u] = NoWrite
      BY <1>1, <2>2, <2>4
    <3>2. AtMostOne(target'[writing[t].asset].sources)
      <4>1. CASE writing[t].what = "entry"
        BY <1>1, <2>1, <2>4, <4>1 DEF Target, AtMostOne
      <4>2. CASE writing[t].what # "entry"
        <5>1. target[writing[t].asset].sources = {}
          BY <1>9, <4>2 DEF HalfWritten, FinishWrite
        <5>2. target'[writing[t].asset].sources = {writing[t].what}
          BY <1>1, <2>1, <2>4, <4>2, <5>1 DEF Target
        <5> QED
          BY <5>2 DEF AtMostOne
      <4> QED
        BY <4>1, <4>2
    <3>3. \A b \in Assets : b # writing[t].asset => target'[b] = target[b]
      BY <1>1, <2>4
    <3> QED
      BY <3>1, <3>2, <3>3 DEF HalfWritten, OneSource
  <2> QED
    BY <1>9, <2>3, <2>4 DEF FinishWrite
<1>10. ASSUME NEW t \in Threads, LoadStep(t) PROVE UNCHANGED <<target, writing>>
  BY <1>10 DEF LoadStep, LookUp, TestSource, OpenSource, CallLoader, LoaderReturns,
     RemoveHook, CallOriginal, OriginalReturns, TestLoaded, EndScope, TakeArchive,
     hookVars, wrenVars
<1>11. ASSUME NEW t \in Threads,
              EndScript(t) \/ StartScript(t) \/ \E a \in Assets : Enter(t, a)
       PROVE  UNCHANGED <<target, writing>>
  BY <1>11 DEF EndScript, StartScript, Enter, hookVars, wrenVars
<1>12. CASE UNCHANGED vars
  BY <1>2, <1>12 DEF vars, hookVars, wrenVars
<1> QED
  BY <1>2, <1>4, <1>6, <1>7, <1>8, <1>9, <1>10, <1>11, <1>12
  DEF Next, WrenWrite, WrenStep

LEMMA LockedNext == Locked /\ [Next]_vars => Locked'
BY TypeNext, LockNext, WriteNext DEF Locked

(* No asset is replaced in two ways at a time. *)
THEOREM SourcesAreExclusive == Spec => []OneSource
<1>1. Locked => OneSource
  BY DEF Locked
<1> QED
  BY <1>1, LockInit, LockedNext, PTL DEF Spec

-----------------------------------------------------------------------------
(* What an undisturbed load knows at each place of hook_load, of the target *)
(* of its asset and of what it got.                                         *)

(* The first look-up has nothing. *)
Passed(T) == ~T.hooked \/ T.sources = {} \/ T.fallback

(* A load r at place, if its asset has the target T and the game itself     *)
(* yields answer.                                                           *)
Knows(place, r, T, answer) ==
  /\ place \in {"lookup", "test", "use", "wren"} /\ r.fallback_mode =>
       answer = "nothing" /\ r.got = "nothing"
  /\ place \in {"test", "use", "wren"} => T.hooked /\ (T.fallback => r.fallback_mode)
  /\ place \in {"test", "use", "wren"} =>
       \A i \in 1..3 : i < r.source => Source[i] \notin T.sources
  /\ place \in {"use", "wren"} => Source[r.source] \in T.sources
  /\ place = "wren" => r.source = 3
  /\ place \in {"remove", "call", "running"} => Passed(T)
  /\ place = "returned" =>
       IF r.got = "nothing" THEN answer = "nothing" ELSE r.got = Promised(T, answer)
  /\ place \in {"scope", "done"} => r.got = Promised(T, answer)

Undisturbed(t) ==
  load[t].seen /\ load[t].stable =>
    /\ \A u \in Threads : ~Changes(u, load[t].asset)
    /\ Knows(pc[t], load[t], target[load[t].asset], GameLoads(load[t].asset))

(* A load that the patch did not send to the stub is in the game's function *)
(* or over, and any other load is in it only inside a scope.                *)
Bypassed(t) ==
  /\ ~load[t].seen => (pc[t] = "running" /\ frames[t] = <<>>) \/ pc[t] = "done"
  /\ load[t].seen /\ pc[t] = "running" => frames[t] # <<>>

LoadKnows ==
  \A t \in Threads : pc[t] \in LoadPlace => Bypassed(t) /\ Undisturbed(t)

LEMMA PromisedSource ==
  ASSUME NEW T, NEW answer, NEW s \in Sources, T.hooked, AtMostOne(T.sources),
         s \in T.sources, T.fallback => answer = "nothing"
  PROVE  Promised(T, answer) = s
<1>1. (CHOOSE x \in Sources : x \in T.sources) = s
  BY DEF AtMostOne
<1>2. T.sources # {}
  OBVIOUS
<1> QED
  BY <1>1, <1>2 DEF Promised

(* Where the game has the asset, nothing is never promised. *)
LEMMA PromisedSomething ==
  ASSUME NEW T \in {Unhooked} \cup Targets, NEW answer, answer # "nothing"
  PROVE  Promised(T, answer) # "nothing"
<1>1. CASE ~T.hooked \/ T.sources = {} \/ (T.fallback /\ answer = "game")
  BY <1>1 DEF Promised
<1>2. CASE ~(~T.hooked \/ T.sources = {} \/ (T.fallback /\ answer = "game"))
  <2>0. T \in Targets
    BY <1>2 DEF Unhooked
  <2>1. T.sources \subseteq Sources /\ T.sources # {}
    BY <1>2, <2>0 DEF Targets
  <2>2. (CHOOSE s \in Sources : s \in T.sources) \in Sources
    BY <2>1
  <2>3. "nothing" \notin Sources
    BY DEF Sources
  <2> QED
    BY <1>2, <2>2, <2>3 DEF Promised
<1> QED
  BY <1>1, <1>2

(* A look-up that fails: the first lets hook_load go on, the second leaves  *)
(* the game's answer, that there is no such asset.                          *)
LEMMA LookedUp ==
  ASSUME NEW r \in Load, NEW T, NEW answer,
         r.fallback_mode => answer = "nothing" /\ r.got = "nothing",
         ~T.hooked \/ T.sources = {} \/ (T.fallback /\ ~r.fallback_mode)
  PROVE  Knows(IF r.fallback_mode THEN "scope" ELSE "remove", r, T, answer)
<1>1. r.fallback_mode \in BOOLEAN
  BY DEF Load
<1>2. CASE r.fallback_mode
  BY <1>2 DEF Knows, Promised
<1>3. CASE ~r.fallback_mode
  BY <1>3 DEF Knows, Passed
<1> QED
  BY <1>1, <1>2, <1>3

(* A source that is used is the one that was promised. *)
LEMMA SourceUsed ==
  ASSUME NEW r \in Load, NEW T, AtMostOne(T.sources), NEW answer,
         NEW place \in {"use", "wren"}, Knows(place, r, T, answer),
         NEW r2 \in Load, r2.got = Source[r.source],
         NEW place2 \in {"scope", "done", "returned"}
  PROVE  Knows(place2, r2, T, answer)
<1>1. /\ Source[r.source] \in Sources
      /\ T.hooked /\ Source[r.source] \in T.sources
      /\ T.fallback => answer = "nothing"
  BY DEF Knows, Load, Source, Sources
<1>2. Promised(T, answer) = Source[r.source]
  BY <1>1, PromisedSource
<1>3. Source[r.source] # "nothing"
  BY <1>1 DEF Sources
<1> QED
  BY <1>1, <1>2, <1>3 DEF Knows

LEMMA KnowInit == Init => LoadKnows
BY DEF Init, LoadKnows, LoadPlace

(* Only t moves, and what it reads stays. *)
LEMMA KnowMove ==
  ASSUME Locked, LoadKnows, NEW t \in Threads, NEW place, Goto(t, place),
         UNCHANGED <<target, writing, packaged>>,
         \A u \in Threads : u # t => load'[u] = load[u] /\ frames'[u] = frames[u],
         place \in LoadPlace =>
           /\ ~load'[t].seen => \/ place = "running" /\ frames'[t] = <<>>
                                \/ place = "done"
           /\ load'[t].seen /\ place = "running" => frames'[t] # <<>>
           /\ load'[t].seen /\ load'[t].stable =>
                /\ \A u \in Threads : ~Changes(u, load'[t].asset)
                /\ Knows(place, load'[t], target[load'[t].asset],
                         GameLoads(load'[t].asset))
  PROVE  LoadKnows'
<1>1. pc'[t] = place /\ \A u \in Threads : u # t => pc'[u] = pc[u]
  BY DEF Goto, Locked, Typed, TypeOK
<1>2. ASSUME NEW u \in Threads, pc'[u] \in LoadPlace
      PROVE  Bypassed(u)' /\ Undisturbed(u)'
  <2>1. CASE u = t
    BY <1>1, <1>2, <2>1 DEF Bypassed, Undisturbed, Changes, Inserting, GameLoads
  <2>2. CASE u # t
    BY <1>1, <1>2, <2>2
    DEF LoadKnows, Bypassed, Undisturbed, Changes, Inserting, GameLoads
  <2> QED
    BY <2>1, <2>2
<1> QED
  BY <1>2 DEF LoadKnows

LEMMA KnowSame ==
  ASSUME LoadKnows, UNCHANGED <<pc, load, frames, target, writing, packaged>>
  PROVE  LoadKnows'
BY DEF LoadKnows, Bypassed, Undisturbed, Changes, Inserting, GameLoads

(* A load keeps what the loads know. *)
LEMMA KnowLoad ==
  ASSUME Locked, LoadKnows, NEW t \in Threads, LoadStep(t)
  PROVE  LoadKnows'
<1> DEFINE r == load[t]
           T == target[r.asset]
           answer == GameLoads(r.asset)
           quiet == \A u \in Threads : ~Changes(u, r.asset)
<1>1. TypeOK /\ OneSource
  BY DEF Locked, Typed
<1>2. /\ pc[t] \in LoadPlace
      /\ UNCHANGED <<target, writing, packaged>>
  BY DEF LoadStep, LookUp, TestSource, OpenSource, CallLoader, LoaderReturns,
     RemoveHook, CallOriginal, OriginalReturns, TestLoaded, EndScope, TakeArchive,
     hookVars, wrenVars, LoadPlace
<1>3. /\ r \in Load /\ r.asset \in Assets /\ r.fallback_mode \in BOOLEAN
      /\ r.source \in 1..3 /\ r.seen \in BOOLEAN /\ r.stable \in BOOLEAN
      /\ Source[r.source] \in Sources
  BY <1>1, <1>2, Loaded
<1>4. answer \in {"game", "nothing"}
  BY DEF GameLoads
<1>5. AtMostOne(T.sources) \/ ~T.hooked
  BY <1>1, <1>3 DEF OneSource
<1>6. /\ ~r.seen => (pc[t] = "running" /\ frames[t] = <<>>) \/ pc[t] = "done"
      /\ r.seen /\ pc[t] = "running" => frames[t] # <<>>
      /\ r.seen /\ r.stable => quiet /\ Knows(pc[t], r, T, answer)
  BY <1>2 DEF LoadKnows, Bypassed, Undisturbed
<1> HIDE DEF quiet, answer
<1>7. ASSUME NEW place, Goto(t, place),
             UNCHANGED frames \/ \A u \in Threads : u # t => frames'[u] = frames[u],
             \A u \in Threads : u # t => load'[u] = load[u],
             place \in LoadPlace =>
               /\ load'[t].asset = r.asset /\ load'[t].seen = r.seen
               /\ load'[t].stable = r.stable
               /\ ~r.seen => \/ place = "running" /\ frames'[t] = <<>>
                             \/ place = "done"
               /\ r.seen /\ place = "running" => frames'[t] # <<>>
               /\ r.seen /\ r.stable => Knows(place, load'[t], T, answer)
      PROVE  LoadKnows'
  BY <1>2, <1>6, <1>7, KnowMove DEF quiet, answer
<1>0. NotFound(t) # "running" /\ Found(t) # "running"
  BY DEF NotFound, Found, CallerOf
<1>8. CASE LookUp(t)
  <2>1. pc[t] = "lookup" /\ r.seen
    BY <1>3, <1>6, <1>8 DEF LookUp
  <2>2. CASE StopProcess("crashed")
    BY <1>2, <1>8, <2>2, KnowSame DEF LookUp, StopProcess
  <2>3. CASE ~StopProcess("crashed")
    <3> DEFINE fails == ~T.hooked \/ (T.fallback /\ ~r.fallback_mode)
    <3>1. Try(t, 1) /\ Goto(t, IF fails THEN NotFound(t) ELSE "test") /\ UNCHANGED frames
      BY <1>8, <2>3 DEF LookUp
    <3>2. /\ load'[t] \in Load /\ load'[t] = [r EXCEPT !.source = 1]
          /\ \A u \in Threads : u # t => load'[u] = load[u]
      <4>1. 1 \in 1..3
        OBVIOUS
      <4> QED
        BY <1>1, <1>2, <3>1, <4>1, Tried
    <3>3. /\ load'[t].asset = r.asset /\ load'[t].seen = r.seen
          /\ load'[t].stable = r.stable /\ load'[t].got = r.got
          /\ load'[t].fallback_mode = r.fallback_mode /\ load'[t].source = 1
      BY <1>3, <3>2 DEF Load
    <3>4. ASSUME r.stable
          PROVE  Knows(IF fails THEN NotFound(t) ELSE "test", load'[t], T, answer)
      <4>1. r.fallback_mode => answer = "nothing" /\ r.got = "nothing"
        BY <1>6, <2>1, <3>4 DEF Knows
      <4>2. CASE fails
        <5>1. Knows(IF load'[t].fallback_mode THEN "scope" ELSE "remove",
                    load'[t], T, answer)
          BY <3>2, <3>3, <4>1, <4>2, LookedUp
        <5> QED
          BY <3>3, <4>2, <5>1 DEF NotFound
      <4>3. CASE ~fails
        BY <1>3, <3>3, <4>1, <4>3 DEF Knows
      <4> QED
        BY <4>2, <4>3
    <3> HIDE DEF fails
    <3> QED
      BY <1>0, <1>7, <2>1, <3>1, <3>2, <3>3, <3>4
  <2> QED
    BY <2>2, <2>3
<1>9. CASE TestSource(t)
  <2>1. pc[t] = "test" /\ r.seen /\ UNCHANGED frames
    BY <1>3, <1>6, <1>9 DEF TestSource
  <2>2. CASE Has(t)
    <3>1. Goto(t, "use") /\ UNCHANGED load
      BY <1>9, <2>2 DEF TestSource
    <3>2. r.stable => Knows("use", r, T, answer)
      BY <1>6, <2>1, <2>2 DEF Knows, Has
    <3> QED
      BY <1>7, <2>1, <3>1, <3>2
  <2>3. CASE ~Has(t) /\ r.source = 3
    <3>1. Goto(t, NotFound(t)) /\ UNCHANGED load
      BY <1>9, <2>3 DEF TestSource
    <3>2. ASSUME r.stable PROVE Knows(NotFound(t), r, T, answer)
      <4>1. /\ r.fallback_mode => answer = "nothing" /\ r.got = "nothing"
            /\ T.hooked
            /\ \A i \in 1..3 : i < 3 => Source[i] \notin T.sources
            /\ Source[3] \notin T.sources
        BY <1>6, <2>1, <2>3, <3>2 DEF Knows, Has
      <4>2. T \in Targets
        BY <1>1, <1>3, <4>1 DEF TypeOK, Unhooked
      <4>3. T.sources = {}
        <5>1. \A i \in 1..3 : Source[i] \notin T.sources
          BY <4>1
        <5>2. T.sources \subseteq Sources
          BY <4>2 DEF Targets
        <5>3. /\ Source[1] = "plain_file" /\ Source[2] = "direct_bundle"
              /\ Source[3] = "wren_loader"
          BY DEF Source
        <5> QED
          BY <5>1, <5>2, <5>3 DEF Sources
      <4> QED
        BY <1>3, <4>1, <4>3, LookedUp DEF NotFound
    <3> QED
      BY <1>0, <1>7, <2>1, <3>1, <3>2
  <2>4. CASE ~Has(t) /\ r.source # 3
    <3>1. Try(t, r.source + 1) /\ UNCHANGED pc
      BY <1>9, <2>4 DEF TestSource
    <3>2. r.source + 1 \in 1..3
      BY <1>3, <2>4
    <3>3. /\ load'[t] = [r EXCEPT !.source = r.source + 1]
          /\ \A u \in Threads : u # t => load'[u] = load[u]
      BY <1>1, <1>2, <3>1, <3>2, Tried
    <3>4. /\ load'[t].asset = r.asset /\ load'[t].seen = r.seen
          /\ load'[t].stable = r.stable /\ load'[t].got = r.got
          /\ load'[t].fallback_mode = r.fallback_mode
          /\ load'[t].source = r.source + 1
      BY <1>3, <3>3 DEF Load
    <3>5. Goto(t, "test")
      BY <2>1, <3>1, <1>1 DEF Goto, TypeOK
    <3>6. r.stable => Knows("test", load'[t], T, answer)
      <4> SUFFICES ASSUME r.stable PROVE Knows("test", load'[t], T, answer)
        OBVIOUS
      <4>1. \A i \in 1..3 : i < r.source + 1 => i < r.source \/ i = r.source
        BY <1>3
      <4> QED
        BY <1>6, <2>1, <2>4, <3>4, <4>1 DEF Knows, Has
    <3> QED
      BY <1>7, <2>1, <3>3, <3>4, <3>5, <3>6
  <2> QED
    BY <2>2, <2>3, <2>4
<1>10. ASSUME pc[t] \in {"use", "wren"}, Goto(t, Found(t)), UNCHANGED frames,
              r.seen, Get(t, Source[r.source])
       PROVE  LoadKnows'
  <2>1. /\ load'[t] \in Load /\ load'[t] = [r EXCEPT !.got = Source[r.source]]
        /\ \A u \in Threads : u # t => load'[u] = load[u]
    BY <1>1, <1>2, <1>3, <1>10, Gotten
  <2>2. /\ load'[t].asset = r.asset /\ load'[t].seen = r.seen
        /\ load'[t].stable = r.stable /\ load'[t].got = Source[r.source]
    BY <1>3, <2>1 DEF Load
  <2>3. Found(t) \in {"scope", "done", "returned"}
    BY DEF Found, CallerOf
  <2>4. r.stable => Knows(Found(t), load'[t], T, answer)
    <3> SUFFICES ASSUME r.stable PROVE Knows(Found(t), load'[t], T, answer)
      OBVIOUS
    <3>1. PICK place \in {"use", "wren"} : Knows(place, r, T, answer)
      BY <1>6, <1>10
    <3>2. AtMostOne(T.sources)
      BY <1>5, <3>1 DEF Knows
    <3>3. PICK place2 \in {"scope", "done", "returned"} : Found(t) = place2
      BY <2>3
    <3>4. Knows(place2, load'[t], T, answer)
      <4>1. load'[t] \in Load /\ load'[t].got = Source[r.source] /\ r \in Load
        BY <1>3, <2>1, <2>2
      <4> HIDE DEF r, T
      <4> QED
        BY <3>1, <3>2, <4>1, SourceUsed, Zenon
    <3> QED
      BY <3>3, <3>4
  <2> QED
    BY <1>0, <1>7, <1>10, <2>1, <2>2, <2>4
<1>11. CASE OpenSource(t)
  <2>1. pc[t] = "use" /\ r.seen /\ UNCHANGED frames
    BY <1>3, <1>6, <1>11 DEF OpenSource
  <2>2. CASE StopProcess("crashed") \/ StopProcess("exited")
    BY <1>2, <2>1, <2>2, KnowSame DEF StopProcess
  <2> QED
    BY <1>10, <1>11, <2>1, <2>2 DEF OpenSource
<1>12. CASE CallLoader(t)
  <2>1. pc[t] = "use" /\ r.seen /\ UNCHANGED frames /\ Source[r.source] = "wren_loader"
    BY <1>3, <1>6, <1>12 DEF CallLoader
  <2>2. CASE ~Has(t)
    BY <1>2, <1>12, <2>1, <2>2, KnowSame DEF CallLoader, StopProcess
  <2>3. CASE Has(t)
    <3>1. Goto(t, "wren") /\ UNCHANGED load
      BY <1>12, <2>3 DEF CallLoader
    <3>2. r.source = 3
      BY <1>3, <2>1 DEF Source
    <3>3. r.stable => Knows("wren", r, T, answer)
      BY <1>6, <2>1, <3>2 DEF Knows
    <3> QED
      BY <1>7, <2>1, <3>1, <3>3
  <2> QED
    BY <2>2, <2>3
<1>13. CASE LoaderReturns(t)
  <2>1. pc[t] = "wren" /\ r.seen /\ UNCHANGED frames
    BY <1>3, <1>6, <1>13 DEF LoaderReturns
  <2>2. CASE StopProcess("exited")
    BY <1>2, <2>1, <2>2, KnowSame DEF StopProcess
  <2>3. CASE Get(t, "wren_loader") /\ Goto(t, Found(t))
    <3>1. CASE r.stable
      <4>1. Source[r.source] = "wren_loader"
        BY <1>6, <2>1, <3>1 DEF Knows, Source
      <4> QED
        BY <1>10, <2>1, <2>3, <4>1
    <3>2. CASE ~r.stable
      <4>1. "wren_loader" \in Sources \cup {"game", "nothing"}
        BY DEF Sources
      <4>2. /\ load'[t] \in Load /\ load'[t] = [r EXCEPT !.got = "wren_loader"]
            /\ \A u \in Threads : u # t => load'[u] = load[u]
        BY <1>1, <1>2, <2>3, <4>1, Gotten
      <4>3. /\ load'[t].asset = r.asset /\ load'[t].seen = r.seen
            /\ load'[t].stable = r.stable
        BY <1>3, <4>2 DEF Load
      <4> QED
        BY <1>0, <1>7, <2>1, <2>3, <3>2, <4>2, <4>3
    <3> QED
      BY <1>3, <3>1, <3>2
  <2> QED
    BY <1>13, <2>2, <2>3 DEF LoaderReturns
<1>14. CASE RemoveHook(t)
  <2>1. pc[t] = "remove" /\ r.seen /\ UNCHANGED load /\ Goto(t, "call")
    BY <1>3, <1>6, <1>14 DEF RemoveHook
  <2>2. \A u \in Threads : u # t => frames'[u] = frames[u]
    BY <1>1, <1>14 DEF RemoveHook, TypeOK
  <2>3. r.stable => Knows("call", r, T, answer)
    BY <1>6, <2>1 DEF Knows
  <2> QED
    BY <1>7, <2>1, <2>2, <2>3
<1>15. CASE CallOriginal(t)
  <2>1. pc[t] = "call" /\ r.seen /\ UNCHANGED frames /\ Mode(t, FALSE)
    BY <1>3, <1>6, <1>15 DEF CallOriginal
  <2>2. PICK place \in {"lookup", "running"} : Goto(t, place)
    BY <1>15 DEF CallOriginal
  <2>3. /\ load'[t] = [r EXCEPT !.fallback_mode = FALSE]
        /\ \A u \in Threads : u # t => load'[u] = load[u]
    BY <1>1, <1>2, <2>1, Moded
  <2>4. /\ load'[t].asset = r.asset /\ load'[t].seen = r.seen
        /\ load'[t].stable = r.stable /\ load'[t].fallback_mode = FALSE
    BY <1>3, <2>3 DEF Load
  <2>5. r.stable => Knows(place, load'[t], T, answer)
    BY <1>6, <2>1, <2>4 DEF Knows
  <2>6. frames'[t] # <<>>
    BY <1>1, <2>1 DEF TypeOK
  <2> QED
    BY <1>7, <2>1, <2>2, <2>3, <2>4, <2>5, <2>6
<1>16. CASE OriginalReturns(t)
  <2>1. pc[t] = "running" /\ Get(t, answer) /\ Goto(t, CallerOf(t)) /\ UNCHANGED frames
    BY <1>16 DEF OriginalReturns, answer
  <2>2. answer \in Sources \cup {"game", "nothing"}
    BY <1>4
  <2>3. /\ load'[t] = [r EXCEPT !.got = answer]
        /\ \A u \in Threads : u # t => load'[u] = load[u]
    BY <1>1, <1>2, <2>1, <2>2, Gotten
  <2>4. /\ load'[t].asset = r.asset /\ load'[t].seen = r.seen
        /\ load'[t].stable = r.stable /\ load'[t].got = answer
    BY <1>3, <2>3 DEF Load
  <2>5. CASE ~r.seen
    BY <1>6, <1>7, <2>1, <2>3, <2>4, <2>5 DEF CallerOf
  <2>6. CASE r.seen
    <3>1. CallerOf(t) = "returned"
      BY <1>6, <2>1, <2>6 DEF CallerOf
    <3>2. ASSUME r.stable PROVE Knows("returned", load'[t], T, answer)
      <4>1. Passed(T)
        BY <1>6, <2>1, <2>6, <3>2 DEF Knows
      <4>2. answer # "nothing" => answer = Promised(T, answer)
        BY <1>4, <4>1 DEF Passed, Promised
      <4> QED
        BY <2>4, <4>2 DEF Knows
    <3> QED
      BY <1>7, <2>1, <2>3, <2>4, <2>6, <3>1, <3>2
  <2> QED
    BY <1>3, <2>5, <2>6
<1>17. CASE TestLoaded(t)
  <2>1. pc[t] = "returned" /\ r.seen /\ UNCHANGED frames
    BY <1>3, <1>6, <1>17 DEF TestLoaded
  <2>2. CASE r.got = "nothing"
    <3>1. Mode(t, TRUE) /\ Goto(t, "lookup")
      BY <1>17, <2>2 DEF TestLoaded
    <3>2. /\ load'[t] = [r EXCEPT !.fallback_mode = TRUE]
          /\ \A u \in Threads : u # t => load'[u] = load[u]
      BY <1>1, <1>2, <3>1, Moded
    <3>3. /\ load'[t].asset = r.asset /\ load'[t].seen = r.seen
          /\ load'[t].stable = r.stable /\ load'[t].got = r.got
      BY <1>3, <3>2 DEF Load
    <3>4. r.stable => Knows("lookup", load'[t], T, answer)
      BY <1>6, <2>1, <2>2, <3>3 DEF Knows
    <3> QED
      BY <1>7, <2>1, <3>1, <3>2, <3>3, <3>4
  <2>3. CASE r.got # "nothing"
    <3>1. UNCHANGED load /\ Goto(t, "scope")
      BY <1>17, <2>3 DEF TestLoaded
    <3>2. r.stable => Knows("scope", r, T, answer)
      BY <1>6, <2>1, <2>3 DEF Knows
    <3> QED
      BY <1>7, <2>1, <3>1, <3>2
  <2> QED
    BY <2>2, <2>3
<1>18. CASE EndScope(t)
  <2>1. pc[t] = "scope" /\ r.seen /\ UNCHANGED load
    BY <1>3, <1>6, <1>18 DEF EndScope
  <2>2. \A u \in Threads : u # t => frames'[u] = frames[u]
    BY <1>1, <1>18 DEF EndScope, TypeOK
  <2>3. PICK place \in {"done", "returned"} : Goto(t, place)
    BY <1>18 DEF EndScope
  <2>4. ASSUME r.stable PROVE Knows(place, r, T, answer)
    <3>1. r.got = Promised(T, answer)
      BY <1>6, <2>1, <2>4 DEF Knows
    <3>2. CASE answer = "nothing"
      BY <3>1, <3>2 DEF Knows
    <3>3. CASE answer # "nothing"
      BY <1>1, <1>3, <3>1, <3>3, PromisedSomething DEF Knows, TypeOK
    <3> QED
      BY <3>2, <3>3
  <2> QED
    BY <1>7, <2>1, <2>2, <2>3, <2>4
<1>19. CASE TakeArchive(t)
  <2>1. Goto(t, "idle") /\ load' = [load EXCEPT ![t] = NoLoad] /\ UNCHANGED frames
    BY <1>19 DEF TakeArchive
  <2>2. \A u \in Threads : u # t => load'[u] = load[u]
    BY <1>1, <2>1 DEF TypeOK
  <2>3. "idle" \notin LoadPlace
    BY DEF LoadPlace
  <2> QED
    BY <1>7, <2>1, <2>2, <2>3
<1> QED
  BY <1>8, <1>9, <1>11, <1>12, <1>13, <1>14, <1>15, <1>16, <1>17, <1>18, <1>19
  DEF LoadStep

(* A load begins, Wren code begins and ends. *)
LEMMA KnowBegin ==
  ASSUME Locked, LoadKnows, NEW t \in Threads,
         \/ \E a \in Assets : Enter(t, a)
         \/ StartScript(t)
         \/ EndScript(t)
  PROVE  LoadKnows'
<1>1. TypeOK /\ load \in [Threads -> {NoLoad} \cup Load]
  BY DEF Locked, Typed, TypeOK
<1>2. ASSUME NEW a \in Assets, Enter(t, a) PROVE LoadKnows'
  <2> DEFINE stable == \A u \in Threads : ~Changes(u, a)
             r == [asset |-> a, fallback_mode |-> FALSE, source |-> 1,
                   got |-> "nothing", seen |-> installed, stable |-> stable]
  <2>1. load'[t] = r /\ \A u \in Threads : u # t => load'[u] = load[u]
    BY <1>1, <1>2 DEF Enter
  <2>2. /\ UNCHANGED <<target, writing, packaged, frames>> /\ frames[t] = <<>>
        /\ Goto(t, IF installed THEN "lookup" ELSE "running")
    BY <1>1, <1>2 DEF Enter, hookVars, wrenVars, TypeOK
  <2>3. Knows("lookup", r, target[a], GameLoads(a))
    BY DEF Knows
  <2>4. r.asset = a /\ r.seen = installed /\ (r.stable <=> stable)
    OBVIOUS
  <2> HIDE DEF r
  <2>5. CASE installed
    BY <2>1, <2>2, <2>3, <2>4, <2>5, KnowMove
  <2>6. CASE ~installed
    BY <2>1, <2>2, <2>4, <2>6, KnowMove
  <2> QED
    BY <2>5, <2>6
<1>3. CASE StartScript(t) \/ EndScript(t)
  <2>1. /\ UNCHANGED <<target, writing, packaged, frames, load>>
        /\ Goto(t, "script") \/ Goto(t, "idle")
    BY <1>3 DEF StartScript, EndScript, wrenVars
  <2>2. "script" \notin LoadPlace /\ "idle" \notin LoadPlace
    BY DEF LoadPlace
  <2> QED
    BY <2>1, <2>2, KnowMove
<1> QED
  BY <1>2, <1>3

(* Only the loads of an asset in A see the change. *)
LEMMA KnowDisturbed ==
  ASSUME Locked, LoadKnows, NEW A, Disturb(A), UNCHANGED <<pc, frames, packaged>>,
         \A b \in Assets \ A :
           /\ target'[b] = target[b]
           /\ \A v \in Threads : Changes(v, b)' => Changes(v, b)
  PROVE  LoadKnows'
<1>1. TypeOK
  BY DEF Locked, Typed
<1>2. ASSUME NEW u \in Threads, pc[u] \in LoadPlace
      PROVE  Bypassed(u)' /\ Undisturbed(u)'
  <2>1. load[u] \in Load /\ load[u].asset \in Assets
    BY <1>1, <1>2, Loaded
  <2>2. Bypassed(u) /\ Undisturbed(u)
    BY <1>2 DEF LoadKnows
  <2>3. CASE load[u].asset \in A
    <3>1. load'[u] = [load[u] EXCEPT !.stable = FALSE]
      BY <2>3 DEF Disturb
    <3>2. load'[u].seen = load[u].seen /\ load'[u].stable = FALSE
      BY <2>1, <3>1 DEF Load
    <3> QED
      BY <2>2, <3>2 DEF Bypassed, Undisturbed
  <2>4. CASE load[u].asset \notin A
    <3>1. load'[u] = load[u]
      BY <2>4 DEF Disturb
    <3>2. PICK a \in Assets \ A : a = load[u].asset
      BY <2>1, <2>4
    <3>3. /\ target'[a] = target[a]
          /\ \A v \in Threads : Changes(v, a)' => Changes(v, a)
      OBVIOUS
    <3>4. Bypassed(u)'
      BY <2>2, <3>1 DEF Bypassed
    <3> QED
      BY <2>2, <3>1, <3>2, <3>3, <3>4 DEF Undisturbed, Changes, Inserting, GameLoads
  <2> QED
    BY <2>3, <2>4
<1> QED
  BY <1>2 DEF LoadKnows

LEMMA KnowChange ==
  ASSUME Locked, LoadKnows, NEW t \in Threads, WrenWrite(t)
  PROVE  LoadKnows'
<1>1. /\ target \in [Assets -> {Unhooked} \cup Targets]
      /\ writing \in [Threads -> {NoWrite} \cup Write]
  BY DEF Locked, Typed, TypeOK
<1>2. UNCHANGED <<pc, frames, packaged>>
  BY DEF WrenWrite, register_asset_hook, set_source, disable, setFallback, CanWrite
<1>3. ASSUME NEW a \in Assets, register_asset_hook(t, a) PROVE LoadKnows'
  <2>1. CASE UNCHANGED <<writing, load>>
    BY <1>2, <1>3, <2>1, KnowSame DEF register_asset_hook
  <2>2. CASE Disturb(Assets)
    BY <1>2, <2>2, KnowDisturbed
  <2> QED
    BY <1>3, <2>1, <2>2 DEF register_asset_hook
<1>4. ASSUME NEW a \in Assets, NEW s \in Sources, set_source(t, a, s)
      PROVE  LoadKnows'
  <2>1. /\ target' = [target EXCEPT ![a].sources = {}] /\ Disturb({a})
        /\ writing' = [writing EXCEPT ![t] = [what |-> s, asset |-> a]]
    BY <1>4 DEF set_source
  <2>2. s # "entry"
    BY DEF Sources
  <2>3. ASSUME NEW b \in Assets \ {a}
        PROVE  /\ target'[b] = target[b]
               /\ \A v \in Threads : Changes(v, b)' => Changes(v, b)
    <3>1. target'[b] = target[b]
      BY <1>1, <2>1
    <3>2. ASSUME NEW v \in Threads, Changes(v, b)' PROVE Changes(v, b)
      <4>1. CASE v = t
        <5>1. writing'[t] = [what |-> s, asset |-> a]
          BY <1>1, <2>1
        <5>2. ~Changes(t, b)'
          BY <2>2, <5>1 DEF Changes, Inserting
        <5> QED
          BY <3>2, <4>1, <5>2
      <4>2. CASE v # t
        BY <1>1, <2>1, <3>2, <4>2 DEF Changes, Inserting
      <4> QED
        BY <4>1, <4>2
    <3> QED
      BY <3>1, <3>2
  <2> QED
    BY <1>2, <2>1, <2>3, KnowDisturbed
<1>5. ASSUME NEW a \in Assets,
             disable(t, a) \/ \E val \in BOOLEAN : setFallback(t, a, val)
      PROVE  LoadKnows'
  <2>1. Disturb({a}) /\ UNCHANGED writing
    BY <1>5 DEF disable, setFallback
  <2>2. \A b \in Assets \ {a} : target'[b] = target[b]
    BY <1>1, <1>5 DEF disable, setFallback
  <2>3. \A b \in Assets \ {a} : \A v \in Threads : Changes(v, b)' => Changes(v, b)
    BY <2>1 DEF Changes, Inserting
  <2> QED
    BY <1>2, <2>1, <2>2, <2>3, KnowDisturbed
<1> QED
  BY <1>3, <1>4, <1>5 DEF WrenWrite

LEMMA KnowFinish ==
  ASSUME Locked, LoadKnows, NEW t \in Threads, FinishWrite(t)
  PROVE  LoadKnows'
<1>1. /\ target \in [Assets -> {Unhooked} \cup Targets]
      /\ writing \in [Threads -> {NoWrite} \cup Write]
      /\ writing[t] # NoWrite
      /\ UNCHANGED <<pc, load, frames, packaged>>
  BY DEF Locked, Typed, TypeOK, FinishWrite
<1>2. CASE UNCHANGED <<target, writing>>
  BY <1>1, <1>2, KnowSame
<1>3. CASE ~UNCHANGED <<target, writing>>
  <2>1. /\ writing' = [writing EXCEPT ![t] = NoWrite]
        /\ \A b \in Assets : b # writing[t].asset => target'[b] = target[b]
    BY <1>1, <1>3 DEF FinishWrite
  <2>2. ASSUME NEW v \in Threads, NEW b, Changes(v, b)' PROVE Changes(v, b)
    <3>1. v # t
      BY <1>1, <2>1, <2>2 DEF Changes, Inserting
    <3> QED
      BY <1>1, <2>1, <2>2, <3>1 DEF Changes, Inserting
  <2>3. ASSUME NEW u \in Threads, pc[u] \in LoadPlace
        PROVE  Bypassed(u)' /\ Undisturbed(u)'
    <3>1. load[u].asset \in Assets /\ Bypassed(u) /\ Undisturbed(u)
      BY <2>3, Loaded DEF Locked, Typed, LoadKnows
    <3>2. Bypassed(u)'
      BY <1>1, <3>1 DEF Bypassed
    <3>3. PICK a \in Assets : a = load[u].asset
      BY <3>1
    <3>4. ASSUME load[u].seen, load[u].stable
          PROVE  target'[a] = target[a] /\ \A v \in Threads : ~Changes(v, a)'
      <4>1. \A v \in Threads : ~Changes(v, a)
        BY <3>1, <3>3, <3>4 DEF Undisturbed
      <4>2. writing[t].asset # a
        BY <1>1, <4>1 DEF Changes
      <4> QED
        BY <2>1, <2>2, <4>1, <4>2
    <3> QED
      BY <1>1, <3>1, <3>2, <3>3, <3>4 DEF Undisturbed, Changes, Inserting, GameLoads
  <2> QED
    BY <1>1, <2>3 DEF LoadKnows
<1> QED
  BY <1>2, <1>3

LEMMA KnowNext == Locked /\ LoadKnows /\ [Next]_vars => LoadKnows'
<1> SUFFICES ASSUME Locked, LoadKnows, [Next]_vars PROVE LoadKnows'
  OBVIOUS
<1>1. CASE UNCHANGED vars
  BY <1>1, KnowSame DEF vars, hookVars, wrenVars
<1>2. CASE Next
  BY <1>2, KnowBegin, KnowLoad, KnowChange, KnowFinish DEF Next, WrenStep
<1> QED
  BY <1>1, <1>2

(* A load that was hooked, and that no change overlapped with, gets what    *)
(* its target says.                                                         *)
THEOREM StableLoadsHold == Spec => []StableLoads
<1>1. Locked /\ LoadKnows => StableLoads
  BY DEF LoadKnows, Undisturbed, Knows, StableLoads, Expected, LoadPlace
<1>2. Locked /\ LoadKnows /\ [Next]_vars => (Locked /\ LoadKnows)'
  BY LockedNext, KnowNext
<1> QED
  BY <1>1, <1>2, LockInit, KnowInit, PTL DEF Spec

(* A crash has a load that a change overlapped with.                        *)
LEMMA CrashStep ==
  ASSUME Locked, LoadKnows, Next, status' = "crashed"
  PROVE  \E t \in Threads : pc[t] \in LoadPlace /\ ~load[t].stable
<1>1. PICK t \in Threads : LookUp(t) \/ OpenSource(t) \/ CallLoader(t)
  BY DEF Next, Enter, LoadStep, TestSource, LoaderReturns, RemoveHook, CallOriginal,
     OriginalReturns, TestLoaded, EndScope, TakeArchive, StartScript, WrenWrite,
     register_asset_hook, set_source, disable, setFallback, WrenStep, FinishWrite,
     EndScript, StopProcess
<1>2. status = "running" /\ pc[t] \in {"lookup", "use"} /\ pc[t] \in LoadPlace
  BY <1>1 DEF Next, LookUp, OpenSource, CallLoader, LoadPlace
<1>3. load[t].seen /\ Undisturbed(t)
  BY <1>2 DEF LoadKnows, Bypassed
<1>4. SUFFICES ASSUME load[t].stable PROVE FALSE
  BY <1>2
<1>5. /\ \A u \in Threads : ~Changes(u, load[t].asset)
      /\ Knows(pc[t], load[t], target[load[t].asset], GameLoads(load[t].asset))
  BY <1>3, <1>4 DEF Undisturbed
<1>6. CASE LookUp(t)
  BY <1>2, <1>5, <1>6 DEF LookUp, Changes
<1>7. CASE OpenSource(t) \/ CallLoader(t)
  <2>1. pc[t] = "use" /\ ~Has(t)
    BY <1>2, <1>7 DEF OpenSource, CallLoader, StopProcess
  <2> QED
    BY <1>5, <2>1 DEF Knows, Has
<1> QED
  BY <1>1, <1>6, <1>7

(* The process crashes only in a load that a change overlapped with.        *)
THEOREM CrashesAreOverlaps == Spec => CrashOnlyByOverlap
<1>1. Locked /\ LoadKnows /\ [Next]_vars => (Locked /\ LoadKnows)'
  BY LockedNext, KnowNext
<1>2. Locked /\ LoadKnows /\ [Next]_vars =>
        [status' = "crashed" => \E t \in Threads :
           pc[t] \in LoadPlace /\ ~load[t].stable]_vars
  BY CrashStep
<1> QED
  BY <1>1, <1>2, LockInit, KnowInit, PTL DEF Spec, CrashOnlyByOverlap
=============================================================================
