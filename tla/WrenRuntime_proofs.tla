-------------------------- MODULE WrenRuntime_proofs --------------------------
(***************************************************************************)
(* The Wren VM and the tweaks of parsed files, for any number of threads   *)
(* and files; at the end, what scripts may import, for any mods.           *)
(***************************************************************************)
EXTENDS WrenRuntime, WrenModules, FiniteSetTheorems, SequenceTheorems, TLAPS

Loads == [file : Files \cup {NoFile}, alone : BOOLEAN, expected : BOOLEAN,
          failed : BOOLEAN, parsed : Texts \cup {"none"},
          tweakedAs : Files \cup {NoFile}]

WrenTypes ==
  /\ lastLoaded \in Files \cup {NoFile} /\ last_parsed \in Files \cup {NoFile}
  /\ ignored_files \subseteq Files
  /\ tweaker_enabled \in BOOLEAN /\ patched \in BOOLEAN
  /\ vm \in {"none", "ready", "unavailable"}
  /\ vm_mutex \in Threads \cup {NoThread}
  /\ exposed_mutex \in Threads \cup {NoThread}
  /\ exposed \in BOOLEAN /\ callHandles \in Int
  /\ frames \in [Threads -> Seq(Frame)]
  /\ buffers \subseteq Threads \X Nat
  /\ load \in [Threads -> Loads]
  /\ invocation \in {"idle", "find", "look", "lock", "wren"}
  /\ bounds \in [loads : Nat, invokes : Nat, failures : Nat]
  /\ wrenState \in {"running", "exited", "undefined"}

-----------------------------------------------------------------------------
(* What the steps do to the calls of the parser. *)

(* Two calls that differ at most in whether Wren may collect their text. *)
Alike(f, g) ==
  /\ f.at = g.at /\ f.removed = g.removed /\ f.buffer = g.buffer
  /\ f.tested = g.tested /\ f.tweakedAs = g.tweakedAs /\ f.text = g.text

(* The innermost call of thread t is as top says, no call begins or ends. *)
Replaced(t, top) ==
  /\ frames' \in [Threads -> Seq(Frame)]
  /\ \A u \in Threads : Depth(u)' = Depth(u)
  /\ \A u \in Threads : \A i \in DOMAIN frames[u] :
       u # t \/ i < Depth(u) => Alike(frames'[u][i], frames[u][i])
  /\ Top(t)' = top

LEMMA Stacks ==
  ASSUME WrenTypes, NEW t \in Threads
  PROVE  /\ frames[t] \in Seq(Frame) /\ Depth(t) \in Nat
         /\ DOMAIN frames[t] = 1..Depth(t)
         /\ \A i \in DOMAIN frames[t] : frames[t][i] \in Frame
         /\ Depth(t) > 0 => Top(t) \in Frame /\ Depth(t) \in DOMAIN frames[t]
<1>1. /\ frames[t] \in Seq(Frame) /\ Depth(t) \in Nat
      /\ DOMAIN frames[t] = 1..Depth(t)
      /\ \A i \in DOMAIN frames[t] : frames[t][i] \in Frame
  BY DEF WrenTypes, Depth
<1> QED
  BY <1>1 DEF Top

LEMMA Went ==
  ASSUME WrenTypes, NEW t \in Threads, Depth(t) > 0, NEW top \in Frame, Go(t, top)
  PROVE  /\ Replaced(t, top)
         /\ \A u \in Threads \ {t} : frames'[u] = frames[u]
<1>1. /\ frames[t] \in Seq(Frame) /\ Depth(t) \in Nat /\ Depth(t) = Len(frames[t])
      /\ DOMAIN frames[t] = 1..Depth(t) /\ Depth(t) \in DOMAIN frames[t]
  BY Stacks DEF Depth
<1>2. /\ frames' = [frames EXCEPT ![t] = [frames[t] EXCEPT ![Depth(t)] = top]]
      /\ frames \in [Threads -> Seq(Frame)]
  BY DEF Go, Depth, WrenTypes
<1> DEFINE s == [frames[t] EXCEPT ![Depth(t)] = top]
<1>3. /\ s \in Seq(Frame) /\ Len(s) = Depth(t) /\ s[Depth(t)] = top
      /\ \A i \in DOMAIN frames[t] : i < Depth(t) => s[i] = frames[t][i]
  <2>1. s \in Seq(Frame) /\ Len(s) = Depth(t)
    BY <1>1
  <2> QED
    BY <1>1, <2>1
<1> HIDE DEF s
<1>4. /\ frames' \in [Threads -> Seq(Frame)] /\ frames'[t] = s
      /\ \A u \in Threads \ {t} : frames'[u] = frames[u]
  BY <1>2, <1>3 DEF s
<1> QED
  BY <1>3, <1>4 DEF Replaced, Depth, Top, Alike

(* Only the step of the innermost call changes. *)
LEMMA ToDoes ==
  ASSUME WrenTypes, NEW t \in Threads, Depth(t) > 0, NEW step \in Steps, To(t, step)
  PROVE  \E top \in Frame :
           /\ Replaced(t, top) /\ top.at = step
           /\ top.removed = Top(t).removed /\ top.tested = Top(t).tested
           /\ top.tweakedAs = Top(t).tweakedAs /\ top.text = Top(t).text
           /\ top.loose = Top(t).loose /\ top.buffer = Top(t).buffer
<1> DEFINE top == [Top(t) EXCEPT !.at = step]
<1>1. Top(t) \in Frame
  BY Stacks
<1>2. /\ top \in Frame /\ top.at = step
      /\ top.removed = Top(t).removed /\ top.tested = Top(t).tested
      /\ top.tweakedAs = Top(t).tweakedAs /\ top.text = Top(t).text
      /\ top.loose = Top(t).loose /\ top.buffer = Top(t).buffer
  BY <1>1 DEF Frame
<1>3. Go(t, top)
  BY DEF To
<1> HIDE DEF top
<1>4. Replaced(t, top)
  BY <1>2, <1>3, Went
<1> QED
  BY <1>2, <1>4

LEMMA RemovePatchDoes ==
  ASSUME WrenTypes, NEW t \in Threads, RemovePatch(t)
  PROVE  /\ At(t, "entered") /\ patched' = FALSE
         /\ UNCHANGED <<tweakVars, buffers, vmVars, load, invocation, bounds, wrenState>>
         /\ \E top \in Frame :
              /\ Replaced(t, top) /\ top.at = "test"
              /\ top.removed = patched /\ top.tested = Top(t).tested
              /\ top.tweakedAs = Top(t).tweakedAs /\ top.text = Top(t).text
              /\ top.loose = Top(t).loose /\ top.buffer = Top(t).buffer
<1> DEFINE top == [Top(t) EXCEPT !.at = "test", !.removed = patched]
<1>1. Top(t) \in Frame /\ Depth(t) > 0 /\ patched \in BOOLEAN
  BY Stacks DEF RemovePatch, At, WrenTypes
<1>2. /\ top \in Frame /\ top.at = "test"
      /\ top.removed = patched /\ top.tested = Top(t).tested
      /\ top.tweakedAs = Top(t).tweakedAs /\ top.text = Top(t).text
      /\ top.loose = Top(t).loose /\ top.buffer = Top(t).buffer
  BY <1>1 DEF Frame, Steps
<1>3. Go(t, top)
  BY DEF RemovePatch
<1> HIDE DEF top
<1>4. Replaced(t, top)
  BY <1>1, <1>2, <1>3, Went
<1> QED
  BY <1>2, <1>4 DEF RemovePatch

LEMMA TestFileDoes ==
  ASSUME WrenTypes, NEW t \in Threads, TestFile(t)
  PROVE  /\ At(t, "test")
         /\ UNCHANGED <<tweakVars, patched, buffers, vmVars, load, invocation, bounds,
                       wrenState>>
         /\ \E top \in Frame :
              /\ Replaced(t, top) /\ top.at = (IF Skipped(t) THEN "call" ELSE "set")
              /\ top.removed = Top(t).removed /\ top.tested = lastLoaded
              /\ top.tweakedAs = Top(t).tweakedAs /\ top.text = Top(t).text
              /\ top.loose = Top(t).loose /\ top.buffer = Top(t).buffer
<1> DEFINE top == [Top(t) EXCEPT !.at = IF Skipped(t) THEN "call" ELSE "set",
                               !.tested = lastLoaded]
<1>1. Top(t) \in Frame /\ Depth(t) > 0 /\ lastLoaded \in Files \cup {NoFile}
  BY Stacks DEF TestFile, At, WrenTypes
<1>2. /\ top \in Frame /\ top.at = (IF Skipped(t) THEN "call" ELSE "set")
      /\ top.removed = Top(t).removed /\ top.tested = lastLoaded
      /\ top.tweakedAs = Top(t).tweakedAs /\ top.text = Top(t).text
      /\ top.loose = Top(t).loose /\ top.buffer = Top(t).buffer
  BY <1>1 DEF Frame, Steps
<1>3. Go(t, top)
  BY DEF TestFile
<1> HIDE DEF top
<1>4. Replaced(t, top)
  BY <1>1, <1>2, <1>3, Went
<1> QED
  BY <1>2, <1>4 DEF TestFile

LEMMA TweakFailsDoes ==
  ASSUME WrenTypes, NEW t \in Threads, TweakFails(t)
  PROVE  /\ At(t, "wren") /\ vm_mutex' = NoThread
         /\ load' = [load EXCEPT ![t].failed = TRUE]
         /\ bounds' = [bounds EXCEPT !.failures = @ + 1]
         /\ UNCHANGED <<tweakVars, patched, buffers, vm, exposed_mutex, exposed, callHandles,
                       invocation, wrenState>>
         /\ \E top \in Frame :
              /\ Replaced(t, top) /\ top.at = "call"
              /\ top.removed = Top(t).removed /\ top.tested = Top(t).tested
              /\ top.tweakedAs = NoFile /\ top.text = Top(t).text
              /\ top.loose = Top(t).loose /\ top.buffer = Top(t).buffer
<1> DEFINE top == [Top(t) EXCEPT !.at = "call", !.tweakedAs = NoFile]
<1>1. Top(t) \in Frame /\ Depth(t) > 0
  BY Stacks DEF TweakFails, At, WrenTypes
<1>2. /\ top \in Frame /\ top.at = "call"
      /\ top.removed = Top(t).removed /\ top.tested = Top(t).tested
      /\ top.tweakedAs = NoFile /\ top.text = Top(t).text
      /\ top.loose = Top(t).loose /\ top.buffer = Top(t).buffer
  BY <1>1 DEF Frame, Steps
<1>3. Go(t, top)
  BY DEF TweakFails
<1> HIDE DEF top
<1>4. Replaced(t, top)
  BY <1>1, <1>2, <1>3, Went
<1> QED
  BY <1>2, <1>4 DEF TweakFails

LEMMA TweakReturnsDoes ==
  ASSUME WrenTypes, NEW t \in Threads, TweakReturns(t)
  PROVE  /\ At(t, "wren") /\ vm_mutex' = NoThread
         /\ callHandles' = callHandles - 2
         /\ UNCHANGED <<tweakVars, patched, buffers, vm, exposed_mutex, exposed, load,
                       invocation, bounds, wrenState>>
         /\ \E top \in Frame :
              /\ Replaced(t, top) /\ top.at = "copy"
              /\ top.removed = Top(t).removed /\ top.tested = Top(t).tested
              /\ top.tweakedAs = Top(t).tweakedAs /\ top.text = Tweak(Top(t).text)
              /\ top.loose = Top(t).loose /\ top.buffer = Top(t).buffer
<1> DEFINE top == [Top(t) EXCEPT !.at = "copy", !.text = Tweak(@)]
<1>1. Top(t) \in Frame /\ Depth(t) > 0
  BY Stacks DEF TweakReturns, At, WrenTypes
<1>2. /\ top \in Frame /\ top.at = "copy"
      /\ top.removed = Top(t).removed /\ top.tested = Top(t).tested
      /\ top.tweakedAs = Top(t).tweakedAs /\ top.text = Tweak(Top(t).text)
      /\ top.loose = Top(t).loose /\ top.buffer = Top(t).buffer
  BY <1>1 DEF Frame, Steps, Texts, Tweak
<1>3. Go(t, top)
  BY DEF TweakReturns
<1> HIDE DEF top
<1>4. Replaced(t, top)
  BY <1>1, <1>2, <1>3, Went
<1> QED
  BY <1>2, <1>4 DEF TweakReturns

LEMMA CopyTextDoes ==
  ASSUME WrenTypes, NEW t \in Threads, CopyText(t)
  PROVE  /\ At(t, "insert")
         /\ buffers' = buffers \cup {<<t, Depth(t)>>}
         /\ UNCHANGED <<tweakVars, patched, vmVars, load, invocation, bounds, wrenState>>
         /\ \E top \in Frame :
              /\ Replaced(t, top) /\ top.at = "call" /\ top.removed = Top(t).removed
              /\ ~Top(t).loose => top.text = Top(t).text
              /\ top.tweakedAs = Top(t).tweakedAs /\ top.buffer = Depth(t)
<1>1. PICK text \in {Top(t).text} \cup (IF Top(t).loose THEN {"garbled"} ELSE {}) :
        Go(t, [Top(t) EXCEPT !.at = "call", !.text = text, !.buffer = Depth(t)])
  BY DEF CopyText
<1> DEFINE top == [Top(t) EXCEPT !.at = "call", !.text = text, !.buffer = Depth(t)]
<1>2. Top(t) \in Frame /\ Depth(t) > 0 /\ Depth(t) \in Nat
  BY Stacks DEF CopyText, At
<1>3. text \in Texts /\ (~Top(t).loose => text = Top(t).text)
  BY <1>1, <1>2 DEF Frame, Texts
<1>4. /\ top \in Frame /\ top.at = "call" /\ top.removed = Top(t).removed
      /\ top.text = text
      /\ top.tweakedAs = Top(t).tweakedAs /\ top.buffer = Depth(t)
  BY <1>2, <1>3 DEF Frame, Steps
<1>5. Go(t, top)
  BY <1>1
<1> HIDE DEF top
<1>6. Replaced(t, top)
  BY <1>2, <1>4, <1>5, Went
<1> QED
  BY <1>3, <1>4, <1>6 DEF CopyText

(* Texts that may be collected: nothing else of the calls changes. *)
LEMMA LoosenedAre ==
  ASSUME WrenTypes
  PROVE  /\ Loosened \in [Threads -> Seq(Frame)]
         /\ \A u \in Threads : Len(Loosened[u]) = Depth(u)
         /\ \A u \in Threads : \A i \in DOMAIN frames[u] : Alike(Loosened[u][i], frames[u][i])
<1>1. ASSUME NEW u \in Threads, NEW i \in DOMAIN frames[u]
      PROVE  /\ Loosened[u][i] \in Frame
             /\ Alike(Loosened[u][i], frames[u][i])
  <2>1. frames[u][i] \in Frame
    BY <1>1, Stacks
  <2>2. Loosened[u][i] = IF frames[u][i].at \in {"copy", "insert"}
                         THEN [frames[u][i] EXCEPT !.loose = TRUE] ELSE frames[u][i]
    BY <1>1 DEF Loosened
  <2>3. /\ [frames[u][i] EXCEPT !.loose = TRUE] \in Frame
        /\ Alike([frames[u][i] EXCEPT !.loose = TRUE], frames[u][i])
    BY <2>1 DEF Frame, Alike
  <2> QED
    BY <2>1, <2>2, <2>3 DEF Alike
<1>2. ASSUME NEW u \in Threads
      PROVE  Loosened[u] \in Seq(Frame) /\ Len(Loosened[u]) = Depth(u)
  <2>1. DOMAIN frames[u] = 1..Depth(u) /\ Depth(u) \in Nat
    BY Stacks
  <2>2. /\ Loosened[u] = [i \in 1..Depth(u) |-> Loosened[u][i]]
        /\ \A i \in 1..Depth(u) : Loosened[u][i] \in Frame
    BY <1>1, <2>1 DEF Loosened
  <2> QED
    BY <2>1, <2>2
<1>3. Loosened = [u \in Threads |-> Loosened[u]]
  BY DEF Loosened
<1> QED
  BY <1>1, <1>2, <1>3

LEMMA EnterWrenDoes ==
  ASSUME WrenTypes, NEW t \in Threads, EnterWren(t)
  PROVE  /\ At(t, "lock") /\ vm_mutex = NoThread /\ vm' \in {"none", "ready", "unavailable"}
         /\ UNCHANGED <<tweakVars, patched, buffers, exposed_mutex, exposed, invocation,
                        bounds, wrenState>>
         /\ \E top \in Frame :
              /\ Replaced(t, top) /\ top.removed = Top(t).removed
              /\ top.text = Top(t).text /\ top.loose = Top(t).loose
              /\ top.buffer = Top(t).buffer
              /\ \/ /\ top.at = "wren" /\ top.tweakedAs = lastLoaded
                    /\ vm_mutex' = t /\ callHandles' = callHandles + 2 /\ load' = load
                 \/ /\ top.at = "call" /\ vm_mutex' = NoThread
                    /\ callHandles' = callHandles
                    /\ load' = [load EXCEPT ![t].failed = TRUE]
<1> DEFINE calls == vm' = "ready"
           top == [Top(t) EXCEPT !.at = IF calls THEN "wren" ELSE "call",
                                 !.tweakedAs = IF calls THEN lastLoaded ELSE NoFile]
           F == IF calls THEN Loosened ELSE frames
<1>1. /\ Top(t) \in Frame /\ Depth(t) > 0 /\ Depth(t) \in Nat
      /\ lastLoaded \in Files \cup {NoFile}
  BY Stacks DEF EnterWren, At, WrenTypes
<1>2. /\ top \in Frame /\ top.removed = Top(t).removed
      /\ top.text = Top(t).text /\ top.loose = Top(t).loose
      /\ top.buffer = Top(t).buffer
      /\ top.at = IF calls THEN "wren" ELSE "call"
      /\ top.tweakedAs = IF calls THEN lastLoaded ELSE NoFile
  BY <1>1 DEF Frame, Steps
<1>3. /\ F \in [Threads -> Seq(Frame)]
      /\ \A u \in Threads : Len(F[u]) = Depth(u)
      /\ \A u \in Threads : \A i \in DOMAIN frames[u] : Alike(F[u][i], frames[u][i])
  BY LoosenedAre DEF WrenTypes, Depth, Alike
<1>4. frames' = [F EXCEPT ![t] = [F[t] EXCEPT ![Len(F[t])] = top]]
  <2>1. frames' = [F EXCEPT ![t] = [@ EXCEPT ![Len(@)] = top]]
    BY DEF EnterWren
  <2> QED
    BY <1>3, <2>1
<1> HIDE DEF F, top
<1>5. Replaced(t, top)
  <2> DEFINE s == [F[t] EXCEPT ![Depth(t)] = top]
  <2>1. F[t] \in Seq(Frame) /\ Len(F[t]) = Depth(t) /\ DOMAIN frames[t] = 1..Depth(t)
    BY <1>3, Stacks
  <2>2. /\ s \in Seq(Frame) /\ Len(s) = Depth(t) /\ s[Depth(t)] = top
        /\ \A i \in DOMAIN frames[t] : i < Depth(t) => s[i] = F[t][i]
    <3>1. s \in Seq(Frame) /\ Len(s) = Depth(t)
      BY <1>1, <1>2, <2>1
    <3> QED
      BY <1>1, <2>1, <3>1
  <2> HIDE DEF s
  <2>3. /\ frames' \in [Threads -> Seq(Frame)] /\ frames'[t] = s
        /\ \A u \in Threads \ {t} : frames'[u] = F[u]
    BY <1>3, <1>4, <2>1, <2>2 DEF s
  <2>4. Depth(t)' = Depth(t) /\ Top(t)' = top
    BY <2>2, <2>3 DEF Depth, Top
  <2>5. \A u \in Threads : Depth(u)' = Depth(u)
    BY <1>3, <2>3, <2>4 DEF Depth
  <2>6. \A i \in DOMAIN frames[t] : i < Depth(t) => Alike(frames'[t][i], frames[t][i])
    BY <1>3, <2>2, <2>3
  <2>7. \A u \in Threads \ {t} : \A i \in DOMAIN frames[u] : Alike(frames'[u][i], frames[u][i])
    BY <1>3, <2>3
  <2> QED
    BY <2>3, <2>4, <2>5, <2>6, <2>7 DEF Replaced
<1>6. CASE calls
  BY <1>2, <1>5, <1>6 DEF EnterWren
<1>7. CASE ~calls
  <2>1. vm' \in {"none", "ready", "unavailable"}
    BY DEF EnterWren, MakeVm, WrenTypes
  <2> QED
    BY <1>2, <1>5, <1>7, <2>1 DEF EnterWren
<1> QED
  BY <1>6, <1>7

(* The innermost call of t has called the parser, which entered a call f.  *)
Pushed(t, f) ==
  /\ frames' \in [Threads -> Seq(Frame)]
  /\ \A u \in Threads \ {t} : frames'[u] = frames[u]
  /\ Depth(t)' = Depth(t) + 1 /\ Top(t)' = f
  /\ \A i \in DOMAIN frames[t] :
       IF i < Depth(t) THEN frames'[t][i] = frames[t][i]
       ELSE /\ frames'[t][i].at = "erase" /\ frames'[t][i].removed = frames[t][i].removed
            /\ frames'[t][i].buffer = frames[t][i].buffer

Entered(f, text, buffer) ==
  /\ f.at = "entered" /\ ~f.removed /\ f.text = text /\ ~f.loose /\ f.buffer = buffer

LEMMA EnteredIs ==
  ASSUME NEW text \in Texts, NEW buffer \in Nat
  PROVE  LET f == [at |-> "entered", removed |-> FALSE, tested |-> NoFile,
                   tweakedAs |-> NoFile, text |-> text, loose |-> FALSE, buffer |-> buffer]
         IN  f \in Frame /\ Entered(f, text, buffer)
  BY DEF Frame, Steps, Entered

LEMMA ParseFileDoes ==
  ASSUME WrenTypes, NEW t \in Threads, ParseFile(t)
  PROVE  /\ load[t].file # NoFile /\ load[t].parsed = "none" /\ Depth(t) = 0
         /\ UNCHANGED <<tweakVars, patched, buffers, vmVars, invocation, bounds, wrenState>>
         /\ \/ /\ patched /\ load' = [load EXCEPT ![t] = load[t]]
               /\ \E f \in Frame : Pushed(t, f) /\ Entered(f, "original", 0)
            \/ /\ ~patched /\ frames' = frames
               /\ load' = [load EXCEPT ![t] =
                    [@ EXCEPT !.parsed = "original", !.tweakedAs = NoFile]]
<1>1. CASE patched
  <2> DEFINE f == [at |-> "entered", removed |-> FALSE, tested |-> NoFile,
                   tweakedAs |-> NoFile, text |-> "original", loose |-> FALSE, buffer |-> 0]
  <2>1. f \in Frame /\ Entered(f, "original", 0)
    BY EnteredIs DEF Texts
  <2>2. frames' = [frames EXCEPT ![t] = Append(frames[t], f)]
    BY <1>1 DEF ParseFile, EnteredFrames
  <2>3. frames[t] \in Seq(Frame) /\ Depth(t) = 0 /\ Depth(t) = Len(frames[t])
    BY Stacks DEF Depth, ParseFile
  <2> HIDE DEF f
  <2>4. Append(frames[t], f) \in Seq(Frame) /\ Len(Append(frames[t], f)) = 1
        /\ Append(frames[t], f)[1] = f
    BY <2>1, <2>3
  <2>5. /\ frames' \in [Threads -> Seq(Frame)] /\ frames'[t] = Append(frames[t], f)
        /\ \A u \in Threads \ {t} : frames'[u] = frames[u]
    BY <2>2, <2>4 DEF WrenTypes
  <2>6. DOMAIN frames[t] = {}
    BY <2>3
  <2>7. Pushed(t, f)
    BY <2>3, <2>4, <2>5, <2>6 DEF Pushed, Depth, Top
  <2> QED
    BY <1>1, <2>1, <2>7 DEF ParseFile, ParsedLoad
<1>2. CASE ~patched
  <2>1. frames' = [frames EXCEPT ![t] = frames[t]]
    BY <1>2 DEF ParseFile, EnteredFrames
  <2>2. frames' = frames
    BY <2>1 DEF WrenTypes
  <2> QED
    BY <1>2, <2>2 DEF ParseFile, ParsedLoad
<1> QED
  BY <1>1, <1>2 DEF WrenTypes

LEMMA CallParserDoes ==
  ASSUME WrenTypes, NEW t \in Threads, CallParser(t)
  PROVE  /\ At(t, "call")
         /\ UNCHANGED <<tweakVars, patched, buffers, vmVars, invocation, bounds, wrenState>>
         /\ \/ /\ patched /\ load' = [load EXCEPT ![t] = load[t]]
               /\ \E f \in Frame :
                    Pushed(t, f) /\ Entered(f, Top(t).text, Top(t).buffer)
            \/ /\ ~patched
               /\ load' = [load EXCEPT ![t] =
                    [@ EXCEPT !.parsed = Top(t).text, !.tweakedAs = Top(t).tweakedAs]]
               /\ \E top \in Frame :
                    /\ Replaced(t, top) /\ top.at = "erase"
                    /\ top.removed = Top(t).removed /\ top.buffer = Top(t).buffer
<1>1. /\ frames[t] \in Seq(Frame) /\ Depth(t) \in Nat \ {0} /\ Depth(t) = Len(frames[t])
      /\ DOMAIN frames[t] = 1..Depth(t) /\ Depth(t) \in DOMAIN frames[t]
      /\ Top(t) \in Frame /\ Top(t) = frames[t][Depth(t)]
  BY Stacks DEF CallParser, At, Depth, Top
<1> DEFINE top == [Top(t) EXCEPT !.at = "erase"]
<1>2. /\ top \in Frame /\ top.at = "erase" /\ top.removed = Top(t).removed
      /\ top.buffer = Top(t).buffer
  BY <1>1 DEF Frame, Steps
<1>3. CASE patched
  <2> DEFINE f == [at |-> "entered", removed |-> FALSE, tested |-> NoFile,
                   tweakedAs |-> NoFile, text |-> Top(t).text, loose |-> FALSE,
                   buffer |-> Top(t).buffer]
             q == Append(frames[t], f)
             s == [q EXCEPT ![Depth(t)] = top]
  <2>1. f \in Frame /\ Entered(f, Top(t).text, Top(t).buffer)
    <3>1. Top(t).text \in Texts /\ Top(t).buffer \in Nat
      BY <1>1 DEF Frame
    <3> QED
      BY <3>1, EnteredIs
  <2>2. frames' = [frames EXCEPT ![t] = [q EXCEPT ![Depth(t)].at = "erase"]]
    BY <1>3 DEF CallParser, EnteredFrames
  <2> HIDE DEF f
  <2>3. /\ q \in Seq(Frame) /\ Len(q) = Depth(t) + 1 /\ q[Depth(t) + 1] = f
        /\ \A i \in DOMAIN frames[t] : q[i] = frames[t][i]
    BY <1>1, <2>1
  <2> HIDE DEF q
  <2>4. [q EXCEPT ![Depth(t)].at = "erase"] = s
    BY <1>1, <2>3
  <2> HIDE DEF top
  <2>5. /\ s \in Seq(Frame) /\ Len(s) = Depth(t) + 1
    BY <1>1, <1>2, <2>3
  <2>6. /\ s[Depth(t) + 1] = f /\ s[Depth(t)] = top
        /\ \A i \in DOMAIN frames[t] : i < Depth(t) => s[i] = frames[t][i]
    BY <1>1, <2>3, <2>5
  <2> HIDE DEF s
  <2>7. /\ frames' \in [Threads -> Seq(Frame)] /\ frames'[t] = s
        /\ \A u \in Threads \ {t} : frames'[u] = frames[u]
    BY <2>2, <2>4, <2>5 DEF WrenTypes
  <2>8. \A i \in DOMAIN frames[t] :
          IF i < Depth(t) THEN s[i] = frames[t][i]
          ELSE /\ s[i].at = "erase" /\ s[i].removed = frames[t][i].removed
               /\ s[i].buffer = frames[t][i].buffer
    <3>1. \A i \in DOMAIN frames[t] : i < Depth(t) \/ i = Depth(t)
      BY <1>1
    <3> QED
      BY <1>1, <1>2, <2>6, <3>1
  <2>9. Pushed(t, f)
    BY <2>5, <2>6, <2>7, <2>8 DEF Pushed, Depth, Top
  <2> QED
    BY <1>3, <2>1, <2>9 DEF CallParser, ParsedLoad
<1>4. CASE ~patched
  <2>1. frames' = [frames EXCEPT ![t] = [frames[t] EXCEPT ![Depth(t)].at = "erase"]]
    BY <1>4 DEF CallParser, EnteredFrames
  <2>2. [frames[t] EXCEPT ![Depth(t)].at = "erase"] = [frames[t] EXCEPT ![Depth(t)] = top]
    BY <1>1
  <2>3. Go(t, top)
    <3>1. frames' = [frames EXCEPT ![t] = [frames[t] EXCEPT ![Len(frames[t])] = top]]
      BY <1>1, <2>1, <2>2
    <3> QED
      BY <3>1 DEF Go, WrenTypes
  <2> HIDE DEF top
  <2>4. Replaced(t, top)
    BY <1>1, <1>2, <2>3, Went
  <2> QED
    BY <1>2, <1>4, <2>4 DEF CallParser, ParsedLoad
<1> QED
  BY <1>3, <1>4 DEF WrenTypes

LEMMA FreeTextDoes ==
  ASSUME WrenTypes, NEW t \in Threads, FreeText(t)
  PROVE  /\ At(t, "erasing")
         /\ buffers' = buffers \ {<<t, Top(t).buffer>>}
         /\ patched' = (patched \/ Top(t).removed)
         /\ UNCHANGED <<tweakVars, vmVars, load, invocation, bounds, wrenState>>
         /\ frames' \in [Threads -> Seq(Frame)]
         /\ \A u \in Threads \ {t} : frames'[u] = frames[u]
         /\ Depth(t)' = Depth(t) - 1
         /\ \A i \in DOMAIN frames[t] : i < Depth(t) => frames'[t][i] = frames[t][i]
<1>1. /\ frames[t] \in Seq(Frame) /\ Depth(t) \in Nat \ {0} /\ Depth(t) = Len(frames[t])
      /\ DOMAIN frames[t] = 1..Depth(t)
  BY Stacks DEF FreeText, At, Depth
<1> DEFINE s == SubSeq(frames[t], 1, Len(frames[t]) - 1)
<1>2. frames' = [frames EXCEPT ![t] = s]
  BY DEF FreeText, Front
<1>3. /\ s \in Seq(Frame) /\ Len(s) = Depth(t) - 1
      /\ \A i \in 1..(Depth(t) - 1) : s[i] = frames[t][i]
  BY <1>1
<1> HIDE DEF s
<1>4. /\ frames' \in [Threads -> Seq(Frame)] /\ frames'[t] = s
      /\ \A u \in Threads \ {t} : frames'[u] = frames[u]
  BY <1>2, <1>3 DEF WrenTypes
<1>5. \A i \in DOMAIN frames[t] : i < Depth(t) => i \in 1..(Depth(t) - 1)
  BY <1>1
<1>6. patched' = (patched \/ Top(t).removed)
  BY DEF FreeText, PutBack
<1> QED
  BY <1>1, <1>3, <1>4, <1>5, <1>6 DEF FreeText, Freed, Depth

(* What the steps do to the loads. *)

(* Load u goes on, as the only one or not. *)
Same(u) ==
  /\ load'[u].file = load[u].file /\ load'[u].expected = load[u].expected
  /\ load'[u].failed = load[u].failed /\ load'[u].parsed = load[u].parsed
  /\ load'[u].tweakedAs = load[u].tweakedAs
  /\ load'[u].alone => load[u].alone

LEMMA DisturbIs ==
  ASSUME WrenTypes, NEW t \in Threads
  PROVE  /\ Disturb(t) \in [Threads -> Loads] /\ Disturb(t)[t] = load[t]
         /\ \A u \in Threads \ {t} : LET l == Disturb(t)[u] IN
              /\ l.file = load[u].file /\ l.expected = load[u].expected
              /\ l.failed = load[u].failed /\ l.parsed = load[u].parsed
              /\ l.tweakedAs = load[u].tweakedAs /\ ~l.alone
<1>1. \A u \in Threads : load[u] \in Loads
  BY DEF WrenTypes
<1>2. ASSUME NEW u \in Threads
      PROVE  LET l == [load[u] EXCEPT !.alone = FALSE] IN
               /\ l \in Loads
               /\ l.file = load[u].file /\ l.expected = load[u].expected
               /\ l.failed = load[u].failed /\ l.parsed = load[u].parsed
               /\ l.tweakedAs = load[u].tweakedAs /\ ~l.alone
  <2>1. load[u] \in Loads
    BY <1>1
  <2> QED
    BY <2>1 DEF Loads
<1>3. /\ Disturb(t) \in [Threads -> Loads] /\ Disturb(t)[t] = load[t]
      /\ \A u \in Threads \ {t} : Disturb(t)[u] = [load[u] EXCEPT !.alone = FALSE]
  BY <1>1, <1>2 DEF Disturb
<1> QED
  BY <1>2, <1>3

LEMMA DisturbDoes ==
  ASSUME WrenTypes, NEW t \in Threads, load' = Disturb(t)
  PROVE  /\ load' \in [Threads -> Loads] /\ load'[t] = load[t]
         /\ \A u \in Threads : Same(u)
         /\ \A u \in Threads \ {t} : ~load'[u].alone
  BY DisturbIs DEF Same

LEMMA FailsDoes ==
  ASSUME WrenTypes, NEW t \in Threads, load' = [load EXCEPT ![t].failed = TRUE]
  PROVE  /\ load' \in [Threads -> Loads]
         /\ \A u \in Threads \ {t} : load'[u] = load[u]
         /\ load'[t].file = load[t].file /\ load'[t].expected = load[t].expected
         /\ load'[t].failed /\ load'[t].parsed = load[t].parsed
         /\ load'[t].alone = load[t].alone
<1>1. /\ load[t] \in Loads /\ load \in [Threads -> Loads]
  BY DEF WrenTypes
<1>2. load' = [load EXCEPT ![t] = [load[t] EXCEPT !.failed = TRUE]]
  BY <1>1
<1> DEFINE l == [load[t] EXCEPT !.failed = TRUE]
<1>3. /\ l \in Loads /\ l.file = load[t].file /\ l.expected = load[t].expected
      /\ l.failed /\ l.parsed = load[t].parsed /\ l.alone = load[t].alone
  BY <1>1 DEF Loads
<1> HIDE DEF l
<1>4. load'[t] = l /\ load' \in [Threads -> Loads]
      /\ \A u \in Threads \ {t} : load'[u] = load[u]
  BY <1>1, <1>2, <1>3 DEF l
<1> QED
  BY <1>3, <1>4

LEMMA ParsedDoes ==
  ASSUME WrenTypes, NEW t \in Threads, NEW text \in Texts,
         NEW name \in Files \cup {NoFile},
         load' = [load EXCEPT ![t] = [@ EXCEPT !.parsed = text, !.tweakedAs = name]]
  PROVE  /\ load' \in [Threads -> Loads]
         /\ \A u \in Threads \ {t} : load'[u] = load[u]
         /\ load'[t].file = load[t].file /\ load'[t].expected = load[t].expected
         /\ load'[t].failed = load[t].failed /\ load'[t].parsed = text
         /\ load'[t].alone = load[t].alone /\ load'[t].tweakedAs = name
<1>1. /\ load[t] \in Loads /\ load \in [Threads -> Loads]
  BY DEF WrenTypes
<1> DEFINE l == [load[t] EXCEPT !.parsed = text, !.tweakedAs = name]
<1>2. load' = [load EXCEPT ![t] = l]
  BY <1>1
<1>3. /\ l \in Loads /\ l.file = load[t].file /\ l.expected = load[t].expected
      /\ l.failed = load[t].failed /\ l.parsed = text /\ l.alone = load[t].alone
      /\ l.tweakedAs = name
  BY <1>1 DEF Loads
<1> HIDE DEF l
<1>4. load'[t] = l /\ load' \in [Threads -> Loads]
      /\ \A u \in Threads \ {t} : load'[u] = load[u]
  BY <1>1, <1>2, <1>3
<1> QED
  BY <1>3, <1>4

LEMMA IdleIs == Idle \in Loads /\ Idle.file = NoFile /\ ~Idle.alone
  BY DEF Idle, Loads

LEMMA LoadFileDoes ==
  ASSUME WrenTypes, NEW t \in Threads, NEW f \in Files, LoadFile(t, f)
  PROVE  /\ ~Busy(t) /\ lastLoaded' = f
         /\ bounds' = [bounds EXCEPT !.loads = @ + 1]
         /\ UNCHANGED <<last_parsed, ignored_files, tweaker_enabled, patched, buffers,
                        vmVars, frames, invocation, wrenState>>
         /\ load' \in [Threads -> Loads]
         /\ \A u \in Threads \ {t} : Same(u) /\ ~load'[u].alone
         /\ load'[t].file = f /\ load'[t].parsed = "none" /\ ~load'[t].failed
         /\ load'[t].alone <=> \A u \in Threads \ {t} : ~Busy(u)
         /\ load'[t].expected <=> /\ tweaker_enabled /\ last_parsed # f
                                  /\ f \notin Binary \cup ignored_files
<1> DEFINE a == \A u \in Threads \ {t} : ~Busy(u)
           e == tweaker_enabled /\ last_parsed # f /\ f \notin Binary \cup ignored_files
           l == [Idle EXCEPT !.file = f, !.alone = a, !.expected = e]
<1>1. load' = [Disturb(t) EXCEPT ![t] = l]
  BY DEF LoadFile
<1>2. a \in BOOLEAN /\ e \in BOOLEAN
  BY DEF WrenTypes
<1> HIDE DEF a, e
<1>3. /\ l \in Loads /\ l.file = f /\ l.parsed = "none" /\ ~l.failed
      /\ l.alone = a /\ l.expected = e
  BY <1>2 DEF Loads, Idle
<1> HIDE DEF l
<1>4. /\ load'[t] = l /\ load' \in [Threads -> Loads]
      /\ \A u \in Threads \ {t} : load'[u] = Disturb(t)[u]
  BY <1>1, <1>3, DisturbIs
<1>5. \A u \in Threads \ {t} : Same(u) /\ ~load'[u].alone
  BY <1>4, DisturbIs DEF Same
<1> QED
  BY <1>3, <1>4, <1>5 DEF LoadFile, a, e

-----------------------------------------------------------------------------
(* Three kinds of steps. *)

(* The call moves on, between its start and its end. *)
Moves(t) ==
  \/ TestFile(t) \/ SetParsed(t) \/ EnterWren(t) \/ TweakFails(t) \/ TweakReturns(t)
  \/ RegisterObject(t) \/ LockToRegister(t) \/ ObjectRegistered(t)
  \/ (InsertBuffer(t) \/ EraseBuffer(t)) /\ wrenState' # "undefined"

(* Nothing happens to calls and loads but that texts may be collected. *)
Waits ==
  \/ \E t \in Threads : 
       /\ InsertBuffer(t) \/ EraseBuffer(t)
       /\ wrenState = "running" /\ wrenState' = "undefined"
  \/ \E t \in Threads, value \in BOOLEAN : SetTweakerEnabled(t, value)
  \/ LuaStep \/ InitFails

Begins ==
  \/ \E t \in Threads, f \in Files : LoadFile(t, f)
  \/ BeginInvoke
  \/ \E f \in Files : ignoretweak(f)

LEMMA Kinds ==
  ASSUME WrenNext
  PROVE  \/ \E t \in Threads :
              \/ Moves(t) \/ ParseFile(t) \/ RemovePatch(t) \/ CopyText(t)
              \/ CallParser(t) \/ FreeText(t) \/ EndLoad(t)
         \/ Waits \/ Begins
  BY DEF WrenNext, ThreadStep, Moves, Waits, Begins

Over == {"erase", "erasing"}

LEMMA ChangeDoes ==
  ASSUME WrenTypes, NEW t \in Threads, NEW from \in Steps, NEW step \in Steps,
         BeginChange(t, from, step)
  PROVE  /\ At(t, from)
         /\ UNCHANGED <<tweakVars, patched, buffers, vmVars, load, invocation, bounds>>
         /\ \/ /\ wrenState' = wrenState
               /\ \E top \in Frame :
                    /\ Replaced(t, top) /\ top.at = step
                    /\ top.removed = Top(t).removed /\ top.tested = Top(t).tested
                    /\ top.tweakedAs = Top(t).tweakedAs /\ top.text = Top(t).text
                    /\ top.loose = Top(t).loose /\ top.buffer = Top(t).buffer
            \/ /\ wrenState' = "undefined" /\ frames' = frames
               /\ \E u \in Threads \ {t} : InBuffers(u)
<1>1. At(t, from) /\ Depth(t) > 0
  BY DEF BeginChange, At
<1>2. CASE \E u \in Threads \ {t} : InBuffers(u)
  BY <1>1, <1>2 DEF BeginChange
<1>3. CASE ~\E u \in Threads \ {t} : InBuffers(u)
  <2>1. To(t, step) /\ UNCHANGED wrenState
    BY <1>3 DEF BeginChange
  <2> QED
    BY <1>1, <2>1, ToDoes DEF BeginChange
<1> QED
  BY <1>2, <1>3

LEMMA SetParsedDoes ==
  ASSUME WrenTypes, NEW t \in Threads, SetParsed(t)
  PROVE  /\ At(t, "set") /\ last_parsed' = Top(t).tested
         /\ UNCHANGED <<lastLoaded, ignored_files, tweaker_enabled, patched,
                        buffers, vmVars, load, invocation, bounds, wrenState>>
         /\ \E top \in Frame :
              /\ Replaced(t, top)
              /\ top.at = (IF Top(t).tested \in Binary \cup ignored_files
                           THEN "call" ELSE "lock")
              /\ top.removed = Top(t).removed /\ top.tested = Top(t).tested
              /\ top.tweakedAs = Top(t).tweakedAs /\ top.text = Top(t).text
              /\ top.loose = Top(t).loose /\ top.buffer = Top(t).buffer
<1>1. At(t, "set") /\ Depth(t) > 0
  BY DEF SetParsed, At
<1>2. PICK step \in {"call", "lock"} :
        /\ step = (IF Top(t).tested \in Binary \cup ignored_files THEN "call" ELSE "lock")
        /\ To(t, step)
  BY DEF SetParsed
<1>3. step \in Steps
  BY DEF Steps
<1> QED
  BY <1>1, <1>2, <1>3, ToDoes DEF SetParsed

(* A step of Wren code between the locks: whether it keeps the VM's. *)
LEMMA WrenCodeDoes ==
  ASSUME WrenTypes, NEW t \in Threads,
         RegisterObject(t) \/ LockToRegister(t) \/ ObjectRegistered(t)
  PROVE  /\ Depth(t) > 0 /\ Top(t).at \in {"wren", "wait", "register"}
         /\ exposed_mutex' \in Threads \cup {NoThread} /\ exposed' \in BOOLEAN
         /\ UNCHANGED <<tweakVars, patched, buffers, vm, vm_mutex, callHandles, load,
                        invocation, bounds, wrenState>>
         /\ \E top \in Frame :
              /\ Replaced(t, top) /\ top.at \in {"wren", "wait", "register"}
              /\ top.removed = Top(t).removed /\ top.tested = Top(t).tested
              /\ top.tweakedAs = Top(t).tweakedAs /\ top.text = Top(t).text
              /\ top.loose = Top(t).loose /\ top.buffer = Top(t).buffer
<1>1. /\ Depth(t) > 0 /\ Top(t).at \in {"wren", "wait", "register"}
      /\ UNCHANGED <<tweakVars, patched, buffers, vm, vm_mutex, callHandles, load,
                     invocation, bounds, wrenState>>
      /\ exposed_mutex' \in Threads \cup {NoThread} /\ exposed' \in BOOLEAN
  BY DEF RegisterObject, LockToRegister, ObjectRegistered, At, vmVars, WrenTypes
<1>2. PICK step \in {"wren", "wait", "register"} : To(t, step)
  BY DEF RegisterObject, LockToRegister, ObjectRegistered
<1>3. step \in Steps
  BY DEF Steps
<1> QED
  BY <1>1, <1>2, <1>3, ToDoes

LEMMA MovesDoes ==
  ASSUME WrenTypes, NEW t \in Threads, Moves(t)
  PROVE  /\ Depth(t) > 0
         /\ UNCHANGED <<patched, buffers, invocation>>
         /\ load' \in [Threads -> Loads]
         /\ \A u \in Threads : load'[u].file = load[u].file
         /\ \E top \in Frame :
              /\ Replaced(t, top) /\ top.at \notin {"entered", "erase"}
              /\ top.removed = Top(t).removed /\ top.buffer = Top(t).buffer
              /\ top.at \notin Over => Top(t).at \notin Over
<1>0. /\ load \in [Threads -> Loads]
      /\ \A step \in Steps : At(t, step) => Depth(t) > 0 /\ Top(t).at = step
  BY DEF WrenTypes, At
<1>1. CASE TestFile(t)
  BY <1>0, <1>1, TestFileDoes DEF At, Over
<1>2. CASE SetParsed(t)
  BY <1>0, <1>2, SetParsedDoes DEF At, Over
<1>3. CASE EnterWren(t)
  <2>1. PICK top \in Frame :
              /\ Replaced(t, top) /\ top.removed = Top(t).removed
              /\ top.buffer = Top(t).buffer /\ top.at \in {"wren", "call"}
    BY <1>3, EnterWrenDoes
  <2>2. At(t, "lock") /\ UNCHANGED <<patched, buffers, invocation>>
        /\ (load' = load \/ load' = [load EXCEPT ![t].failed = TRUE])
    BY <1>3, EnterWrenDoes
  <2>3. load' \in [Threads -> Loads] /\ \A u \in Threads : load'[u].file = load[u].file
    BY <1>0, <2>2, FailsDoes
  <2> QED
    BY <2>1, <2>2, <2>3 DEF At, Over
<1>4. CASE TweakFails(t)
  <2>1. load' \in [Threads -> Loads] /\ \A u \in Threads : load'[u].file = load[u].file
    BY <1>4, TweakFailsDoes, FailsDoes
  <2> QED
    BY <1>4, <2>1, TweakFailsDoes DEF At, Over
<1>5. CASE TweakReturns(t)
  BY <1>0, <1>5, TweakReturnsDoes DEF At, Over
<1>6. CASE RegisterObject(t) \/ LockToRegister(t) \/ ObjectRegistered(t)
  BY <1>0, <1>6, WrenCodeDoes DEF Over
<1>7. CASE InsertBuffer(t) /\ wrenState' # "undefined"
  <2>1. BeginChange(t, "copy", "insert") /\ {"copy", "insert"} \subseteq Steps
    BY <1>7 DEF InsertBuffer, Steps
  <2> QED
    BY <1>0, <1>7, <2>1, ChangeDoes DEF At, Over
<1>8. CASE EraseBuffer(t) /\ wrenState' # "undefined"
  <2>1. BeginChange(t, "erase", "erasing") /\ {"erase", "erasing"} \subseteq Steps
    BY <1>8 DEF EraseBuffer, Steps
  <2> QED
    BY <1>0, <1>8, <2>1, ChangeDoes DEF At, Over
<1> QED
  BY <1>1, <1>2, <1>3, <1>4, <1>5, <1>6, <1>7, <1>8 DEF Moves

(* No call begins, moves or ends. *)
Still ==
  /\ frames' \in [Threads -> Seq(Frame)]
  /\ \A u \in Threads : Depth(u)' = Depth(u)
  /\ \A u \in Threads : \A i \in DOMAIN frames[u] : Alike(frames'[u][i], frames[u][i])

LEMMA StillIs ==
  ASSUME WrenTypes, frames' = frames \/ frames' = Loosened
  PROVE  Still
<1>1. CASE frames' = frames
  BY <1>1 DEF WrenTypes, Still, Alike, Depth
<1>2. CASE frames' = Loosened
  BY <1>2, LoosenedAre DEF Still, Depth
<1> QED
  BY <1>1, <1>2

LEMMA WaitsDoes ==
  ASSUME WrenTypes, Waits
  PROVE  /\ Still
         /\ UNCHANGED <<lastLoaded, last_parsed, ignored_files, patched, buffers, load>>
         /\ invocation' # "idle" => invocation # "idle"
<1>1. ASSUME NEW t \in Threads, InsertBuffer(t) \/ EraseBuffer(t),
             wrenState = "running", wrenState' = "undefined"
      PROVE  /\ UNCHANGED <<lastLoaded, last_parsed, ignored_files, patched, buffers, load>>
             /\ UNCHANGED <<frames, invocation>>
  <2>1. {"copy", "insert", "erase", "erasing"} \subseteq Steps
    BY DEF Steps
  <2>2. CASE InsertBuffer(t)
    BY <1>1, <2>1, <2>2, ChangeDoes DEF InsertBuffer, tweakVars
  <2>3. CASE EraseBuffer(t)
    BY <1>1, <2>1, <2>3, ChangeDoes DEF EraseBuffer, tweakVars
  <2> QED
    BY <1>1, <2>2, <2>3
<1>2. ASSUME NEW t \in Threads, NEW value \in BOOLEAN, SetTweakerEnabled(t, value)
      PROVE  /\ UNCHANGED <<lastLoaded, last_parsed, ignored_files, patched, buffers, load>>
             /\ UNCHANGED <<frames, invocation>>
  BY <1>2 DEF SetTweakerEnabled
<1>3. CASE LuaStep
  <2>1. /\ UNCHANGED <<lastLoaded, last_parsed, ignored_files, patched, buffers, load>>
        /\ invocation # "idle"
    BY <1>3 DEF LuaStep, LockExposed, FindObject, CallObject, ObjectReturns, Invocation,
                tweakVars
  <2>2. frames' = frames \/ frames' = Loosened
    BY <1>3 DEF LuaStep, LockExposed, FindObject, CallObject, ObjectReturns
  <2> QED
    BY <2>1, <2>2, StillIs
<1>4. CASE InitFails
  BY <1>4, StillIs DEF InitFails, tweakVars
<1> QED
  BY <1>1, <1>2, <1>3, <1>4, StillIs DEF Waits

LEMMA BeginsDoes ==
  ASSUME WrenTypes, Begins
  PROVE  /\ UNCHANGED <<patched, buffers, frames>>
         /\ load' \in [Threads -> Loads]
         /\ \A u \in Threads : load[u].file # NoFile => load'[u].file # NoFile
         /\ invocation' # "idle" =>
              load[LuaThread].file = load'[LuaThread].file
              /\ (load[LuaThread].file = NoFile \/ invocation # "idle")
<1>0. load \in [Threads -> Loads] /\ LuaThread \in Threads
  BY WrenRuntimeAssumption DEF WrenTypes
<1>1. ASSUME NEW t \in Threads, NEW f \in Files, LoadFile(t, f)
      PROVE  /\ UNCHANGED <<patched, buffers, frames>>
             /\ load' \in [Threads -> Loads]
             /\ \A u \in Threads : load[u].file # NoFile => load'[u].file # NoFile
             /\ invocation' # "idle" =>
                  load[LuaThread].file = load'[LuaThread].file
                  /\ (load[LuaThread].file = NoFile \/ invocation # "idle")
  <2>1. /\ ~Busy(t) /\ UNCHANGED <<patched, buffers, frames, invocation>>
        /\ load' \in [Threads -> Loads] /\ load'[t].file = f
        /\ \A u \in Threads \ {t} : Same(u)
    BY <1>1, LoadFileDoes
  <2>2. f # NoFile
    BY WrenRuntimeAssumption
  <2>3. invocation # "idle" => LuaThread # t
    BY <2>1 DEF Busy, InvokesWren
  <2> QED
    BY <1>0, <2>1, <2>2, <2>3 DEF Same
<1>2. CASE BeginInvoke
  <2>1. load' = Disturb(LuaThread) /\ ~Busy(LuaThread)
    BY <1>2 DEF BeginInvoke
  <2>2. /\ load' \in [Threads -> Loads] /\ \A u \in Threads : Same(u)
    BY <1>0, <2>1, DisturbDoes
  <2> QED
    BY <1>0, <1>2, <2>1, <2>2 DEF BeginInvoke, Invocation, Busy, Same
<1>3. ASSUME NEW f \in Files, ignoretweak(f)
      PROVE  /\ UNCHANGED <<patched, buffers, frames>>
             /\ load' \in [Threads -> Loads]
             /\ \A u \in Threads : load[u].file # NoFile => load'[u].file # NoFile
             /\ invocation' # "idle" =>
                  load[LuaThread].file = load'[LuaThread].file
                  /\ (load[LuaThread].file = NoFile \/ invocation # "idle")
  <2>1. load' = Disturb(LuaThread) /\ ~Busy(LuaThread)
    BY <1>3 DEF ignoretweak
  <2>2. /\ load' \in [Threads -> Loads] /\ \A u \in Threads : Same(u)
    BY <1>0, <2>1, DisturbDoes
  <2> QED
    BY <1>0, <1>3, <2>1, <2>2 DEF ignoretweak, Busy, Same
<1> QED
  BY <1>1, <1>2, <1>3 DEF Begins

LEMMA EndLoadDoes ==
  ASSUME WrenTypes, NEW t \in Threads, EndLoad(t)
  PROVE  /\ Depth(t) = 0
         /\ load' \in [Threads -> Loads] /\ load'[t] = Idle
         /\ \A u \in Threads \ {t} : load'[u] = load[u]
         /\ UNCHANGED <<tweakVars, patched, buffers, vmVars, frames, invocation,
                        bounds, wrenState>>
  BY IdleIs DEF EndLoad, WrenTypes

(* The parser begins a call within another, or is done with the text. *)
LEMMA ParserDoes ==
  ASSUME WrenTypes, NEW t \in Threads, ParseFile(t) \/ CallParser(t)
  PROVE  /\ load' \in [Threads -> Loads]
         /\ \A u \in Threads : load'[u].file = load[u].file
         /\ \A u \in Threads \ {t} : load'[u] = load[u]
         /\ frames' \in [Threads -> Seq(Frame)]
<1>0. load \in [Threads -> Loads] /\ frames \in [Threads -> Seq(Frame)]
  BY DEF WrenTypes
<1>1. CASE ParseFile(t)
  <2>1. CASE load' = [load EXCEPT ![t] = load[t]]
    BY <1>0, <1>1, <2>1, ParseFileDoes DEF Pushed
  <2>2. CASE load' = [load EXCEPT ![t] =
                       [@ EXCEPT !.parsed = "original", !.tweakedAs = NoFile]]
    <3>1. "original" \in Texts /\ NoFile \in Files \cup {NoFile}
      BY DEF Texts
    <3> QED
      BY <1>0, <1>1, <2>2, <3>1, ParseFileDoes, ParsedDoes DEF Pushed
  <2> QED
    BY <1>1, <2>1, <2>2, ParseFileDoes
<1>2. CASE CallParser(t)
  <2>1. CASE load' = [load EXCEPT ![t] = load[t]]
    BY <1>0, <1>2, <2>1, CallParserDoes DEF Pushed, Replaced
  <2>2. CASE load' = [load EXCEPT ![t] =
                    [@ EXCEPT !.parsed = Top(t).text, !.tweakedAs = Top(t).tweakedAs]]
    <3>1. Top(t) \in Frame
      BY <1>2, Stacks DEF CallParser, At
    <3>2. Top(t).text \in Texts /\ Top(t).tweakedAs \in Files \cup {NoFile}
      BY <3>1 DEF Frame
    <3>3. frames' \in [Threads -> Seq(Frame)]
      BY <1>2, CallParserDoes DEF Pushed, Replaced
    <3> QED
      BY <1>0, <2>2, <3>2, <3>3, ParsedDoes
  <2> QED
    BY <1>2, <2>1, <2>2, CallParserDoes
<1> QED
  BY <1>1, <1>2

-----------------------------------------------------------------------------
(* Types. *)

LEMMA Counted ==
  ASSUME WrenTypes
  PROVE  /\ [bounds EXCEPT !.loads = @ + 1] \in [loads : Nat, invokes : Nat, failures : Nat]
         /\ [bounds EXCEPT !.invokes = @ + 1] \in [loads : Nat, invokes : Nat, failures : Nat]
         /\ [bounds EXCEPT !.failures = @ + 1] \in [loads : Nat, invokes : Nat, failures : Nat]
         /\ [bounds EXCEPT !.loads = @ + 1].failures = bounds.failures
         /\ [bounds EXCEPT !.invokes = @ + 1].failures = bounds.failures
         /\ [bounds EXCEPT !.failures = @ + 1].failures = bounds.failures + 1
         /\ bounds.failures \in Nat
<1> DEFINE B == [loads : Nat, invokes : Nat, failures : Nat]
<1>1. bounds \in B /\ bounds.loads + 1 \in Nat /\ bounds.invokes + 1 \in Nat
      /\ bounds.failures + 1 \in Nat /\ bounds.failures \in Nat
  BY DEF WrenTypes
<1>2. ASSUME NEW r \in B, NEW n \in Nat
      PROVE  /\ [r EXCEPT !.loads = n] \in B /\ [r EXCEPT !.loads = n].failures = r.failures
             /\ [r EXCEPT !.invokes = n] \in B
             /\ [r EXCEPT !.invokes = n].failures = r.failures
             /\ [r EXCEPT !.failures = n] \in B /\ [r EXCEPT !.failures = n].failures = n
  OBVIOUS
<1>3. /\ [bounds EXCEPT !.loads = bounds.loads + 1] \in B
      /\ [bounds EXCEPT !.loads = bounds.loads + 1].failures = bounds.failures
      /\ [bounds EXCEPT !.invokes = bounds.invokes + 1] \in B
      /\ [bounds EXCEPT !.invokes = bounds.invokes + 1].failures = bounds.failures
      /\ [bounds EXCEPT !.failures = bounds.failures + 1] \in B
      /\ [bounds EXCEPT !.failures = bounds.failures + 1].failures = bounds.failures + 1
  <2> HIDE DEF B
  <2> QED
    BY <1>1, <1>2
<1> QED
  BY <1>1, <1>3

LEMMA OthersTyped ==
  ASSUME WrenTypes, WrenNext
  PROVE  /\ lastLoaded' \in Files \cup {NoFile} /\ last_parsed' \in Files \cup {NoFile}
         /\ ignored_files' \subseteq Files /\ tweaker_enabled' \in BOOLEAN
         /\ vm' \in {"none", "ready", "unavailable"}
         /\ vm_mutex' \in Threads \cup {NoThread}
         /\ exposed_mutex' \in Threads \cup {NoThread}
         /\ exposed' \in BOOLEAN /\ callHandles' \in Int
         /\ invocation' \in {"idle", "find", "look", "lock", "wren"}
         /\ bounds' \in [loads : Nat, invokes : Nat, failures : Nat]
         /\ wrenState' \in {"running", "exited", "undefined"}
<1> DEFINE Typed ==
         /\ lastLoaded' \in Files \cup {NoFile} /\ last_parsed' \in Files \cup {NoFile}
         /\ ignored_files' \subseteq Files /\ tweaker_enabled' \in BOOLEAN
         /\ vm' \in {"none", "ready", "unavailable"}
         /\ vm_mutex' \in Threads \cup {NoThread}
         /\ exposed_mutex' \in Threads \cup {NoThread}
         /\ exposed' \in BOOLEAN /\ callHandles' \in Int
         /\ invocation' \in {"idle", "find", "look", "lock", "wren"}
         /\ bounds' \in [loads : Nat, invokes : Nat, failures : Nat]
         /\ wrenState' \in {"running", "exited", "undefined"}
<1>0. LuaThread \in Threads
  BY WrenRuntimeAssumption
<1>1. ASSUME NEW t \in Threads, Moves(t)
      PROVE  Typed
  <2>1. CASE TestFile(t)
    BY <2>1, TestFileDoes DEF WrenTypes, tweakVars, vmVars
  <2>2. CASE SetParsed(t)
    <3>1. Top(t) \in Frame
      BY <2>2, Stacks DEF SetParsed, At
    <3>2. last_parsed' \in Files \cup {NoFile}
      BY <2>2, <3>1 DEF SetParsed, Frame
    <3> QED
      BY <2>2, <3>2 DEF SetParsed, WrenTypes, vmVars
  <2>3. CASE EnterWren(t)
    <3>1. /\ UNCHANGED <<tweakVars, exposed_mutex, exposed, invocation, bounds, wrenState>>
          /\ vm' \in {"none", "ready", "unavailable"}
          /\ vm_mutex' \in {t, NoThread} /\ callHandles' \in {callHandles, callHandles + 2}
      BY <2>3, EnterWrenDoes
    <3> QED
      BY <3>1 DEF WrenTypes, tweakVars
  <2>4. CASE TweakFails(t)
    BY <2>4, TweakFailsDoes, Counted DEF WrenTypes, tweakVars
  <2>5. CASE TweakReturns(t)
    BY <2>5 DEF TweakReturns, WrenTypes, tweakVars
  <2>6. CASE RegisterObject(t) \/ LockToRegister(t) \/ ObjectRegistered(t)
    BY <2>6, WrenCodeDoes DEF WrenTypes, tweakVars
  <2>7. CASE InsertBuffer(t) \/ EraseBuffer(t)
    BY <2>7 DEF InsertBuffer, EraseBuffer, BeginChange, WrenTypes, tweakVars, vmVars
  <2> QED
    BY <1>1, <2>1, <2>2, <2>3, <2>4, <2>5, <2>6, <2>7 DEF Moves
<1>2. ASSUME NEW t \in Threads,
             \/ ParseFile(t) \/ RemovePatch(t) \/ CopyText(t)
             \/ CallParser(t) \/ FreeText(t) \/ EndLoad(t)
      PROVE  Typed
  BY <1>2 DEF ParseFile, RemovePatch, CopyText, CallParser, FreeText, EndLoad,
              WrenTypes, tweakVars, vmVars
<1>3. CASE Waits
  <2>1. ASSUME NEW t \in Threads, InsertBuffer(t) \/ EraseBuffer(t)
        PROVE  Typed
    BY <2>1 DEF InsertBuffer, EraseBuffer, BeginChange, WrenTypes, tweakVars, vmVars
  <2>2. ASSUME NEW t \in Threads, NEW value \in BOOLEAN, SetTweakerEnabled(t, value)
        PROVE  Typed
    BY <2>2 DEF SetTweakerEnabled, WrenTypes, tweakVars, vmVars
  <2>3. CASE LockExposed \/ FindObject \/ ObjectReturns
    BY <1>0, <2>3 DEF LockExposed, FindObject, ObjectReturns, Invocation, WrenTypes,
                      tweakVars, vmVars
  <2>4. CASE CallObject
    <3>1. /\ vm' \in {"none", "ready", "unavailable"}
          /\ vm_mutex' \in {vm_mutex, LuaThread}
          /\ callHandles' \in {callHandles, callHandles + 1}
          /\ invocation' \in {"idle", "wren"}
          /\ UNCHANGED <<tweakVars, exposed_mutex, exposed, bounds, wrenState>>
      BY <2>4 DEF CallObject, MakeVm, Invocation, WrenTypes
    <3> QED
      BY <1>0, <3>1 DEF WrenTypes, tweakVars
  <2>5. CASE InitFails
    BY <2>5 DEF InitFails, WrenTypes, tweakVars, vmVars
  <2> QED
    BY <1>3, <2>1, <2>2, <2>3, <2>4, <2>5 DEF Waits, LuaStep
<1>4. CASE Begins
  <2>1. ASSUME NEW t \in Threads, NEW f \in Files, LoadFile(t, f)
        PROVE  Typed
    BY <2>1, LoadFileDoes, Counted DEF WrenTypes, vmVars
  <2>2. CASE BeginInvoke
    BY <2>2 DEF BeginInvoke, Invocation, WrenTypes, tweakVars, vmVars
  <2>3. ASSUME NEW f \in Files, ignoretweak(f)
        PROVE  Typed
    BY <2>3 DEF ignoretweak, WrenTypes, tweakVars, vmVars
  <2> QED
    BY <1>4, <2>1, <2>2, <2>3 DEF Begins
<1> QED
  BY <1>1, <1>2, <1>3, <1>4, Kinds

LEMMA WrenTypesStep ==
  ASSUME WrenTypes, [WrenNext]_wrenVars
  PROVE  WrenTypes'
<1>1. ASSUME WrenNext
      PROVE  /\ frames' \in [Threads -> Seq(Frame)] /\ load' \in [Threads -> Loads]
             /\ patched' \in BOOLEAN /\ buffers' \subseteq Threads \X Nat
  <2>0. /\ frames \in [Threads -> Seq(Frame)] /\ load \in [Threads -> Loads]
        /\ patched \in BOOLEAN /\ buffers \subseteq Threads \X Nat
    BY DEF WrenTypes
  <2>1. ASSUME NEW t \in Threads, Moves(t)
        PROVE  /\ frames' \in [Threads -> Seq(Frame)] /\ load' \in [Threads -> Loads]
               /\ patched' \in BOOLEAN /\ buffers' \subseteq Threads \X Nat
    BY <2>0, <2>1, MovesDoes DEF Replaced
  <2>2. ASSUME NEW t \in Threads, ParseFile(t) \/ CallParser(t)
        PROVE  /\ frames' \in [Threads -> Seq(Frame)] /\ load' \in [Threads -> Loads]
               /\ patched' \in BOOLEAN /\ buffers' \subseteq Threads \X Nat
    BY <2>0, <2>2, ParserDoes DEF ParseFile, CallParser
  <2>3. ASSUME NEW t \in Threads, RemovePatch(t)
        PROVE  /\ frames' \in [Threads -> Seq(Frame)] /\ load' \in [Threads -> Loads]
               /\ patched' \in BOOLEAN /\ buffers' \subseteq Threads \X Nat
    BY <2>0, <2>3, RemovePatchDoes DEF Replaced
  <2>4. ASSUME NEW t \in Threads, CopyText(t)
        PROVE  /\ frames' \in [Threads -> Seq(Frame)] /\ load' \in [Threads -> Loads]
               /\ patched' \in BOOLEAN /\ buffers' \subseteq Threads \X Nat
    <3>1. buffers' = buffers \cup {<<t, Depth(t)>>} /\ Depth(t) \in Nat
      BY <2>4, CopyTextDoes, Stacks
    <3> QED
      BY <2>0, <2>4, <3>1, CopyTextDoes DEF Replaced
  <2>5. ASSUME NEW t \in Threads, FreeText(t)
        PROVE  /\ frames' \in [Threads -> Seq(Frame)] /\ load' \in [Threads -> Loads]
               /\ patched' \in BOOLEAN /\ buffers' \subseteq Threads \X Nat
    <3>1. patched' \in BOOLEAN
      BY <2>5, FreeTextDoes
    <3> QED
      BY <2>0, <2>5, <3>1, FreeTextDoes
  <2>6. ASSUME NEW t \in Threads, EndLoad(t)
        PROVE  /\ frames' \in [Threads -> Seq(Frame)] /\ load' \in [Threads -> Loads]
               /\ patched' \in BOOLEAN /\ buffers' \subseteq Threads \X Nat
    BY <2>0, <2>6, EndLoadDoes
  <2>7. CASE Waits
    BY <2>0, <2>7, WaitsDoes DEF Still
  <2>8. CASE Begins
    BY <2>0, <2>8, BeginsDoes
  <2> QED
    BY <1>1, <2>1, <2>2, <2>3, <2>4, <2>5, <2>6, <2>7, <2>8, Kinds
<1>2. CASE WrenNext
  BY <1>1, <1>2, OthersTyped DEF WrenTypes
<1>3. CASE UNCHANGED wrenVars
  BY <1>3 DEF wrenVars, WrenTypes
<1> QED
  BY <1>2, <1>3

-----------------------------------------------------------------------------
(* Calls within calls. *)

(* Only the innermost call of a thread is under way: the others wait for    *)
(* the parser.  Whoever took the patch out is still to put it back.         *)
StackInv ==
  /\ \A t \in Threads : \A i \in DOMAIN frames[t] :
       i < Depth(t) => frames[t][i].at = "erase"
  /\ \A t \in Threads : load[t].file = NoFile => Depth(t) = 0
  /\ invocation # "idle" => load[LuaThread].file = NoFile
  /\ \A t \in Threads : At(t, "entered") => ~Top(t).removed
  /\ ~patched => \E t \in Threads : \E i \in DOMAIN frames[t] : frames[t][i].removed

LEMMA DepthsNow ==
  ASSUME WrenTypes, frames' \in [Threads -> Seq(Frame)], NEW u \in Threads
  PROVE  /\ Depth(u)' \in Nat /\ DOMAIN frames'[u] = 1..(Depth(u)')
         /\ \A i \in DOMAIN frames'[u] : frames'[u][i] \in Frame
         /\ Depth(u)' > 0 => /\ Depth(u)' \in DOMAIN frames'[u]
                             /\ Top(u)' = frames'[u][Depth(u)'] /\ Top(u)' \in Frame
<1>1. /\ Depth(u)' \in Nat /\ DOMAIN frames'[u] = 1..(Depth(u)')
      /\ \A i \in DOMAIN frames'[u] : frames'[u][i] \in Frame
      /\ Top(u)' = frames'[u][Depth(u)']
  BY DEF Depth, Top
<1> QED
  BY <1>1

LEMMA Inner ==
  ASSUME WrenTypes, NEW t \in Threads, Depth(t) > 0, NEW top \in Frame, Replaced(t, top)
  PROVE  /\ \A u \in Threads : DOMAIN frames'[u] = DOMAIN frames[u] /\ Depth(u)' = Depth(u)
         /\ \A u \in Threads \ {t} : Depth(u) > 0 => Alike(Top(u)', Top(u))
         /\ \A u \in Threads : \A i \in DOMAIN frames[u] :
              u # t \/ i < Depth(u) => Alike(frames'[u][i], frames[u][i])
         /\ frames'[t][Depth(t)] = top /\ frames[t][Depth(t)] = Top(t)
         /\ Top(t)' = top /\ Depth(t) \in DOMAIN frames[t]
<1>1. ASSUME NEW u \in Threads
      PROVE  /\ DOMAIN frames'[u] = DOMAIN frames[u] /\ Depth(u)' = Depth(u)
             /\ Depth(u) > 0 => /\ Depth(u) \in DOMAIN frames[u]
                                /\ Top(u)' = frames'[u][Depth(u)]
                                /\ Top(u) = frames[u][Depth(u)]
  BY Stacks, DepthsNow DEF Replaced, Top
<1> QED
  BY <1>1 DEF Replaced

LEMMA StackMoved ==
  ASSUME WrenTypes, StackInv, NEW t \in Threads, Depth(t) > 0, NEW top \in Frame,
         Replaced(t, top), top.at # "entered", Top(t).removed => top.removed,
         ~patched' => ~patched \/ top.removed,
         \A u \in Threads : load'[u].file = load[u].file,
         invocation' = invocation
  PROVE  StackInv'
<1>1. /\ \A u \in Threads : DOMAIN frames'[u] = DOMAIN frames[u] /\ Depth(u)' = Depth(u)
      /\ \A u \in Threads \ {t} : Depth(u) > 0 => Alike(Top(u)', Top(u))
      /\ \A u \in Threads : \A i \in DOMAIN frames[u] :
           u # t \/ i < Depth(u) => Alike(frames'[u][i], frames[u][i])
      /\ frames'[t][Depth(t)] = top /\ frames[t][Depth(t)] = Top(t)
      /\ Top(t)' = top /\ Depth(t) \in DOMAIN frames[t]
  BY Inner
<1>2. DOMAIN frames[t] = 1..Depth(t) /\ Depth(t) \in Nat
  BY Stacks
<1>3. ASSUME NEW u \in Threads, NEW i \in DOMAIN frames'[u], i < Depth(u)'
      PROVE  frames'[u][i].at = "erase"
  BY <1>1, <1>3 DEF Alike, StackInv
<1>4. ASSUME NEW u \in Threads, At(u, "entered")'
      PROVE  ~Top(u)'.removed
  BY <1>1, <1>4 DEF Alike, StackInv, At
<1>5. ASSUME NEW u \in Threads, NEW i \in DOMAIN frames[u], frames[u][i].removed
      PROVE  frames'[u][i].removed
  <2>1. CASE u # t \/ i < Depth(u)
    BY <1>1, <1>5, <2>1 DEF Alike
  <2>2. CASE u = t /\ i = Depth(t)
    BY <1>1, <1>5, <2>2
  <2>3. CASE u = t /\ ~(i < Depth(t)) /\ i # Depth(t)
    BY <1>2, <2>3
  <2> QED
    BY <2>1, <2>2, <2>3
<1>6. ASSUME ~patched'
      PROVE  \E u \in Threads : \E i \in DOMAIN frames'[u] : frames'[u][i].removed
  <2>1. CASE ~patched
    BY <1>1, <1>5, <2>1 DEF StackInv
  <2>2. CASE top.removed
    BY <1>1, <2>2
  <2> QED
    BY <1>6, <2>1, <2>2
<1>7. /\ \A u \in Threads : load'[u].file = NoFile => Depth(u)' = 0
      /\ invocation' # "idle" => load'[LuaThread].file = NoFile
  BY <1>1, WrenRuntimeAssumption DEF StackInv
<1> QED
  BY <1>3, <1>4, <1>6, <1>7 DEF StackInv

LEMMA StillInner ==
  ASSUME WrenTypes, Still
  PROVE  /\ \A u \in Threads : DOMAIN frames'[u] = DOMAIN frames[u] /\ Depth(u)' = Depth(u)
         /\ \A u \in Threads : Depth(u) > 0 => Alike(Top(u)', Top(u))
         /\ \A u \in Threads : \A i \in DOMAIN frames[u] : Alike(frames'[u][i], frames[u][i])
<1>1. ASSUME NEW u \in Threads
      PROVE  /\ DOMAIN frames'[u] = DOMAIN frames[u] /\ Depth(u)' = Depth(u)
             /\ Depth(u) > 0 => /\ Depth(u) \in DOMAIN frames[u]
                                /\ Top(u)' = frames'[u][Depth(u)]
                                /\ Top(u) = frames[u][Depth(u)]
  BY Stacks, DepthsNow DEF Still, Top
<1> QED
  BY <1>1 DEF Still

LEMMA StackStill ==
  ASSUME WrenTypes, StackInv, Still, patched' = patched,
         \A u \in Threads : load'[u].file = NoFile => load[u].file = NoFile \/ Depth(u) = 0,
         invocation' # "idle" => load'[LuaThread].file = NoFile
  PROVE  StackInv'
<1>1. /\ \A u \in Threads : DOMAIN frames'[u] = DOMAIN frames[u] /\ Depth(u)' = Depth(u)
      /\ \A u \in Threads : Depth(u) > 0 => Alike(Top(u)', Top(u))
      /\ \A u \in Threads : \A i \in DOMAIN frames[u] : Alike(frames'[u][i], frames[u][i])
  BY StillInner
<1>2. \A u \in Threads : \A i \in DOMAIN frames'[u] :
        i < Depth(u)' => frames'[u][i].at = "erase"
  BY <1>1 DEF Alike, StackInv
<1>3. \A u \in Threads : At(u, "entered")' => ~Top(u)'.removed
  BY <1>1 DEF Alike, StackInv, At
<1>4. ~patched' => \E u \in Threads : \E i \in DOMAIN frames'[u] : frames'[u][i].removed
  BY <1>1 DEF Alike, StackInv
<1>5. \A u \in Threads : load'[u].file = NoFile => Depth(u)' = 0
  BY <1>1 DEF StackInv
<1> QED
  BY <1>2, <1>3, <1>4, <1>5 DEF StackInv

LEMMA StackPushed ==
  ASSUME WrenTypes, StackInv, NEW t \in Threads, NEW f \in Frame, Pushed(t, f), ~f.removed,
         load[t].file # NoFile, patched,
         \A u \in Threads : load'[u].file = load[u].file, UNCHANGED <<patched, invocation>>
  PROVE  StackInv'
<1>1. /\ \A u \in Threads \ {t} : frames'[u] = frames[u] /\ Depth(u)' = Depth(u)
      /\ \A u \in Threads \ {t} : Top(u)' = Top(u)
      /\ frames' \in [Threads -> Seq(Frame)]
  BY DEF Pushed, Depth, Top
<1>2. /\ DOMAIN frames[t] = 1..Depth(t) /\ Depth(t) \in Nat /\ Depth(t)' = Depth(t) + 1
      /\ DOMAIN frames'[t] = 1..(Depth(t) + 1)
  <2>1. DOMAIN frames'[t] = 1..(Depth(t)')
    BY <1>1, DepthsNow
  <2>2. Depth(t)' = Depth(t) + 1
    BY DEF Pushed
  <2> QED
    BY <2>1, <2>2, Stacks
<1>3. ASSUME NEW i \in DOMAIN frames'[t], i < Depth(t)'
      PROVE  frames'[t][i].at = "erase"
  <2>1. i \in DOMAIN frames[t]
    BY <1>2, <1>3
  <2> QED
    BY <2>1 DEF Pushed, StackInv
<1>4. ASSUME NEW u \in Threads, NEW i \in DOMAIN frames'[u], i < Depth(u)'
      PROVE  frames'[u][i].at = "erase"
  BY <1>1, <1>3, <1>4 DEF StackInv
<1>5. ASSUME NEW u \in Threads, At(u, "entered")'
      PROVE  ~Top(u)'.removed
  BY <1>1, <1>5 DEF StackInv, At, Pushed
<1>6. /\ \A u \in Threads : load'[u].file = NoFile => Depth(u)' = 0
      /\ invocation' # "idle" => load'[LuaThread].file = NoFile
  BY <1>1, WrenRuntimeAssumption DEF StackInv
<1> QED
  BY <1>4, <1>5, <1>6 DEF StackInv

LEMMA StackStep ==
  ASSUME WrenTypes, StackInv, [WrenNext]_wrenVars
  PROVE  StackInv'
<1>0. LuaThread \in Threads
  BY WrenRuntimeAssumption
<1>1. ASSUME NEW t \in Threads, Moves(t)
      PROVE  StackInv'
  BY <1>1, MovesDoes, StackMoved
<1>2. ASSUME NEW t \in Threads, ParseFile(t)
      PROVE  StackInv'
  <2>1. /\ load[t].file # NoFile /\ UNCHANGED <<patched, invocation>>
        /\ \A u \in Threads : load'[u].file = load[u].file
    BY <1>2, ParseFileDoes, ParserDoes
  <2>2. CASE patched
    <3>1. PICK f \in Frame : Pushed(t, f) /\ ~f.removed
      BY <1>2, <2>2, ParseFileDoes DEF Entered
    <3> QED
      BY <2>1, <2>2, <3>1, StackPushed
  <2>3. CASE ~patched
    <3>1. Still
      BY <1>2, <2>3, ParseFileDoes, StillIs
    <3>2. invocation' # "idle" => load'[LuaThread].file = NoFile
      BY <1>0, <2>1 DEF StackInv
    <3> QED
      BY <2>1, <3>1, <3>2, StackStill
  <2> QED
    BY <2>2, <2>3
<1>3. ASSUME NEW t \in Threads, CallParser(t)
      PROVE  StackInv'
  <2>1. /\ Depth(t) > 0 /\ load[t].file # NoFile /\ UNCHANGED <<patched, invocation>>
        /\ \A u \in Threads : load'[u].file = load[u].file
    <3>1. Depth(t) > 0 /\ Depth(t) # 0
      BY <1>3, Stacks DEF CallParser, At
    <3> QED
      BY <1>3, <3>1, CallParserDoes, ParserDoes DEF StackInv
  <2>2. CASE patched
    <3>1. PICK f \in Frame : Pushed(t, f) /\ ~f.removed
      BY <1>3, <2>2, CallParserDoes DEF Entered
    <3> QED
      BY <2>1, <2>2, <3>1, StackPushed
  <2>3. CASE ~patched
    <3>1. PICK top \in Frame : /\ Replaced(t, top) /\ top.at = "erase"
                               /\ top.removed = Top(t).removed
      BY <1>3, <2>3, CallParserDoes
    <3> QED
      BY <2>1, <3>1, StackMoved
  <2> QED
    BY <2>2, <2>3
<1>4. ASSUME NEW t \in Threads, RemovePatch(t)
      PROVE  StackInv'
  <2>1. PICK top \in Frame : /\ Replaced(t, top) /\ top.at = "test"
                             /\ top.removed = patched
    BY <1>4, RemovePatchDoes
  <2>2. /\ Depth(t) > 0 /\ UNCHANGED <<load, invocation>> /\ ~Top(t).removed
        /\ At(t, "entered")
    BY <1>4, RemovePatchDoes DEF At, StackInv
  <2>3. ~patched \/ top.removed
    BY <2>1
  <2> QED
    BY <2>1, <2>2, <2>3, StackMoved
<1>5. ASSUME NEW t \in Threads, CopyText(t)
      PROVE  StackInv'
  <2>1. PICK top \in Frame : /\ Replaced(t, top) /\ top.at = "call"
                             /\ top.removed = Top(t).removed
    BY <1>5, CopyTextDoes
  <2>2. Depth(t) > 0 /\ UNCHANGED <<patched, load, invocation>>
    BY <1>5, CopyTextDoes DEF At
  <2> QED
    BY <2>1, <2>2, StackMoved
<1>6. ASSUME NEW t \in Threads, FreeText(t)
      PROVE  StackInv'
  <2>1. /\ \A u \in Threads \ {t} : frames'[u] = frames[u] /\ Depth(u)' = Depth(u)
        /\ \A u \in Threads \ {t} : Top(u)' = Top(u)
        /\ UNCHANGED <<load, invocation>>
        /\ frames' \in [Threads -> Seq(Frame)]
    BY <1>6, FreeTextDoes DEF Depth, Top
  <2>2. /\ DOMAIN frames[t] = 1..Depth(t) /\ Depth(t) \in Nat \ {0}
        /\ Depth(t)' = Depth(t) - 1 /\ DOMAIN frames'[t] = 1..(Depth(t) - 1)
        /\ \A i \in 1..(Depth(t) - 1) : i \in DOMAIN frames[t]
             /\ i < Depth(t) /\ frames'[t][i] = frames[t][i]
    <3>1. /\ Depth(t) > 0 /\ Depth(t)' = Depth(t) - 1
          /\ \A i \in DOMAIN frames[t] : i < Depth(t) => frames'[t][i] = frames[t][i]
      BY <1>6, FreeTextDoes DEF At
    <3>2. DOMAIN frames'[t] = 1..(Depth(t)')
      BY <2>1, DepthsNow
    <3>3. DOMAIN frames[t] = 1..Depth(t) /\ Depth(t) \in Nat
      BY Stacks
    <3> QED
      BY <3>1, <3>2, <3>3
  <2>3. ASSUME NEW u \in Threads, NEW i \in DOMAIN frames'[u], i < Depth(u)'
        PROVE  frames'[u][i].at = "erase"
    BY <2>1, <2>2, <2>3 DEF StackInv
  <2>4. ASSUME NEW u \in Threads, At(u, "entered")'
        PROVE  ~Top(u)'.removed
    <3>1. CASE u = t
      <4>1. /\ Depth(t) - 1 > 0 /\ Depth(t) - 1 \in 1..(Depth(t) - 1)
            /\ Top(t)' = frames'[t][Depth(t) - 1]
        BY <2>2, <2>4, <3>1 DEF At, Top, Depth
      <4>2. Top(t)'.at = "erase"
        BY <2>2, <4>1 DEF StackInv
      <4> QED
        BY <2>4, <3>1, <4>2 DEF At
    <3>2. CASE u # t
      BY <2>1, <2>4, <3>2 DEF StackInv, At
    <3> QED
      BY <3>1, <3>2
  <2>5. ASSUME ~patched'
        PROVE  \E u \in Threads : \E i \in DOMAIN frames'[u] : frames'[u][i].removed
    <3>1. ~patched /\ ~Top(t).removed
      BY <1>6, <2>5, FreeTextDoes
    <3>0. PICK u \in Threads : \E i \in DOMAIN frames[u] : frames[u][i].removed
      BY <3>1 DEF StackInv
    <3>2. PICK i \in DOMAIN frames[u] : frames[u][i].removed
      BY <3>0
    <3>3. CASE u # t
      BY <2>1, <3>2, <3>3
    <3>4. CASE u = t
      <4>1. i # Depth(t)
        BY <3>1, <3>2, <3>4 DEF Top, Depth
      <4>2. i \in 1..(Depth(t) - 1)
        BY <2>2, <3>4, <4>1
      <4> QED
        BY <2>2, <3>2, <3>4, <4>2
    <3> QED
      BY <3>3, <3>4
  <2>6. ASSUME NEW u \in Threads, load'[u].file = NoFile
        PROVE  Depth(u)' = 0
    BY <2>1, <2>2, <2>6 DEF StackInv
  <2>7. invocation' # "idle" => load'[LuaThread].file = NoFile
    BY <2>1 DEF StackInv
  <2> QED
    BY <2>3, <2>4, <2>5, <2>6, <2>7 DEF StackInv
<1>7. ASSUME NEW t \in Threads, EndLoad(t)
      PROVE  StackInv'
  <2>1. Still /\ UNCHANGED <<patched, invocation>>
    BY <1>7, EndLoadDoes, StillIs
  <2>2. \A u \in Threads : load'[u].file = NoFile => load[u].file = NoFile \/ Depth(u) = 0
    BY <1>7, EndLoadDoes
  <2>3. invocation' # "idle" => load'[LuaThread].file = NoFile
    BY <1>0, <1>7, <2>1, EndLoadDoes, IdleIs DEF StackInv
  <2> QED
    BY <2>1, <2>2, <2>3, StackStill
<1>8. CASE Waits
  BY <1>8, WaitsDoes, StackStill DEF StackInv
<1>9. CASE Begins
  <2>1. Still /\ patched' = patched
    BY <1>9, BeginsDoes, StillIs
  <2>2. /\ \A u \in Threads : load'[u].file = NoFile => load[u].file = NoFile \/ Depth(u) = 0
        /\ invocation' # "idle" => load'[LuaThread].file = NoFile
    BY <1>9, BeginsDoes DEF StackInv
  <2> QED
    BY <2>1, <2>2, StackStill
<1>10. CASE UNCHANGED wrenVars
  <2>1. Still /\ UNCHANGED <<patched, load, invocation>>
    BY <1>10, StillIs DEF wrenVars
  <2> QED
    BY <2>1, StackStill DEF StackInv
<1> QED
  BY <1>1, <1>2, <1>3, <1>4, <1>5, <1>6, <1>7, <1>8, <1>9, <1>10, Kinds

-----------------------------------------------------------------------------
(* Buffers. *)

(* A buffer belongs to the call that made it, and is in the set until that  *)
(* call, or one within it that was given its text, is over.                 *)
BufferInv ==
  /\ \A t \in Threads :
       Depth(t) > 0 /\ Top(t).at \notin Over /\ Top(t).buffer # 0 =>
         <<t, Top(t).buffer>> \in buffers
  /\ \A t \in Threads, n \in Nat :
       <<t, n>> \in buffers => n \in DOMAIN frames[t] /\ frames[t][n].buffer = n

LEMMA BufferMoved ==
  ASSUME WrenTypes, BufferInv, NEW t \in Threads, Depth(t) > 0, NEW top \in Frame,
         Replaced(t, top), buffers' = buffers, top.buffer = Top(t).buffer,
         top.at \notin Over => Top(t).at \notin Over
  PROVE  BufferInv'
<1>1. /\ \A u \in Threads : DOMAIN frames'[u] = DOMAIN frames[u] /\ Depth(u)' = Depth(u)
      /\ \A u \in Threads \ {t} : Depth(u) > 0 => Alike(Top(u)', Top(u))
      /\ \A u \in Threads : \A i \in DOMAIN frames[u] :
           u # t \/ i < Depth(u) => Alike(frames'[u][i], frames[u][i])
      /\ frames'[t][Depth(t)] = top /\ frames[t][Depth(t)] = Top(t)
      /\ Top(t)' = top /\ Depth(t) \in DOMAIN frames[t]
  BY Inner
<1>2. DOMAIN frames[t] = 1..Depth(t) /\ Depth(t) \in Nat
  BY Stacks
<1>3. ASSUME NEW u \in Threads, NEW i \in DOMAIN frames[u]
      PROVE  frames'[u][i].buffer = frames[u][i].buffer
  <2>1. CASE u # t \/ i < Depth(u)
    BY <1>1, <2>1 DEF Alike
  <2>2. CASE u = t /\ i = Depth(t)
    BY <1>1, <2>2
  <2>3. CASE u = t /\ ~(i < Depth(t)) /\ i # Depth(t)
    BY <1>2, <2>3
  <2> QED
    BY <2>1, <2>2, <2>3
<1>4. ASSUME NEW u \in Threads, NEW n \in Nat, <<u, n>> \in buffers'
      PROVE  n \in DOMAIN frames'[u] /\ frames'[u][n].buffer = n
  BY <1>1, <1>3, <1>4 DEF BufferInv
<1>5. ASSUME NEW u \in Threads, Depth(u)' > 0, Top(u)'.at \notin Over, Top(u)'.buffer # 0
      PROVE  <<u, Top(u)'.buffer>> \in buffers'
  <2>1. CASE u = t
    BY <1>1, <1>5, <2>1 DEF BufferInv
  <2>2. CASE u # t
    <3>1. Depth(u) > 0 /\ Top(u).at = Top(u)'.at /\ Top(u).buffer = Top(u)'.buffer
      BY <1>1, <1>5, <2>2 DEF Alike
    <3> QED
      BY <1>5, <3>1 DEF BufferInv
  <2> QED
    BY <2>1, <2>2
<1> QED
  BY <1>4, <1>5 DEF BufferInv

LEMMA BufferStill ==
  ASSUME WrenTypes, BufferInv, Still, buffers' = buffers
  PROVE  BufferInv'
<1>1. /\ \A u \in Threads : DOMAIN frames'[u] = DOMAIN frames[u] /\ Depth(u)' = Depth(u)
      /\ \A u \in Threads : Depth(u) > 0 => Alike(Top(u)', Top(u))
      /\ \A u \in Threads : \A i \in DOMAIN frames[u] : Alike(frames'[u][i], frames[u][i])
  BY StillInner
<1>2. ASSUME NEW u \in Threads, NEW n \in Nat, <<u, n>> \in buffers'
      PROVE  n \in DOMAIN frames'[u] /\ frames'[u][n].buffer = n
  BY <1>1, <1>2 DEF Alike, BufferInv
<1>3. ASSUME NEW u \in Threads, Depth(u)' > 0, Top(u)'.at \notin Over, Top(u)'.buffer # 0
      PROVE  <<u, Top(u)'.buffer>> \in buffers'
  <2>1. Depth(u) > 0 /\ Top(u).at = Top(u)'.at /\ Top(u).buffer = Top(u)'.buffer
    BY <1>1, <1>3 DEF Alike
  <2> QED
    BY <1>3, <2>1 DEF BufferInv
<1> QED
  BY <1>2, <1>3 DEF BufferInv

LEMMA BufferPushed ==
  ASSUME WrenTypes, BufferInv, NEW t \in Threads, NEW f \in Frame, Pushed(t, f),
         f.buffer # 0 => <<t, f.buffer>> \in buffers, buffers' = buffers
  PROVE  BufferInv'
<1>1. /\ \A u \in Threads \ {t} : frames'[u] = frames[u] /\ Depth(u)' = Depth(u)
      /\ \A u \in Threads \ {t} : Top(u)' = Top(u)
      /\ frames' \in [Threads -> Seq(Frame)]
  BY DEF Pushed, Depth, Top
<1>2. /\ DOMAIN frames[t] = 1..Depth(t) /\ Depth(t) \in Nat
      /\ DOMAIN frames'[t] = 1..(Depth(t) + 1)
  <2>1. DOMAIN frames'[t] = 1..(Depth(t)')
    BY <1>1, DepthsNow
  <2>2. Depth(t)' = Depth(t) + 1
    BY DEF Pushed
  <2> QED
    BY <2>1, <2>2, Stacks
<1>3. \A i \in DOMAIN frames[t] :
        i \in DOMAIN frames'[t] /\ frames'[t][i].buffer = frames[t][i].buffer
  <2>1. \A i \in DOMAIN frames[t] : i \in DOMAIN frames'[t]
    BY <1>2
  <2> QED
    BY <2>1 DEF Pushed
<1>4. ASSUME NEW u \in Threads, NEW n \in Nat, <<u, n>> \in buffers'
      PROVE  n \in DOMAIN frames'[u] /\ frames'[u][n].buffer = n
  BY <1>1, <1>3, <1>4 DEF BufferInv
<1>5. ASSUME NEW u \in Threads, Depth(u)' > 0, Top(u)'.at \notin Over, Top(u)'.buffer # 0
      PROVE  <<u, Top(u)'.buffer>> \in buffers'
  <2>1. CASE u = t
    <3>1. Top(t)' = f
      BY DEF Pushed
    <3> QED
      BY <1>5, <2>1, <3>1
  <2>2. CASE u # t
    <3>1. Depth(u)' = Depth(u) /\ Top(u)' = Top(u)
      BY <1>1, <2>2
    <3> QED
      BY <1>5, <3>1 DEF BufferInv
  <2> QED
    BY <2>1, <2>2
<1> QED
  BY <1>4, <1>5 DEF BufferInv

LEMMA BufferStep ==
  ASSUME WrenTypes, StackInv, BufferInv, [WrenNext]_wrenVars
  PROVE  BufferInv'
<1>1. ASSUME NEW t \in Threads, Moves(t)
      PROVE  BufferInv'
  BY <1>1, MovesDoes, BufferMoved
<1>2. ASSUME NEW t \in Threads, ParseFile(t)
      PROVE  BufferInv'
  <2>1. buffers' = buffers
    BY <1>2, ParseFileDoes
  <2>2. CASE patched
    <3>1. PICK f \in Frame : Pushed(t, f) /\ f.buffer = 0
      BY <1>2, <2>2, ParseFileDoes DEF Entered
    <3> QED
      BY <2>1, <3>1, BufferPushed
  <2>3. CASE ~patched
    BY <1>2, <2>1, <2>3, ParseFileDoes, StillIs, BufferStill
  <2> QED
    BY <2>2, <2>3
<1>3. ASSUME NEW t \in Threads, CallParser(t)
      PROVE  BufferInv'
  <2>1. /\ Depth(t) > 0 /\ Top(t).at = "call" /\ buffers' = buffers
    BY <1>3, CallParserDoes DEF At
  <2>2. CASE patched
    <3>1. PICK f \in Frame : Pushed(t, f) /\ f.buffer = Top(t).buffer
      BY <1>3, <2>2, CallParserDoes DEF Entered
    <3>2. f.buffer # 0 => <<t, f.buffer>> \in buffers
      BY <2>1, <3>1 DEF BufferInv, Over
    <3> QED
      BY <2>1, <3>1, <3>2, BufferPushed
  <2>3. CASE ~patched
    <3>1. PICK top \in Frame : /\ Replaced(t, top) /\ top.at = "erase"
                               /\ top.buffer = Top(t).buffer
      BY <1>3, <2>3, CallParserDoes
    <3> QED
      BY <2>1, <3>1, BufferMoved DEF Over
  <2> QED
    BY <2>2, <2>3
<1>4. ASSUME NEW t \in Threads, RemovePatch(t)
      PROVE  BufferInv'
  <2>1. PICK top \in Frame : /\ Replaced(t, top) /\ top.buffer = Top(t).buffer
    BY <1>4, RemovePatchDoes
  <2>2. /\ Depth(t) > 0 /\ Top(t).at = "entered" /\ buffers' = buffers
    BY <1>4, RemovePatchDoes DEF At
  <2> QED
    BY <2>1, <2>2, BufferMoved DEF Over
<1>5. ASSUME NEW t \in Threads, CopyText(t)
      PROVE  BufferInv'
  <2>1. PICK top \in Frame : /\ Replaced(t, top) /\ top.buffer = Depth(t)
    BY <1>5, CopyTextDoes
  <2>2. /\ Depth(t) > 0 /\ buffers' = buffers \cup {<<t, Depth(t)>>}
    BY <1>5, CopyTextDoes DEF At
  <2>3. /\ \A u \in Threads : DOMAIN frames'[u] = DOMAIN frames[u] /\ Depth(u)' = Depth(u)
        /\ \A u \in Threads \ {t} : Depth(u) > 0 => Alike(Top(u)', Top(u))
        /\ \A u \in Threads : \A i \in DOMAIN frames[u] :
             u # t \/ i < Depth(u) => Alike(frames'[u][i], frames[u][i])
        /\ frames'[t][Depth(t)] = top /\ Top(t)' = top /\ Depth(t) \in DOMAIN frames[t]
    BY <2>1, <2>2, Inner
  <2>4. DOMAIN frames[t] = 1..Depth(t) /\ Depth(t) \in Nat
    BY Stacks
  <2>5. ASSUME NEW u \in Threads, NEW n \in Nat, <<u, n>> \in buffers'
        PROVE  n \in DOMAIN frames'[u] /\ frames'[u][n].buffer = n
    <3>1. CASE u = t /\ n = Depth(t)
      BY <2>1, <2>3, <3>1
    <3>2. CASE ~(u = t /\ n = Depth(t))
      <4>1. <<u, n>> \in buffers
        BY <2>2, <2>5, <3>2
      <4>2. n \in DOMAIN frames[u] /\ frames[u][n].buffer = n
        BY <4>1 DEF BufferInv
      <4>3. u # t \/ n < Depth(u)
        BY <2>4, <3>2, <4>2
      <4> QED
        BY <2>3, <4>2, <4>3 DEF Alike
    <3> QED
      BY <3>1, <3>2
  <2>6. ASSUME NEW u \in Threads, Depth(u)' > 0, Top(u)'.at \notin Over,
               Top(u)'.buffer # 0
        PROVE  <<u, Top(u)'.buffer>> \in buffers'
    <3>1. CASE u = t
      BY <2>1, <2>2, <2>3, <3>1
    <3>2. CASE u # t
      <4>1. Depth(u) > 0 /\ Top(u).at = Top(u)'.at /\ Top(u).buffer = Top(u)'.buffer
        BY <2>3, <2>6, <3>2 DEF Alike
      <4> QED
        BY <2>2, <2>6, <4>1 DEF BufferInv
    <3> QED
      BY <3>1, <3>2
  <2> QED
    BY <2>5, <2>6 DEF BufferInv
<1>6. ASSUME NEW t \in Threads, FreeText(t)
      PROVE  BufferInv'
  <2>1. /\ \A u \in Threads \ {t} : frames'[u] = frames[u] /\ Depth(u)' = Depth(u)
        /\ \A u \in Threads \ {t} : Top(u)' = Top(u)
        /\ frames' \in [Threads -> Seq(Frame)]
        /\ buffers' = buffers \ {<<t, Top(t).buffer>>}
    BY <1>6, FreeTextDoes DEF Depth, Top
  <2>2. /\ DOMAIN frames[t] = 1..Depth(t) /\ Depth(t) \in Nat \ {0}
        /\ DOMAIN frames'[t] = 1..(Depth(t) - 1) /\ Depth(t)' = Depth(t) - 1
        /\ \A i \in 1..(Depth(t) - 1) : i \in DOMAIN frames[t]
             /\ i < Depth(t) /\ frames'[t][i] = frames[t][i]
        /\ Top(t) = frames[t][Depth(t)]
    <3>1. /\ Depth(t) > 0 /\ Depth(t)' = Depth(t) - 1
          /\ \A i \in DOMAIN frames[t] : i < Depth(t) => frames'[t][i] = frames[t][i]
      BY <1>6, FreeTextDoes DEF At
    <3>2. DOMAIN frames'[t] = 1..(Depth(t)')
      BY <2>1, DepthsNow
    <3>3. DOMAIN frames[t] = 1..Depth(t) /\ Depth(t) \in Nat /\ Top(t) = frames[t][Depth(t)]
      BY Stacks DEF Top, Depth
    <3> QED
      BY <3>1, <3>2, <3>3
  <2>3. ASSUME NEW u \in Threads, NEW n \in Nat, <<u, n>> \in buffers'
        PROVE  n \in DOMAIN frames'[u] /\ frames'[u][n].buffer = n
    <3>1. <<u, n>> \in buffers /\ n \in DOMAIN frames[u] /\ frames[u][n].buffer = n
      BY <2>1, <2>3 DEF BufferInv
    <3>2. CASE u # t
      BY <2>1, <3>1, <3>2
    <3>3. CASE u = t
      <4>1. n # Depth(t)
        BY <2>1, <2>2, <2>3, <3>1, <3>3
      <4>2. n \in 1..(Depth(t) - 1)
        BY <2>2, <3>1, <3>3, <4>1
      <4> QED
        BY <2>2, <3>1, <3>3, <4>2
    <3> QED
      BY <3>2, <3>3
  <2>4. ASSUME NEW u \in Threads, Depth(u)' > 0, Top(u)'.at \notin Over,
               Top(u)'.buffer # 0
        PROVE  <<u, Top(u)'.buffer>> \in buffers'
    <3>1. u # t
      <4>1. SUFFICES ASSUME u = t
                     PROVE  Top(t)'.at = "erase"
        BY <2>4 DEF Over
      <4>2. /\ Depth(t) - 1 \in 1..(Depth(t) - 1)
            /\ Top(t)' = frames'[t][Depth(t) - 1]
        BY <2>2, <2>4, <4>1 DEF Top, Depth
      <4> QED
        BY <2>2, <4>2 DEF StackInv
    <3> QED
      BY <2>1, <2>4, <3>1 DEF BufferInv
  <2> QED
    BY <2>3, <2>4 DEF BufferInv
<1>7. ASSUME NEW t \in Threads, EndLoad(t)
      PROVE  BufferInv'
  BY <1>7, EndLoadDoes, StillIs, BufferStill
<1>8. CASE Waits
  BY <1>8, WaitsDoes, BufferStill
<1>9. CASE Begins
  BY <1>9, BeginsDoes, StillIs, BufferStill
<1>10. CASE UNCHANGED wrenVars
  BY <1>10, StillIs, BufferStill DEF wrenVars
<1> QED
  BY <1>1, <1>2, <1>3, <1>4, <1>5, <1>6, <1>7, <1>8, <1>9, <1>10, Kinds

-----------------------------------------------------------------------------
(* Handles. *)

InWren(t) == Depth(t) > 0 /\ Top(t).at \in {"wren", "wait", "register"}

(* One call at a time is in Wren, of whoever holds the VM's lock. *)
HandleInv ==
  /\ \A t \in Threads : InWren(t) => vm_mutex = t
  /\ invocation = "wren" => vm_mutex = LuaThread
  /\ callHandles = (IF \E t \in Threads : InWren(t) THEN 2 ELSE 0)
                   + (IF invocation = "wren" THEN 1 ELSE 0) + 2 * bounds.failures

LEMMA InWrenMoved ==
  ASSUME WrenTypes, NEW t \in Threads, Depth(t) > 0, NEW top \in Frame, Replaced(t, top)
  PROVE  /\ \A u \in Threads \ {t} : InWren(u)' <=> InWren(u)
         /\ InWren(t)' <=> top.at \in {"wren", "wait", "register"}
  BY Inner DEF InWren, Alike

LEMMA HandleKept ==
  ASSUME HandleInv, \A u \in Threads : InWren(u)' <=> InWren(u),
         UNCHANGED <<vm_mutex, callHandles, invocation>>, bounds'.failures = bounds.failures
  PROVE  HandleInv'
  BY DEF HandleInv

(* Nobody is in Wren when the lock is free. *)
LEMMA NobodyInWren ==
  ASSUME WrenTypes, HandleInv, vm_mutex = NoThread
  PROVE  /\ \A u \in Threads : ~InWren(u)
         /\ invocation # "wren" /\ callHandles = 2 * bounds.failures
<1>1. (\A u \in Threads : ~InWren(u)) /\ invocation # "wren"
  BY WrenRuntimeAssumption DEF HandleInv
<1>2. bounds.failures \in Nat
  BY Counted
<1> QED
  BY <1>1, <1>2 DEF HandleInv

LEMMA OneInWren ==
  ASSUME WrenTypes, StackInv, HandleInv, NEW t \in Threads, InWren(t)
  PROVE  /\ \A u \in Threads \ {t} : ~InWren(u)
         /\ invocation # "wren" /\ callHandles = 2 + 2 * bounds.failures
<1>1. \A u \in Threads \ {t} : ~InWren(u)
  BY DEF HandleInv
<1>2. invocation # "wren"
  <2>1. SUFFICES ASSUME invocation = "wren"
                 PROVE  FALSE
    OBVIOUS
  <2>2. t = LuaThread /\ Depth(t) = 0
    BY <2>1 DEF HandleInv, StackInv
  <2> QED
    BY <2>2 DEF InWren
<1>3. bounds.failures \in Nat
  BY Counted
<1> QED
  BY <1>1, <1>2, <1>3 DEF HandleInv

LEMMA HandleStep ==
  ASSUME WrenTypes, StackInv, HandleInv, [WrenNext]_wrenVars
  PROVE  HandleInv'
<1>0. bounds.failures \in Nat /\ LuaThread \in Threads /\ NoThread \notin Threads
  BY Counted, WrenRuntimeAssumption
<1>1. ASSUME NEW t \in Threads, NEW top \in Frame, Depth(t) > 0, Replaced(t, top),
             InWren(t) <=> top.at \in {"wren", "wait", "register"},
             UNCHANGED <<vm_mutex, callHandles, invocation>>,
             bounds'.failures = bounds.failures
      PROVE  HandleInv'
  BY <1>1, InWrenMoved, HandleKept
<1>2. ASSUME Still, UNCHANGED <<vm_mutex, callHandles, invocation>>,
             bounds'.failures = bounds.failures
      PROVE  HandleInv'
  <2>1. \A u \in Threads : InWren(u)' <=> InWren(u)
    BY <1>2, StillInner DEF InWren, Alike
  <2> QED
    BY <1>2, <2>1, HandleKept
<1>3. ASSUME NEW t \in Threads, Moves(t)
      PROVE  HandleInv'
  <2>0. Depth(t) > 0
    BY <1>3, MovesDoes
  <2>1. CASE TestFile(t)
    <3>1. PICK top \in Frame : Replaced(t, top) /\ top.at \in {"call", "set"}
      BY <2>1, TestFileDoes
    <3> QED
      BY <1>1, <2>0, <2>1, <3>1, TestFileDoes DEF vmVars, InWren, At
  <2>2. CASE SetParsed(t)
    <3>1. PICK top \in Frame : Replaced(t, top) /\ top.at \in {"call", "lock"}
      BY <2>2, SetParsedDoes
    <3> QED
      BY <1>1, <2>0, <2>2, <3>1, SetParsedDoes DEF vmVars, InWren, At
  <2>3. CASE EnterWren(t)
    <3>1. /\ \A u \in Threads : ~InWren(u)
          /\ invocation # "wren" /\ callHandles = 2 * bounds.failures
          /\ UNCHANGED <<bounds, invocation>>
      BY <2>3, EnterWrenDoes, NobodyInWren
    <3>2. PICK top \in Frame :
              /\ Replaced(t, top)
              /\ \/ /\ top.at = "wren" /\ vm_mutex' = t /\ callHandles' = callHandles + 2
                 \/ /\ top.at = "call" /\ vm_mutex' = NoThread
                    /\ callHandles' = callHandles
      BY <2>3, EnterWrenDoes
    <3>3. /\ \A u \in Threads \ {t} : ~InWren(u)'
          /\ InWren(t)' <=> top.at \in {"wren", "wait", "register"}
      BY <2>0, <3>1, <3>2, InWrenMoved
    <3>4. CASE top.at = "wren"
      BY <1>0, <3>1, <3>2, <3>3, <3>4 DEF HandleInv
    <3>5. CASE top.at = "call"
      BY <1>0, <3>1, <3>2, <3>3, <3>5 DEF HandleInv
    <3> QED
      BY <3>2, <3>4, <3>5
  <2>4. CASE TweakFails(t) \/ TweakReturns(t)
    <3>1. InWren(t) /\ vm_mutex' = NoThread /\ invocation' = invocation
      BY <2>4, TweakFailsDoes, TweakReturnsDoes DEF InWren, At
    <3>2. /\ \A u \in Threads \ {t} : ~InWren(u)
          /\ invocation # "wren" /\ callHandles = 2 + 2 * bounds.failures
      BY <3>1, OneInWren
    <3>3. PICK top \in Frame : Replaced(t, top) /\ top.at \in {"call", "copy"}
      BY <2>4, TweakFailsDoes, TweakReturnsDoes
    <3>4. \A u \in Threads : ~InWren(u)'
      BY <2>0, <3>2, <3>3, InWrenMoved
    <3>5. \/ callHandles' = callHandles /\ bounds'.failures = bounds.failures + 1
          \/ callHandles' = callHandles - 2 /\ bounds'.failures = bounds.failures
      BY <2>4, TweakFailsDoes, TweakReturnsDoes, Counted
    <3> QED
      BY <1>0, <3>1, <3>2, <3>4, <3>5 DEF HandleInv
  <2>5. CASE RegisterObject(t) \/ LockToRegister(t) \/ ObjectRegistered(t)
    <3>1. PICK top \in Frame :
            Replaced(t, top) /\ top.at \in {"wren", "wait", "register"}
      BY <2>5, WrenCodeDoes
    <3>2. InWren(t) /\ UNCHANGED <<vm_mutex, callHandles, invocation, bounds>>
      BY <2>5, WrenCodeDoes DEF InWren
    <3> QED
      BY <1>1, <2>0, <3>1, <3>2
  <2>6. CASE (InsertBuffer(t) \/ EraseBuffer(t)) /\ wrenState' # "undefined"
    <3>1. PICK from \in {"copy", "erase"}, step \in {"insert", "erasing"} :
            BeginChange(t, from, step)
      BY <2>6 DEF InsertBuffer, EraseBuffer
    <3>2. from \in Steps /\ step \in Steps
      BY DEF Steps
    <3>3. PICK top \in Frame : Replaced(t, top) /\ top.at = step
      BY <2>6, <3>1, <3>2, ChangeDoes
    <3>4. ~InWren(t) /\ UNCHANGED <<vm_mutex, callHandles, invocation, bounds>>
      BY <3>1, <3>2, ChangeDoes DEF InWren, At, vmVars
    <3> QED
      BY <1>1, <2>0, <3>3, <3>4
  <2> QED
    BY <1>3, <2>1, <2>2, <2>3, <2>4, <2>5, <2>6 DEF Moves
<1>4. ASSUME NEW t \in Threads, NEW f \in Frame, Pushed(t, f), f.at = "entered", ~InWren(t),
             UNCHANGED <<vm_mutex, callHandles, invocation, bounds>>
      PROVE  HandleInv'
  <2>1. Top(t)' = f
    BY <1>4 DEF Pushed
  <2>2. ~InWren(t)'
    BY <1>4, <2>1 DEF InWren
  <2>3. \A u \in Threads \ {t} : InWren(u)' <=> InWren(u)
    BY <1>4 DEF Pushed, InWren, Depth, Top
  <2> QED
    BY <1>4, <2>2, <2>3, HandleKept
<1>5. ASSUME NEW t \in Threads, ParseFile(t)
      PROVE  HandleInv'
  <2>0. Depth(t) = 0
    BY <1>5, ParseFileDoes
  <2>1. ~InWren(t) /\ UNCHANGED <<vm_mutex, callHandles, invocation, bounds>>
    <3>1. ~InWren(t)
      BY <2>0 DEF InWren
    <3> QED
      BY <1>5, <3>1, ParseFileDoes DEF vmVars
  <2>2. CASE patched
    <3>1. PICK f \in Frame : Pushed(t, f) /\ f.at = "entered"
      BY <1>5, <2>2, ParseFileDoes DEF Entered
    <3> QED
      BY <1>4, <2>1, <3>1
  <2>3. CASE ~patched
    BY <1>2, <1>5, <2>1, <2>3, ParseFileDoes, StillIs
  <2> QED
    BY <2>2, <2>3
<1>6. ASSUME NEW t \in Threads, CallParser(t)
      PROVE  HandleInv'
  <2>1. /\ ~InWren(t) /\ Depth(t) > 0
        /\ UNCHANGED <<vm_mutex, callHandles, invocation, bounds>>
    BY <1>6, CallParserDoes DEF InWren, vmVars, At
  <2>2. CASE patched
    <3>1. PICK f \in Frame : Pushed(t, f) /\ f.at = "entered"
      BY <1>6, <2>2, CallParserDoes DEF Entered
    <3> QED
      BY <1>4, <2>1, <3>1
  <2>3. CASE ~patched
    <3>1. PICK top \in Frame : Replaced(t, top) /\ top.at = "erase"
      BY <1>6, <2>3, CallParserDoes
    <3> QED
      BY <1>1, <2>1, <3>1
  <2> QED
    BY <2>2, <2>3
<1>7. ASSUME NEW t \in Threads, RemovePatch(t) \/ CopyText(t)
      PROVE  HandleInv'
  <2>1. PICK top \in Frame : Replaced(t, top) /\ top.at \in {"test", "call"}
    BY <1>7, RemovePatchDoes, CopyTextDoes
  <2>2. /\ ~InWren(t) /\ Depth(t) > 0
        /\ UNCHANGED <<vm_mutex, callHandles, invocation, bounds>>
    BY <1>7, RemovePatchDoes, CopyTextDoes DEF InWren, vmVars, At
  <2> QED
    BY <1>1, <2>1, <2>2
<1>8. ASSUME NEW t \in Threads, FreeText(t)
      PROVE  HandleInv'
  <2>1. /\ frames' \in [Threads -> Seq(Frame)]
        /\ \A u \in Threads \ {t} : frames'[u] = frames[u]
        /\ Depth(t) > 0 /\ Top(t).at = "erasing" /\ Depth(t)' = Depth(t) - 1
        /\ \A i \in DOMAIN frames[t] : i < Depth(t) => frames'[t][i] = frames[t][i]
        /\ UNCHANGED <<vm_mutex, callHandles, invocation, bounds>>
    BY <1>8, FreeTextDoes DEF At, vmVars
  <2>2. \A u \in Threads \ {t} : InWren(u)' <=> InWren(u)
    BY <2>1 DEF InWren, Depth, Top
  <2>3. ~InWren(t)
    BY <2>1 DEF InWren
  <2>4. ~InWren(t)'
    <3>1. SUFFICES ASSUME Depth(t)' > 0
                   PROVE  Top(t)'.at = "erase"
      BY DEF InWren
    <3>2. DOMAIN frames[t] = 1..Depth(t) /\ Depth(t) \in Nat
      BY Stacks
    <3>3. /\ Depth(t) - 1 \in DOMAIN frames[t] /\ Depth(t) - 1 < Depth(t)
          /\ Top(t)' = frames'[t][Depth(t) - 1]
      BY <2>1, <3>1, <3>2 DEF Top, Depth
    <3> QED
      BY <2>1, <3>3 DEF StackInv
  <2> QED
    BY <2>1, <2>2, <2>3, <2>4, HandleKept
<1>9. ASSUME NEW t \in Threads, EndLoad(t)
      PROVE  HandleInv'
  BY <1>2, <1>9, EndLoadDoes, StillIs DEF vmVars
<1>10. CASE Waits
  <2>1. ASSUME NEW t \in Threads, InsertBuffer(t) \/ EraseBuffer(t)
        PROVE  UNCHANGED <<vm_mutex, callHandles, invocation, bounds>>
    BY <2>1 DEF InsertBuffer, EraseBuffer, BeginChange, vmVars
  <2>2. ASSUME NEW t \in Threads, NEW value \in BOOLEAN, SetTweakerEnabled(t, value)
        PROVE  UNCHANGED <<vm_mutex, callHandles, invocation, bounds>>
    BY <2>2 DEF SetTweakerEnabled, vmVars
  <2>3. CASE InitFails
    BY <1>2, <1>10, <2>3, WaitsDoes DEF InitFails, vmVars
  <2>4. ASSUME Still, vm_mutex' = vm_mutex, callHandles' = callHandles,
               bounds' = bounds, invocation # "wren", invocation' # "wren"
        PROVE  HandleInv'
    <3>1. \A u \in Threads : InWren(u)' <=> InWren(u)
      BY <2>4, StillInner DEF InWren, Alike
    <3> QED
      BY <2>4, <3>1 DEF HandleInv
  <2>5. CASE LockExposed \/ FindObject
    <3>1. /\ vm_mutex' = vm_mutex /\ callHandles' = callHandles
          /\ bounds' = bounds /\ invocation # "wren" /\ invocation' # "wren"
      BY <2>5 DEF LockExposed, FindObject, Invocation
    <3> QED
      BY <1>10, <2>4, <3>1, WaitsDoes
  <2>6. CASE CallObject
    <3>1. /\ vm_mutex = NoThread /\ bounds' = bounds /\ invocation = "lock"
          /\ \/ /\ vm_mutex' = LuaThread /\ callHandles' = callHandles + 1
                /\ invocation' = "wren"
             \/ /\ vm_mutex' = vm_mutex /\ callHandles' = callHandles
                /\ invocation' # "wren"
      BY <2>6 DEF CallObject, Invocation
    <3>2. /\ \A u \in Threads : ~InWren(u)
          /\ callHandles = 2 * bounds.failures
      BY <3>1, NobodyInWren
    <3>3. Still
      BY <1>10, WaitsDoes
    <3>4. \A u \in Threads : ~InWren(u)'
      BY <3>2, <3>3, StillInner DEF InWren, Alike
    <3>5. CASE vm_mutex' = vm_mutex /\ callHandles' = callHandles /\ invocation' # "wren"
      BY <2>4, <3>1, <3>3, <3>5
    <3>6. CASE vm_mutex' = LuaThread /\ callHandles' = callHandles + 1 /\ invocation' = "wren"
      BY <1>0, <3>1, <3>2, <3>4, <3>6 DEF HandleInv
    <3> QED
      BY <3>1, <3>5, <3>6
  <2>7. CASE ObjectReturns
    <3>1. /\ vm_mutex' = NoThread /\ callHandles' = callHandles - 1
          /\ invocation = "wren" /\ invocation' = "idle" /\ bounds' = bounds
      BY <2>7 DEF ObjectReturns, Invocation
    <3>2. \A u \in Threads : ~InWren(u)
      BY <3>1, OneInWren
    <3>3. \A u \in Threads : ~InWren(u)'
      BY <1>10, <3>2, WaitsDoes, StillInner DEF InWren, Alike
    <3> QED
      BY <1>0, <3>1, <3>2, <3>3 DEF HandleInv
  <2> QED
    BY <1>2, <1>10, <2>1, <2>2, <2>3, <2>5, <2>6, <2>7, WaitsDoes DEF Waits, LuaStep
<1>11. CASE Begins
  <2>1. Still
    BY <1>11, BeginsDoes, StillIs
  <2>2. ASSUME NEW t \in Threads, NEW f \in Files, LoadFile(t, f)
        PROVE  HandleInv'
    <3>1. UNCHANGED <<vm_mutex, callHandles, invocation>> /\ bounds'.failures = bounds.failures
      BY <2>2, LoadFileDoes, Counted DEF vmVars
    <3> QED
      BY <1>2, <2>1, <3>1
  <2>3. CASE BeginInvoke
    <3>1. /\ UNCHANGED <<vm_mutex, callHandles>> /\ bounds'.failures = bounds.failures
          /\ invocation = "idle" /\ invocation' = "find"
      BY <2>3, Counted DEF BeginInvoke, Invocation, vmVars, Busy, InvokesWren
    <3>2. \A u \in Threads : InWren(u)' <=> InWren(u)
      BY <2>1, StillInner DEF InWren, Alike
    <3> QED
      BY <3>1, <3>2 DEF HandleInv
  <2>4. ASSUME NEW f \in Files, ignoretweak(f)
        PROVE  HandleInv'
    BY <1>2, <2>1, <2>4 DEF ignoretweak, vmVars
  <2> QED
    BY <1>11, <2>2, <2>3, <2>4 DEF Begins
<1>12. CASE UNCHANGED wrenVars
  BY <1>2, <1>12, StillIs DEF wrenVars
<1> QED
  BY <1>3, <1>5, <1>6, <1>7, <1>8, <1>9, <1>10, <1>11, <1>12, Kinds

-----------------------------------------------------------------------------
(* A load that nothing overlaps with. *)

ToTweak(t) ==
  load[t].expected <=> /\ tweaker_enabled /\ last_parsed # load[t].file
                       /\ load[t].file \notin Binary \cup ignored_files

Tweaked(t, text, name) ==
  IF load[t].expected /\ ~load[t].failed
  THEN text = "tweaked" /\ name = load[t].file
  ELSE text = "original"

(* What is known of the only call of the parser at each of its steps. *)
Stage(t) ==
  /\ Top(t).at \notin Over => load[t].parsed = "none"
  /\ Top(t).at \in Over => Tweaked(t, load[t].parsed, load[t].tweakedAs)
  /\ Top(t).at = "entered" => patched
  /\ Top(t).at \notin {"entered"} \cup Over => ~patched
  /\ Top(t).at \in {"entered", "test"} => ToTweak(t)
  /\ Top(t).at = "set" =>
       /\ Top(t).tested = load[t].file
       /\ load[t].expected <=> load[t].file \notin Binary \cup ignored_files
  /\ Top(t).at \in {"lock", "wren", "wait", "register", "copy", "insert"} =>
       load[t].expected
  /\ Top(t).at \in {"wren", "wait", "register", "copy", "insert"} =>
       Top(t).tweakedAs = load[t].file
  /\ Top(t).at \in {"entered", "test", "set", "lock", "wren", "wait", "register"} =>
       Top(t).text = "original"
  /\ Top(t).at \in {"copy", "insert"} => Top(t).text = "tweaked"
  /\ Top(t).at \notin {"call"} \cup Over => ~load[t].failed /\ ~Top(t).loose
  /\ Top(t).at = "call" => Tweaked(t, Top(t).text, Top(t).tweakedAs)

Undisturbed(t) ==
  /\ \A u \in Threads \ {t} : load[u].file = NoFile
  /\ invocation = "idle" /\ wrenState # "undefined"
  /\ load[t].file # NoFile /\ lastLoaded = load[t].file
  /\ Depth(t) \in {0, 1}
  /\ Depth(t) = 0 /\ load[t].parsed = "none" => patched /\ ToTweak(t) /\ ~load[t].failed
  /\ Depth(t) = 0 /\ load[t].parsed # "none" =>
       Tweaked(t, load[t].parsed, load[t].tweakedAs)
  /\ Depth(t) = 1 => Stage(t)

AloneInv == \A t \in Threads : load[t].alone => Undisturbed(t)

LEMMA OnlyOne ==
  ASSUME StackInv, NEW t \in Threads, Undisturbed(t), NEW u \in Threads, Depth(u) > 0
  PROVE  u = t /\ Depth(t) = 1
<1>1. u = t
  <2>1. Depth(u) # 0
    OBVIOUS
  <2> QED
    BY <2>1 DEF StackInv, Undisturbed
<1> QED
  BY <1>1 DEF Undisturbed

LEMMA StageMoved ==
  ASSUME WrenTypes, NEW t \in Threads, Undisturbed(t), Depth(t) = 1,
         NEW top \in Frame, Replaced(t, top),
         \A u \in Threads : load'[u].file = load[u].file,
         UNCHANGED <<lastLoaded, invocation, wrenState>>,
         Stage(t)'
  PROVE  Undisturbed(t)'
<1>1. Depth(t)' = 1
  BY DEF Replaced
<1> QED
  BY <1>1 DEF Undisturbed

LEMMA AloneMoves ==
  ASSUME WrenTypes, StackInv, NEW t \in Threads, Undisturbed(t), Depth(t) = 1, Moves(t),
         wrenState = "running"
  PROVE  Undisturbed(t)'
<1>0. /\ Stage(t) /\ Top(t) \in Frame /\ load[t].file # NoFile
      /\ lastLoaded = load[t].file
  BY Stacks DEF Undisturbed
<1>1. CASE TestFile(t)
  <2>1. PICK top \in Frame :
              /\ Replaced(t, top) /\ top.at = (IF Skipped(t) THEN "call" ELSE "set")
              /\ top.tested = lastLoaded /\ top.text = Top(t).text
              /\ top.loose = Top(t).loose
    BY <1>1, TestFileDoes
  <2>2. /\ Top(t).at = "test" /\ Top(t)' = top
        /\ UNCHANGED <<tweakVars, patched, load, invocation, wrenState>>
    BY <1>1, <2>1, TestFileDoes DEF At, Replaced
  <2>3. CASE Skipped(t)
    <3>1. top.at = "call" /\ ~load[t].expected
      BY <1>0, <2>1, <2>2, <2>3 DEF Stage, ToTweak, Skipped
    <3>2. Stage(t)'
      BY <1>0, <2>1, <2>2, <3>1 DEF Stage, Tweaked, Over
    <3> QED
      BY <2>1, <2>2, <3>2, StageMoved DEF tweakVars
  <2>4. CASE ~Skipped(t)
    <3>1. /\ top.at = "set"
          /\ load[t].expected <=> load[t].file \notin Binary \cup ignored_files
      BY <1>0, <2>1, <2>2, <2>4 DEF Stage, ToTweak, Skipped
    <3>2. Stage(t)'
      BY <1>0, <2>1, <2>2, <3>1 DEF Stage, Over, tweakVars
    <3> QED
      BY <2>1, <2>2, <3>2, StageMoved DEF tweakVars
  <2> QED
    BY <2>3, <2>4
<1>2. CASE SetParsed(t)
  <2>1. PICK top \in Frame :
              /\ Replaced(t, top)
              /\ top.at = (IF Top(t).tested \in Binary \cup ignored_files
                           THEN "call" ELSE "lock")
              /\ top.text = Top(t).text /\ top.loose = Top(t).loose
    BY <1>2, SetParsedDoes
  <2>2. /\ Top(t).at = "set" /\ Top(t)' = top
        /\ UNCHANGED <<lastLoaded, patched, load, invocation, wrenState>>
    BY <1>2, <2>1, SetParsedDoes DEF At, Replaced
  <2>3. load[t].expected <=> top.at = "lock"
    BY <1>0, <2>1, <2>2 DEF Stage
  <2>4. top.at \in {"call", "lock"}
    BY <2>1
  <2>5. Stage(t)'
    BY <1>0, <2>1, <2>2, <2>3, <2>4 DEF Stage, Tweaked, Over
  <2> QED
    BY <2>1, <2>2, <2>5, StageMoved
<1>3. CASE EnterWren(t)
  <2>1. PICK top \in Frame :
              /\ Replaced(t, top) /\ top.text = Top(t).text /\ top.loose = Top(t).loose
              /\ \/ top.at = "wren" /\ top.tweakedAs = lastLoaded /\ load' = load
                 \/ top.at = "call" /\ load' = [load EXCEPT ![t].failed = TRUE]
    BY <1>3, EnterWrenDoes
  <2>2. /\ Top(t).at = "lock" /\ Top(t)' = top
        /\ UNCHANGED <<lastLoaded, patched, invocation, wrenState>>
    BY <1>3, <2>1, EnterWrenDoes DEF At, Replaced, tweakVars
  <2>3. CASE top.at = "wren" /\ top.tweakedAs = lastLoaded /\ load' = load
    <3>1. Stage(t)'
      BY <1>0, <2>1, <2>2, <2>3 DEF Stage, Over
    <3> QED
      BY <2>1, <2>2, <2>3, <3>1, StageMoved
  <2>4. CASE top.at = "call" /\ load' = [load EXCEPT ![t].failed = TRUE]
    <3>1. /\ load'[t].file = load[t].file /\ load'[t].expected = load[t].expected
          /\ load'[t].failed /\ load'[t].parsed = load[t].parsed
          /\ \A u \in Threads : load'[u].file = load[u].file
      BY <2>4, FailsDoes
    <3>2. Stage(t)'
      BY <1>0, <2>1, <2>2, <2>4, <3>1 DEF Stage, Tweaked, Over
    <3> QED
      BY <2>1, <2>2, <3>1, <3>2, StageMoved
  <2> QED
    BY <2>1, <2>3, <2>4
<1>4. CASE TweakFails(t)
  <2>1. PICK top \in Frame : Replaced(t, top) /\ top.at = "call" /\ top.text = Top(t).text
    BY <1>4, TweakFailsDoes
  <2>2. /\ Top(t).at = "wren" /\ Top(t)' = top
        /\ UNCHANGED <<lastLoaded, patched, invocation, wrenState>>
        /\ load' = [load EXCEPT ![t].failed = TRUE]
    BY <1>4, <2>1, TweakFailsDoes DEF At, Replaced, tweakVars
  <2>3. /\ load'[t].file = load[t].file /\ load'[t].expected = load[t].expected
        /\ load'[t].failed /\ load'[t].parsed = load[t].parsed
        /\ \A u \in Threads : load'[u].file = load[u].file
    BY <2>2, FailsDoes
  <2>4. Stage(t)'
    BY <1>0, <2>1, <2>2, <2>3 DEF Stage, Tweaked, Over
  <2> QED
    BY <2>1, <2>2, <2>3, <2>4, StageMoved
<1>5. CASE TweakReturns(t)
  <2>1. PICK top \in Frame :
              /\ Replaced(t, top) /\ top.at = "copy" /\ top.text = Tweak(Top(t).text)
              /\ top.tweakedAs = Top(t).tweakedAs /\ top.loose = Top(t).loose
    BY <1>5, TweakReturnsDoes
  <2>2. /\ Top(t).at = "wren" /\ Top(t)' = top
        /\ UNCHANGED <<lastLoaded, patched, load, invocation, wrenState>>
    BY <1>5, <2>1, TweakReturnsDoes DEF At, Replaced, tweakVars
  <2>3. top.text = "tweaked"
    BY <1>0, <2>1, <2>2 DEF Stage, Tweak
  <2>4. Stage(t)'
    BY <1>0, <2>1, <2>2, <2>3 DEF Stage, Over
  <2> QED
    BY <2>1, <2>2, <2>4, StageMoved
<1>6. CASE RegisterObject(t) \/ LockToRegister(t) \/ ObjectRegistered(t)
  <2>1. PICK top \in Frame :
              /\ Replaced(t, top) /\ top.at \in {"wren", "wait", "register"}
              /\ top.tweakedAs = Top(t).tweakedAs /\ top.text = Top(t).text
              /\ top.loose = Top(t).loose
    BY <1>6, WrenCodeDoes
  <2>2. /\ Top(t).at \in {"wren", "wait", "register"} /\ Top(t)' = top
        /\ UNCHANGED <<lastLoaded, patched, load, invocation, wrenState>>
    BY <1>6, <2>1, WrenCodeDoes DEF Replaced, tweakVars
  <2>3. Stage(t)'
    BY <1>0, <2>1, <2>2 DEF Stage, Over
  <2> QED
    BY <2>1, <2>2, <2>3, StageMoved
<1>7. CASE (InsertBuffer(t) \/ EraseBuffer(t)) /\ wrenState' # "undefined"
  <2>1. PICK from \in {"copy", "erase"}, step \in {"insert", "erasing"} :
          BeginChange(t, from, step) /\ (from = "copy" <=> step = "insert")
    BY <1>7 DEF InsertBuffer, EraseBuffer
  <2>2. from \in Steps /\ step \in Steps
    BY DEF Steps
  <2>3. PICK top \in Frame :
              /\ Replaced(t, top) /\ top.at = step
              /\ top.tweakedAs = Top(t).tweakedAs /\ top.text = Top(t).text
              /\ top.loose = Top(t).loose
    BY <1>7, <2>1, <2>2, ChangeDoes
  <2>4. /\ Top(t).at = from /\ Top(t)' = top
        /\ UNCHANGED <<lastLoaded, patched, load, invocation, wrenState>>
    BY <1>7, <2>1, <2>2, <2>3, ChangeDoes DEF At, Replaced, tweakVars
  <2>5. Stage(t)'
    BY <1>0, <2>1, <2>3, <2>4 DEF Stage, Over, Tweaked
  <2> QED
    BY <2>3, <2>4, <2>5, StageMoved
<1> QED
  BY <1>1, <1>2, <1>3, <1>4, <1>5, <1>6, <1>7 DEF Moves

LEMMA AloneParse ==
  ASSUME WrenTypes, StackInv, NEW t \in Threads, Undisturbed(t), ParseFile(t)
  PROVE  Undisturbed(t)'
<1>1. /\ Depth(t) = 0 /\ load[t].parsed = "none" /\ patched /\ ToTweak(t)
      /\ ~load[t].failed
      /\ UNCHANGED <<tweakVars, patched, invocation, wrenState>>
  BY ParseFileDoes DEF Undisturbed
<1>2. PICK f \in Frame : Pushed(t, f) /\ Entered(f, "original", 0)
  BY <1>1, ParseFileDoes
<1>3. load' = load
  BY <1>1, ParseFileDoes DEF WrenTypes
<1>4. Depth(t)' = 1 /\ Top(t)' = f
  BY <1>1, <1>2 DEF Pushed
<1>5. Stage(t)'
  BY <1>1, <1>2, <1>3, <1>4 DEF Stage, Entered, ToTweak, Over, tweakVars
<1> QED
  BY <1>1, <1>3, <1>4, <1>5 DEF Undisturbed, tweakVars

LEMMA AloneCalls ==
  ASSUME WrenTypes, StackInv, NEW t \in Threads, Undisturbed(t), Depth(t) = 1, CallParser(t)
  PROVE  Undisturbed(t)'
<1>1. /\ Stage(t) /\ Top(t) \in Frame /\ Top(t).at = "call"
      /\ UNCHANGED <<tweakVars, patched, invocation, wrenState>>
  BY Stacks, CallParserDoes DEF Undisturbed, At
<1>2. /\ ~patched /\ load[t].parsed = "none"
      /\ Tweaked(t, Top(t).text, Top(t).tweakedAs)
  BY <1>1 DEF Stage, Over
<1>3. load' = [load EXCEPT ![t] =
                [@ EXCEPT !.parsed = Top(t).text, !.tweakedAs = Top(t).tweakedAs]]
  BY <1>2, CallParserDoes
<1>4. PICK top \in Frame : Replaced(t, top) /\ top.at = "erase"
  BY <1>2, CallParserDoes
<1>5. /\ Top(t).text \in Texts /\ Top(t).tweakedAs \in Files \cup {NoFile}
  BY <1>1 DEF Frame
<1>6. /\ load'[t].file = load[t].file /\ load'[t].expected = load[t].expected
      /\ load'[t].failed = load[t].failed /\ load'[t].parsed = Top(t).text
      /\ load'[t].tweakedAs = Top(t).tweakedAs
      /\ \A u \in Threads : load'[u].file = load[u].file
  <2>1. PICK text \in Texts : text = Top(t).text
    BY <1>5
  <2>2. PICK name \in Files \cup {NoFile} : name = Top(t).tweakedAs
    BY <1>5
  <2>3. load' = [load EXCEPT ![t] = [@ EXCEPT !.parsed = text, !.tweakedAs = name]]
    BY <1>3, <2>1, <2>2
  <2>4. /\ load'[t].file = load[t].file /\ load'[t].expected = load[t].expected
        /\ \A u \in Threads \ {t} : load'[u] = load[u]
    BY <2>3, ParsedDoes
  <2>5. load'[t].parsed = text /\ load'[t].tweakedAs = name
    BY <2>3 DEF WrenTypes, Loads
  <2>6. load'[t].failed = load[t].failed
    BY <2>3, ParsedDoes
  <2> QED
    BY <2>1, <2>2, <2>4, <2>5, <2>6
<1>7. Top(t)' = top
  BY <1>4 DEF Replaced
<1>8. Stage(t)'
  BY <1>2, <1>4, <1>6, <1>7 DEF Stage, Tweaked, Over
<1> QED
  BY <1>1, <1>4, <1>6, <1>8, StageMoved DEF tweakVars

LEMMA AlonePatch ==
  ASSUME WrenTypes, StackInv, NEW t \in Threads, Undisturbed(t), Depth(t) = 1,
         RemovePatch(t) \/ CopyText(t)
  PROVE  Undisturbed(t)'
<1>0. Stage(t) /\ Top(t) \in Frame
  BY Stacks DEF Undisturbed
<1>1. CASE RemovePatch(t)
  <2>1. PICK top \in Frame : /\ Replaced(t, top) /\ top.at = "test"
                             /\ top.text = Top(t).text /\ top.loose = Top(t).loose
    BY <1>1, RemovePatchDoes
  <2>2. /\ Top(t).at = "entered" /\ Top(t)' = top /\ ~patched'
        /\ UNCHANGED <<tweakVars, load, invocation, wrenState>>
    BY <1>1, <2>1, RemovePatchDoes DEF At, Replaced
  <2>3. Stage(t)'
    BY <1>0, <2>1, <2>2 DEF Stage, ToTweak, Over, tweakVars
  <2> QED
    BY <2>1, <2>2, <2>3, StageMoved DEF tweakVars
<1>2. CASE CopyText(t)
  <2>1. PICK top \in Frame : /\ Replaced(t, top) /\ top.at = "call"
                             /\ ~Top(t).loose => top.text = Top(t).text
                             /\ top.tweakedAs = Top(t).tweakedAs
    BY <1>2, CopyTextDoes
  <2>2. /\ Top(t).at = "insert" /\ Top(t)' = top
        /\ UNCHANGED <<tweakVars, patched, load, invocation, wrenState>>
    BY <1>2, <2>1, CopyTextDoes DEF At, Replaced
  <2>3. Stage(t)'
    BY <1>0, <2>1, <2>2 DEF Stage, Tweaked, Over
  <2> QED
    BY <2>1, <2>2, <2>3, StageMoved DEF tweakVars
<1> QED
  BY <1>1, <1>2

LEMMA AloneFrees ==
  ASSUME WrenTypes, StackInv, NEW t \in Threads, Undisturbed(t), Depth(t) = 1, FreeText(t)
  PROVE  Undisturbed(t)'
<1>1. /\ Stage(t) /\ Top(t).at = "erasing" /\ Depth(t)' = Depth(t) - 1
      /\ UNCHANGED <<tweakVars, load, invocation, wrenState>>
  BY FreeTextDoes DEF Undisturbed, At
<1>2. Depth(t)' = 0
  BY <1>1
<1>3. Tweaked(t, load[t].parsed, load[t].tweakedAs)
  BY <1>1 DEF Stage, Over
<1>4. load[t].parsed # "none"
  BY <1>3 DEF Tweaked
<1> QED
  BY <1>1, <1>2, <1>3, <1>4 DEF Undisturbed, Tweaked, tweakVars

(* A load begins alone when no other is open and nothing is out of place.  *)
LEMMA AloneBegins ==
  ASSUME WrenTypes, StackInv, NEW t \in Threads, NEW f \in Files, LoadFile(t, f),
         load'[t].alone, wrenState = "running"
  PROVE  Undisturbed(t)'
<1>1. /\ ~Busy(t) /\ \A u \in Threads \ {t} : ~Busy(u)
      /\ lastLoaded' = f
      /\ UNCHANGED <<last_parsed, ignored_files, tweaker_enabled, patched, frames,
                     invocation, wrenState>>
      /\ \A u \in Threads \ {t} : Same(u)
      /\ load'[t].file = f /\ load'[t].parsed = "none" /\ ~load'[t].failed
      /\ load'[t].expected <=> /\ tweaker_enabled /\ last_parsed # f
                               /\ f \notin Binary \cup ignored_files
  BY LoadFileDoes
<1>2. \A u \in Threads : load[u].file = NoFile /\ Depth(u) = 0
  BY <1>1 DEF Busy, StackInv
<1>3. invocation = "idle"
  BY <1>1, WrenRuntimeAssumption DEF Busy, InvokesWren
<1>4. patched
  <2>1. \A u \in Threads : DOMAIN frames[u] = {}
    BY <1>2, Stacks
  <2> QED
    BY <2>1 DEF StackInv
<1>5. Depth(t)' = 0
  BY <1>1, <1>2 DEF Depth
<1>6. \A u \in Threads \ {t} : load'[u].file = NoFile
  BY <1>1, <1>2 DEF Same
<1>7. f # NoFile
  BY WrenRuntimeAssumption
<1>8. ToTweak(t)'
  BY <1>1 DEF ToTweak
<1> QED
  BY <1>1, <1>3, <1>4, <1>5, <1>6, <1>7, <1>8 DEF Undisturbed

LEMMA AloneWaits ==
  ASSUME WrenTypes, StackInv, NEW t \in Threads, Undisturbed(t), Waits
  PROVE  Undisturbed(t)'
<1>0. /\ UNCHANGED <<lastLoaded, last_parsed, ignored_files, patched, load>>
  BY WaitsDoes
<1>1. ASSUME UNCHANGED <<frames, invocation>>, wrenState' # "undefined",
             tweaker_enabled' = tweaker_enabled \/ InWren(t)
      PROVE  Undisturbed(t)'
  <2>1. Depth(t)' = Depth(t) /\ Top(t)' = Top(t)
    BY <1>1 DEF Depth, Top
  <2>2. CASE tweaker_enabled' = tweaker_enabled
    BY <1>0, <1>1, <2>1, <2>2 DEF Undisturbed, Stage, ToTweak, Tweaked
  <2>3. CASE InWren(t)
    <3>1. Depth(t) = 1 /\ Stage(t) /\ Top(t).at \in {"wren", "wait", "register"}
      BY <2>3, OnlyOne DEF InWren, Undisturbed
    <3>2. Stage(t)'
      BY <1>0, <1>1, <2>1, <3>1 DEF Stage, Over
    <3> QED
      BY <1>0, <1>1, <2>1, <3>1, <3>2 DEF Undisturbed
  <2> QED
    BY <1>1, <2>2, <2>3
<1>2. ASSUME NEW u \in Threads, InsertBuffer(u) \/ EraseBuffer(u),
             wrenState = "running", wrenState' = "undefined"
      PROVE  FALSE
  <2>1. Depth(u) > 0 /\ \E v \in Threads \ {u} : InBuffers(v)
    BY <1>2 DEF InsertBuffer, EraseBuffer, BeginChange, At
  <2>2. PICK v \in Threads \ {u} : Depth(v) > 0
    BY <2>1 DEF InBuffers, At
  <2> QED
    BY <2>1, <2>2, OnlyOne
<1>3. ASSUME NEW u \in Threads, NEW value \in BOOLEAN, SetTweakerEnabled(u, value)
      PROVE  Undisturbed(t)'
  <2>1. At(u, "wren")
    BY <1>3 DEF SetTweakerEnabled, Undisturbed
  <2>2. InWren(t)
    BY <2>1, OnlyOne DEF At, InWren
  <2>3. UNCHANGED <<frames, invocation, wrenState>>
    BY <1>3 DEF SetTweakerEnabled
  <2> QED
    BY <1>1, <2>2, <2>3 DEF Undisturbed
<1>4. CASE LuaStep
  BY <1>4 DEF LuaStep, LockExposed, FindObject, CallObject, ObjectReturns, Undisturbed
<1>5. CASE InitFails
  BY <1>1, <1>5 DEF InitFails, tweakVars
<1> QED
  BY <1>2, <1>3, <1>4, <1>5 DEF Waits

LEMMA AloneStep ==
  ASSUME WrenTypes, StackInv, AloneInv, [WrenNext]_wrenVars
  PROVE  AloneInv'
<1> SUFFICES ASSUME NEW t \in Threads, load'[t].alone
             PROVE  Undisturbed(t)'
  BY DEF AloneInv
<1>0. load \in [Threads -> Loads] /\ LuaThread \in Threads
  BY WrenRuntimeAssumption DEF WrenTypes
<1>1. ASSUME NEW u \in Threads, Moves(u), WrenNext
      PROVE  Undisturbed(t)'
  <2>1. Depth(u) > 0
    BY <1>1, MovesDoes
  <2>2. load[t].alone
    <3>1. CASE load' = load
      BY <3>1
    <3>2. CASE load' = [load EXCEPT ![u].failed = TRUE]
      BY <3>2, FailsDoes
    <3>3. load' = load \/ load' = [load EXCEPT ![u].failed = TRUE]
      BY <1>1 DEF Moves, TestFile, SetParsed, EnterWren, TweakFails, TweakReturns,
                  RegisterObject, LockToRegister, ObjectRegistered, InsertBuffer,
                  EraseBuffer, BeginChange
    <3> QED
      BY <3>1, <3>2, <3>3
  <2>3. Undisturbed(t) /\ u = t /\ Depth(t) = 1
    BY <2>1, <2>2, OnlyOne DEF AloneInv
  <2>4. wrenState = "running"
    BY <1>1 DEF WrenNext
  <2> QED
    BY <1>1, <2>3, <2>4, AloneMoves
<1>2. ASSUME NEW u \in Threads, ParseFile(u)
      PROVE  Undisturbed(t)'
  <2>1. load[t].alone
    <3>1. CASE patched
      <4>1. load' = [load EXCEPT ![u] = load[u]]
        BY <1>2, <3>1, ParseFileDoes
      <4> QED
        BY <1>0, <4>1
    <3>2. CASE ~patched
      <4>1. "original" \in Texts /\ NoFile \in Files \cup {NoFile}
        BY DEF Texts
      <4>2. load' = [load EXCEPT ![u] =
                      [@ EXCEPT !.parsed = "original", !.tweakedAs = NoFile]]
        BY <1>2, <3>2, ParseFileDoes
      <4>3. load'[u].alone = load[u].alone /\ \A v \in Threads \ {u} : load'[v] = load[v]
        BY <4>1, <4>2, ParsedDoes
      <4> QED
        BY <4>3
    <3> QED
      BY <3>1, <3>2
  <2>2. Undisturbed(t)
    BY <2>1 DEF AloneInv
  <2>3. u = t
    BY <1>2, <2>2, ParseFileDoes DEF Undisturbed
  <2> QED
    BY <1>2, <2>2, <2>3, AloneParse
<1>3. ASSUME NEW u \in Threads, CallParser(u)
      PROVE  Undisturbed(t)'
  <2>0. Depth(u) > 0 /\ Top(u) \in Frame
    BY <1>3, Stacks DEF CallParser, At
  <2>1. load[t].alone
    <3>1. CASE patched
      <4>1. load' = [load EXCEPT ![u] = load[u]]
        BY <1>3, <3>1, CallParserDoes
      <4> QED
        BY <1>0, <4>1
    <3>2. CASE ~patched
      <4>1. Top(u).text \in Texts /\ Top(u).tweakedAs \in Files \cup {NoFile}
        BY <2>0 DEF Frame
      <4>2. load' = [load EXCEPT ![u] =
                      [@ EXCEPT !.parsed = Top(u).text, !.tweakedAs = Top(u).tweakedAs]]
        BY <1>3, <3>2, CallParserDoes
      <4>3. load'[u].alone = load[u].alone /\ \A v \in Threads \ {u} : load'[v] = load[v]
        BY <4>1, <4>2, ParsedDoes
      <4> QED
        BY <4>3
    <3> QED
      BY <3>1, <3>2
  <2>2. Undisturbed(t)
    BY <2>1 DEF AloneInv
  <2> QED
    BY <1>3, <2>0, <2>2, OnlyOne, AloneCalls
<1>4. ASSUME NEW u \in Threads, RemovePatch(u) \/ CopyText(u)
      PROVE  Undisturbed(t)'
  <2>1. load' = load /\ Depth(u) > 0
    BY <1>4, RemovePatchDoes, CopyTextDoes DEF At
  <2>2. Undisturbed(t)
    BY <2>1 DEF AloneInv
  <2> QED
    BY <1>4, <2>1, <2>2, OnlyOne, AlonePatch
<1>5. ASSUME NEW u \in Threads, FreeText(u)
      PROVE  Undisturbed(t)'
  <2>1. load' = load /\ Depth(u) > 0
    BY <1>5, FreeTextDoes DEF At
  <2>2. Undisturbed(t)
    BY <2>1 DEF AloneInv
  <2> QED
    BY <1>5, <2>1, <2>2, OnlyOne, AloneFrees
<1>6. ASSUME NEW u \in Threads, EndLoad(u)
      PROVE  Undisturbed(t)'
  <2>1. /\ load'[u] = Idle /\ \A v \in Threads \ {u} : load'[v] = load[v]
        /\ UNCHANGED <<tweakVars, patched, frames, invocation, wrenState>>
    BY <1>6, EndLoadDoes
  <2>2. u # t /\ load'[t] = load[t]
    BY <2>1, IdleIs
  <2>3. Undisturbed(t)
    BY <2>2 DEF AloneInv
  <2>4. \A v \in Threads \ {t} : load'[v].file = NoFile
    BY <2>1, <2>3, IdleIs DEF Undisturbed
  <2>5. Depth(t)' = Depth(t) /\ Top(t)' = Top(t)
    BY <2>1 DEF Depth, Top
  <2> QED
    BY <2>1, <2>2, <2>3, <2>4, <2>5
       DEF Undisturbed, Stage, Tweaked, ToTweak, tweakVars
<1>7. CASE Waits
  BY <1>7, WaitsDoes, AloneWaits DEF AloneInv
<1>8. ASSUME Begins, WrenNext
      PROVE  Undisturbed(t)'
  <2>1. ASSUME NEW u \in Threads, NEW f \in Files, LoadFile(u, f)
        PROVE  Undisturbed(t)'
    <3>1. u = t
      BY <2>1, LoadFileDoes
    <3>2. wrenState = "running"
      BY <1>8 DEF WrenNext
    <3> QED
      BY <2>1, <3>1, <3>2, AloneBegins
  <2>2. ASSUME load' = Disturb(LuaThread), ~Busy(LuaThread)
        PROVE  FALSE
    <3>1. t = LuaThread /\ load'[t] = load[t]
      BY <1>0, <2>2, DisturbDoes
    <3>2. Undisturbed(t)
      BY <3>1 DEF AloneInv
    <3> QED
      BY <2>2, <3>1, <3>2 DEF Undisturbed, Busy
  <2> QED
    BY <1>8, <2>1, <2>2 DEF Begins, BeginInvoke, ignoretweak
<1>9. CASE UNCHANGED wrenVars
  <2>1. Undisturbed(t)
    BY <1>9 DEF wrenVars, AloneInv
  <2>2. Depth(t)' = Depth(t) /\ Top(t)' = Top(t)
    BY <1>9 DEF wrenVars, Depth, Top
  <2> QED
    BY <1>9, <2>1, <2>2 DEF wrenVars, Undisturbed, Stage, Tweaked, ToTweak
<1> QED
  BY <1>1, <1>2, <1>3, <1>4, <1>5, <1>6, <1>7, <1>8, <1>9, Kinds

-----------------------------------------------------------------------------
(* What holds of every behaviour. *)

WrenInv == WrenTypes /\ StackInv /\ BufferInv /\ HandleInv /\ AloneInv

LEMMA WrenInitial ==
  ASSUME WrenInit
  PROVE  WrenInv
<1>1. LuaThread \in Threads /\ NoThread \notin Threads
  BY WrenRuntimeAssumption
<1>2. WrenTypes
  <2>1. frames \in [Threads -> Seq(Frame)] /\ load \in [Threads -> Loads]
    BY IdleIs DEF WrenInit
  <2>2. bounds \in [loads : Nat, invokes : Nat, failures : Nat]
    BY DEF WrenInit
  <2>3. /\ buffers \subseteq Threads \X Nat /\ ignored_files \subseteq Files
        /\ callHandles \in Int
    BY DEF WrenInit
  <2>4. /\ lastLoaded \in Files \cup {NoFile} /\ last_parsed \in Files \cup {NoFile}
        /\ tweaker_enabled \in BOOLEAN /\ patched \in BOOLEAN /\ exposed \in BOOLEAN
        /\ vm_mutex \in Threads \cup {NoThread} /\ exposed_mutex \in Threads \cup {NoThread}
    BY DEF WrenInit
  <2> QED
    BY <2>1, <2>2, <2>3, <2>4 DEF WrenInit, WrenTypes
<1>3. \A t \in Threads : Depth(t) = 0 /\ DOMAIN frames[t] = {}
  BY DEF WrenInit, Depth
<1>4. \A t \in Threads : load[t].file = NoFile /\ ~load[t].alone
  BY IdleIs DEF WrenInit
<1>5. StackInv
  BY <1>1, <1>3, <1>4 DEF WrenInit, StackInv, At
<1>6. BufferInv
  BY <1>3 DEF WrenInit, BufferInv
<1>7. HandleInv
  <2>1. \A t \in Threads : ~InWren(t)
    BY <1>3 DEF InWren
  <2> QED
    BY <2>1 DEF WrenInit, HandleInv
<1>8. AloneInv
  BY <1>4 DEF AloneInv
<1> QED
  BY <1>2, <1>5, <1>6, <1>7, <1>8 DEF WrenInv

LEMMA WrenInvariant == WrenSpec => []WrenInv
<1>1. WrenInit => WrenInv
  BY WrenInitial
<1>2. WrenInv /\ [WrenNext]_wrenVars => WrenInv'
  BY WrenTypesStep, StackStep, BufferStep, HandleStep, AloneStep DEF WrenInv
<1> QED
  BY <1>1, <1>2, PTL DEF WrenSpec

(* The variables keep their types, and no handle is given back that was not *)
(* taken.                                                                   *)
THEOREM WrenTypeCorrect == WrenSpec => []WrenTypeOK
<1>1. WrenInv => WrenTypeOK
  <2> SUFFICES ASSUME WrenInv
               PROVE  WrenTypeOK
    OBVIOUS
  <2>1. callHandles \in Nat
    <3>1. bounds.failures \in Nat
      BY Counted DEF WrenInv
    <3> QED
      BY <3>1 DEF WrenInv, HandleInv
  <2> QED
    BY <2>1 DEF WrenInv, WrenTypes, WrenTypeOK, Loads
<1> QED
  BY <1>1, WrenInvariant, PTL

(* Whatever calls are open within each other, on any number of threads, the *)
(* parser is not given a text that is freed already, no buffer is lost, and *)
(* the handles that are out are those of the call that is in Wren and those *)
(* of the tweaks that failed.                                               *)
THEOREM CleanUp == WrenSpec => []TweaksCleanUp
<1>1. WrenInv => TweaksCleanUp
  <2> SUFFICES ASSUME WrenInv
               PROVE  TweaksCleanUp
    OBVIOUS
  <2>1. BuffersReturned
    <3>1. ASSUME NEW t \in Threads, At(t, "call"), Top(t).buffer # 0
          PROVE  <<t, Top(t).buffer>> \in buffers
      BY <3>1 DEF WrenInv, BufferInv, At, Over
    <3>2. ASSUME NEW b \in buffers
          PROVE  \E i \in DOMAIN frames[b[1]] : frames[b[1]][i].buffer = b[2]
      <4>1. b[1] \in Threads /\ b[2] \in Nat /\ b = <<b[1], b[2]>>
        BY DEF WrenInv, WrenTypes
      <4> QED
        BY <4>1 DEF WrenInv, BufferInv
    <3> QED
      BY <3>1, <3>2 DEF BuffersReturned
  <2>2. callHandles = InUse + 2 * bounds.failures
    <3> DEFINE inside == {t \in Threads :
                 \E step \in {"wren", "wait", "register"} : At(t, step)}
    <3>1. inside = {t \in Threads : InWren(t)}
      BY DEF InWren, At
    <3>2. bounds.failures \in Nat
      BY Counted DEF WrenInv
    <3>3. CASE \E t \in Threads : InWren(t)
      <4>1. PICK t \in Threads : InWren(t)
        BY <3>3
      <4>2. inside = {t}
        BY <3>1, <4>1, OneInWren DEF WrenInv
      <4>3. Cardinality(inside) = 1
        BY <4>2, FS_Singleton
      <4>4. invocation # "wren" /\ callHandles = 2 + 2 * bounds.failures
        BY <4>1, OneInWren DEF WrenInv
      <4> QED
        BY <3>2, <4>3, <4>4 DEF InUse
    <3>4. CASE ~\E t \in Threads : InWren(t)
      <4>1. inside = {}
        BY <3>1, <3>4
      <4>2. Cardinality(inside) = 0
        BY <4>1, FS_EmptySet
      <4>3. callHandles = (IF invocation = "wren" THEN 1 ELSE 0) + 2 * bounds.failures
        BY <3>2, <3>4 DEF WrenInv, HandleInv
      <4> QED
        BY <3>2, <4>2, <4>3 DEF InUse
    <3> QED
      BY <3>3, <3>4
  <2> QED
    BY <2>1, <2>2 DEF TweaksCleanUp
<1> QED
  BY <1>1, WrenInvariant, PTL

(* A file that is loaded and parsed while nothing else begins is given to   *)
(* the parser as its own tweak, once, or untouched, whatever has happened   *)
(* before: every overlap leaves the patch and the names as they have to be. *)
THEOREM UndisturbedParses == WrenSpec => []UndisturbedParse
<1>1. WrenInv => UndisturbedParse
  <2> SUFFICES ASSUME WrenInv, NEW t \in Threads, load[t].alone
               PROVE  /\ wrenState # "undefined"
                      /\ load[t].parsed # "none" =>
                           Tweaked(t, load[t].parsed, load[t].tweakedAs)
    BY DEF UndisturbedParse, Tweaked
  <2>1. Undisturbed(t)
    BY DEF WrenInv, AloneInv
  <2> QED
    BY <2>1 DEF Undisturbed, Stage
<1> QED
  BY <1>1, WrenInvariant, PTL

-----------------------------------------------------------------------------
(* Who may import what, in WrenModules. *)

LEMMA ForeignIs ==
  ASSUME NEW m, NEW c, NEW st, NEW sigs, NEW f, f \in Foreigns(m, c, st, sigs)
  PROVE  f.module = m /\ f.class = c /\ f.static = st /\ f.signature \in sigs
  BY DEF Foreigns

(* Every foreign method that an embedded module declares is bound. *)
LEMMA AllBound == \A module : Unbound(module) = {}
<1> SUFFICES ASSUME NEW f \in Declared
             PROVE  bindForeignMethod(f)
  BY DEF Unbound
<1> DEFINE io == {"listDirectory(_,_)", "info(_)", "read(_)", "idstring_hash(_)",
                  "load_plugin(_)", "has_native_module(_)"}
           db == {"register_asset_hook(_,_)", "load_asset_contents(_,_)"}
           of == {"of_file(_)", "of_asset(_,_)", "from_string(_)"}
           own == {"tweaker_enabled=(_)", "register_mod_v1(_,_)", "warn_bad_mod(_,_)"}
           env == {"mod_directory", "mod_directory_at_depth(_)"}
<1> HIDE DEF io, db, of, own, env
<1>1. CASE f \in Foreigns(Native, "Logger", TRUE, {"log(_)"})
  <2>1. f.module = Native /\ f.class = "Logger" /\ f.static = TRUE /\ f.signature \in {"log(_)"}
    BY <1>1, ForeignIs
  <2> QED
    BY <2>1 DEF bindForeignMethod
<1>2. CASE f \in Foreigns(Native, "IO", TRUE, io)
  <2>1. f.module = Native /\ f.class = "IO" /\ f.static = TRUE /\ f.signature \in io
    BY <1>2, ForeignIs
  <2> QED
    BY <2>1 DEF bindForeignMethod, io
<1>3. CASE f \in Foreigns(Native, "XML", TRUE, {"try_parse(_)"})
  <2>1. f.module = Native /\ f.class = "XML" /\ f.static = TRUE /\ f.signature \in {"try_parse(_)"}
    BY <1>3, ForeignIs
  <2>2. bind_wxml_method(f)
    BY <2>1 DEF bind_wxml_method
  <2> QED
    BY <2>2 DEF bindForeignMethod
<1>4. CASE f \in Foreigns(Native, "XML", FALSE, XmlMethods)
  <2>1. f.module = Native /\ f.class = "XML" /\ f.static = FALSE /\ f.signature \in XmlMethods
    BY <1>4, ForeignIs
  <2>2. bind_wxml_method(f)
    BY <2>1 DEF bind_wxml_method
  <2> QED
    BY <2>2 DEF bindForeignMethod
<1>5. CASE f \in Foreigns(Sub("DB_001"), "DBManager", TRUE, db)
  <2>1. f.module = Sub("DB_001") /\ f.class = "DBManager" /\ f.static = TRUE /\ f.signature \in db
    BY <1>5, ForeignIs
  <2>2. bind_dbhook_method(f)
    BY <2>1 DEF db, bind_dbhook_method
  <2> QED
    BY <2>2 DEF bindForeignMethod
<1>6. CASE f \in Foreigns(Sub("DB_001"), "DBAssetHook", FALSE, HookMethods)
  <2>1. f.module = Sub("DB_001") /\ f.class = "DBAssetHook" /\ f.static = FALSE /\ f.signature \in HookMethods
    BY <1>6, ForeignIs
  <2>2. bind_dbhook_method(f)
    BY <2>1 DEF bind_dbhook_method
  <2> QED
    BY <2>2 DEF bindForeignMethod
<1>7. CASE f \in Foreigns(Sub("DB_001"), "DBForeignFile", TRUE, of)
  <2>1. f.module = Sub("DB_001") /\ f.class = "DBForeignFile" /\ f.static = TRUE /\ f.signature \in of
    BY <1>7, ForeignIs
  <2>2. bind_dbhook_method(f)
    BY <2>1 DEF of, bind_dbhook_method
  <2> QED
    BY <2>2 DEF bindForeignMethod
<1>8. CASE f \in Foreigns(Sub("internal_001"), "Internal", TRUE, own)
  <2>1. f.module = Sub("internal_001") /\ f.class = "Internal" /\ f.static = TRUE /\ f.signature \in own
    BY <1>8, ForeignIs
  <2> QED
    BY <2>1 DEF bindForeignMethod, own
<1>9. CASE f \in Foreigns(Sub("Environment_001"), "Environment", TRUE, env)
  <2>1. f.module = Sub("Environment_001") /\ f.class = "Environment" /\ f.static = TRUE /\ f.signature \in env
    BY <1>9, ForeignIs
  <2>2. bind_wren_env_method(f)
    BY <2>1 DEF env, bind_wren_env_method
  <2> QED
    BY <2>2 DEF bindForeignMethod
<1>10. CASE f \in Foreigns(Sub("LuaInterface_001"), "LuaInterface", TRUE, {"register_object(_,_)"})
  <2>1. f.module = Sub("LuaInterface_001") /\ f.class = "LuaInterface" /\ f.static = TRUE /\ f.signature \in {"register_object(_,_)"}
    BY <1>10, ForeignIs
  <2>2. bind_wren_lua_method(f)
    BY <2>1 DEF bind_wren_lua_method
  <2> QED
    BY <2>2 DEF bindForeignMethod
<1>11. CASE f \in Foreigns(Sub("Utils_001"), "Utils", TRUE, {"normalise_hash(_)"})
  <2>1. f.module = Sub("Utils_001") /\ f.class = "Utils" /\ f.static = TRUE /\ f.signature \in {"normalise_hash(_)"}
    BY <1>11, ForeignIs
  <2>2. bind_wren_utils_method(f)
    BY <2>1 DEF bind_wren_utils_method
  <2> QED
    BY <2>2 DEF bindForeignMethod
<1> QED
  BY <1>1, <1>2, <1>3, <1>4, <1>5, <1>6, <1>7, <1>8, <1>9, <1>10, <1>11 DEF Declared, io, db, of, own, env

LEMMA TuplesIn ==
  ASSUME NEW S, NEW a \in S, NEW b \in S
  PROVE  /\ <<a>> \in Seq(S) /\ Len(<<a>>) = 1 /\ <<a>>[1] = a
         /\ <<a, b>> \in Seq(S) /\ Len(<<a, b>>) = 2 /\ <<a, b>>[1] = a
  OBVIOUS

(* The names that are ever imported. *)
Names == Requests \cup {BaseMain, Meta}
Forcing == "__raw_force_load"

(* The parts of names: the provers do not know that a literal is a string. *)
Part == STRING \cup {"base", "meta", "__root"}

LEMMA PartsIn == Seq(STRING) \subseteq Seq(Part)
  BY DEF Part

LEMMA NamesTyped ==
  \A name \in Names :
    /\ name \in Seq(Part) /\ Len(name) \in Nat /\ Len(name) > 0
    /\ Head(name) \in {".", "...", Forcing} => name \in Requests /\ Len(name) > 1
<1>1. ASSUME NEW name \in Requests
      PROVE  /\ name \in Seq(Part) /\ Len(name) \in Nat /\ Len(name) > 0
             /\ Head(name) \in {".", "...", Forcing} => Len(name) > 1
  <2>1. name \in Seq(Part) /\ name # <<>>
    BY WrenModulesAssumption, PartsIn
  <2>2. Head(name) \in {".", "...", Forcing} => Len(name) > 1
    BY WrenModulesAssumption DEF Forcing
  <2> QED
    BY <2>1, <2>2
<1>2. /\ BaseMain \in Seq(Part) /\ Len(BaseMain) = 2 /\ Head(BaseMain) = "base"
      /\ Meta \in Seq(Part) /\ Len(Meta) = 1 /\ Head(Meta) = "meta"
  <2> DEFINE base == "base"
             meta == "meta"
  <2>0. base \in Part /\ meta \in Part
    BY DEF Part
  <2>a. BaseMain = <<base, base>> /\ Meta = <<meta>>
    BY DEF BaseMain, Meta
  <2> HIDE DEF base, meta
  <2>1. BaseMain \in Seq(Part)
    BY <2>0, <2>a, TuplesIn
  <2>2. Len(BaseMain) = 2
    BY DEF BaseMain
  <2>3. Head(BaseMain) = "base"
    BY DEF BaseMain
  <2>4. Meta \in Seq(Part)
    BY <2>0, <2>a, TuplesIn
  <2>5. Len(Meta) = 1
    BY DEF Meta
  <2>6. Head(Meta) = "meta"
    BY DEF Meta
  <2> QED
    BY <2>1, <2>2, <2>3, <2>4, <2>5, <2>6
<1>3. ASSUME NEW name \in {BaseMain, Meta}
      PROVE  /\ name \in Seq(Part) /\ Len(name) \in Nat /\ Len(name) > 0
             /\ Head(name) \notin {".", "...", Forcing}
  <2>1. CASE name = BaseMain
    <3>1. Head(name) = "base"
      BY <1>2, <2>1
    <3>2. Head(name) \notin {".", "...", Forcing}
      BY <3>1 DEF Forcing
    <3>3. name \in Seq(Part) /\ Len(name) = 2
      BY <1>2, <2>1
    <3> QED
      BY <3>2, <3>3
  <2>2. CASE name = Meta
    <3>1. Head(name) = "meta"
      BY <1>2, <2>2
    <3>2. Head(name) \notin {".", "...", Forcing}
      BY <3>1 DEF Forcing
    <3>3. name \in Seq(Part) /\ Len(name) = 1
      BY <1>2, <2>2
    <3> QED
      BY <3>2, <3>3
  <2> QED
    BY <2>1, <2>2
<1> QED
  BY <1>1, <1>3 DEF Names

(* A relative name keeps the first part of the importer, if it has others. *)
LEMMA RelativeIs ==
  ASSUME NEW importer, NEW rest, NEW module, importer \in Seq(Part), rest \in Seq(Part),
         Len(importer) > 1, module = Front(importer) \o rest
  PROVE  module \in Seq(Part) /\ Head(module) = Mod(importer)
<1> DEFINE n == Len(importer) - 1
<1>1. Len(importer) \in Nat /\ n \in Nat /\ n >= 1
  OBVIOUS
<1>2. /\ Front(importer) \in Seq(Part) /\ Len(Front(importer)) = n
      /\ Front(importer)[1] = importer[1]
  BY <1>1 DEF Front
<1> HIDE DEF n
<1>3. PICK front : front = Front(importer)
  OBVIOUS
<1>4. front \in Seq(Part) /\ Len(front) >= 1 /\ Len(front) \in Nat /\ front[1] = importer[1]
  BY <1>1, <1>2, <1>3
<1>5. module \in Seq(Part) /\ Len(module) >= 1 /\ module[1] = front[1]
  BY <1>3, <1>4
<1> QED
  BY <1>4, <1>5 DEF Mod

LEMMA ModRelativeIs ==
  ASSUME NEW importer, NEW rest, NEW module, importer \in Seq(Part), rest \in Seq(Part),
         Len(importer) > 1, module = <<Mod(importer)>> \o rest
  PROVE  module \in Seq(Part) /\ Head(module) = Mod(importer)
<1>1. Mod(importer) \in Part
  BY DEF Mod
<1>2. PICK mod : mod = Mod(importer)
  OBVIOUS
<1>3. module = <<mod>> \o rest /\ mod \in Part
  BY <1>1, <1>2
<1>4. PICK one : one = <<mod>>
  OBVIOUS
<1>5. one \in Seq(Part) /\ Len(one) = 1 /\ one[1] = mod
  BY <1>3, <1>4, TuplesIn
<1>6. module \in Seq(Part) /\ module[1] = one[1]
  <2>1. module = one \o rest
    BY <1>3, <1>4
  <2>2. /\ module \in Seq(Part) /\ Len(module) = 1 + Len(rest)
        /\ \A i \in 1..(1 + Len(rest)) : module[i] = IF i <= 1 THEN one[i] ELSE rest[i - 1]
    BY <1>5, <2>1, ConcatProperties
  <2>3. 1 \in 1..(1 + Len(rest))
    OBVIOUS
  <2> QED
    BY <2>2, <2>3
<1>7. Head(module) = module[1]
  OBVIOUS
<1> QED
  BY <1>2, <1>5, <1>6, <1>7


(* The module that name stands for in code of the module importer. *)
Stands(importer, name) ==
  CASE Head(name) = "." -> Front(importer) \o Tail(name)
    [] Head(name) = "..." ->
         (IF Len(importer) > 1 THEN <<Mod(importer)>> ELSE <<>>) \o Tail(name)
    [] InBase(name) /\ name[2] = "native" -> name
    [] InBase(name) /\ name[2] = "api" /\ Len(name) > 2 -> name
    [] InBase(name) /\ InBase(importer) -> name
    [] name \in {Meta, <<"random">>} -> name
    [] Head(name) = "__raw_force_load" -> Tail(name)
    [] importer = Root /\ Head(name) \notin {".", "...", "__raw_force_load"} -> name
    [] OTHER -> NoModule

LEMMA StandsFor ==
  \A stack, name : resolveModule(stack, name) = Stands(Importer(stack, name), name)
  BY DEF resolveModule, Stands

(* What an importer may be given for a name. *)
MayHave(importer, name, module) ==
  /\ module \in Seq(Part)
  /\ name = Meta => module = Meta
  /\ PrivateToBase(module) =>
       \/ InBase(importer) \/ Len(importer) = 1
       \/ Head(name) = Forcing /\ module = Tail(name)

Named(name) ==
  /\ name \in Seq(Part) /\ Len(name) \in Nat /\ Len(name) > 0
  /\ Tail(name) \in Seq(Part)
  /\ Head(name) \in {".", "...", Forcing} => name \notin {Meta, <<"random">>} /\ ~InBase(name)

LEMMA AllNamed == \A name \in Names : Named(name)
<1> SUFFICES ASSUME NEW name \in Names
             PROVE  Named(name)
  OBVIOUS
<1>1. /\ name \in Seq(Part) /\ Len(name) \in Nat /\ Len(name) > 0
      /\ Head(name) \in {".", "...", Forcing} => Len(name) > 1
  BY NamesTyped
<1>2. Tail(name) \in Seq(Part)
  BY <1>1
<1>3. Len(Meta) = 1 /\ Len(<<"random">>) = 1
  BY DEF Meta
<1>4. Head(name) \in {".", "...", Forcing} => ~InBase(name)
  BY <1>1 DEF InBase, Mod, Forcing
<1>a. Len(name) > 1 => Len(name) # 1
  <2>1. \A n \in Nat : n > 1 => n # 1
    OBVIOUS
  <2> QED
    BY <1>1, <2>1, Zenon
<1>5. Head(name) \in {".", "...", Forcing} => Len(name) # 1
  BY <1>1, <1>a, Zenon
<1>6. Head(name) \in {".", "...", Forcing} => name \notin {Meta, <<"random">>}
  BY <1>3, <1>5, Zenon
<1> QED
  BY <1>1, <1>2, <1>4, <1>6, Zenon DEF Named

Typed(importer) ==
  importer \in Seq(Part) /\ Len(importer) \in Nat /\ (Len(importer) = 1 \/ Len(importer) > 1)

LEMMA SameFirst ==
  ASSUME NEW importer, NEW module, Head(module) = Mod(importer), Len(importer) > 1
  PROVE  PrivateToBase(module) => InBase(importer)
  BY DEF PrivateToBase, InBase, Mod

LEMMA RelativeMay ==
  ASSUME NEW importer, NEW name, Typed(importer), Named(name), Head(name) = "."
  PROVE  MayHave(importer, name, Stands(importer, name))
<1>1. PICK module : module = Stands(importer, name)
  OBVIOUS
<1>2. module = Front(importer) \o Tail(name)
  BY <1>1 DEF Stands, Named, Forcing
<1>3. name # Meta
  BY DEF Named
<1>4. CASE Len(importer) > 1
  <2>1. module \in Seq(Part) /\ Head(module) = Mod(importer)
    BY <1>2, <1>4, RelativeIs DEF Typed, Named
  <2> QED
    BY <1>1, <1>3, <1>4, <2>1, SameFirst DEF MayHave
<1>5. CASE Len(importer) = 1
  <2>1. Front(importer) = <<>>
    BY <1>5 DEF Front, Typed
  <2>2. module = <<>> \o Tail(name) /\ Tail(name) \in Seq(Part)
    BY <1>2, <2>1 DEF Named
  <2>3. module \in Seq(Part)
    BY <2>2
  <2> QED
    BY <1>1, <1>3, <1>5, <2>3 DEF MayHave
<1>6. Len(importer) > 1 \/ Len(importer) = 1
  BY DEF Typed
<1> QED
  BY <1>4, <1>5, <1>6

LEMMA ModRelativeMay ==
  ASSUME NEW importer, NEW name, Typed(importer), Named(name), Head(name) = "..."
  PROVE  MayHave(importer, name, Stands(importer, name))
<1>1. PICK module : module = Stands(importer, name)
  OBVIOUS
<1>2. module = (IF Len(importer) > 1 THEN <<Mod(importer)>> ELSE <<>>) \o Tail(name)
  BY <1>1 DEF Stands, Named, Forcing
<1>3. name # Meta
  BY DEF Named
<1>4. CASE Len(importer) > 1
  <2>1. module = <<Mod(importer)>> \o Tail(name)
    BY <1>2, <1>4
  <2>2. module \in Seq(Part) /\ Head(module) = Mod(importer)
    BY <2>1, <1>4, ModRelativeIs DEF Typed, Named
  <2> QED
    BY <1>1, <1>3, <1>4, <2>2, SameFirst DEF MayHave
<1>5. CASE ~(Len(importer) > 1)
  <2>1. module = <<>> \o Tail(name) /\ Tail(name) \in Seq(Part)
    BY <1>2, <1>5 DEF Named
  <2>2. module \in Seq(Part)
    BY <2>1
  <2>3. Len(importer) = 1
    BY <1>5 DEF Typed
  <2> QED
    BY <1>1, <1>3, <2>2, <2>3 DEF MayHave
<1> QED
  BY <1>4, <1>5

LEMMA ForcedMay ==
  ASSUME NEW importer, NEW name, Typed(importer), Named(name), Head(name) = Forcing
  PROVE  MayHave(importer, name, Stands(importer, name))
<1>1. name \notin {Meta, <<"random">>} /\ ~InBase(name)
  BY DEF Named
<1>2. Stands(importer, name) = Tail(name)
  BY <1>1 DEF Stands, Forcing
<1> QED
  BY <1>1, <1>2 DEF MayHave, Named

LEMMA PlainMay ==
  ASSUME NEW importer, NEW name, Typed(importer), Named(name),
         Head(name) \notin {".", "...", Forcing}
  PROVE  MayHave(importer, name, Stands(importer, name))
<1> DEFINE public == InBase(name) /\ (name[2] = "native" \/ (name[2] = "api" /\ Len(name) > 2))
           outer == ~public /\ ~(InBase(name) /\ InBase(importer))
                      /\ name \notin {Meta, <<"random">>} /\ importer # Root
<1>1. CASE public
  <2>1. Stands(importer, name) = name
    BY <1>1 DEF Stands, Forcing
  <2> QED
    BY <1>1, <2>1 DEF MayHave, Named, PrivateToBase
<1>2. CASE InBase(name) /\ InBase(importer)
  <2>1. Stands(importer, name) = name
    BY <1>2 DEF Stands, Forcing
  <2> QED
    BY <1>2, <2>1 DEF MayHave, Named
<1>3. CASE name \in {Meta, <<"random">>}
  <2>1. ~InBase(name)
    <3>1. Len(Meta) = 1 /\ Len(<<"random">>) = 1
      BY DEF Meta
    <3> QED
      BY <1>3, <3>1 DEF InBase
  <2>2. Stands(importer, name) = name
    BY <1>3, <2>1 DEF Stands, Forcing
  <2> QED
    BY <2>1, <2>2 DEF MayHave, Named, PrivateToBase
<1>4. CASE importer = Root
  <2>1. Stands(importer, name) = name
    BY <1>4 DEF Stands, Forcing
  <2>2. Len(importer) = 1
    BY <1>4 DEF Root
  <2> QED
    BY <2>1, <2>2 DEF MayHave, Named
<1>5. CASE outer
  <2>1. Stands(importer, name) = NoModule
    BY <1>5 DEF Stands, Forcing
  <2>2. NoModule \in Seq(Part) /\ ~InBase(NoModule)
    BY DEF NoModule, InBase
  <2> QED
    BY <1>5, <2>1, <2>2 DEF MayHave, PrivateToBase
<1> HIDE DEF public
<1> QED
  BY <1>1, <1>2, <1>3, <1>4, <1>5

LEMMA ResolvedMay ==
  ASSUME NEW stack, NEW name, name \in Names, Typed(Importer(stack, name))
  PROVE  MayHave(Importer(stack, name), name, resolveModule(stack, name))
<1>1. PICK importer : importer = Importer(stack, name)
  OBVIOUS
<1>2. Named(name) /\ Typed(importer)
  BY <1>1, AllNamed
<1>3. MayHave(importer, name, Stands(importer, name))
  BY <1>2, RelativeMay, ModRelativeMay, ForcedMay, PlainMay
<1> QED
  BY <1>1, <1>3, StandsFor

(* The strengthening: base/native imports meta before it does anything     *)
(* else, so that no other call runs while only base/native is loaded.      *)
AwaitsMeta == Native \in loadedModules /\ Meta \notin loadedModules
ModInv ==
  /\ ModulesTypeOK
  /\ loadedModules \subseteq Seq(Part)
  /\ AwaitsMeta => wrenFrames # <<>> /\ Last(wrenFrames) = Native

ImportGood ==
  /\ \A module \in loadedModules' \ loadedModules : PrivateToBase(module) =>
       InBase(requester') \/ Len(requester') = 1 \/ module \in ForcedNames
  /\ \A module \in Builtins \cap loadedModules' : Unbound(module) = {}

LEMMA LoadedTyped == ModInv => \A module \in loadedModules : Typed(module)
<1> SUFFICES ASSUME ModInv, NEW module \in loadedModules
             PROVE  Typed(module)
  OBVIOUS
<1>1. module \in Seq(Part) /\ module # <<>>
  BY DEF ModInv, ModulesTypeOK, NoModule
<1>2. Len(module) \in Nat /\ Len(module) > 0
  BY <1>1
<1>3. \A n \in Nat : n > 0 => n = 1 \/ n > 1
  OBVIOUS
<1> QED
  BY <1>1, <1>2, <1>3, Zenon DEF Typed

LEMMA MetaIsPublic ==
  /\ ~PrivateToBase(Meta) /\ getModulePath(Meta) /\ Meta # NoModule
  /\ Native # Meta /\ Root # Native /\ Root # NoModule
  BY DEF PrivateToBase, InBase, getModulePath, Meta, Native, Root, NoModule

(* No step but an import disturbs what base/native waits for. *)
LEMMA ScriptSettled == ModInv /\ ScriptRuns => ~AwaitsMeta
  BY DEF ModInv, ScriptRuns, Builtins

LEMMA KeptGood == UNCHANGED loadedModules => ImportGood
  BY AllBound DEF ImportGood

LEMMA ImportStep ==
  ASSUME NEW stack, NEW name, NEW who, ModInv,
         Import(stack, name, who), stack \in Seq(loadedModules), Len(stack) + 1 <= MaxFrames,
         name \in Names, who \in loadedModules, Importer(stack, name) \in loadedModules,
         who = Importer(stack, name) \/ name = Meta, AwaitsMeta => name = Meta
  PROVE  ModInv' /\ ImportGood
<1> DEFINE module == resolveModule(stack, name)
           fails == module = NoModule \/ (module \notin loadedModules /\ ~getModulePath(module))
<1>1. MayHave(Importer(stack, name), name, module)
  BY LoadedTyped, ResolvedMay
<1>2. module \in Seq(Part) /\ (name = Meta => module = Meta)
  BY <1>1 DEF MayHave
<1>3. /\ fails => AbortFiber /\ UNCHANGED <<loadedModules, requester>>
      /\ ~fails /\ module \in loadedModules =>
           UNCHANGED <<wrenFrames, loadedModules, requester, fiberState>>
      /\ ~fails /\ module \notin loadedModules =>
           /\ loadedModules' = loadedModules \cup {module}
           /\ requester' = who
           /\ wrenFrames' = Append(stack, module)
           /\ UNCHANGED fiberState
      /\ UNCHANGED <<mod_metadata, exposedNames>>
  <2>1. Unbound(module) = {}
    BY AllBound
  <2> QED
    BY <2>1 DEF Import
<1>4. PrivateToBase(module) => InBase(who) \/ Len(who) = 1 \/ module \in ForcedNames
  <2>1. CASE name = Meta
    BY <1>2, <2>1, MetaIsPublic
  <2>2. CASE name # Meta
    <3>1. Head(name) = Forcing => name \in Requests
      BY NamesTyped
    <3>2. Head(name) = Forcing /\ module = Tail(name) => module \in ForcedNames
      BY <3>1 DEF ForcedNames, Forcing
    <3>3. who = Importer(stack, name)
      BY <2>2
    <3> HIDE DEF module
    <3> QED
      BY <1>1, <3>2, <3>3 DEF MayHave
  <2> QED
    BY <2>1, <2>2
<1>5. fails => ~AwaitsMeta
  BY <1>2, MetaIsPublic DEF AwaitsMeta
<1> HIDE DEF module
<1>6. CASE fails
  <2>1. ImportGood
    BY <1>3, <1>6, KeptGood
  <2>2. wrenFrames' = <<>> /\ fiberState' \in {fiberState, "exited"}
        /\ UNCHANGED <<loadedModules, requester, mod_metadata, exposedNames>>
    BY <1>3, <1>6 DEF AbortFiber
  <2>3. wrenFrames' \in Seq(loadedModules') /\ Len(wrenFrames') = 0
    BY <2>2
  <2>4. ModulesTypeOK'
    <3>1. Len(wrenFrames') <= MaxFrames
      BY <2>3, WrenModulesAssumption
    <3> QED
      BY <2>2, <2>3, <3>1 DEF ModInv, ModulesTypeOK
  <2>5. ~AwaitsMeta'
    BY <1>5, <1>6, <2>2 DEF AwaitsMeta
  <2> QED
    BY <2>1, <2>2, <2>4, <2>5 DEF ModInv
<1>7. CASE ~fails /\ module \in loadedModules
  <2>1. UNCHANGED moduleVars
    BY <1>3, <1>7 DEF moduleVars
  <2>2. ModInv'
    BY <2>1 DEF moduleVars, ModInv, ModulesTypeOK, AwaitsMeta
  <2> QED
    BY <2>1, <2>2, KeptGood DEF moduleVars
<1>8. CASE ~fails /\ module \notin loadedModules
  <2>1. /\ loadedModules' = loadedModules \cup {module} /\ requester' = who
        /\ wrenFrames' = Append(stack, module)
        /\ UNCHANGED <<fiberState, mod_metadata, exposedNames>>
    BY <1>3, <1>8
  <2>2. ImportGood
    BY <1>4, <2>1, AllBound DEF ImportGood
  <2>3. /\ wrenFrames' \in Seq(loadedModules') /\ Len(wrenFrames') = Len(stack) + 1
        /\ wrenFrames' # <<>> /\ Last(wrenFrames') = module
    <3>1. stack \in Seq(loadedModules') /\ module \in loadedModules'
      BY <2>1
    <3> QED
      BY <2>1, <3>1 DEF Last
  <2>4. ModulesTypeOK'
    <3>1. \A m \in loadedModules' : m # NoModule
      BY <1>8, <2>1 DEF ModInv, ModulesTypeOK
    <3>2. \A full \in exposedNames' : \E m \in loadedModules' : full[1] = Mod(m)
      BY <2>1 DEF ModInv, ModulesTypeOK
    <3>3. \A mod \in DOMAIN mod_metadata' : mod_metadata'[mod] \in Roots
      BY <2>1 DEF ModInv, ModulesTypeOK
    <3>4. requester' \in loadedModules' /\ fiberState' \in {"starting", "ready", "exited"}
      BY <2>1 DEF ModInv, ModulesTypeOK
    <3>5. Len(wrenFrames') <= MaxFrames
      BY <2>3
    <3> QED
      BY <2>3, <3>1, <3>2, <3>3, <3>4, <3>5 DEF ModulesTypeOK
  <2>5. loadedModules' \subseteq Seq(Part)
    BY <1>2, <2>1 DEF ModInv
  <2>6. AwaitsMeta' => wrenFrames' # <<>> /\ Last(wrenFrames') = Native
    <3>1. CASE AwaitsMeta
      BY <1>2, <2>1, <3>1 DEF AwaitsMeta
    <3>2. CASE ~AwaitsMeta
      BY <2>1, <2>3, <3>2 DEF AwaitsMeta
    <3> QED
      BY <3>1, <3>2
  <2> QED
    BY <2>2, <2>4, <2>5, <2>6 DEF ModInv
<1> QED
  BY <1>6, <1>7, <1>8

LEMMA RunsTop ==
  ASSUME ModInv, wrenFrames # <<>>
  PROVE  /\ Len(wrenFrames) \in Nat /\ Len(wrenFrames) > 0
         /\ Last(wrenFrames) = wrenFrames[Len(wrenFrames)]
         /\ Last(wrenFrames) \in loadedModules
  BY DEF ModInv, ModulesTypeOK, Last

LEMMA StatementStep ==
  ASSUME ModInv, ImportStatement
  PROVE  ModInv' /\ ImportGood
<1> DEFINE last == Last(wrenFrames)
<1>1. Runs /\ Len(wrenFrames) + 1 <= MaxFrames /\ wrenFrames # <<>>
  BY DEF ImportStatement, Room, Runs
<1>2. PICK name : /\ Import(wrenFrames, name, last)
                  /\ \/ last = Root /\ name = BaseMain
                     \/ last = Native /\ name = Meta
                     \/ ScriptRuns /\ last # Root /\ name \in Requests
  BY MetaIsPublic DEF ImportStatement, ScriptRuns, Builtins
<1>3. last \in loadedModules /\ wrenFrames \in Seq(loadedModules)
  BY <1>1, RunsTop DEF ModInv, ModulesTypeOK
<1>4. Importer(wrenFrames, name) = last
  BY <1>2, MetaIsPublic DEF Importer, ScriptRuns, Builtins
<1>5. AwaitsMeta => name = Meta
  BY <1>2, ScriptSettled, MetaIsPublic DEF ModInv
<1>6. name \in Names
  BY <1>2 DEF Names
<1> HIDE DEF last
<1> QED
  BY <1>1, <1>2, <1>3, <1>4, <1>5, <1>6, ImportStep

LEMMA ThreeMore ==
  ASSUME NEW S, NEW s \in Seq(S), NEW t \in Seq(S), Len(s) \in Nat, Len(s) > 0, Len(t) = 3
  PROVE  /\ s \o t \in Seq(S) /\ Len(s \o t) = Len(s) + 3
         /\ (s \o t)[Len(s \o t)] = t[3] /\ (s \o t)[Len(s \o t) - 3] = s[Len(s)]
<1> DEFINE n == Len(s)
<1>1. /\ s \o t \in Seq(S) /\ Len(s \o t) = n + 3
      /\ \A i \in 1..(n + 3) : (s \o t)[i] = IF i <= n THEN s[i] ELSE t[i - n]
  <2>1. /\ s \o t \in Seq(S) /\ Len(s \o t) = Len(s) + Len(t)
        /\ \A i \in 1..(Len(s) + Len(t)) : (s \o t)[i] =
              IF i <= Len(s) THEN s[i] ELSE t[i - Len(s)]
    BY ConcatProperties, Zenon
  <2>2. Len(t) = 3
    OBVIOUS
  <2> QED
    BY <2>1, <2>2, Zenon
<1>2. n \in Nat /\ n \in 1..(n + 3) /\ n + 3 \in 1..(n + 3) /\ ~(n + 3 <= n) /\ n + 3 - n = 3
  OBVIOUS
<1>3. n + 3 - 3 = n
  OBVIOUS
<1> HIDE DEF n
<1>4. (s \o t)[n + 3] = t[n + 3 - n] /\ (s \o t)[n] = s[n]
  BY <1>1, <1>2
<1> QED
  BY <1>1, <1>2, <1>3, <1>4 DEF n

LEMMA DynamicStep ==
  ASSUME ModInv, dynamic_import
  PROVE  ModInv' /\ ImportGood
<1> DEFINE last == Last(wrenFrames)
           three == <<Native, Meta, Native>>
           stack == wrenFrames \o three
<1>1. ScriptRuns /\ Len(wrenFrames) + 4 <= MaxFrames /\ wrenFrames # <<>> /\ Native \in loadedModules
  BY DEF dynamic_import, Room, ScriptRuns, Runs
<1>2. PICK name \in Requests : Import(stack, name, last)
  BY DEF dynamic_import
<1>3. ~AwaitsMeta /\ Meta \in loadedModules
  BY <1>1, ScriptSettled DEF AwaitsMeta
<1>4. /\ last \in loadedModules /\ wrenFrames \in Seq(loadedModules)
      /\ Len(wrenFrames) \in Nat /\ Len(wrenFrames) > 0 /\ last = wrenFrames[Len(wrenFrames)]
  BY <1>1, RunsTop DEF ModInv, ModulesTypeOK
<1>5. three \in Seq(loadedModules) /\ Len(three) = 3 /\ three[3] = Native
  BY <1>1, <1>3
<1>6. /\ stack \in Seq(loadedModules) /\ Len(stack) = Len(wrenFrames) + 3
      /\ stack[Len(stack)] = Native /\ stack[Len(stack) - 3] = last
  <2> HIDE DEF three
  <2> HIDE DEF last
  <2> QED
    BY <1>4, <1>5, ThreeMore
<1> HIDE DEF stack, last
<1>7. Importer(stack, name) \in loadedModules /\ (Importer(stack, name) = last \/ name = Meta)
  BY <1>1, <1>4, <1>6 DEF Importer, Last
<1>8. name \in Names /\ Len(stack) + 1 <= MaxFrames
  <2>1. name \in Names
    BY DEF Names
  <2> QED
    BY <1>1, <1>4, <1>6, <2>1, WrenModulesAssumption
<1> QED
  BY <1>2, <1>3, <1>4, <1>6, <1>7, <1>8, ImportStep

(* A step that loads nothing and starts from no pending import of meta. *)
LEMMA QuietStep ==
  ASSUME ModInv, ~AwaitsMeta, UNCHANGED <<loadedModules, requester>>,
         wrenFrames' \in Seq(loadedModules), Len(wrenFrames') <= MaxFrames,
         \A mod \in DOMAIN mod_metadata' : mod_metadata'[mod] \in Roots,
         \A full \in exposedNames' : \E module \in loadedModules : full[1] = Mod(module),
         fiberState' \in {"starting", "ready", "exited"}
  PROVE  ModInv' /\ ImportGood
<1>1. ~AwaitsMeta'
  BY DEF AwaitsMeta
<1>2. ModulesTypeOK'
  BY DEF ModInv, ModulesTypeOK
<1> QED
  BY <1>1, <1>2, KeptGood DEF ModInv

LEMMA Aborted ==
  ASSUME ModInv, AbortFiber
  PROVE  /\ wrenFrames' \in Seq(loadedModules) /\ Len(wrenFrames') <= MaxFrames
         /\ fiberState' \in {"starting", "ready", "exited"}
<1>1. wrenFrames' = <<>>
  BY DEF AbortFiber
<1>2. wrenFrames' \in Seq(loadedModules) /\ Len(wrenFrames') = 0
  BY <1>1
<1>3. fiberState' \in {"starting", "ready", "exited"}
  BY DEF AbortFiber, ModInv, ModulesTypeOK
<1> QED
  BY <1>2, <1>3, WrenModulesAssumption

LEMMA CallStep ==
  ASSUME ModInv, CallFunction
  PROVE  ModInv' /\ ImportGood
<1>1. PICK module \in loadedModules : wrenFrames' = Append(wrenFrames, module)
  BY DEF CallFunction
<1>2. wrenFrames \in Seq(loadedModules) /\ Len(wrenFrames) < MaxCalls
  BY DEF CallFunction, ModInv, ModulesTypeOK
<1>3. wrenFrames' \in Seq(loadedModules) /\ Len(wrenFrames') <= MaxFrames
  BY <1>1, <1>2, WrenModulesAssumption
<1>4. ~AwaitsMeta
  BY ScriptSettled DEF CallFunction, Runs, ModInv
<1>5. /\ UNCHANGED <<loadedModules, requester, mod_metadata, exposedNames, fiberState>>
      /\ \A mod \in DOMAIN mod_metadata : mod_metadata[mod] \in Roots
      /\ \A full \in exposedNames : \E m \in loadedModules : full[1] = Mod(m)
      /\ fiberState \in {"starting", "ready", "exited"}
  BY DEF CallFunction, ModInv, ModulesTypeOK
<1> QED
  BY <1>3, <1>4, <1>5, QuietStep

LEMMA FrontIs ==
  ASSUME NEW S, NEW s \in Seq(S), Len(s) \in Nat, Len(s) > 0
  PROVE  Front(s) \in Seq(S) /\ Len(Front(s)) = Len(s) - 1
<1>1. Front(s) = SubSeq(s, 1, Len(s) - 1)
  BY DEF Front
<1>2. PICK n \in Nat : n = Len(s) - 1
  OBVIOUS
<1>3. \A i \in 1..n : s[i] \in S
  BY <1>2
<1>4. SubSeq(s, 1, n) \in Seq(S) /\ Len(SubSeq(s, 1, n)) = n
  <2>1. /\ SubSeq(s, 1, n) \in Seq(S)
        /\ Len(SubSeq(s, 1, n)) = IF 1 <= n THEN n - 1 + 1 ELSE 0
    <3>1. 1 \in Int /\ n \in Int
      OBVIOUS
    <3> QED
      BY ONLY <1>3, <3>1, SubSeqProperties, SMT
  <2>2. (IF 1 <= n THEN n - 1 + 1 ELSE 0) = n
    OBVIOUS
  <2> QED
    BY <2>1, <2>2
<1> QED
  BY <1>1, <1>2, <1>4

LEMMA ReturnStep ==
  ASSUME ModInv, ReturnFunction
  PROVE  ModInv' /\ ImportGood
<1> DEFINE rest == Front(wrenFrames)
           n == Len(wrenFrames)
<1>1. wrenFrames # <<>> /\ wrenFrames \in Seq(loadedModules) /\ n \in Nat /\ n > 0 /\ n <= MaxFrames
  BY RunsTop DEF ReturnFunction, Runs, ModInv, ModulesTypeOK
<1>2. rest \in Seq(loadedModules) /\ Len(rest) = n - 1
  BY <1>1, FrontIs
<1>3. /\ wrenFrames' \in {rest, SubSeq(rest, 1, Len(rest) - 3)}
      /\ wrenFrames' # rest => Len(rest) > 3
  BY DEF ReturnFunction
<1>4. ~AwaitsMeta
  BY <1>1 DEF ReturnFunction, ModInv, AwaitsMeta
<1>5. wrenFrames' \in Seq(loadedModules) /\ Len(wrenFrames') <= MaxFrames
  <2> HIDE DEF rest, n
  <2>1. CASE wrenFrames' = rest
    BY <1>1, <1>2, <2>1, WrenModulesAssumption
  <2>2. CASE wrenFrames' # rest
    <3>1. Len(rest) > 3 /\ Len(rest) \in Nat /\ wrenFrames' = SubSeq(rest, 1, Len(rest) - 3)
      BY <1>2, <1>3, <2>2
    <3>2. wrenFrames' \in Seq(loadedModules) /\ Len(wrenFrames') = Len(rest) - 3
      BY <1>2, <3>1
    <3> QED
      BY <1>1, <1>2, <3>1, <3>2, WrenModulesAssumption
  <2> QED
    BY <2>1, <2>2
<1>6. /\ UNCHANGED <<loadedModules, requester, mod_metadata, exposedNames>>
      /\ \A mod \in DOMAIN mod_metadata : mod_metadata[mod] \in Roots
      /\ \A full \in exposedNames : \E m \in loadedModules : full[1] = Mod(m)
      /\ fiberState' \in {"starting", "ready", "exited"}
  BY DEF ReturnFunction, ModInv, ModulesTypeOK
<1> QED
  BY <1>4, <1>5, <1>6, QuietStep

(* What a native that a script calls starts from. *)
LEMMA UsesFacts ==
  ASSUME ModInv, NEW name, Uses(name)
  PROVE  /\ ~AwaitsMeta /\ wrenFrames # <<>>
         /\ wrenFrames \in Seq(loadedModules) /\ Len(wrenFrames) <= MaxFrames
         /\ \A mod \in DOMAIN mod_metadata : mod_metadata[mod] \in Roots
         /\ \A full \in exposedNames : \E m \in loadedModules : full[1] = Mod(m)
         /\ fiberState \in {"starting", "ready", "exited"}
  BY ScriptSettled DEF Uses, ScriptRuns, Runs, ModInv, ModulesTypeOK

LEMMA RegisterModStep ==
  ASSUME ModInv, register_mod_v1
  PROVE  ModInv' /\ ImportGood
<1>1. Uses("internal_001") /\ UNCHANGED <<loadedModules, exposedNames, requester>>
  BY DEF register_mod_v1
<1>2. wrenFrames' \in Seq(loadedModules) /\ Len(wrenFrames') <= MaxFrames
      /\ fiberState' \in {"starting", "ready", "exited"}
  BY <1>1, UsesFacts, Aborted DEF register_mod_v1
<1>3. \A mod \in DOMAIN mod_metadata' : mod_metadata'[mod] \in Roots
  <2>1. CASE UNCHANGED mod_metadata
    BY <1>1, <2>1, UsesFacts
  <2>2. CASE ~UNCHANGED mod_metadata
    <3>1. PICK mod \in {file[1] : file \in ModuleFiles}, root \in Roots :
             mod_metadata' = [m \in DOMAIN mod_metadata \cup {mod} |->
                                IF m = mod THEN root ELSE mod_metadata[m]]
      BY <2>2 DEF register_mod_v1
    <3>2. \A m \in DOMAIN mod_metadata : mod_metadata[m] \in Roots
      BY <1>1, UsesFacts
    <3> QED
      BY <3>1, <3>2
  <2> QED
    BY <2>1, <2>2
<1> QED
  BY <1>1, <1>2, <1>3, UsesFacts, QuietStep

LEMMA ModDirectoryStep ==
  ASSUME ModInv, NEW depth, get_mod_directory(depth)
  PROVE  ModInv' /\ ImportGood
<1>1. /\ Uses("Environment_001")
      /\ UNCHANGED <<loadedModules, mod_metadata, exposedNames, requester>>
  BY DEF get_mod_directory
<1>2. wrenFrames' \in Seq(loadedModules) /\ Len(wrenFrames') <= MaxFrames
      /\ fiberState' \in {"starting", "ready", "exited"}
  <2>1. AbortFiber \/ UNCHANGED <<wrenFrames, fiberState>>
    BY DEF get_mod_directory
  <2> QED
    BY <1>1, <2>1, UsesFacts, Aborted
<1> QED
  BY <1>1, <1>2, UsesFacts, QuietStep

LEMMA RegisterObjectStep ==
  ASSUME ModInv, NEW name, register_object(name)
  PROVE  ModInv' /\ ImportGood
<1> DEFINE full_name == <<find_wren_caller(wrenFrames), name>>
<1>1. /\ Uses("LuaInterface_001")
      /\ UNCHANGED <<loadedModules, mod_metadata, requester>>
  BY DEF register_object
<1>2. AbortFiber \/ UNCHANGED <<wrenFrames, fiberState>>
  BY DEF register_object
<1>3. exposedNames' \in {exposedNames, exposedNames \cup {full_name}}
  BY DEF register_object
<1>4. \E module \in loadedModules : full_name[1] = Mod(module)
  BY <1>1, UsesFacts, RunsTop DEF find_wren_caller
<1> HIDE DEF full_name
<1>5. \A full \in exposedNames' : \E module \in loadedModules : full[1] = Mod(module)
  BY <1>1, <1>3, <1>4, UsesFacts
<1>6. wrenFrames' \in Seq(loadedModules) /\ Len(wrenFrames') <= MaxFrames
      /\ fiberState' \in {"starting", "ready", "exited"}
  BY <1>1, <1>2, UsesFacts, Aborted
<1> QED
  BY <1>1, <1>5, <1>6, UsesFacts, QuietStep

LEMMA ModInit == ModulesInit => ModInv
<1> SUFFICES ASSUME ModulesInit
             PROVE  ModInv
  OBVIOUS
<1>1. Root \in Seq(Part) /\ Root # NoModule /\ Root # Native
  <2> DEFINE root == "__root"
  <2>1. root \in Part /\ Root = <<root>>
    BY DEF Part, Root
  <2> HIDE DEF root
  <2> QED
    BY <2>1, TuplesIn, MetaIsPublic
<1>2. wrenFrames \in Seq(loadedModules) /\ Len(wrenFrames) = 1
  BY TuplesIn DEF ModulesInit
<1>3. ModulesTypeOK
  BY <1>1, <1>2, WrenModulesAssumption DEF ModulesInit, ModulesTypeOK
<1> QED
  BY <1>1, <1>3 DEF ModulesInit, ModInv, AwaitsMeta

LEMMA ModStep == ModInv /\ [ModulesNext]_moduleVars => ModInv' /\ ImportGood
<1> SUFFICES ASSUME ModInv, [ModulesNext]_moduleVars
             PROVE  ModInv' /\ ImportGood
  OBVIOUS
<1>1. CASE ImportStatement
  BY <1>1, StatementStep
<1>2. CASE dynamic_import
  BY <1>2, DynamicStep
<1>3. CASE CallFunction
  BY <1>3, CallStep
<1>4. CASE ReturnFunction
  BY <1>4, ReturnStep
<1>5. CASE register_mod_v1
  BY <1>5, RegisterModStep
<1>6. CASE \E depth \in 0..2 : get_mod_directory(depth)
  BY <1>6, ModDirectoryStep
<1>7. CASE register_object("object")
  BY <1>7, RegisterObjectStep
<1>8. CASE UNCHANGED moduleVars
  <2>1. ModInv'
    BY <1>8 DEF moduleVars, ModInv, ModulesTypeOK, AwaitsMeta
  <2> QED
    BY <1>8, <2>1, KeptGood DEF moduleVars
<1> QED
  BY <1>1, <1>2, <1>3, <1>4, <1>5, <1>6, <1>7, <1>8 DEF ModulesNext

(* The calls of a fiber are of loaded modules, and every name that is      *)
(* registered for Lua begins with a module that is loaded.                 *)
THEOREM ModulesTypeCorrect == ModulesSpec => []ModulesTypeOK
<1>1. ModInv => ModulesTypeOK
  BY DEF ModInv
<1>2. ModInv /\ [ModulesNext]_moduleVars => ModInv'
  BY ModStep
<1> QED
  BY <1>1, <1>2, ModInit, PTL DEF ModulesSpec

(* A private module of the base mod is loaded only for the base mod, for a *)
(* module of a one-part name, or by a forced name, and what is embedded in *)
(* the DLL loads for every mod: resolveModule and bindForeignMethod.       *)
THEOREM ImportRulesHold == ModulesSpec => ImportRules
<1>1. ModInv /\ [ModulesNext]_moduleVars => ModInv'
  BY ModStep
<1>2. ModInv /\ [ModulesNext]_moduleVars => [ImportGood]_moduleVars
  BY ModStep
<1>3. ImportRules <=> [][ImportGood]_moduleVars
  BY PTL DEF ImportRules, ImportGood
<1> QED
  BY <1>1, <1>2, <1>3, ModInit, PTL DEF ModulesSpec
=============================================================================
