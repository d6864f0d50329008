--------------------------- MODULE Platform_proofs ---------------------------
(***************************************************************************)
(* The start of the platform and the updater, for any kinds and versions   *)
(* of the DLL and any number of updates: no failure, and no death of a     *)
(* process, leaves the player without a DLL or an updater that works.      *)
(***************************************************************************)
EXTENDS Install, TLAPS

(* Every action leaves the type of what it writes alone. *)
LEMMA InstallTypeStep ==
  ASSUME InstallTypeOK, [InstallNext]_installVars
  PROVE  InstallTypeOK'
<1>0. /\ dll \in [DllKinds -> Content] /\ dllOld \in [DllKinds -> Content]
      /\ newDll \in [DllKinds -> Content]
      /\ exe \in Content /\ exeOld \in Content /\ archive \in Content
      /\ self \in DllKinds /\ local \in Versions /\ updates \in 0..MaxUpdates
      /\ "none" \in Content
  BY DEF InstallTypeOK, Content
<1>1. SUFFICES /\ dll' \in [DllKinds -> Content] /\ dllOld' \in [DllKinds -> Content]
               /\ newDll' \in [DllKinds -> Content]
               /\ exe' \in Content /\ exeOld' \in Content /\ archive' \in Content
               /\ self' \in DllKinds /\ local' \in Versions /\ updates' \in 0..MaxUpdates
  BY DEF InstallTypeOK
<1>2. CASE StartGame
  BY <1>0, <1>2 DEF StartGame
<1>3. CASE RemoveLeftOver
  BY <1>0, <1>3 DEF RemoveLeftOver
<1>4. CASE RunUpdater
  BY <1>0, <1>4, UpdatesAssumption DEF RunUpdater
<1>5. CASE UpdaterStarts
  BY <1>0, <1>5 DEF UpdaterStarts
<1>6. CASE CheckSelf \/ CheckDll \/ RemoveSelfArchive \/ RemoveDllArchive
             \/ ExitForUpdater \/ Stop \/ UNCHANGED installVars
  BY <1>0, <1>6
  DEF CheckSelf, CheckDll, RemoveSelfArchive, RemoveDllArchive, ExitForUpdater, Stop,
      installVars
<1>7. CASE DownloadSelf \/ DownloadDll
  BY <1>0, <1>7 DEF DownloadSelf, DownloadDll, Content
<1>8. CASE RenameSelf
  BY <1>0, <1>8 DEF RenameSelf
<1>9. ASSUME NEW before \in Content
      PROVE  ExtractZIPArchive(before) \subseteq Content
  BY <1>0 DEF ExtractZIPArchive, Content
<1>10. CASE UnpackSelf
  BY <1>0, <1>9, <1>10 DEF UnpackSelf
<1>11. CASE UnpackDll
  BY <1>0, <1>9, <1>11 DEF UnpackDll
<1>12. CASE MoveOldDll
  BY <1>0, <1>12 DEF MoveOldDll
<1>13. CASE MoveNewDll
  BY <1>0, <1>13 DEF MoveNewDll
<1> QED
  BY <1>2, <1>3, <1>4, <1>5, <1>6, <1>7, <1>8, <1>10, <1>11, <1>12, <1>13
  DEF InstallNext

(* The files keep their kinds of content, and the game its DLL and version. *)
THEOREM InstallTypeCorrect == InstallSpec => []InstallTypeOK
<1>1. InstallInit => InstallTypeOK
  <2> SUFFICES ASSUME InstallInit
               PROVE  InstallTypeOK
    OBVIOUS
  <2>1. AnyKind \in DllKinds
    BY DEF InstallInit, AnyKind
  <2>2. /\ dll \in [DllKinds -> Content] /\ dllOld \in [DllKinds -> Content]
        /\ newDll \in [DllKinds -> Content]
    BY DEF InstallInit, Content
  <2> QED
    BY <2>1, <2>2, UpdatesAssumption DEF InstallInit, InstallTypeOK, Content
<1>2. InstallTypeOK /\ [InstallNext]_installVars => InstallTypeOK'
  BY InstallTypeStep
<1> QED
  BY <1>1, <1>2, PTL DEF InstallSpec

-----------------------------------------------------------------------------
(* Nothing that works is lost. *)

(* While a process runs, the DLL that was loaded is in its place, but for   *)
(* the moment between the two renames; the updater that runs is in its      *)
(* place until it renames itself, and keeps its old name until the next     *)
(* one has started.                                                         *)
InstallInv ==
  /\ NothingWorkingLost
  /\ stage \notin {"off", "move new dll"} => dll[self] = "works"
  /\ stage = "move new dll" => "works" \in {dll[self], dllOld[self]}
  /\ stage \in {"updater", "check self", "download self", "rename self"} =>
       exe = "works"
  /\ stage = "unpack self" => exeOld = "works"

LEMMA InstallStep ==
  ASSUME InstallTypeOK, InstallInv, [InstallNext]_installVars
  PROVE  InstallInv'
<1>0. /\ dll \in [DllKinds -> Content] /\ dllOld \in [DllKinds -> Content]
      /\ self \in DllKinds
  BY DEF InstallTypeOK
<1>1. CASE StartGame
  BY <1>0, <1>1 DEF StartGame, InstallInv, NothingWorkingLost
<1>2. CASE RemoveLeftOver
  BY <1>0, <1>2 DEF RemoveLeftOver, InstallInv, NothingWorkingLost
<1>3. CASE RunUpdater
  BY <1>0, <1>3 DEF RunUpdater, InstallInv, NothingWorkingLost
<1>4. CASE UpdaterStarts
  <2>1. /\ dll[self] = "works" /\ exe = "works"
        /\ UNCHANGED <<dll, exe, self, shipped>>
        /\ stage' \in {"running", "check self"}
    BY <1>4 DEF UpdaterStarts, InstallInv
  <2> QED
    BY <1>0, <2>1 DEF InstallInv, NothingWorkingLost
<1>5. CASE CheckSelf \/ DownloadSelf \/ CheckDll \/ DownloadDll \/ UnpackDll
             \/ RemoveSelfArchive \/ RemoveDllArchive \/ ExitForUpdater \/ Stop
  <2>1. /\ UNCHANGED <<shipped, dll, dllOld, exe, exeOld, self>>
        /\ stage' \notin {"move new dll", "unpack self", "updater", "check self"}
        /\ stage' \in {"download self", "rename self"} =>
             stage \in {"check self", "download self"}
        /\ stage' # "off" => stage \notin {"off", "move new dll"}
    BY <1>5
    DEF CheckSelf, DownloadSelf, CheckDll, DownloadDll, UnpackDll, RemoveSelfArchive,
        RemoveDllArchive, ExitForUpdater, Stop
  <2> QED
    BY <2>1 DEF InstallInv, NothingWorkingLost
<1>6. CASE RenameSelf
  BY <1>0, <1>6 DEF RenameSelf, InstallInv, NothingWorkingLost
<1>7. CASE UnpackSelf
  BY <1>0, <1>7 DEF UnpackSelf, InstallInv, NothingWorkingLost
<1>8. CASE MoveOldDll
  <2>1. CASE UNCHANGED <<dll, dllOld>>
    BY <1>0, <1>8, <2>1 DEF MoveOldDll, InstallInv, NothingWorkingLost
  <2>2. ASSUME NEW kind \in DllKinds,
               dllOld' = [dllOld EXCEPT ![kind] = dll[kind]],
               dll' = [dll EXCEPT ![kind] = "none"]
        PROVE  InstallInv'
    <3>1. /\ dll[self] = "works" /\ UNCHANGED <<shipped, exe, exeOld, self>>
          /\ stage' = "move new dll"
      BY <1>8 DEF MoveOldDll, InstallInv
    <3>2. "works" \in {dll'[self], dllOld'[self]}
      BY <1>0, <2>2, <3>1
    <3> QED
      BY <1>0, <3>1, <3>2 DEF InstallInv, NothingWorkingLost
  <2> QED
    BY <1>8, <2>1, <2>2 DEF MoveOldDll
<1>9. CASE MoveNewDll
  <2>1. /\ UNCHANGED <<shipped, dllOld, exe, exeOld>> /\ stage' = "off"
        /\ dll' = dll \/ (dll[self] = "none" /\ dllOld[self] = "works")
    BY <1>0, <1>9 DEF MoveNewDll, InstallInv, Exists
  <2> QED
    BY <1>0, <2>1 DEF InstallInv, NothingWorkingLost
<1>10. CASE UNCHANGED installVars
  BY <1>10 DEF installVars, InstallInv, NothingWorkingLost
<1> QED
  BY <1>1, <1>2, <1>3, <1>4, <1>5, <1>6, <1>7, <1>8, <1>9, <1>10 DEF InstallNext

(* However an update fails and wherever a process dies, one DLL that works *)
(* lies in its place or beside it, and so does an updater that was shipped. *)
THEOREM WorkingFilesKept == InstallSpec => []NothingWorkingLost
<1>1. InstallInit => InstallInv
  BY DEF InstallInit, InstallInv, NothingWorkingLost
<1>2. InstallTypeOK /\ InstallInv /\ [InstallNext]_installVars => InstallInv'
  BY InstallStep
<1>3. InstallInv => NothingWorkingLost
  BY DEF InstallInv
<1> QED
  BY <1>1, <1>2, <1>3, InstallTypeCorrect, PTL DEF InstallSpec
=============================================================================
