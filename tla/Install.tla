------------------------------- MODULE Install -------------------------------
(***************************************************************************)
(* How the hook DLL and its updater replace themselves on disk: the start  *)
(* of the platform (src/platform.cpp), the separate updater process        *)
(* (updater/updater.cpp) and the archives it unpacks                       *)
(* (updater/compression.cpp).  Either process may die between two steps;   *)
(* only the files survive, and the game may be started again.              *)
(*                                                                         *)
(* A file has no content, a broken one, or one that works.  A server may   *)
(* be out of reach, or answer an error page that libcurl takes for the     *)
(* file; an archive may be cut short, and the disk may be full.            *)
(***************************************************************************)
EXTENDS Integers, Sequences

CONSTANTS
  DllKinds,      \* names the DLL is installed under: IPHLPAPI and WSOCK32
  Versions,      \* version numbers: sequences of parts, all of one length
  MaxUpdates     \* bound: updates tried

ASSUME UpdatesAssumption == MaxUpdates \in Nat

Content == {"none", "broken", "works"}

VARIABLES
  shipped,       \* whether the updater was installed at first
  dll,           \* <kind>.dll in the game's directory
  dllOld,        \* <kind>.dll.old
  newDll,        \* updater/<kind>.dll
  exe, exeOld,   \* updater/SBLT_DLL_UPDATER.exe and its .old
  archive,       \* the archive the updater downloads
  stage,         \* where the process that is running stands
  self,          \* the DLL the game has loaded: its kind
  local,         \* and its version
  updates        \* how many updates were tried

installVars == <<shipped, dll, dllOld, newDll, exe, exeOld, archive, stage, self, local,
                 updates>>

AnyKind == CHOOSE kind \in DllKinds : TRUE

(* One DLL or both are installed, with or without the updater; leftovers   *)
(* of an earlier update may lie around.                                    *)
InstallInit ==
  /\ dll \in [DllKinds -> {"none", "works"}]
  /\ \E kind \in DllKinds : dll[kind] = "works"
  /\ dllOld \in [DllKinds -> {"none", "works"}]
  /\ newDll = [kind \in DllKinds |-> "none"]
  /\ shipped \in BOOLEAN
  /\ exe = IF shipped THEN "works" ELSE "none"
  /\ exeOld = "none"
  /\ archive = "none"
  /\ stage = "off"
  /\ self = AnyKind
  /\ local \in Versions
  /\ updates = 0

(* The game starts and Windows loads the DLL; a broken one it does not     *)
(* load, and then nothing of this module runs.                             *)
StartGame ==
  /\ stage = "off"
  /\ \E kind \in DllKinds : dll[kind] = "works" /\ self' = kind
  /\ stage' = "started"
  /\ UNCHANGED <<shipped, dll, dllOld, newDll, exe, exeOld, archive, local, updates>>

(***************************************************************************)
(* InitPlatform, up to the updater: what is left of the previous DLL is    *)
(* removed, whatever its kind.  system() fails for an updater that does    *)
(* not run, and the game goes on.                                          *)
(***************************************************************************)
RemoveLeftOver ==
  /\ stage = "started"
  /\ dllOld' = [kind \in DllKinds |-> "none"]
  /\ stage' = IF exe = "none" THEN "running" ELSE "system"
  /\ UNCHANGED <<shipped, dll, newDll, exe, exeOld, archive, self, local,
                 updates>>

RunUpdater ==
  /\ stage = "system"
  /\ updates < MaxUpdates
  /\ updates' = updates + 1
  /\ stage' = IF exe = "works" THEN "updater" ELSE "running"
  /\ UNCHANGED <<shipped, dll, dllOld, newDll, exe, exeOld, archive, self, local>>

(* main of the updater: it returns 2 when it cannot tell which DLL is used, *)
(* and removes what is left of the last update.                            *)
Exists(kind) == dll[kind] # "none"
OnlyOne == \E kind \in DllKinds : \A other \in DllKinds : Exists(other) <=> other = kind

UpdaterStarts ==
  /\ stage = "updater"
  /\ IF OnlyOne
       THEN /\ dllOld' = [kind \in DllKinds |->
                            IF Exists(kind) THEN "none" ELSE dllOld[kind]]
            /\ exeOld' = "none"
            /\ stage' = "check self"
       ELSE stage' = "running" /\ UNCHANGED <<dllOld, exeOld>>
  /\ UNCHANGED <<shipped, dll, newDll, exe, archive, self, local, updates>>

(* The updater's own version.  The request fails, or there is no newer one *)
(* or the user does not want it, or it is downloaded: its number is not    *)
(* modelled.  The result of that  *)
(* download is not looked at.                                              *)
CheckSelf ==
  /\ stage = "check self"
  /\ \/ stage' = "running"
     \/ stage' = "check dll"
     \/ stage' = "download self"
  /\ UNCHANGED <<shipped, dll, dllOld, newDll, exe, exeOld, archive, self, local,
                 updates>>

DownloadSelf ==
  /\ stage = "download self"
  /\ \/ /\ stage' = "running"               \* the archive cannot be opened
        /\ UNCHANGED archive
     \/ /\ stage' = "rename self"
        /\ archive' \in Content
  /\ UNCHANGED <<shipped, dll, dllOld, newDll, exe, exeOld, self, local, updates>>

(* A running program can be renamed, not overwritten. *)
RenameSelf ==
  /\ stage = "rename self"
  /\ exeOld' = exe
  /\ exe' = "none"
  /\ stage' = "unpack self"
  /\ UNCHANGED <<shipped, dll, dllOld, newDll, archive, self, local, updates>>

(***************************************************************************)
(* ExtractZIPArchive.  What does not start with a file header is taken for *)
(* the end of the archive and success; a file that is cut short, or that   *)
(* does not fit on the disk, is written as far as it goes.                 *)
(***************************************************************************)
ExtractZIPArchive(before) ==
  CASE archive = "none" -> {before}
    [] archive = "broken" -> {before, "broken"}
    [] archive = "works" -> {before, "broken", "works"}

UnpackSelf ==
  /\ stage = "unpack self"
  /\ exe' \in ExtractZIPArchive(exe)
  /\ stage' = "remove self archive"
  /\ UNCHANGED <<shipped, dll, dllOld, newDll, exeOld, archive, self, local, updates>>

(* Broken: the renamed updater is cleaned up with the archive. *)
RemoveOldUpdaterToo ==
  /\ stage = "remove self archive"
  /\ archive' = "none"
  /\ exeOld' = "none"
  /\ stage' = "returned 3"
  /\ UNCHANGED <<shipped, dll, dllOld, newDll, exe, self, local, updates>>

RemoveSelfArchive ==
  /\ stage = "remove self archive"
  /\ archive' = "none"
  /\ stage' = "returned 3"
  /\ UNCHANGED <<shipped, dll, dllOld, newDll, exe, exeOld, self, local, updates>>

(***************************************************************************)
(* The DLL's version: newer when any one part is larger, so that a lower   *)
(* version can pass for a newer one.  The user may decline.  With          *)
(* mods/debug_updater.txt the local version is taken for 0.0.0.0.          *)
(***************************************************************************)
Newer(remote) == \E part \in DOMAIN remote : remote[part] > local[part]

CheckDll ==
  /\ stage = "check dll"
  /\ \/ stage' = "running"
     \/ \E remote \in Versions : Newer(remote) /\ stage' = "download dll"
  /\ UNCHANGED <<shipped, dll, dllOld, newDll, exe, exeOld, archive, self, local,
                 updates>>

(* Here a download that fails ends the update, and the archive stays.      *)
DownloadDll ==
  /\ stage = "download dll"
  /\ \/ stage' = "running" /\ UNCHANGED archive
     \/ stage' = "running" /\ archive' \in {"none", "broken"}
     \/ stage' = "unpack dll" /\ archive' \in Content
  /\ UNCHANGED <<shipped, dll, dllOld, newDll, exe, exeOld, self, local, updates>>

UnpackDll ==
  /\ stage = "unpack dll"
  /\ \E kind \in DllKinds :
       /\ Exists(kind)
       /\ \E content \in ExtractZIPArchive(newDll[kind]) :
            newDll' = [newDll EXCEPT ![kind] = content]
  /\ stage' = "remove dll archive"
  /\ UNCHANGED <<shipped, dll, dllOld, exe, exeOld, archive, self, local, updates>>

RemoveDllArchive ==
  /\ stage = "remove dll archive"
  /\ archive' = "none"
  /\ stage' = "returned 1"
  /\ UNCHANGED <<shipped, dll, dllOld, newDll, exe, exeOld, self, local, updates>>

(***************************************************************************)
(* Back in InitPlatform after an update of the DLL.  Each rename may fail, *)
(* after a message; the second is tried whatever the first did.  The DLL   *)
(* that is loaded can be renamed, not replaced.                            *)
(***************************************************************************)
MoveOldDll ==
  /\ stage = "returned 1"
  /\ \E kind \in DllKinds :
       /\ Exists(kind)
       /\ \/ /\ dllOld' = [dllOld EXCEPT ![kind] = dll[kind]]
             /\ dll' = [dll EXCEPT ![kind] = "none"]
          \/ UNCHANGED <<dll, dllOld>>
  /\ stage' = "move new dll"
  /\ UNCHANGED <<shipped, newDll, exe, exeOld, archive, self, local, updates>>

MoveNewDll ==
  /\ stage = "move new dll"
  /\ \/ /\ ~Exists(self) /\ newDll[self] # "none"
        /\ dll' = [dll EXCEPT ![self] = newDll[self]]
        /\ newDll' = [newDll EXCEPT ![self] = "none"]
        /\ local' \in Versions
     \/ UNCHANGED <<dll, newDll, local>>
  /\ stage' = "off"
  /\ UNCHANGED <<shipped, dllOld, exe, exeOld, archive, self, updates>>

ExitForUpdater ==
  /\ stage = "returned 3"
  /\ stage' = "off"
  /\ UNCHANGED <<shipped, dll, dllOld, newDll, exe, exeOld, archive, self, local,
                 updates>>

(* The game is closed, or the process that is running dies. *)
Stop ==
  /\ stage # "off"
  /\ stage' = "off"
  /\ UNCHANGED <<shipped, dll, dllOld, newDll, exe, exeOld, archive, self, local,
                 updates>>

InstallNext ==
  \/ StartGame
  \/ RemoveLeftOver
  \/ RunUpdater
  \/ UpdaterStarts
  \/ CheckSelf
  \/ DownloadSelf
  \/ RenameSelf
  \/ UnpackSelf
  \/ RemoveSelfArchive
  \/ CheckDll
  \/ DownloadDll
  \/ UnpackDll
  \/ RemoveDllArchive
  \/ MoveOldDll
  \/ MoveNewDll
  \/ ExitForUpdater
  \/ Stop

InstallSpec == InstallInit /\ [][InstallNext]_installVars

-----------------------------------------------------------------------------
(* Every variable keeps the shape its declaration gives it. *)
InstallTypeOK ==
  /\ {dll, dllOld, newDll} \subseteq [DllKinds -> Content]
  /\ {exe, exeOld, archive} \subseteq Content
  /\ self \in DllKinds
  /\ local \in Versions
  /\ updates \in 0..MaxUpdates

(* However an update fails, and wherever the process dies, the player can  *)
(* go back: while no DLL in place works, the one that was replaced still   *)
(* lies beside it; and an updater that was there still works as itself or  *)
(* under its old name (the renames of platform.cpp:70-96, updater.cpp:159-167).  *)
NothingWorkingLost ==
  /\ \E kind \in DllKinds : "works" \in {dll[kind], dllOld[kind]}
  /\ shipped => "works" \in {exe, exeOld}
=============================================================================
