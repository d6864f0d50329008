------------------------------- MODULE Hashing -------------------------------
(***************************************************************************)
(* file.DirectoryHash and file.FileHash (InitiateState.cpp), which hash at *)
(* once or, with a callback, on a thread of their own (util/hashing.cpp),  *)
(* while others change the files and lock them.  SHA-256 tells all         *)
(* contents apart: the hash of a directory is the sequence of the contents *)
(* it was made from, that of a file the sequence of its own, since         *)
(* GetFileHash hashes twice.                                               *)
(***************************************************************************)
EXTENDS Integers, Sequences, FiniteSets, SequencesExt, Selection

CONSTANTS
    HashPaths,   \* the files there may be below the directory, each a sequence
                 \* of names, as CompareStringsCaseInsensitive sorts them
    Versioning,  \* ".hg" and ".git"
    MaxHashes,   \* bound: requests
    MaxChanges   \* bound: changes to files and to what can be opened

ASSUME HashingAssumption ==
    /\ HashPaths \in Seq(Seq(STRING) \ {<<>>})
    /\ MaxHashes \in Nat /\ MaxChanges \in Nat

VARIABLES
    disk,        \* the content of each file, or Absent
    barred,      \* the files and directories that cannot be opened or listed
    hashes,      \* the requests so far and how far each has come
    hashQueue,   \* HashResultQueue: the requests whose result is posted
    hashCalls,   \* the requests whose callbacks were run, in this order
    asking,      \* whether the Lua state that asks is active
    changes,
    hashProgram  \* "running", "terminated"

hashVars ==
    <<disk, barred, hashes, hashQueue, hashCalls, asking, changes, hashProgram>>

Absent == 0
Files == ToSet(HashPaths)
Under(path, dir) == IsStrictPrefix(dir, path)
FilesIn(dir) ==
    {p \in Files : disk[p] # Absent /\ Under(p, dir) /\ Len(p) = Len(dir) + 1}
DirsIn(dir) ==
    {SubSeq(p, 1, Len(dir) + 1) :
        p \in {q \in Files : disk[q] # Absent /\ Under(q, dir) /\ Len(q) > Len(dir) + 1}}

(* The directory, its files, and the directories between. *)
TreePaths == {<<>>} \cup UNION {Prefixes(p) : p \in Files}

HashInit ==
    /\ disk = [p \in Files |-> 1] /\ barred = {}
    /\ hashes = <<>> /\ hashQueue = <<>> /\ hashCalls = <<>>
    /\ asking = TRUE /\ changes = 0 /\ hashProgram = "running"

(* A hash without callback is made on the main thread, which does nothing  *)
(* else until it has the result.                                           *)
MainFree ==
    hashProgram = "running" /\
    \A r \in DOMAIN hashes : hashes[r].async \/ hashes[r].at \in {"done", "raised"}

-----------------------------------------------------------------------------

Hasher(kind, dirs, found, slash, async) ==
    [kind |-> kind, dirs |-> dirs, found |-> found, slash |-> slash,
     async |-> async, at |-> "walk", text |-> <<>>, disturbed |-> FALSE]

(* luaF_directoryhash and luaF_filehash, of something that is there: the   *)
(* directory may be named with or without a slash at its end.              *)
AskHash ==
    /\ MainFree /\ asking /\ Len(hashes) < MaxHashes
    /\ \E async \in BOOLEAN :
         \/ \E slash \in BOOLEAN :
              hashes' = Append(hashes, Hasher("dir", <<<<>>>>, {}, slash, async))
         \/ \E p \in {q \in Files : disk[q] # Absent} :
              hashes' = Append(hashes, Hasher("file", <<>>, {p}, TRUE, async))
    /\ UNCHANGED <<disk, barred, hashQueue, hashCalls, asking, changes, hashProgram>>

Walking(r) == hashProgram = "running" /\ hashes[r].at = "walk"
Keep == UNCHANGED <<disk, barred, hashCalls, asking, changes>>

(* What GetDirectoryContents or GetFileContents throws: an error for Lua   *)
(* on the main thread, the end of the process on any other.                *)
Throw(r) ==
    /\ IF hashes[r].async
       THEN hashProgram' = "terminated" /\ UNCHANGED hashes
       ELSE hashes' = [hashes EXCEPT ![r].at = "raised"] /\ UNCHANGED hashProgram
    /\ UNCHANGED hashQueue

(* Broken: a repository is left out wherever it is. *)
IgnoredAnywhere(sub) == Last(sub) \in Versioning

(* The flag ignore_versioning is passed on as false. *)
Ignored(sub) == Len(sub) = 1 /\ Last(sub) \in Versioning

(* RecurseDirectoryPaths, one directory.  Names are put behind the name of *)
(* the directory as it was given: without a slash they name nothing.  An   *)
(* emptied directory may be gone or not; one whose path is too long, or    *)
(* that the process may not list, is there and throws.                     *)
RecurseDirectoryPaths(r) ==
    LET h == hashes[r]
        dir == Head(h.dirs)
        subs == {sub \in DirsIn(dir) : ~Ignored(sub)}
    IN /\ Walking(r) /\ h.dirs # <<>>
       /\ \/ /\ \/ dir \in barred
                \/ dir # <<>> /\ FilesIn(dir) = {} /\ DirsIn(dir) = {}
                \/ dir # <<>> /\ ~h.slash
             /\ Throw(r)
          \/ /\ dir \notin barred
             /\ h.slash \/ dir = <<>>
             /\ hashes' = [hashes EXCEPT ![r].found = @ \cup FilesIn(dir),
                                         ![r].dirs = SetToSeq(subs) \o Tail(@)]
             /\ UNCHANGED <<hashQueue, hashProgram>>
       /\ Keep

InOrder(S) == Chosen(HashPaths, S)
Sorted(r) == InOrder(hashes[r].found)

(* GetDirectoryHash and GetFileHash, one file: the position at the end of  *)
(* a file that cannot be opened, there or not, is -1, too much to reserve. *)
GetFileContents(r) ==
    LET h == hashes[r]
        p == Sorted(r)[Len(h.text) + 1]
    IN /\ Walking(r) /\ h.dirs = <<>> /\ Len(h.text) < Len(Sorted(r))
       /\ IF disk[p] = Absent \/ p \in barred \/ ~h.slash
          THEN Throw(r)
          ELSE /\ hashes' = [hashes EXCEPT ![r].text = Append(@, disk[p])]
               /\ UNCHANGED <<hashQueue, hashProgram>>
       /\ Keep

(* run_async posts the result; without a callback it is returned.          *)
FinishHash(r) ==
    /\ Walking(r) /\ hashes[r].dirs = <<>>
    /\ Len(hashes[r].text) = Len(Sorted(r))
    /\ hashes' = [hashes EXCEPT ![r].at = "done"]
    /\ hashQueue' = IF hashes[r].async THEN Append(hashQueue, r) ELSE hashQueue
    /\ UNCHANGED hashProgram /\ Keep

(* done and call_hash_result, by the frame update. *)
CallHashResult ==
    /\ MainFree /\ hashQueue # <<>>
    /\ hashQueue' = Tail(hashQueue)
    /\ hashCalls' = IF asking THEN Append(hashCalls, Head(hashQueue)) ELSE hashCalls
    /\ UNCHANGED <<disk, barred, hashes, asking, changes, hashProgram>>

CloseAskingState ==
    /\ MainFree /\ asking /\ asking' = FALSE
    /\ UNCHANGED <<disk, barred, hashes, hashQueue, hashCalls, changes, hashProgram>>

(* The game, a mod or another program writes or removes a file.            *)
ChangeFile(p) ==
    /\ hashProgram = "running" /\ changes < MaxChanges
    /\ changes' = changes + 1
    /\ \E content \in {Absent, changes + 2} : disk' = [disk EXCEPT ![p] = content]
    /\ hashes' = [r \in DOMAIN hashes |->
         [hashes[r] EXCEPT !.disturbed = @ \/ hashes[r].at = "walk"]]
    /\ UNCHANGED <<barred, hashQueue, hashCalls, asking, hashProgram>>

(* One locks or unlocks a file, or takes or gives the right to a directory.  *)
ChangeAccess(q) ==
    /\ hashProgram = "running" /\ changes < MaxChanges
    /\ changes' = changes + 1
    /\ barred' = SymDiff(barred, {q})
    /\ UNCHANGED <<disk, hashes, hashQueue, hashCalls, asking, hashProgram>>

HashNext ==
    \/ AskHash \/ CallHashResult \/ CloseAskingState
    \/ \E r \in DOMAIN hashes :
         RecurseDirectoryPaths(r) \/ GetFileContents(r) \/ FinishHash(r)
    \/ \E p \in Files : ChangeFile(p)
    \/ \E q \in TreePaths : ChangeAccess(q)

HashSpec == HashInit /\ [][HashNext]_hashVars

-----------------------------------------------------------------------------
(* Every variable keeps the shape its declaration gives it. *)
HashTypeOK ==
    /\ disk \in [Files -> 0..(MaxChanges + 1)] /\ barred \subseteq TreePaths
    /\ \A r \in DOMAIN hashes : hashes[r].at \in {"walk", "done", "raised"}
    /\ ToSet(hashQueue) \cup ToSet(hashCalls) \subseteq DOMAIN hashes
    /\ hashProgram \in {"running", "terminated"}

(* The files that a directory's hash stands for: all but those of the      *)
(* repositories directly below it.                                         *)
HashedFiles ==
    {p \in Files : disk[p] # Absent /\ ~(Len(p) > 1 /\ p[1] \in Versioning)}

(* What has to be opened for a hash. *)
Opened(h) ==
    IF h.kind = "file" THEN h.found
    ELSE {q \in TreePaths : q = <<>> \/ \E p \in HashedFiles : IsPrefix(q, p)}

(* A hash made without a change in between stands for the whole tree, in   *)
(* an order that does not depend on the walk, repositories deep in it      *)
(* included; nobody gets a result twice; and a hash ends the process only  *)
(* if files changed under it, the directory was named without a slash, or  *)
(* something it stands for cannot be opened: never because of what cannot  *)
(* be opened in a repository that is left out.                             *)
HashesAgree ==
    /\ \A r \in DOMAIN hashes :
         hashes[r].kind = "dir" /\ hashes[r].slash /\ ~hashes[r].disturbed
           /\ hashes[r].at = "walk" /\ hashes[r].dirs = <<>> =>
             Sorted(r) = InOrder(HashedFiles)
    /\ \A r \in DOMAIN hashes : ~hashes[r].disturbed /\ hashes[r].at = "walk" =>
         \A i \in DOMAIN hashes[r].text : hashes[r].text[i] = disk[Sorted(r)[i]]
    /\ IsInjective(hashCalls \o hashQueue)
    /\ hashProgram = "terminated" => \E r \in DOMAIN hashes :
         /\ hashes[r].async /\ hashes[r].at = "walk"
         /\ \/ hashes[r].disturbed \/ ~hashes[r].slash
            \/ barred \cap Opened(hashes[r]) # {}
=============================================================================
