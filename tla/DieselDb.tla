------------------------------- MODULE DieselDb -------------------------------
(***************************************************************************)
(* The asset database of the game (dbutil/DB.cpp) as the DLL reads it, its *)
(* readers (asset_db of Lua in LuaAssetDb.cpp, load_asset_contents of Wren *)
(* in db_hooks.cpp), the data stores that the game reads a mod's assets    *)
(* from (Datastore.cpp), and the texts that denote an asset.  The index    *)
(* gives each file an id, a name (with its type) and a language; bundles   *)
(* give ids their place.  The mutex of Instance lets one thread load; the  *)
(* loaded database never changes.  Byte k of a bundle is the number k.     *)
(***************************************************************************)
EXTENDS Integers, Sequences, FiniteSets, SequencesExt, FiniteSetsExt

CONSTANTS
    Indexes,      \* possible indexes: sequences of entries
    BundleLists,  \* possible contents of assets/: sequences of bundles
                  \* [package, size, items], items: sequence of
                  \* [id, offset, length]; packages have theirs by offset,
                  \* and do not store the length
    AssetNames, Languages,
    ChunkSize,    \* 0x10000 in the code
    StoreSize     \* bound: bytes of a mod's asset

NoName == "no name"
NoBundle == 0
Unset == -1    \* ~0u
NoFileId == 0

Entries == [id : Nat \ {0}, name : AssetNames, lang : Languages]
Items == [id : Nat \ {0}, offset : Nat, length : Nat]
Bundles == [package : BOOLEAN, size : Nat, items : Seq(Items)]

ASSUME DieselDbAssumption ==
    /\ ChunkSize \in Nat \ {0} /\ StoreSize \in Nat
    /\ 0 \in Languages /\ NoName \notin AssetNames
    /\ Indexes \subseteq Seq(Entries)
    /\ \A index \in Indexes : \A i, j \in DOMAIN index :
         index[i].id = index[j].id => i = j
    /\ BundleLists \subseteq Seq(Bundles)
    /\ \A list \in BundleLists : \A b \in DOMAIN list :
         LET items == list[b].items
         IN /\ \A i, j \in DOMAIN items : items[i].id = items[j].id => i = j
            /\ \A i \in DOMAIN items : items[i].offset <= list[b].size
            /\ list[b].package =>
                 \A i, j \in DOMAIN items : i <= j => items[i].offset <= items[j].offset

VARIABLES
    dbIndex, dbBundles,  \* what the game has installed
    dbStage,     \* "closed", "index", "headers", "ready", "undefined"
    dbDone,      \* entries of the index, then bundles, that are read
    filesList,
    fileKeys,    \* fileKeys[name]: the ids of files[name] and its nexts
    staleFiles,  \* ids that files or next point to in freed memory
    dbReader,    \* the read that a script has asked for
    dbStore      \* a BLTFileDataStore or BLTStringDataStore and its reader

dbVars == <<dbIndex, dbBundles, dbStage, dbDone, filesList, fileKeys,
            staleFiles, dbReader, dbStore>>
installedDb == <<dbIndex, dbBundles>>
loadedDb == <<dbStage, dbDone, filesList, fileKeys, staleFiles>>

BlankFile == [name |-> NoName, lang |-> 0, bundle |-> NoBundle,
              offset |-> Unset, length |-> Unset]
IdleReader == [at |-> "idle", name |-> NoName, lang |-> 0, file |-> NoFileId,
               block |-> 0, got |-> <<>>, outcome |-> "none"]
NoStore == [kind |-> "none", pieces |-> 0, got |-> <<>>]

DbInit ==
    /\ dbIndex \in Indexes /\ dbBundles \in BundleLists
    /\ dbStage = "closed" /\ dbDone = 0
    /\ filesList = <<>> /\ staleFiles = {}
    /\ fileKeys = [name \in AssetNames |-> <<>>]
    /\ dbReader = IdleReader /\ dbStore = NoStore

-----------------------------------------------------------------------------
(* DieselDB::DieselDB. *)

(* Without an index in assets/ the database stays empty. *)
OpenIndex ==
    /\ dbStage = "closed" /\ dbStore = NoStore
    /\ \/ /\ dbStage' = "index"
          /\ filesList' = [i \in 1..Len(dbIndex) |-> BlankFile]
       \/ dbStage' = "ready" /\ UNCHANGED filesList
    /\ UNCHANGED <<installedDb, dbDone, fileKeys, staleFiles, dbReader, dbStore>>

Filed == UNION {ToSet(fileKeys[name]) : name \in AssetNames}

(* A file id past the end makes the list grow, which may move it. *)
ReadMiniFile ==
    /\ dbStage = "index" /\ dbDone < Len(dbIndex)
    /\ LET mini == dbIndex[dbDone + 1]
           grows == mini.id > Len(filesList)
           list == IF grows
                   THEN [i \in 1..mini.id |-> IF i <= Len(filesList)
                                             THEN filesList[i] ELSE BlankFile]
                   ELSE filesList
       IN /\ filesList' = [list EXCEPT ![mini.id].name = mini.name,
                                       ![mini.id].lang = mini.lang]
          /\ fileKeys' = [fileKeys EXCEPT ![mini.name] = <<mini.id>> \o @]
          /\ staleFiles' \in {staleFiles} \cup
                             (IF grows THEN {Filed} ELSE {})
    /\ dbDone' = dbDone + 1
    /\ UNCHANGED <<installedDb, dbStage, dbReader, dbStore>>

IndexRead ==
    /\ dbStage = "index" /\ dbDone = Len(dbIndex)
    /\ dbStage' = "headers" /\ dbDone' = 0
    /\ UNCHANGED <<installedDb, filesList, fileKeys, staleFiles, dbReader,
                   dbStore>>

(* A missing or damaged file throws; the next use starts from nothing. *)
LoadThrows ==
    /\ dbStage \in {"index", "headers"}
    /\ dbStage' = "closed" /\ dbDone' = 0
    /\ filesList' = <<>> /\ staleFiles' = {}
    /\ fileKeys' = [name \in AssetNames |-> <<>>]
    /\ UNCHANGED <<installedDb, dbReader, dbStore>>

Place(files, id, bundle, offset) ==
    [files EXCEPT ![id].bundle = bundle, ![id].offset = offset]
SetLength(files, id, length) == [files EXCEPT ![id].length = length]

(* The lengths of a package are told from the offsets.  For a file at the  *)
(* offset of the one before, the code means to set the length of that one, *)
(* but takes entry i - 1 of the list of all files (numbered from 0).       *)
PositionRead(files, b, i) ==
    LET items == dbBundles[b].items
        placed == Place(files, items[i].id, b, items[i].offset)
        length == items[i + 1].offset - items[i].offset
        current == SetLength(placed, items[i].id, length)
    IN IF i = Len(items) THEN placed
       ELSE IF i > 1 /\ items[i].offset = current[i - 1].offset
       THEN SetLength(current, i - 1, length)
       ELSE current

(* A bundle stores the lengths. *)
ItemRead(files, b, i) ==
    LET item == dbBundles[b].items[i]
    IN SetLength(Place(files, item.id, b, item.offset), item.id, item.length)

(* The files after the first k items of a header. *)
HeaderRead(b, k) ==
    LET read[i \in 0..k] ==
            IF i = 0 THEN filesList
            ELSE IF dbBundles[b].package THEN PositionRead(read[i - 1], b, i)
            ELSE ItemRead(read[i - 1], b, i)
    IN read[k]

loadPackageHeader(b) ==
    LET items == dbBundles[b].items
        n == Len(items)
        length == dbBundles[b].size - items[n].offset
        last == SetLength(HeaderRead(b, n), items[n].id, length)
    IN IF n = 0 THEN filesList
       ELSE IF n > 1 /\ items[n - 1].offset = items[n].offset
       THEN SetLength(last, items[n - 1].id, length)
       ELSE last

loadBundleHeader(b) == HeaderRead(b, Len(dbBundles[b].items))

(* An id past the list throws too, and so does a package for which the     *)
(* mistaken entry i - 1 is a gap: its id is 0.                             *)
LoadHeader ==
    /\ dbStage = "headers" /\ dbDone < Len(dbBundles)
    /\ LET bundle == dbBundles[dbDone + 1]
       IN /\ \A i \in DOMAIN bundle.items : bundle.items[i].id <= Len(filesList)
          /\ bundle.package => \A i \in 2..(Len(bundle.items) - 1) :
                                 filesList[i - 1].name # NoName
          /\ filesList' = IF bundle.package THEN loadPackageHeader(dbDone + 1)
                          ELSE loadBundleHeader(dbDone + 1)
    /\ dbDone' = dbDone + 1
    /\ UNCHANGED <<installedDb, dbStage, fileKeys, staleFiles, dbReader, dbStore>>

HeadersRead ==
    /\ dbStage = "headers" /\ dbDone = Len(dbBundles)
    /\ dbStage' = "ready"
    /\ UNCHANGED <<installedDb, dbDone, filesList, fileKeys, staleFiles,
                   dbReader, dbStore>>

-----------------------------------------------------------------------------
(* read_file of Lua and load_asset_contents of Wren. *)

Finish(outcome) == [dbReader EXCEPT !.at = "done", !.outcome = outcome]

(* find_file: the first of the list with the language; the list is walked  *)
(* up to there.                                                            *)
WithLanguage(name, lang) ==
    {i \in DOMAIN fileKeys[name] : filesList[fileKeys[name][i]].lang = lang}
find_file(name, lang) ==
    IF WithLanguage(name, lang) = {} THEN NoFileId
    ELSE fileKeys[name][Min(WithLanguage(name, lang))]
Walked(name, lang) ==
    IF WithLanguage(name, lang) = {} THEN ToSet(fileKeys[name])
    ELSE {fileKeys[name][i] : i \in 1..Min(WithLanguage(name, lang))}
(* DieselDB::Find: the newest, whatever its language. *)
Find(name) == IF fileKeys[name] = <<>> THEN NoFileId ELSE Head(fileKeys[name])

(* Once the file is known: it has no place, or cannot be opened, or is     *)
(* read.                                                                   *)
StartRead(name, lang, file) ==
    LET asked == [IdleReader EXCEPT !.name = name, !.lang = lang, !.file = file]
    IN IF file = NoFileId THEN {[asked EXCEPT !.at = "done", !.outcome = "missing"]}
       ELSE {[asked EXCEPT !.at = "done", !.outcome = "error"]} \cup
            (IF filesList[file].bundle = NoBundle THEN {}
             ELSE {[asked EXCEPT !.at = "reading",
                      !.block = filesList[file].offset \div ChunkSize]})

Asked == dbStage = "ready" /\ dbReader.at = "idle"
AnswerFrom(touched, name, lang, file) ==
    /\ IF touched \cap staleFiles # {}
       THEN dbStage' = "undefined" /\ UNCHANGED dbReader
       ELSE dbReader' \in StartRead(name, lang, file) /\ UNCHANGED dbStage
    /\ UNCHANGED <<installedDb, dbDone, filesList, fileKeys, staleFiles, dbStore>>

ldb_load(name, lang) ==
    Asked /\ AnswerFrom(Walked(name, lang), name, lang, find_file(name, lang))

wrenLoadAssetContents(name) ==
    /\ Asked
    /\ AnswerFrom({Find(name)}, name,
                  IF Find(name) \in DOMAIN filesList
                  THEN filesList[Find(name)].lang ELSE 0, Find(name))

Chunk(bundle, block) ==
    [k \in 1..(Min({ChunkSize, bundle.size - block * ChunkSize})) |->
        block * ChunkSize + k - 1]

(* Broken: every chunk is taken from there. *)
StartEachChunk(offset, got) == offset % ChunkSize

(* The first chunk is taken from where the file starts in it. *)
StartInChunk(offset, got) == IF got = <<>> THEN offset % ChunkSize ELSE 0

(* DslFile::ReadContents.  An asset of a bundle is one compressed block;    *)
(* with another length than it was stored with, it cannot be decompressed, *)
(* or yields something else, or memory beside it is read.                  *)
IsBlock(file, bundle) ==
    \E i \in DOMAIN bundle.items :
        bundle.items[i].offset = file.offset /\ bundle.items[i].length = file.length
ReadBlock(file, bundle) ==
    \/ /\ IsBlock(file, bundle)
       /\ dbReader' = [Finish("data") EXCEPT
                         !.got = [k \in 1..file.length |-> file.offset + k - 1]]
       /\ UNCHANGED dbStage
    \/ /\ ~IsBlock(file, bundle)
       /\ \/ dbReader' \in {Finish("thrown"), Finish("garbage")} /\ UNCHANGED dbStage
          \/ dbStage' = "undefined" /\ UNCHANGED dbReader

(* A package is read chunk by chunk. *)
ReadChunk(file, bundle) ==
    LET chunk == Chunk(bundle, dbReader.block)
        from == StartInChunk(file.offset, dbReader.got)
        left == file.length - Len(dbReader.got)
        part == SubSeq(chunk, from + 1, Min({Len(chunk), from + left}))
    IN /\ dbReader' =
            IF left <= 0 THEN Finish("data")
            ELSE IF dbReader.block * ChunkSize >= bundle.size
            THEN Finish("thrown")
            ELSE [dbReader EXCEPT !.block = @ + 1, !.got = @ \o part]
       /\ UNCHANGED dbStage

ReadContents ==
    /\ dbReader.at = "reading"
    /\ LET file == filesList[dbReader.file]
           bundle == dbBundles[file.bundle]
       IN IF bundle.package THEN ReadChunk(file, bundle) ELSE ReadBlock(file, bundle)
    /\ UNCHANGED <<installedDb, dbDone, filesList, fileKeys, staleFiles, dbStore>>
ReadFails ==
    /\ dbReader.at = "reading"
    /\ dbReader' = Finish("error")
    /\ UNCHANGED <<installedDb, loadedDb, dbStore>>
TakeAnswer ==
    /\ dbReader.at = "done"
    /\ dbReader' = IdleReader
    /\ UNCHANGED <<installedDb, loadedDb, dbStore>>

-----------------------------------------------------------------------------
(* The game reads a mod's asset from a data store, in pieces or at once.   *)

OpenStore(kind) ==
    /\ dbStage = "closed" /\ dbStore = NoStore
    /\ dbStore' = [NoStore EXCEPT !.kind = kind]
    /\ UNCHANGED <<installedDb, loadedDb, dbReader>>

(* The store of a file reads at the position, the store of a string bounds *)
(* the length by the position and reads at the beginning.                  *)
StoreRead(kind, position, length) ==
    LET count == Min({length, StoreSize - position})
        start == IF kind = "file" THEN position ELSE 0
    IN [k \in 1..count |-> start + k - 1]
ReadStore(length) ==
    /\ dbStore.kind # "none" /\ Len(dbStore.got) < StoreSize
    /\ dbStore' = [dbStore EXCEPT !.pieces = @ + 1,
         !.got = @ \o StoreRead(dbStore.kind, Len(dbStore.got), length)]
    /\ UNCHANGED <<installedDb, loadedDb, dbReader>>

DbNext ==
    /\ dbStage # "undefined"
    /\ \/ OpenIndex \/ ReadMiniFile \/ IndexRead \/ LoadThrows
       \/ LoadHeader \/ HeadersRead
       \/ \E name \in AssetNames :
             \/ \E lang \in Languages : ldb_load(name, lang)
             \/ wrenLoadAssetContents(name)
       \/ ReadContents \/ ReadFails \/ TakeAnswer
       \/ \E kind \in {"file", "string"} : OpenStore(kind)
       \/ \E length \in 1..StoreSize : ReadStore(length)

DbSpec == DbInit /\ [][DbNext]_dbVars

-----------------------------------------------------------------------------
(* Texts that denote an asset: a name, or a sign and digits.  odd digits   *)
(* are those that strtoull takes beside hexadecimal ones (a leading sign,  *)
(* blank or 0x); some is a text of which it takes a part.                  *)
AssetTexts == [sign : {"", "@", "#"}, size : {9, 17, 18},
               digits : {"hex", "odd", "some"}, bang : BOOLEAN]
Hashed(text) == <<"hash of", text>>
Number(text) == <<"number", text.digits>>
Refused == <<"refused">>

(* Wren: register_asset_hook and the others (parseHash). *)
parseHash(text) ==
    IF text.sign # "@" \/ text.size # 17 THEN Hashed(text)
    ELSE IF text.digits = "some" THEN Refused ELSE Number(text)
(* Utils.normalise_hash: the value it makes a text of. *)
normalise_hash(text) ==
    IF text.sign # "@" THEN Hashed(text)
    ELSE IF text.size # 17 \/ text.digits = "some" THEN Refused
    ELSE Number(text)
(* Lua's asset_db: a bang after 16 digits swaps the bytes. *)
to_idstring(text) ==
    IF text.sign = "#" /\ (text.size = 17 \/ (text.size = 18 /\ text.bang))
    THEN IF text.digits = "some" THEN Refused
         ELSE IF text.size = 17 THEN Number(text)
         ELSE <<"swapped", text.digits>>
    ELSE Hashed(text)

-----------------------------------------------------------------------------
(* Every variable keeps the shape its declaration gives it. *)
DbTypeOK ==
    /\ dbStage \in {"closed", "index", "headers", "ready", "undefined"}
    /\ dbDone \in Nat
    /\ \A i \in DOMAIN filesList : filesList[i] \in
          [name : AssetNames \cup {NoName}, lang : Languages,
           bundle : 0..Len(dbBundles), offset : Nat \cup {Unset}, length : Int]
    /\ \A name \in AssetNames : ToSet(fileKeys[name]) \subseteq DOMAIN filesList
    /\ staleFiles \subseteq DOMAIN filesList
    /\ dbReader.at \in {"idle", "reading", "done"}
    /\ dbReader.file \in DOMAIN filesList \cup {NoFileId}
    /\ dbStore.kind \in {"none", "file", "string"}

(* The length of item i of bundle b: in packages up to the next greater    *)
(* offset.                                                                 *)
TrueLength(b, i) ==
    LET items == dbBundles[b].items
        later == {items[j].offset : j \in DOMAIN items} \cup {dbBundles[b].size}
    IN IF dbBundles[b].package
       THEN Min({offset \in later : offset > items[i].offset}
                  \cup {dbBundles[b].size}) - items[i].offset
       ELSE items[i].length
Shares(b, i) ==
    LET items == dbBundles[b].items
    IN \E j \in DOMAIN items \ {i} : items[j].offset = items[i].offset
(* The list index that the shared-offset rule writes to is i - 1. *)
Mistaken(id, b) ==
    \E c \in b..Len(dbBundles) : dbBundles[c].package /\ id + 1 \in DOMAIN dbBundles[c].items
       /\ dbBundles[c].items[id + 1].offset = filesList[id].offset
(* The file is item i of bundle b, where it lies there and as long. *)
IsItem(id, b, i) ==
    /\ dbBundles[b].items[i].id = id /\ filesList[id].offset = dbBundles[b].items[i].offset
    /\ filesList[id].length = TrueLength(b, i)
LengthsRight ==
    dbStage = "ready" => \A id \in DOMAIN filesList :
        LET b == filesList[id].bundle
        IN b # NoBundle => \E i \in DOMAIN dbBundles[b].items :
             /\ dbBundles[b].items[i].id = id
             /\ \/ IsItem(id, b, i)
                \/ dbBundles[b].package /\ Shares(b, i)
                \/ Mistaken(id, b)

(* Ids without gaps never make the list move: its pointers stay good.      *)
OnlyGapsDangle ==
    {dbIndex[i].id : i \in DOMAIN dbIndex} = 1..Len(dbIndex) => staleFiles = {}

(* A script is given an asset exactly if the index has its name and its    *)
(* language, and then one with both.                                       *)
FindsAsked ==
    dbReader.at # "idle" /\ filesList # <<>> =>
        IF dbReader.file = NoFileId
        THEN ~\E i \in DOMAIN dbIndex :
                dbIndex[i].name = dbReader.name /\ dbIndex[i].lang = dbReader.lang
        ELSE /\ filesList[dbReader.file].name = dbReader.name
             /\ filesList[dbReader.file].lang = dbReader.lang

(* What is read is what lies between the offset and the length, across the *)
(* chunks of the package, and only a file with a wrong length is not read. *)
ReadsSlice ==
    dbReader.at = "done" /\ dbReader.outcome \in {"data", "thrown", "garbage"} =>
        LET file == filesList[dbReader.file]
        IN \/ /\ dbReader.outcome = "data"
              /\ dbReader.got = [k \in 1..file.length |-> file.offset + k - 1]
           \/ /\ dbReader.outcome # "data"
              /\ ~\E i \in DOMAIN dbBundles[file.bundle].items :
                    IsItem(dbReader.file, file.bundle, i)

(* A file store gives the game the file, however it reads it; a string     *)
(* store only if it is read at once.                                       *)
StoresAgree ==
    dbStore.kind = "file" \/ dbStore.pieces <= 1 =>
        dbStore.got = [k \in 1..Len(dbStore.got) |-> k - 1]

(* Normalising a text does not change which asset it denotes. *)
TextsAgree ==
    \A text \in AssetTexts : normalise_hash(text) # Refused =>
        parseHash(text) = normalise_hash(text)

(* Assets are found by name and language and are read as they are in the   *)
(* bundles, whatever the chunks, the gaps of the index, the failures while *)
(* loading and the order of the bundles - except for the files whose       *)
(* offsets coincide in the way that the length rules misjudge.             *)
DatabaseAgrees ==
    /\ LengthsRight /\ OnlyGapsDangle /\ FindsAsked /\ ReadsSlice
    /\ StoresAgree /\ TextsAgree
=============================================================================
