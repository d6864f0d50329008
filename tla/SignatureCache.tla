--------------------------- MODULE SignatureCache ---------------------------
(***************************************************************************)
(* Finding the game's functions by their machine code, and the cache of    *)
(* where they were found last time (src/signatures/signatures.cpp).  Each  *)
(* start of the game reads the cache file, searches and saves; between two *)
(* starts the game may be updated, and a start may die while it saves.     *)
(*                                                                         *)
(* An address is an offset into the image, and NotFound stands for the     *)
(* null pointer.                                                           *)
(***************************************************************************)
EXTENDS Integers, Sequences, FiniteSets, SequencesExt, FiniteSetsExt, Selection

CONSTANTS
  Images,       \* builds of the game: sequences of bytes
  Signatures,   \* sequence of [funcname, signature, offset]; a byte of a
                \* signature that is masked out is Masked
  AssetPattern, \* the code the asset resolvers share
  Excluded,     \* index of try_open_property_match_resolver, whose code may
                \* look like theirs
  TargetCount,  \* target_count: 3 in the code
  MaxStarts     \* bound: starts of the game

(* Each signature defines a variable of its name. *)
ASSUME SignatureAssumption ==
  /\ Images \subseteq Seq(Int)
  /\ Signatures \in Seq([funcname : STRING, signature : Seq(Int), offset : Int])
  /\ \A s, t \in DOMAIN Signatures :
       Signatures[s].funcname = Signatures[t].funcname => s = t
  /\ \A s \in DOMAIN Signatures : Signatures[s].funcname \notin
       {"asset_load_signatures_id", "asset_load_signatures_count"}
  /\ AssetPattern \in Seq(Int) /\ Excluded \in DOMAIN Signatures
  /\ TargetCount \in Nat /\ MaxStarts \in Nat

Masked == -1
NotFound == -1

VARIABLES
  image,        \* the build that is installed
  cacheFile,    \* the entries that are whole in the file, and whether it
                \* holds all it announces
  locations,    \* SignatureCacheDB::locations, a partial function
  address,      \* what each signature's variable was given
  try_open_functions,
  cacheMisses,
  hasError,
  searching,    \* "off", "loaded", "functions", "save" or "done"
  starts,       \* starts so far
  current,      \* history: the file was saved whole for this image
  junkRead      \* history: a file that was cut short has been read

sigVars == <<image, cacheFile, locations, address, try_open_functions,
             cacheMisses, hasError, searching, starts, current, junkRead>>

NameOf(s) == <<Signatures[s].funcname, 0>>
IdOf(i) == <<"asset_load_signatures_id", i>>
CountName == <<"asset_load_signatures_count", 0>>
Names == {NameOf(s) : s \in DOMAIN Signatures}
           \cup {CountName} \cup {IdOf(i) : i \in 0..TargetCount}

NoEntries == [name \in {} |-> 0]
WithEntries(map, new) ==
  [name \in DOMAIN map \cup DOMAIN new |->
     IF name \in DOMAIN new THEN new[name] ELSE map[name]]
OneEntry(name, at) == [n \in {name} |-> at]
UpdateAddress(map, name, at) == WithEntries(map, OneEntry(name, at))
GetAddress(name) == IF name \in DOMAIN locations THEN locations[name] ELSE -1

SigInit ==
  /\ image \in Images
  /\ cacheFile = [entries |-> NoEntries, whole |-> TRUE]
  /\ locations = NoEntries
  /\ address = [s \in DOMAIN Signatures |-> NotFound]
  /\ try_open_functions = <<>>
  /\ cacheMisses = 0
  /\ hasError = FALSE
  /\ searching = "off"
  /\ starts = 0
  /\ current = FALSE
  /\ junkRead = FALSE

(***************************************************************************)
(* A start reads the file.  Past the end of one that is cut short the      *)
(* reads fail and their results are never tested: the entries announced    *)
(* but missing get whatever name and address the local variables hold, or  *)
(* a length over BUFF_LEN clears what was read.                            *)
(***************************************************************************)
Junk == {OneEntry(name, at) : name \in Names, at \in 0..Len(image)}

LoadCache ==
  /\ searching = "off" /\ starts < MaxStarts
  /\ starts' = starts + 1
  /\ \/ locations' = cacheFile.entries
     \/ ~cacheFile.whole /\ locations' = NoEntries
     \/ /\ ~cacheFile.whole
        /\ \E junk \in Junk : locations' = WithEntries(cacheFile.entries, junk)
  /\ junkRead' = (junkRead \/ ~cacheFile.whole)
  /\ searching' = "loaded"
  /\ UNCHANGED <<image, cacheFile, address, try_open_functions, cacheMisses,
                 hasError, current>>

(***************************************************************************)
(* CheckSignature and FindPattern: the hint is tried first, if it lies in  *)
(* the range that is scanned, and then every place from the start.  The    *)
(* range ends one place early.                                             *)
(***************************************************************************)
Scanned(pattern) == 0..(Len(image) - Len(pattern) - 1)

CheckSignature(pattern, i) ==
  \A j \in DOMAIN pattern : pattern[j] \in {Masked, image[i + j]}

(* Broken: a hint that lies in the image is believed. *)
HintBelieved(pattern, hint) == hint \in Scanned(pattern)

HintCorrect(pattern, hint) ==
  hint \in Scanned(pattern) /\ CheckSignature(pattern, hint)

Occurrences(pattern) == {i \in Scanned(pattern) : CheckSignature(pattern, i)}

FindPattern(pattern, hint) ==
  IF HintCorrect(pattern, hint) THEN hint
  ELSE IF Occurrences(pattern) = {} THEN NotFound
  ELSE Min(Occurrences(pattern))

(* Search, the loop over the signatures.  A function that is found at the  *)
(* very start of the image is not cached, for hintOut is 0 then too.       *)
Found(s) == FindPattern(Signatures[s].signature, GetAddress(NameOf(s)))

Missed ==
  {s \in DOMAIN Signatures :
     /\ ~HintCorrect(Signatures[s].signature, GetAddress(NameOf(s)))
     /\ Found(s) + Signatures[s].offset # NotFound
     /\ Found(s) \notin {0, NotFound}}

SearchFunctions ==
  /\ searching = "loaded"
  /\ address' = [s \in DOMAIN Signatures |-> Found(s) + Signatures[s].offset]
  /\ hasError' = (\E s \in DOMAIN Signatures : address'[s] = NotFound)
  /\ locations' = WithEntries(locations,
                     [name \in {NameOf(s) : s \in Missed} |->
                        Found(CHOOSE s \in Missed : NameOf(s) = name)])
  /\ cacheMisses' = Cardinality(Missed)
  /\ searching' = "functions"
  /\ UNCHANGED <<image, cacheFile, try_open_functions, starts, current, junkRead>>

(***************************************************************************)
(* FindAssetLoadSignatures.  When the cache names as many resolvers as     *)
(* there should be and each is still the right code, they are taken;       *)
(* otherwise the whole image is scanned, and all that is found is cached,  *)
(* even when there are too many or too few.                                *)
(***************************************************************************)
Cached == [i \in 1..TargetCount |-> GetAddress(IdOf(i - 1))]

CacheGood ==
  /\ GetAddress(CountName) = TargetCount
  /\ \A i \in 1..TargetCount : HintCorrect(AssetPattern, Cached[i])

Resolvers ==
  Chosen([i \in 1..Len(image) |-> i - 1],
         Occurrences(AssetPattern) \ {address[Excluded]})

FindAssetLoadSignatures ==
  /\ searching = "functions"
  /\ IF CacheGood
       THEN /\ try_open_functions' = Cached
            /\ UNCHANGED <<locations, cacheMisses, hasError>>
       ELSE /\ try_open_functions' = Resolvers
            /\ locations' =
                 WithEntries(UpdateAddress(locations, CountName, Len(Resolvers)),
                   [id \in {IdOf(k - 1) : k \in DOMAIN Resolvers} |->
                      Resolvers[id[2] + 1]])
            /\ cacheMisses' = cacheMisses + 1
            /\ hasError' = (hasError \/ Len(Resolvers) # TargetCount)
  /\ searching' = IF cacheMisses' > 0 THEN "save" ELSE "done"
  /\ UNCHANGED <<image, cacheFile, address, starts, current, junkRead>>

(***************************************************************************)
(* Save truncates the file and writes it anew: until it is done the file   *)
(* holds some of the entries.  A file that cannot be opened stays.         *)
(***************************************************************************)
BeginSave ==
  /\ searching = "save" /\ cacheFile.whole
  /\ \E written \in SUBSET DOMAIN locations :
       cacheFile' = [entries |-> [name \in written |-> locations[name]],
                     whole |-> FALSE]
  /\ current' = FALSE
  /\ UNCHANGED <<image, locations, address, try_open_functions, cacheMisses,
                 hasError, searching, starts, junkRead>>

EndSave ==
  /\ searching = "save"
  /\ \/ /\ cacheFile' = [entries |-> locations, whole |-> TRUE]
        /\ current' = TRUE
     \/ UNCHANGED <<cacheFile, current>>
  /\ searching' = "done"
  /\ UNCHANGED <<image, locations, address, try_open_functions, cacheMisses,
                 hasError, starts, junkRead>>

(* What a process starts with. *)
Unsearched ==
  /\ locations' = NoEntries
  /\ address' = [s \in DOMAIN Signatures |-> NotFound]
  /\ try_open_functions' = <<>>
  /\ cacheMisses' = 0
  /\ hasError' = FALSE

(* The process dies, or it ends; the game may be updated before it is      *)
(* started again.                                                          *)
StopGame ==
  /\ searching # "off"
  /\ searching' = "off"
  /\ image' \in Images
  /\ current' = (current /\ image' = image)
  /\ Unsearched
  /\ UNCHANGED <<cacheFile, starts, junkRead>>

SigNext ==
  \/ LoadCache
  \/ SearchFunctions
  \/ FindAssetLoadSignatures
  \/ BeginSave
  \/ EndSave
  \/ StopGame

SigSpec == SigInit /\ [][SigNext]_sigVars

-----------------------------------------------------------------------------
(* Every variable keeps the shape its declaration gives it. *)
SigTypeOK ==
  /\ image \in Images
  /\ cacheFile.whole \in BOOLEAN
  /\ \A i \in DOMAIN try_open_functions : try_open_functions[i] \in Nat
  /\ cacheMisses \in 0..(Len(Signatures) + 1)
  /\ {hasError, current, junkRead} \subseteq BOOLEAN
  /\ searching \in {"off", "loaded", "functions", "save", "done"}
  /\ starts \in 0..MaxStarts

(* Whatever the cache file holds, cut short or left from another build, a  *)
(* function is given an address where its code is, and none exactly when   *)
(* its code is nowhere; a search that reports no error found everything;   *)
(* no resolver is hooked twice unless a file that was cut short has been   *)
(* read; and a cache that was saved for this build needs no saving again.  *)
AddressesMatch ==
  searching \in {"save", "done"} =>
    /\ \A s \in DOMAIN Signatures :
         LET sig == Signatures[s] IN
         IF Occurrences(sig.signature) = {}
           THEN address[s] = NotFound + sig.offset
           ELSE address[s] - sig.offset \in Occurrences(sig.signature)
    /\ \A i \in DOMAIN try_open_functions :
         try_open_functions[i] \in Occurrences(AssetPattern)
    /\ ~hasError => /\ Len(try_open_functions) = TargetCount
                    /\ \A s \in DOMAIN Signatures : address[s] # NotFound
    /\ ~junkRead => IsInjective(try_open_functions)
    /\ current /\ ~hasError => searching = "done"
=============================================================================
