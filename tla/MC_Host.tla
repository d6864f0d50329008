------------------------------- MODULE MC_Host -------------------------------
(* Finite instances of what the DLL does at its start, on disk, and beside *)
(* the queues, the hooks and Wren.  The parts share no state, so a         *)
(* behaviour is one of one of them, which part says.                       *)
EXTENDS DieselDb, ScriptData, DebugConnection, Install, SignatureCache,
        LuaCalls, LuaHost, Hashing

VARIABLE part

allVars == <<dbVars, sdVars, dbgVars, installVars, sigVars, callVars, hostVars,
             hashVars, part>>

AnyOf(S) == CHOOSE x \in S : TRUE

(* The parts that do not run wait in one of their initial states.          *)
Init ==
    /\ part \in {"db", "scriptdata", "debug", "install", "signatures", "calls",
                 "host", "hashes"}
    /\ DbInit
    /\ part = "db" \/ (dbIndex = AnyOf(Indexes) /\ dbBundles = AnyOf(BundleLists))
    /\ SdInit /\ (part = "scriptdata" \/ sdSource = AnyOf(Fonts))
    /\ DebugInit /\ (part = "debug" \/ dbgOptions = AnyOf(StartOptions))
    /\ InstallInit
    /\ \/ part = "install"
       \/ /\ shipped /\ local = AnyOf(Versions)
          /\ \A kind \in DllKinds : dll[kind] = "works" /\ dllOld[kind] = "none"
    /\ SigInit /\ (part = "signatures" \/ image = AnyOf(Images))
    /\ CallsInit
    /\ HostInit
    /\ part = "host" \/ (basemod = "present" /\ base_lua = "returns")
    /\ HashInit

DbStep ==
    /\ part = "db" /\ DbNext
    /\ UNCHANGED <<sdVars, dbgVars, installVars, sigVars, callVars, hostVars, hashVars,
                   part>>
SdStep ==
    /\ part = "scriptdata" /\ SdNext
    /\ UNCHANGED <<dbVars, dbgVars, installVars, sigVars, callVars, hostVars, hashVars,
                   part>>
DebugStep ==
    /\ part = "debug" /\ DebugNext
    /\ UNCHANGED <<dbVars, sdVars, installVars, sigVars, callVars, hostVars, hashVars,
                   part>>
InstallStep ==
    /\ part = "install" /\ InstallNext
    /\ UNCHANGED <<dbVars, sdVars, dbgVars, sigVars, callVars, hostVars, hashVars,
                   part>>
SignatureStep ==
    /\ part = "signatures" /\ SigNext
    /\ UNCHANGED <<dbVars, sdVars, dbgVars, installVars, callVars, hostVars, hashVars,
                   part>>
CallsStep ==
    /\ part = "calls" /\ CallsNext
    /\ UNCHANGED <<dbVars, sdVars, dbgVars, installVars, sigVars, hostVars, hashVars,
                   part>>
HostStep ==
    /\ part = "host" /\ HostNext
    /\ UNCHANGED <<dbVars, sdVars, dbgVars, installVars, sigVars, callVars, hashVars,
                   part>>
HashStep ==
    /\ part = "hashes" /\ HashNext
    /\ UNCHANGED <<dbVars, sdVars, dbgVars, installVars, sigVars, callVars, hostVars,
                   part>>

Next ==
    \/ DbStep \/ SdStep \/ DebugStep \/ InstallStep \/ SignatureStep
    \/ CallsStep \/ HostStep \/ HashStep

Spec == Init /\ [][Next]_allVars

(* Every variable keeps the shape its declaration gives it. *)
TypeOK ==
    /\ DbTypeOK /\ SdTypeOK /\ DebugTypeOK /\ InstallTypeOK /\ SigTypeOK
    /\ CallsTypeOK /\ HostTypeOK /\ HashTypeOK

-----------------------------------------------------------------------------
(* An index without gaps, one whose ids come in another order, and two     *)
(* with a gap, whose list of files grows while it is filled.               *)
Entry(id, name, lang) == [id |-> id, name |-> name, lang |-> lang]
MCIndexes ==
    {<<Entry(1, "x", 0), Entry(2, "x", 1), Entry(3, "y", 0)>>,
     <<Entry(2, "y", 0), Entry(1, "x", 0), Entry(3, "x", 1)>>,
     <<Entry(1, "x", 0), Entry(4, "x", 1), Entry(2, "y", 0)>>,
     <<Entry(2, "y", 0), Entry(4, "x", 0), Entry(3, "x", 1)>>}

(* Packages of five bytes with all offsets that do not fall, up to their   *)
(* end, and a bundle that stores its lengths, before a package.            *)
MCPackages(ids) ==
    {[package |-> TRUE, size |-> 5,
      items |-> [i \in DOMAIN ids |->
                   [id |-> ids[i], offset |-> offsets[i], length |-> 0]]] :
        offsets \in {o \in [DOMAIN ids -> 0..5] :
                       \A i \in DOMAIN ids : i > 1 => o[i - 1] <= o[i]}}
MCPlain == [package |-> FALSE, size |-> 5,
            items |-> <<[id |-> 1, offset |-> 1, length |-> 3],
                        [id |-> 2, offset |-> 0, length |-> 5]>>]
MCBundleLists ==
    {<<b>> : b \in MCPackages(<<1, 2, 3>>) \cup MCPackages(<<2, 3, 1>>)
                     \cup MCPackages(<<4, 1>>)}
    \cup {<<b, c>> : b \in MCPackages(<<3, 2, 1>>), c \in MCPackages(<<2>>)}
    \cup {<<MCPlain, b>> : b \in MCPackages(<<2, 1, 3>>) \cup MCPackages(<<2, 3, 4>>)}

(* Tables that share items, contain themselves, or have a metatable.       *)
OneItem(key, value) == [k \in {key} |-> value]
TwoItems(k1, v1, k2, v2) == [k \in {k1, k2} |-> IF k = k1 THEN v1 ELSE v2]
MCTables ==
    {<<t, u>> :
      t \in [meta : {-1, 1},
             items : {OneItem(<<4, 0>>, <<8, 1>>),
                      TwoItems(<<4, 0>>, <<8, 0>>, <<4, 1>>, <<3, 0>>)}],
      u \in [meta : {-1, 0},
             items : {[k \in {} |-> 0], OneItem(<<3, 0>>, <<8, 0>>),
                      TwoItems(<<8, 0>>, <<1, 0>>, <<4, 1>>, <<5, 0>>),
                      OneItem(<<3, 0>>, <<7, 0>>)}]}
MCLists(tables) ==
    [id \in 3..8 |-> CASE id = 3 -> <<1>> [] id = 4 -> <<"a", "b">>
                       [] id = 5 -> <<5>> [] id = 6 -> <<>>
                       [] id = 7 -> <<9>> [] id = 8 -> tables]
MCGraphs ==
    {[kind |-> "graph", lists |-> MCLists(tables), root |-> root] :
        tables \in MCTables, root \in {<<8, 0>>, <<8, 1>>, <<4, 1>>, <<0, 0>>}}
MCFonts == [kind : {"font"}, glyphs : {<<>>, <<1>>, <<1, 2>>},
            codepoints : {<<>>, <<3>>, <<3, 4>>}, kernings : {<<>>, <<5>>}]

(* Messages of every type, whole buffers and cut ones.                     *)
Msg(kind, length, id) == [kind |-> kind, length |-> length, id |-> id]
MCSessions ==
    {<<Msg("continue", 0, 0), Msg("lua", 3, 1), Msg("lua", 1, 2), Msg("lua", 0, 3)>>,
     <<Msg("lua", 2, 1), Msg("continue", 0, 0), Msg("lua", 1, 2),
       Msg("unknown", 0, 0), Msg("lua", 1, 3)>>,
     <<Msg("lua", 2, 1), Msg("startVR", 0, 0)>>}
MCStart == {<<>>, <<"reachable">>, <<"unreachable", "reachable">>,
            <<"reachable", "bad port">>, <<"reachable", "reachable">>}

MCVersions == {<<1, 0>>, <<1, 5>>, <<2, 1>>}

(* Builds of the game with the code in one place, moved, and missing.      *)
MCImages == {<<9, 1, 2, 5, 6, 5, 7, 5, 8, 9>>, <<9, 5, 6, 5, 8, 5, 1, 2, 9, 9>>,
             <<1, 2, 9, 5, 6, 5, 7, 5, 5, 8, 9>>, <<9, 9, 2, 5, 6, 5, 8, 5, 9, 9>>}
Sig(name, bytes) == [funcname |-> name, signature |-> bytes, offset |-> 0]
MCSignatures == <<Sig("f", <<1, Masked>>), Sig("x", <<5, 8>>)>>
MCAsset == <<5>>

(* A file and two repositories, one of them below another directory.       *)
MCHashPaths == <<<<".git", "f">>, <<"a">>, <<"b", ".git", "g">>, <<"b", "c">>>>
=============================================================================
