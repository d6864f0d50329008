------------------------------ MODULE ScriptData ------------------------------
(***************************************************************************)
(* Recoding the game's data files between 32 and 64 bits: script data      *)
(* (scriptdata/ScriptData.cpp: blt.scriptdata.identify and recode) and     *)
(* fonts (FontData.cpp).  A file is a sequence of cells of four bytes, so  *)
(* that pointers have one or two of them; a cell is <<kind, value>>.  The  *)
(* text of a string has TextCells cells.  A file is made of blocks, whose  *)
(* addresses are filled in when all of them are placed (FormatTools.cpp).  *)
(***************************************************************************)
EXTENDS Integers, Sequences, FiniteSets, SequencesExt

CONSTANTS
    Graphs,     \* script data: [kind |-> "graph", lists, root]; lists[id] for
                \* the types 3..8, a table is [meta, items]
    Fonts,      \* [kind |-> "font", glyphs, codepoints, kernings]
    TextCells,
    MaxRecodes, \* bound: conversions in a row
    ViewDepth   \* bound: how deep two values are compared

ASSUME ScriptDataAssumption ==
    /\ TextCells \in Nat \ {0} /\ MaxRecodes \in Nat /\ ViewDepth \in Nat

VARIABLES
    sdSource,   \* what the first file is made from
    sdValue,    \* what was read last
    sdFile,     \* the cells of the file
    sdWide,     \* whether it was written for 64 bits
    sdStage,    \* "read", "written", "thrown", "garbled"
    sdRecodes

sdVars == <<sdSource, sdValue, sdFile, sdWide, sdStage, sdRecodes>>

(* SItem's ids.  A reference is <<id, index>>, indexes start from 0.       *)
NumId == 3
StringId == 4
IdstringId == 7
TableId == 8
ListIds == 3..8
NoMeta == -1
Size(id) == CASE id = NumId -> 1 [] id = 5 -> 3 [] id = 6 -> 4
              [] id = IdstringId -> 2
Item(g, ref) == g.lists[ref[1]][ref[2] + 1]

SdInit ==
    /\ sdSource \in Graphs \cup Fonts /\ sdValue = sdSource
    /\ sdFile = <<>> /\ sdWide = FALSE
    /\ sdStage = "read" /\ sdRecodes = 0

-----------------------------------------------------------------------------
(* Cells and blocks. *)

Word(n) == <<"word", n>>
Words(n, count) == [k \in 1..count |-> Word(n)]
Allocator(wide) == Words(0, IF wide THEN 2 ELSE 1)
writePtr(wide, n) == <<Word(n)>> \o (IF wide THEN <<Word(0)>> ELSE <<>>)
(* The address of a block, filled in later. *)
Link(wide, name) == <<<<"link", name>>>> \o (IF wide THEN <<Word(0)>> ELSE <<>>)
VectorHeader(wide, count, name) ==
    Words(count, 2) \o Link(wide, name) \o Allocator(wide)
Block(name, cells) == [name |-> name, cells |-> cells]

BlockOffset(blocks, name) ==
    LET i == CHOOSE j \in DOMAIN blocks : blocks[j].name = name
    IN Len(FlattenSeq([j \in 1..(i - 1) |-> blocks[j].cells]))
apply_blocks(blocks) ==
    LET cells == FlattenSeq([i \in DOMAIN blocks |-> blocks[i].cells])
    IN [p \in DOMAIN cells |-> IF cells[p][1] = "link"
                               THEN Word(BlockOffset(blocks, cells[p][2]))
                               ELSE cells[p]]

-----------------------------------------------------------------------------
(* SItem::Serialise. *)

(* Broken: the name of the metatable is left out. *)
ItemsOnly(g, ref) ==
    IF ref[1] # TableId THEN {}
    ELSE LET items == Item(g, ref).items
         IN DOMAIN items \cup {items[key] : key \in DOMAIN items}

Successors(g, ref) ==
    IF ref[1] # TableId THEN {}
    ELSE LET table == Item(g, ref)
         IN DOMAIN table.items \cup {table.items[key] : key \in DOMAIN table.items}
              \cup (IF table.meta = NoMeta THEN {} ELSE {<<StringId, table.meta>>})
(* Register: what the root leads to, tables that contain themselves too. *)
Register(g) ==
    LET reach[n \in 0..Len(g.lists[TableId])] ==
          IF n = 0 THEN {g.root}
          ELSE reach[n - 1] \cup UNION {Successors(g, ref) : ref \in reach[n - 1]}
        last == Len(g.lists[TableId])
    IN reach[last] \cup UNION {Successors(g, ref) : ref \in reach[last]}

ListOf(g, id) ==
    SetToSortSeq({ref[2] : ref \in {r \in Register(g) : r[1] = id}},
                 LAMBDA i, j : i < j)
IndexOf(g, ref) ==
    (CHOOSE k \in DOMAIN ListOf(g, ref[1]) : ListOf(g, ref[1])[k] = ref[2]) - 1
(* An item that is not registered cannot be written: it throws. *)
Unregistered(g) ==
    {ref \in Register(g) : ref[1] = TableId
        /\ Item(g, ref).meta # NoMeta
        /\ <<StringId, Item(g, ref).meta>> \notin Register(g)}

writeRef(g, ref) ==
    <<"ref", <<ref[1], IF ref[1] < NumId THEN 0 ELSE IndexOf(g, ref)>>>>

TableBlock(g, index) ==
    LET items == Item(g, <<TableId, index>>).items
        keys == SetToSeq(DOMAIN items)
    IN Block(<<"entries", index>>,
             FlattenSeq([k \in DOMAIN keys |->
                 <<writeRef(g, keys[k]), writeRef(g, items[keys[k]])>>]))
(* The contents of a list, and the blocks that its items need. *)
ListBlocks(g, wide, id) ==
    LET list == ListOf(g, id)
        Table(index) == Item(g, <<TableId, index>>)
        Contents(index) ==
            CASE id = StringId ->
                   Allocator(wide) \o Link(wide, <<"text", index>>)
              [] id = TableId ->
                   writePtr(wide, IF Table(index).meta = NoMeta THEN NoMeta
                                  ELSE IndexOf(g, <<StringId, Table(index).meta>>))
                   \o VectorHeader(wide, Cardinality(DOMAIN Table(index).items),
                                   <<"entries", index>>)
              [] OTHER -> [k \in 1..Size(id) |->
                             <<"value", Item(g, <<id, index>>)>>]
        Extra(index) ==
            CASE id = StringId ->
                   Block(<<"text", index>>, [k \in 1..TextCells |->
                       <<"text", Item(g, <<StringId, index>>)>>])
              [] id = TableId -> TableBlock(g, index)
    IN <<Block(<<"list", id>>,
               FlattenSeq([k \in DOMAIN list |-> Contents(list[k])]))>>
       \o (IF id \in {StringId, TableId}
           THEN [k \in DOMAIN list |-> Extra(list[k])] ELSE <<>>)
Serialise(g, wide) ==
    LET main == Allocator(wide)
                \o FlattenSeq([k \in 1..6 |->
                     VectorHeader(wide, Len(ListOf(g, k + 2)), <<"list", k + 2>>)])
                \o <<writeRef(g, g.root)>>
    IN apply_blocks(<<Block(<<"main", 0>>, main)>>
                    \o FlattenSeq([k \in 1..6 |-> ListBlocks(g, wide, k + 2)]))

-----------------------------------------------------------------------------
(* ScriptData::ScriptData. *)

Cell(file, p) == file[p + 1]
PtrSize(wide) == IF wide THEN 2 ELSE 1
VecSize(wide) == 2 + 2 * PtrSize(wide)
readVec(file, wide, p) ==
    [count |-> Cell(file, p)[2], items |-> Cell(file, p + 2)[2]]

(* The allocators of a 64-bit file are zero. *)
determine_is_32bit(file) ==
    \/ Len(file) < 38
    \/ \E k \in 0..6 : Cell(file, 6 * k) # Word(0) \/ Cell(file, 6 * k + 1) # Word(0)

ReadTable(file, wide, p) ==
    LET vec == readVec(file, wide, p + PtrSize(wide))
        Entry(i, side) == Cell(file, vec.items + 2 * (i - 1) + side)[2]
        keys == {Entry(i, 0) : i \in 1..vec.count}
    IN [meta |-> Cell(file, p)[2],
        items |-> [key \in keys |->
            Entry(CHOOSE i \in 1..vec.count : Entry(i, 0) = key, 1)]]
ReadItem(file, wide, id, p) ==
    CASE id = StringId -> Cell(file, Cell(file, p + PtrSize(wide))[2])[2]
      [] id = TableId -> ReadTable(file, wide, p)
      [] OTHER -> Cell(file, p)[2]
ItemSize(wide, id) ==
    CASE id = StringId -> 2 * PtrSize(wide)
      [] id = TableId -> PtrSize(wide) + VecSize(wide)
      [] OTHER -> Size(id)
ReadScriptData(file, wide) ==
    LET vec == [id \in ListIds |->
            readVec(file, wide, PtrSize(wide) + (id - 3) * VecSize(wide))]
    IN [kind |-> "graph",
        lists |-> [id \in ListIds |-> [i \in 1..vec[id].count |->
            ReadItem(file, wide, id, vec[id].items + (i - 1) * ItemSize(wide, id))]],
        root |-> Cell(file, PtrSize(wide) + 6 * VecSize(wide))[2]]

-----------------------------------------------------------------------------
(* FontData: three vectors with unused pointers between them, a flag, the  *)
(* name, five numbers.                                                     *)

Export(font, wide) ==
    LET Unused(n) == FlattenSeq([k \in 1..n |-> writePtr(wide, 7)])
        Vec(list, name) == Words(Len(list), 2) \o Link(wide, name) \o Unused(1)
        Contents(list, size) == FlattenSeq([i \in DOMAIN list |->
            [k \in 1..size |-> <<"value", list[i]>>]])
    IN apply_blocks(<<
         Block("main", Vec(font.glyphs, "glyphs") \o Unused(1)
            \o Vec(font.codepoints, "codepoints") \o Unused(2)
            \o Vec(font.kernings, "kernings") \o Words(1, PtrSize(wide))
            \o Unused(1) \o Link(wide, "name") \o Words(1, 6)),
         Block("glyphs", Contents(font.glyphs, 3)),
         Block("codepoints", Contents(font.codepoints, 2)),
         Block("kernings", Contents(font.kernings, 3)),
         Block("name", <<<<"text", "name">>>>)>>)

(* The sizes of two vectors are where a 32-bit file has them. *)
FontIs32bit(file) ==
    Cell(file, 0) = Cell(file, 5) /\ Cell(file, 1) = Cell(file, 6)

ReadFont(file, wide) ==
    LET List(p, size) == [i \in 1..Cell(file, p)[2] |->
            Cell(file, Cell(file, p + 2)[2] + (i - 1) * size)[2]]
        codepoints == VecSize(wide) + PtrSize(wide)
        kernings == codepoints + VecSize(wide) + 2 * PtrSize(wide)
    IN [kind |-> "font", glyphs |-> List(0, 3),
        codepoints |-> List(codepoints, 2), kernings |-> List(kernings, 3)]

-----------------------------------------------------------------------------

Write(wide) ==
    /\ sdStage = "read" /\ sdRecodes < MaxRecodes
    /\ sdRecodes' = sdRecodes + 1
    /\ IF sdValue.kind = "graph" /\ Unregistered(sdValue) # {}
       THEN sdStage' = "thrown" /\ UNCHANGED <<sdFile, sdWide>>
       ELSE /\ sdStage' = "written" /\ sdWide' = wide
            /\ sdFile' = IF sdValue.kind = "graph" THEN Serialise(sdValue, wide)
                         ELSE Export(sdValue, wide)
    /\ UNCHANGED <<sdSource, sdValue>>

(* A file that is taken for one of the other width is read as rubbish. *)
ReadBack ==
    /\ sdStage = "written"
    /\ LET is32 == IF sdValue.kind = "graph" THEN determine_is_32bit(sdFile)
                   ELSE FontIs32bit(sdFile)
       IN IF is32 = sdWide
          THEN sdStage' = "garbled" /\ UNCHANGED sdValue
          ELSE /\ sdStage' = "read"
               /\ sdValue' = IF sdValue.kind = "graph"
                             THEN ReadScriptData(sdFile, sdWide)
                             ELSE ReadFont(sdFile, sdWide)
    /\ UNCHANGED <<sdSource, sdFile, sdWide, sdRecodes>>

SdNext == ReadBack \/ \E wide \in BOOLEAN : Write(wide)

-----------------------------------------------------------------------------
(* Every variable keeps the shape its declaration gives it. *)
SdTypeOK ==
    /\ sdValue.kind = sdSource.kind
    /\ sdWide \in BOOLEAN /\ sdRecodes \in 0..MaxRecodes
    /\ sdStage \in {"read", "written", "thrown", "garbled"}
    /\ \A p \in DOMAIN sdFile : sdFile[p][1] \in {"word", "ref", "value", "text"}

(* What a script sees of a value: texts and numbers, and tables down to a  *)
(* depth, whatever the order and the indexes of the items.                 *)
View(g) ==
    LET Refs == {ref \in (0..2) \X {0} : TRUE} \cup
                UNION {{<<id, i>> : i \in 0..(Len(g.lists[id]) - 1)} : id \in ListIds}
        view[depth \in 0..ViewDepth] ==
          [ref \in Refs |->
             IF ref[1] < NumId THEN <<ref[1]>>
             ELSE IF ref[1] # TableId THEN <<ref[1], Item(g, ref)>>
             ELSE IF depth = 0 THEN <<TableId>>
             ELSE LET table == Item(g, ref)
                  IN <<TableId,
                       IF table.meta = NoMeta THEN <<>>
                       ELSE <<Item(g, <<StringId, table.meta>>)>>,
                       Cardinality(DOMAIN table.items),
                       {<<view[depth - 1][key], view[depth - 1][table.items[key]]>> :
                           key \in DOMAIN table.items}>>]
    IN view[ViewDepth][g.root]

(* Script data stays what it is however often it is recoded: shared items, *)
(* tables that contain themselves and names of metatables included.  A     *)
(* font does if it has as many glyphs as code points: its width is told    *)
(* from those two numbers.                                                 *)
RecodingKeeps ==
    IF sdSource.kind = "graph"
    THEN /\ sdStage \notin {"thrown", "garbled"}
         /\ sdStage = "read" => View(sdValue) = View(sdSource)
    ELSE /\ sdStage = "read" => sdValue = sdSource
         /\ sdStage = "garbled" =>
              ~sdWide /\ Len(sdSource.glyphs) # Len(sdSource.codepoints)
=============================================================================
