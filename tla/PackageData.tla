----------------------------- MODULE PackageData -----------------------------
(***************************************************************************)
(* The data of the platform package, and who reads it: uefiplat.cfg as     *)
(* make_uefi_platform.py turns it into the memory map and the              *)
(* configuration map, as promote-check.py follows a row of the map to      *)
(* DxeCore's gate, as heap-compare.py looks for the heap and the holes,    *)
(* and as read-dram.py labels an address; and the bitmaps that             *)
(* make_xbl_binaries.py corrects.                                          *)
(*                                                                         *)
(* A line of the file is [k |-> "section", name], [k |-> "row", ...] or    *)
(* [k |-> "param", key, value], where a value that is no number is -1.     *)
(***************************************************************************)
EXTENDS Integers, Sequences, SequencesExt, FiniteSetsExt

CONSTANTS
    CONFIG_META_KEYS, CONFIG_EXTRA,  \* keys left out; <<key, value>> added
    DDR_BASE

(* What a loop with an `if` keeps of a list: the elements that are in T.   *)
Kept(s, T) == FoldLeft(LAMBDA kept, x : IF x \in T THEN Append(kept, x) ELSE kept, <<>>, s)

-----------------------------------------------------------------------------
(* make_uefi_platform.py: a row has seven columns or eight, before it may  *)
(* be blanks, and it goes to the section it is in.                         *)
NoRows == [section |-> "", memory |-> <<>>, registers |-> <<>>, params |-> <<>>]

(* Mutant: a row that has no cache attribute is not a row. *)
IsRowEight(line) == line.k = "row" /\ line.cols >= 8
IsRow(line)      == line.k = "row" /\ line.cols >= 7

ReadLine(st, line) ==
    CASE line.k = "section"                             -> [st EXCEPT !.section = line.name]
      [] IsRow(line) /\ st.section = "MemoryMap"        -> [st EXCEPT !.memory = Append(@, line)]
      [] IsRow(line) /\ st.section = "RegisterMap"      -> [st EXCEPT !.registers = Append(@, line)]
      [] line.k = "param" /\ st.section = "ConfigParameters" /\ line.value >= 0 ->
             [st EXCEPT !.params = Append(@, <<line.key, line.value>>)]
      [] OTHER -> st
ParseUefiplat(lines) == FoldLeft(ReadLine, NoRows, lines)

EmitMemmap(cfg) == cfg.memory \o cfg.registers

EmitConfigmap(cfg) ==
    Kept(cfg.params, {p \in ToSet(cfg.params) : p[1] \notin CONFIG_META_KEYS}) \o CONFIG_EXTRA

(* The firmware takes the first entry of a key. *)
GetConfig(map, key) == SelectInSeq(map, LAMBDA p : p[1] = key)

-----------------------------------------------------------------------------
(* promote-check.py: Gcd.c's conversion of a resource descriptor, and the  *)
(* gate of PromoteMemoryResource.  The tests on system memory are made one *)
(* after the other and the last that holds decides.                        *)
MEMORY_ATTRIBUTE_MASK == {"PRESENT", "INITIALIZED", "TESTED", "READ_PROTECTED"}
MEMORY_ONLY           == {"UNCACHEABLE", "MORE_RELIABLE", "SPECIAL_PURPOSE", "PERSISTENT", "READ_PROTECTED"}

IsTested(attr)      == attr \cap MEMORY_ATTRIBUTE_MASK = {"PRESENT", "INITIALIZED", "TESTED"}
IsInitialized(attr) == attr \cap MEMORY_ATTRIBUTE_MASK = {"PRESENT", "INITIALIZED"}
IsPresent(attr)     == attr \cap MEMORY_ATTRIBUTE_MASK = {"PRESENT"}

(* Mutant: the first that holds decides. *)
KindFirst(attr) ==
    IF IsTested(attr) THEN IF "MORE_RELIABLE" \in attr THEN "MoreReliable" ELSE "SystemMemory"
    ELSE IF IsInitialized(attr) \/ IsPresent(attr) THEN "Reserved"
    ELSE IF "SPECIAL_PURPOSE" \in attr THEN "SystemMemory"
    ELSE IF "PERSISTENT" \in attr THEN "Persistent" ELSE "NonExistent"
Kind(attr) ==
    IF "PERSISTENT" \in attr THEN "Persistent"
    ELSE IF "SPECIAL_PURPOSE" \in attr THEN "SystemMemory"
    ELSE IF IsInitialized(attr) \/ IsPresent(attr) THEN "Reserved"
    ELSE IF IsTested(attr) THEN IF "MORE_RELIABLE" \in attr THEN "MoreReliable" ELSE "SystemMemory"
    ELSE "NonExistent"

GcdType(rtype, attr) ==
    CASE rtype = "SYS_MEM" -> Kind(attr)
      [] rtype = "MEM_RES" -> "Reserved"
      [] rtype = "MMAP_IO" -> "MemoryMappedIo"

Capabilities(kind, attr) ==
    IF kind \in {"SystemMemory", "MoreReliable"} THEN attr \cap MEMORY_ONLY ELSE attr

Promotable(row) ==
    LET kind == GcdType(row.rtype, row.attr)
        caps == Capabilities(kind, row.attr)
    IN  /\ row.hob # "NoHob" /\ kind = "Reserved"
        /\ caps \cap {"PRESENT", "INITIALIZED", "TESTED"} = {"PRESENT", "INITIALIZED"}

-----------------------------------------------------------------------------
(* heap-compare.py: what is in front of the registers, without blanks      *)
(* before it, with eight columns, and becomes a HOB.                       *)
DdrRows(lines) ==
    LET cut  == SelectInSeq(lines, LAMBDA l : l.k = "section" /\ l.name = "RegisterMap")
        head == SubSeq(lines, 1, IF cut = 0 THEN Len(lines) ELSE cut - 1)
    IN  Kept(head, {l \in ToSet(head) : l.k = "row" /\ l.cols >= 8 /\ ~l.indented /\ l.hob # "NoHob"})

(* The holes between the rows, by address, from the DDR's base on.         *)
(* Mutant: a hole begins behind the row before. *)
NextHolePlain(acc, row) ==
    [end   |-> row.base + row.size,
     holes |-> IF row.base > acc.end /\ acc.end >= DDR_BASE
                 THEN Append(acc.holes, [at |-> acc.end, size |-> row.base - acc.end]) ELSE acc.holes]
NextHole(acc, row) ==
    [end   |-> Max({acc.end, row.base + row.size}),
     holes |-> IF row.base > acc.end /\ acc.end >= DDR_BASE
                 THEN Append(acc.holes, [at |-> acc.end, size |-> row.base - acc.end]) ELSE acc.holes]
ByAddress(rows) ==     \* sorted(), which keeps the order of equals
    LET place(i) == Cardinality({j \in DOMAIN rows : \/ rows[j].base < rows[i].base
                                                     \/ rows[j].base = rows[i].base /\ j <= i})
    IN  [n \in DOMAIN rows |-> rows[CHOOSE i \in DOMAIN rows : place(i) = n]]
Holes(rows) == FoldLeft(NextHole, [end |-> 0, holes |-> <<>>], ByAddress(rows)).holes

(* The memory of the heap: the first row of the name. *)
HeapOf(lines) ==
    LET rows == DdrRows(lines)
        i    == SelectInSeq(rows, LAMBDA r : r.label = "DXE Heap")
    IN  IF i = 0 THEN {} ELSE rows[i].base..(rows[i].base + rows[i].size - 1)

-----------------------------------------------------------------------------
(* read-dram.py, load_map: every row of the file. *)
LoadMap(lines) == Kept(lines, {l \in ToSet(lines) : l.k = "row"})

-----------------------------------------------------------------------------
(* fix_bmp_offset: a bitmap is [size, off, width, height, bpp].            *)
Stride(b)  == LET bytes == (b.width * b.bpp + 31) \div 8 IN bytes - (bytes % 4)
FixBmpOffset(b) ==
    LET correct == b.size - b.height * Stride(b)
    IN  IF b.width <= 0 \/ b.height <= 0 \/ b.bpp = 0 \/ b.off = correct THEN [b |-> b, note |-> "none"]
        ELSE IF correct <= 0 \/ correct >= b.size THEN [b |-> b, note |-> "unfixable"]
        ELSE [b |-> [b EXCEPT !.off = correct], note |-> "fixed"]
-----------------------------------------------------------------------------
(* The readers of a file agree: heap-compare's rows are rows of the map,   *)
(* all those with a HOB where the file is written plainly, and a row       *)
(* read-dram.py knows is a row of the map.                                 *)
Written(lines) == \A i \in DOMAIN lines : lines[i].k = "row" => lines[i].cols = 8 /\ ~lines[i].indented

FileReadersAgree(lines) ==
    LET cfg == ParseUefiplat(lines)
    IN  /\ ToSet(DdrRows(lines)) \subseteq ToSet(cfg.memory)
        /\ Written(lines) => DdrRows(lines) = Kept(cfg.memory, {r \in ToSet(cfg.memory) : r.hob # "NoHob"})
        /\ ToSet(LoadMap(lines)) = ToSet(EmitMemmap(cfg))

(* The holes and the rows make up the memory from the base on, also where  *)
(* rows overlap; and no part of the heap is in a hole.                     *)
Extent(row) == row.base..(row.base + row.size - 1)
HolesAreHoles(lines) ==
    LET rows   == DdrRows(lines)
        listed == UNION {Extent(r) : r \in ToSet(rows)}
        ends   == {r.base + r.size : r \in ToSet(rows)}
        inHole == UNION {Extent([base |-> h.at, size |-> h.size]) : h \in ToSet(Holes(rows))}
    IN  /\ inHole \cap listed = {} /\ HeapOf(lines) \cap inHole = {}
        /\ rows # <<>> =>
              \A a \in DDR_BASE..Max(ends) :
                  (\E e \in ends : DDR_BASE <= e /\ e <= a) => (a \in listed \cup inHole \/ a = Max(ends))

(* promote-check's verdict is DxeCore's: a row is promoted if it becomes   *)
(* reserved memory that is present and initialised and was not tested.     *)
VerdictIsDxeCores(row) ==
    LET settled == row.attr \cap {"SPECIAL_PURPOSE", "PERSISTENT"} = {}
    IN  Promotable(row) <=>
            /\ row.hob \in {"AddMem", "AddDev"}
            /\ {"PRESENT", "INITIALIZED"} \subseteq row.attr /\ "TESTED" \notin row.attr
            /\ row.rtype = "MEM_RES" \/ (row.rtype = "SYS_MEM" /\ settled /\ "READ_PROTECTED" \notin row.attr)

(* A key of the file keeps the value it has there, also one the generator  *)
(* would add.                                                              *)
FileDecides(lines) ==
    LET cfg == ParseUefiplat(lines)
        map == EmitConfigmap(cfg)
    IN  \A i \in DOMAIN cfg.params :
            cfg.params[i][1] \notin CONFIG_META_KEYS =>
                \E j \in 1..i : map[GetConfig(map, cfg.params[i][1])] = cfg.params[j]

(* A corrected bitmap's rows end where the file does, and it is left alone *)
(* the second time.                                                        *)
BitmapIsCorrected(b) ==
    LET f == FixBmpOffset(b)
    IN  /\ f.note = "fixed" =>
              /\ \E stride \in 0..b.size :
                    /\ stride % 4 = 0 /\ stride * 8 >= b.width * b.bpp /\ (stride - 4) * 8 < b.width * b.bpp
                    /\ f.b.off + b.height * stride = b.size
              /\ FixBmpOffset(f.b).note = "none"
        /\ f.note # "fixed" => f.b = b
=============================================================================
