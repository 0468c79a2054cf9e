---------------------------- MODULE DeviceBackup ----------------------------
(***************************************************************************)
(* The backup of the phone and what is made of it: device-backup.sh dumps  *)
(* one LUN whole and the partitions of another by name, over a link that   *)
(* breaks, and is run again; carve-partitions.py cuts the partitions out   *)
(* of the LUN's image; gpt.py prints its table.  Sizes are in blocks of    *)
(* 512 bytes.  A LUN is [ss, last, num, parts]: blocks of a sector, its    *)
(* last sector, the blocks of its entry array and the partitions.          *)
(***************************************************************************)
EXTENDS Naturals, Sequences, SequencesExt

CONSTANTS
    LUNS,         \* the LUNs one of which the phone has
    NAMED         \* the partitions of sda: a name |-> its blocks

(* A table is in front of the LUN's end, its partitions have names of      *)
(* their own and end on the LUN, and sda has none of those names.          *)
ASSUME BackupAssumption ==
    /\ NAMED \in [DOMAIN NAMED -> Nat]
    /\ \A l \in LUNS :
          /\ l.ss \in {1, 4, 8} /\ l.last \in Nat \ {0} /\ l.num \in Nat
          /\ l.parts \in Seq([name : STRING, first : Nat, last : 0..l.last])
          /\ 2 * l.ss + l.num <= (l.last + 1) * l.ss
          /\ \A i, j \in DOMAIN l.parts : l.parts[i].name = l.parts[j].name => i = j
          /\ \A i \in DOMAIN l.parts : l.parts[i].name \notin DOMAIN NAMED

VARIABLES
    lun,          \* the phone's
    image,        \* the length of LUN-sde.img, 0: no such file
    files         \* part-<name>.img: [lo, hi], hi = 0: no such file

backupVars == <<lun, image, files>>

NoFile == [lo |-> 0, hi |-> 0]
LunSize(l) == (l.last + 1) * l.ss
PartNames(l) == {l.parts[i].name : i \in DOMAIN l.parts}

BackupInit ==
    /\ lun \in LUNS
    /\ image = 0
    /\ files = [n \in PartNames(lun) \cup DOMAIN NAMED |-> NoFile]

-----------------------------------------------------------------------------
(* The primary header is in sector 1 and its entries behind it, the other  *)
(* header is in the last sector and its entries in front of it.  A header  *)
(* tells its own sector (MyLBA) and that of its entries.                   *)
Headers(l) == {[lba |-> 1, entries |-> 2], [lba |-> l.last, entries |-> l.last - l.num \div l.ss]}
HeaderIn(l, len, block) == {h \in Headers(l) : h.lba * l.ss = block /\ block < len}

(* find_gpt: the sector size that fits the header where it is found.       *)
Tried == [i \in 1..24 |-> [ss  |-> <<8, 1, 4>>[((i - 1) \div 8) + 1],
                           lba |-> <<1, 2, 4, 8, 16, 32, 64, 128>>[((i - 1) % 8) + 1]]]

(* Mutant: the signature is enough. *)
AcceptsSignature(l, len, t) == HeaderIn(l, len, t.lba * t.ss) # {}
Accepts(l, len, t) == \E h \in HeaderIn(l, len, t.lba * t.ss) : h.lba = t.lba

FindGpt(l, len) ==
    LET i == SelectInSeq(Tried, LAMBDA t : Accepts(l, len, t))
    IN  IF i = 0 THEN [ss |-> 0, entries |-> 0]
        ELSE [ss      |-> Tried[i].ss,
              entries |-> (CHOOSE h \in HeaderIn(l, len, Tried[i].lba * Tried[i].ss) : TRUE).entries]

(* The entries at a block, if they are an array of this LUN. *)
EntriesAt(l, block) ==
    IF \E h \in Headers(l) : h.entries * l.ss = block THEN l.parts ELSE <<>>

(* parse_gpt: nothing without the whole array; a partition that starts     *)
(* behind its end, or ends behind the image, is passed over.               *)
ParseGpt(l, len) ==
    LET g == FindGpt(l, len)
    IN  IF g.ss = 0 \/ g.entries * g.ss + l.num > len THEN [ss |-> 0, parts |-> <<>>]
        ELSE [ss    |-> g.ss,
              parts |-> FoldLeft(LAMBDA parts, p :
                                    IF p.first > p.last \/ p.last * g.ss >= len + g.ss
                                      THEN parts ELSE Append(parts, p),
                                 <<>>, EntriesAt(l, g.entries * g.ss))]

(* gpt.py: the first signature, wherever it is, is that of sector 1.       *)
GptParse(l, len) ==
    LET off == l.ss
        ss  == IF off \in {1, 8} THEN off ELSE 8
    IN  IF off >= len THEN [ss |-> 0, parts |-> <<>>]
        ELSE [ss |-> ss, parts |-> EntriesAt(l, 2 * ss)]

(* carve, one partition: what is there stays, what is short is not saved.  *)
(* Mutant: what could be read is saved. *)
CarvedShort(fs, p, ss, len, force) ==
    IF (fs[p.name].hi # 0 /\ ~force) \/ len <= p.first * ss THEN fs
    ELSE [fs EXCEPT ![p.name] = [lo |-> p.first * ss,
                                 hi |-> IF (p.last + 1) * ss > len THEN len ELSE (p.last + 1) * ss]]
Carved(fs, p, ss, len, force) ==
    IF (fs[p.name].hi # 0 /\ ~force) \/ (p.last + 1) * ss > len THEN fs
    ELSE [fs EXCEPT ![p.name] = [lo |-> p.first * ss, hi |-> (p.last + 1) * ss]]

-----------------------------------------------------------------------------
(* dump_lun: done when it has the size; otherwise from the start, as far   *)
(* as the link lasts.                                                      *)
DumpsLun ==
    /\ image # LunSize(lun)
    /\ image' \in 0..LunSize(lun)
    /\ UNCHANGED <<lun, files>>

(* dump_part: done when there is anything. *)
DumpsPart ==
    /\ \E n \in DOMAIN NAMED :
          /\ files[n].hi = 0
          /\ \E hi \in {0, 1, NAMED[n]} : files' = [files EXCEPT ![n] = [lo |-> 0, hi |-> hi]]
    /\ UNCHANGED <<lun, image>>

Carves ==
    /\ \E force \in BOOLEAN :
          LET table == ParseGpt(lun, image)
          IN  files' = FoldLeft(LAMBDA fs, p : Carved(fs, p, table.ss, image, force), files, table.parts)
    /\ UNCHANGED <<lun, image>>

-----------------------------------------------------------------------------
(* However often the link broke: a partition that was carved is the        *)
(* partition, whole and from its place; a whole image yields every         *)
(* partition the LUN has; and where the sector is one of the two gpt.py    *)
(* knows, the two readers of a table agree (carve-partitions.py, gpt.py).  *)
PartOf(n) == CHOOSE p \in ToSet(lun.parts) : p.name = n

CarvedIsWhole ==
    /\ \A n \in PartNames(lun) :
          files[n] = NoFile \/ files[n] = [lo |-> PartOf(n).first * lun.ss,
                                           hi |-> (PartOf(n).last + 1) * lun.ss]
    /\ image = LunSize(lun) =>
          /\ ToSet(ParseGpt(lun, image).parts) = {p \in ToSet(lun.parts) : p.first <= p.last}
          /\ lun.ss \in {1, 8} => GptParse(lun, image) = [ss |-> lun.ss, parts |-> lun.parts]
=============================================================================
