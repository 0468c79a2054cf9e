------------------------------ MODULE BootImage ------------------------------
(***************************************************************************)
(* The Android boot image: how make_boot_image.py and mkbootimg.py lay it  *)
(* out, what check-payload.py finds in it, and how abl-boot-check.py       *)
(* replays what ABL decides over it and the phone's dtbo.  fdt.py and      *)
(* gauguin.py hold what it knows of trees and of the phone; AblHandsOver   *)
(* is ABL itself, as far as the tools tell of it.  Sizes and offsets count *)
(* units of 0x400 bytes, so the stock page is 4 and the silicon page 2.    *)
(*                                                                         *)
(* A kernel is [form, member, arm64, imageSize, field, trees]: form gzip,  *)
(* patched or raw; member its length without the trees glued to its end;   *)
(* field the offset a patched kernel's header holds.  A tree has size,     *)
(* what the blob occupies, and total, what its header says; the regions    *)
(* ramoops and, of its framebuffers, fb; msm, whether its chip id is this  *)
(* phone's ("ours"), another's or missing; hasSymbols and syms, symbol ->  *)
(* path; nodes, the set of its paths; owners, phandle -> the set of paths  *)
(* that carry it.  A dtbo entry is [variant, fixups], <<>> being a dtbo    *)
(* that does not validate.                                                 *)
(***************************************************************************)
EXTENDS Integers, Sequences, FiniteSets

CONSTANTS
    KernelRegion,   \* the length of ABL's region for kernel, ramdisk and tree
    LoadOffset,     \* KERNEL_64BIT_LOAD_OFFSET
    DT_SIZE,        \* what ABL keeps for the tree inside that region
    PAGE_MAX,
    DRAM,           \* the set of [base, size] of the phone's RAM partitions
    PHONE_RESERVED, \* ... and of the parts of it the firmware has taken
    VARIANT         \* the phone's variant id

PROFILES ==
    [stock   |-> [header_version |-> 2, page_size |-> 4, dtb_in_header |-> TRUE],
     silicon |-> [header_version |-> 1, page_size |-> 2, dtb_in_header |-> FALSE]]

First(s)           == IF s = <<>> THEN <<>> ELSE <<s[1]>>
Pages(n, page)     == (n + page - 1) \div page
RoundPage(n, page) == page * Pages(n, page)

SizeOf(trees) ==
    LET To[k \in 0..Len(trees)] == IF k = 0 THEN 0 ELSE To[k - 1] + trees[k].size
    IN  To[Len(trees)]
KernelSize(k) == k.member + SizeOf(k.trees)

(* An image file: its header fields, and where its parts really are.       *)
Image(k, rs, slot, hv, page, cmdline) ==
    LET ks == KernelSize(k)
        ds == SizeOf(slot)
        at == page * (1 + Pages(ks, page) + Pages(rs, page))
    IN  [hv |-> hv, page |-> page, ks |-> ks, rs |-> rs, ds |-> ds,
         kernel |-> k, slot |-> slot, slotAt |-> at, cmdline |-> cmdline,
         size |-> at + RoundPage(ds, page)]

(* build() of make_boot_image.py: the tree in a region of its own, or      *)
(* glued to the kernel.  Mutant: always a region of its own.               *)
BuildDeclared(k, rs, tree, p, cmdline) ==
    Image(k, rs, <<tree>>, p.header_version, p.page_size, cmdline)
Build(k, rs, tree, p, cmdline) ==
    IF p.dtb_in_header
      THEN Image(k, rs, <<tree>>, p.header_version, p.page_size, cmdline)
      ELSE Image([k EXCEPT !.trees = Append(@, tree)], rs, <<>>,
                 p.header_version, p.page_size, cmdline)

(* build() of mkbootimg.py: header version 2 whatever it is given, and a   *)
(* tree or a ramdisk only if there is one.                                 *)
MkBootImg(k, rs, slot, page, cmdline) == Image(k, rs, slot, 2, page, cmdline)

-----------------------------------------------------------------------------
(* What a reader finds at an offset of the file: the trees that begin      *)
(* there, one behind the other.                                            *)
TreesFrom(img, off) ==
    LET inKernel == {n \in 1..Len(img.kernel.trees) :
                        off = img.page + img.kernel.member
                                + SizeOf(SubSeq(img.kernel.trees, 1, n - 1))}
        inSlot   == {n \in 1..Len(img.slot) :
                        off = img.slotAt + SizeOf(SubSeq(img.slot, 1, n - 1))}
    IN  IF inKernel # {}
          THEN SubSeq(img.kernel.trees, CHOOSE n \in inKernel : TRUE, Len(img.kernel.trees))
        ELSE IF inSlot # {} THEN SubSeq(img.slot, CHOOSE n \in inSlot : TRUE, Len(img.slot))
        ELSE <<>>

(* read_image: the regions as the header has them laid out. *)
DtbOff(img)     == img.page * (1 + Pages(img.ks, img.page) + Pages(img.rs, img.page))
RegionsEnd(img) == DtbOff(img) + RoundPage(img.ds, img.page)

DetectProfile(img) == IF img.hv >= 2 THEN "stock" ELSE "silicon"

(* appended_dtb: the last tree in the kernel blob, if it ends the blob.    *)
AppendedDtb(img) ==
    LET trees == img.kernel.trees
    IN  IF trees # <<>> /\ trees[Len(trees)].total = trees[Len(trees)].size
          THEN <<trees[Len(trees)]>> ELSE <<>>

(* The tree a shape carries, as a sequence of at most one. *)
CarriedTree(img, p) ==
    IF p.dtb_in_header THEN First(TreesFrom(img, DtbOff(img))) ELSE AppendedDtb(img)

(* ramoops_problems: one node, and a command line that says the same of    *)
(* its address; <<>> is a command line that says nothing.  The sizes of    *)
(* the records are compared as well: they are not in this model.           *)
RamoopsProblems(img, p) ==
    LET tree == CarriedTree(img, p)
    IN  IF tree = <<>> THEN {}
        ELSE IF tree[1].ramoops = <<>> THEN {"no ramoops node"}
        ELSE {x \in {"two nodes", "disagree"} :
                \/ x = "two nodes" /\ Len(tree[1].ramoops) # 1
                \/ x = "disagree" /\ img.cmdline # <<>>
                                  /\ img.cmdline[1].addr # tree[1].ramoops[1].addr}

(* problems(f, prof) *)
Problems(img) ==
    LET p == PROFILES[DetectProfile(img)]
    IN  {x \in {"header_version", "page_size", "no kernel", "DTB magic", "no DTB declared",
                "no offset", "no appended DTB", "past the file", "trailing", "no arm64"} :
            \/ x = "header_version" /\ img.hv # p.header_version
            \/ x = "page_size" /\ img.page # p.page_size
            \/ x = "no kernel" /\ img.ks = 0
            \/ x = "DTB magic" /\ p.dtb_in_header /\ img.ds # 0 /\ CarriedTree(img, p) = <<>>
            \/ x = "no DTB declared" /\ p.dtb_in_header /\ img.ds = 0
            \/ x = "no offset" /\ ~p.dtb_in_header /\ img.kernel.form = "raw"
            \/ x = "no appended DTB" /\ ~p.dtb_in_header /\ AppendedDtb(img) = <<>>
            \/ x = "past the file" /\ RegionsEnd(img) > img.size
            \/ x = "trailing" /\ img.size - RegionsEnd(img) > img.page
            \/ x = "no arm64" /\ ~img.kernel.arm64}
        \cup RamoopsProblems(img, p)

-----------------------------------------------------------------------------
(* The phone's memory. *)
in_dram(r) ==
    \E d \in DRAM : r.addr >= d.base /\ r.addr + r.size <= d.base + d.size

(* Mutant: contained in a carveout instead of touching one. *)
reserved_contains(r) ==
    {c \in PHONE_RESERVED : r.addr >= c.base /\ r.addr + r.size <= c.base + c.size}
reserved_overlaps(r) ==
    {c \in PHONE_RESERVED : r.addr < c.base + c.size /\ c.base < r.addr + r.size}

-----------------------------------------------------------------------------
CheckImageHeader(img) == img.hv < 3 /\ img.ks > 0 /\ img.page > 0 /\ img.page <= PAGE_MAX

(* geometry: what is left between the kernel and the device tree. *)
Headroom(img) ==
    KernelRegion - (RoundPage(img.rs, img.page) + img.page) - (DT_SIZE + img.page) - LoadOffset

CheckKernelMode(img) == img.kernel.arm64 => img.kernel.imageSize <= Headroom(img)

(* dtb_offset_before_dtbcheck: the end of the gzip member, the field of a  *)
(* patched kernel's header, or 0.                                          *)
PATCHED_HEADER == 1
DtbOffsetBefore(img) ==
    CASE img.kernel.form = "gzip"    -> img.kernel.member
      [] img.kernel.form = "patched" -> img.kernel.field
      [] OTHER                       -> 0

(* check_dtb_offset: [base, off, region], the two branches. *)
(* Mutant: the header's branch for every version. *)
PlaceByHeader(img) ==
    LET off == img.page * (1 + Pages(img.ks, img.page) + Pages(img.rs, img.page))
    IN  [base |-> 0, off |-> off, region |-> img.ds + off]
DtbPlace(img) ==
    IF img.hv > 1
      THEN LET off == img.page * (1 + Pages(img.ks, img.page) + Pages(img.rs, img.page))
           IN  [base |-> 0, off |-> off, region |-> img.ds + off]
      ELSE [base   |-> img.page + IF img.kernel.form = "patched" THEN PATCHED_HEADER ELSE 0,
            off    |-> DtbOffsetBefore(img),
            region |-> img.ks]

(* The concatenated trees of the slot, up to the first that ends outside.  *)
Trees(img) ==
    LET place   == DtbPlace(img)
        found   == TreesFrom(img, place.base + place.off)
        Fits(n) == \A k \in 1..n :
                      SizeOf(SubSeq(found, 1, k - 1)) + found[k].total
                        <= place.region - place.off
        last    == CHOOSE n \in 0..Len(found) : Fits(n) /\ (n = Len(found) \/ ~Fits(n + 1))
    IN  IF place.off = 0 \/ place.off >= place.region THEN <<>> ELSE SubSeq(found, 1, last)

FirstOf(trees, msms) ==
    LET hits == {k \in 1..Len(trees) : trees[k].msm \in msms}
    IN  IF hits = {} THEN <<>> ELSE <<trees[CHOOSE k \in hits : \A m \in hits : k <= m]>>

(* The tree ABL selects, and the one the replay goes on with when none of  *)
(* the slot answers to the phone's chip id.                                *)
AblSelects(img)    == FirstOf(Trees(img), {"ours"})
ReplaySelects(img) ==
    IF AblSelects(img) # <<>> THEN AblSelects(img)
    ELSE IF FirstOf(Trees(img), {"other"}) # <<>> THEN FirstOf(Trees(img), {"other"})
    ELSE First(Trees(img))

(* pick_board_entry *)
BoardEntry(dtbo) ==
    LET hits == {k \in 1..Len(dtbo) : dtbo[k].variant = VARIANT}
    IN  IF hits = {} THEN <<>> ELSE <<dtbo[CHOOSE k \in hits : \A m \in hits : k <= m]>>

-----------------------------------------------------------------------------
(* overlay_gate answers for the node only: which symbols are missing is    *)
(* returned beside it and printed.                                         *)
OverlayGate(tree) == tree.hasSymbols

PhandlesAt(tree, path) == {p \in DOMAIN tree.owners : path \in tree.owners[p]}

(* sink_check: the symbols the overlay asks for and the tree has, of those *)
(* the ones that point into the sink; their nodes, and whose their         *)
(* phandles are.                                                           *)
SinkCheck(tree, entry) ==
    LET sinks == {s \in entry.fixups \cap DOMAIN tree.syms : tree.syms[s][1] = "sink"}
    IN  sinks # {} =>
          /\ \A s \in sinks : PhandlesAt(tree, tree.syms[s]) # {}
          /\ \A p \in DOMAIN tree.owners : Cardinality(tree.owners[p]) = 1

(* fdtoverlay, libfdt's merge: every symbol, its node and a phandle on it. *)
FdtOverlay(tree, entry) ==
    \A s \in entry.fixups :
        s \in DOMAIN tree.syms /\ PhandlesAt(tree, tree.syms[s]) # {}

CheckOverlay(tree, dtbo, fdtoverlay) ==
    \/ BoardEntry(dtbo) = <<>>
    \/ LET entry == BoardEntry(dtbo)[1]
       IN  OverlayGate(tree) /\ SinkCheck(tree, entry) /\ (fdtoverlay => FdtOverlay(tree, entry))

(* check_regions: the log and the framebuffer of the tree, and the address *)
(* on the command line.                                                    *)
CheckRegions(img, tree) ==
    LET placed == {tree.ramoops[k] : k \in 1..Len(tree.ramoops)} \cup tree.fb
                    \cup {img.cmdline[k] : k \in 1..Len(img.cmdline)}
    IN  \A r \in placed : in_dram(r) /\ reserved_overlaps(r) = {}

(* check(): accepted if no stage failed. *)
Replay(img, dtbo, fdtoverlay) ==
    /\ CheckImageHeader(img)
    /\ Headroom(img) > 0
    /\ CheckKernelMode(img)
    /\ Trees(img) # <<>>
    /\ CheckRegions(img, ReplaySelects(img)[1])
    /\ CheckOverlay(ReplaySelects(img)[1], dtbo, fdtoverlay)

-----------------------------------------------------------------------------
(* ABL: the tree it hands to the kernel as a sequence of at most one, with *)
(* the board's overlay merged into it; <<>> is a boot it refuses.          *)
AblMerges(tree, entry) ==
    tree.hasSymbols /\ \A s \in entry.fixups :
                          s \in DOMAIN tree.syms /\ tree.syms[s] \in tree.nodes
AblHandsOver(img, dtbo) ==
    LET tree == AblSelects(img)
    IN  IF /\ CheckImageHeader(img) /\ Headroom(img) > 0 /\ CheckKernelMode(img)
           /\ tree # <<>>
           /\ BoardEntry(dtbo) # <<>> => AblMerges(tree[1], BoardEntry(dtbo)[1])
          THEN tree ELSE <<>>

(* Where a fragment goes: the nodes whose phandle its symbol's node has.   *)
Lands(tree, s) == UNION {tree.owners[p] : p \in PhandlesAt(tree, tree.syms[s])}
=============================================================================
