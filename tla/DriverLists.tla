----------------------------- MODULE DriverLists -----------------------------
(***************************************************************************)
(* rewrite_incs of make_uefi_platform.py: DXE.inc (what the volume holds)  *)
(* and APRIORI.inc (what runs first, in order) of this phone, made from    *)
(* those of the reference board.  A line is [op, name, value] as in        *)
(* AprioriOrder; op "dropped" is the comment a line without a blob turns   *)
(* into, and a blob is an INF under Binaries/.  An option o of the         *)
(* generator is [moves, host]: --apriori-move, as a sequence of            *)
(* [anchor, names], and --xhci-host.                                       *)
(***************************************************************************)
EXTENDS AprioriOrder, PackageData

CONSTANTS
    Reference,   \* [dxe, apriori]: the lists of suryaPkg
    Blobs,       \* the names that are INFs under Binaries/
    ExtraDxe,    \* EXTRA_DRIVERS: sequences of [anchor, path]
    ExtraApriori,
    HostDrivers, \* XHCI_HOST_DRIVERS["DXE.inc"]: a sequence of [anchor, paths]
    HostGuard    \* XHCI_HOST_GUARD

Inf(p) == [op |-> "inf", name |-> p, value |-> 0]

LinesOf(lines, p) == {i \in DOMAIN lines : lines[i].name = p}
InfsOf(lines, p)  == {i \in LinesOf(lines, p) : lines[i].op = "inf"}
Infs(lines)       == {lines[i].name : i \in {j \in DOMAIN lines : lines[j].op = "inf"}}

InsertAfter(lines, i, new) ==
    SubSeq(lines, 1, i) \o new \o SubSeq(lines, i + 1, Len(lines))

HostBlobs == UNION {ToSet(h.paths) : h \in ToSet(HostDrivers)}
Display == "USE_CUSTOM_DISPLAY_DRIVER"
With(lines, value) ==
    [lines |-> lines, macros |-> [x \in {HostGuard, Display} |-> IF x = HostGuard THEN value ELSE 0]]

-----------------------------------------------------------------------------
(* The reference is that of a board that builds: it has a blob once, and   *)
(* its `!if`s are of known names and closed.  The host's blobs are named   *)
(* by its rows alone, once, and put behind a line outside of every `!if`.  *)
Line    == [op : {"if", "else", "endif", "inf", "comment", "dropped"}, name : STRING, value : Int]
Anchors == {h.anchor : h \in ToSet(HostDrivers)}
Extras  == {e.path : e \in ToSet(ExtraDxe) \cup ToSet(ExtraApriori)}
NamedOnce(lines) ==
    \A i, j \in DOMAIN lines :
        (lines[i].op = "inf" /\ lines[j] = lines[i] /\ lines[i].name \in Blobs) => i = j

ASSUME ListsAssumption ==
    /\ Blobs \subseteq STRING /\ HostGuard \in STRING
    /\ Reference \in [dxe : Seq(Line), apriori : Seq(Line)]
    /\ \A l \in {Reference.dxe, Reference.apriori} :
          NamedOnce(l) /\ \A i \in DOMAIN l : l[i].op = "inf" => l[i].value = 0
    /\ \A e \in {ExtraDxe, ExtraApriori} : e \in Seq([anchor : STRING, path : Blobs])
    /\ HostDrivers \in Seq([anchor : STRING, paths : Seq(Blobs)])
    /\ \A h \in ToSet(HostDrivers) : h.paths # <<>>
    /\ HostBlobs \cap (Infs(Reference.dxe) \cup Infs(Reference.apriori) \cup Extras) = {}
    /\ \A i, j \in DOMAIN HostDrivers :
          \A a \in DOMAIN HostDrivers[i].paths, b \in DOMAIN HostDrivers[j].paths :
              HostDrivers[i].paths[a] = HostDrivers[j].paths[b] => i = j /\ a = b
    /\ Anchors \cap (Extras \cup HostBlobs \cup {HostGuard}) = {}
    /\ \A k \in 0..Len(Reference.dxe) :
          LET s == InfOrder(With(SubSeq(Reference.dxe, 1, k), 1))
          IN  ~s.exited /\ (k > 0 /\ Reference.dxe[k].name \in Anchors => s.stack = <<>>)

-----------------------------------------------------------------------------
(* A pass is [lines, referenced, dropped].  A reference line whose blob is *)
(* not there is commented out and named.                                   *)
IsMissing(l, have) == l.op = "inf" /\ l.name \in Blobs \ have

Filtered(ref, have, referenced) ==
    [lines      |-> [i \in DOMAIN ref |-> IF IsMissing(ref[i], have)
                                          THEN [ref[i] EXCEPT !.op = "dropped"] ELSE ref[i]],
     referenced |-> referenced \cup (Infs(ref) \cap Blobs \cap have),
     dropped    |-> Infs(ref) \cap (Blobs \ have)]

(* A block goes behind the first line its anchor is in, be it a comment.   *)
Inserted(s, anchor, block, paths) ==
    IF LinesOf(s.lines, anchor) = {}
      THEN [s EXCEPT !.dropped = @ \cup {Head(paths)}]
      ELSE [s EXCEPT !.lines = InsertAfter(@, Min(LinesOf(@, anchor)), block),
                     !.referenced = @ \cup ToSet(paths)]

(* Mutant: a row without its anchor is passed over. *)
ExtraQuiet(s, e, have) ==
    IF e.path \notin have \/ e.path \in s.referenced \/ LinesOf(s.lines, e.anchor) = {} THEN s
    ELSE Inserted(s, e.anchor, <<Inf(e.path)>>, <<e.path>>)
(* One of EXTRA_DRIVERS, unless it is referenced already: in this list, or *)
(* in the one before it.                                                   *)
Extra(s, e, have) ==
    IF e.path \notin have \/ e.path \in s.referenced THEN s
    ELSE Inserted(s, e.anchor, <<Inf(e.path)>>, <<e.path>>)

(* Mutant: the blobs as plain lines. *)
HostUnguarded(s, h, have) ==
    LET present == Kept(h.paths, have)
    IN  IF present = <<>> THEN [s EXCEPT !.dropped = @ \cup {Head(h.paths)}]
        ELSE Inserted(s, h.anchor, [i \in DOMAIN present |-> Inf(present[i])], present)
(* One of XHCI_HOST_DRIVERS, as a block behind the switch. *)
Host(s, h, have) ==
    LET present == Kept(h.paths, have)
    IN  IF present = <<>> THEN [s EXCEPT !.dropped = @ \cup {Head(h.paths)}]
        ELSE Inserted(s, h.anchor,
                 <<[op |-> "if", name |-> HostGuard, value |-> 1]>>
                 \o [i \in DOMAIN present |-> Inf(present[i])]
                 \o <<[op |-> "endif", name |-> HostGuard, value |-> 0]>>, present)

-----------------------------------------------------------------------------
(* apply_apriori_moves, one anchor with its names. *)
Refuses(lines, m) ==
    \/ Cardinality(InfsOf(lines, m.anchor)) # 1
    \/ \E i \in DOMAIN m.names :
          \/ Cardinality(InfsOf(lines, m.names[i])) # 1
          \/ m.names[i] = m.anchor
    \/ ~IsInjective(m.names)

Unpicked(lines, m) ==
    Kept(lines, {l \in ToSet(lines) : ~(l.op = "inf" /\ l.name \in ToSet(m.names))})

(* Mutant: the index the anchor had before the lines in front of it went. *)
MovedStale(lines, m) ==
    LET at == CHOOSE i \in InfsOf(lines, m.anchor) : TRUE
    IN  InsertAfter(Unpicked(lines, m), IF at > Len(Unpicked(lines, m)) THEN Len(Unpicked(lines, m)) ELSE at,
                    [i \in DOMAIN m.names |-> Inf(m.names[i])])
Moved(lines, m) ==
    LET at     == CHOOSE i \in InfsOf(lines, m.anchor) : TRUE
        before == {i \in 1..(at - 1) : lines[i].op = "inf" /\ lines[i].name \in ToSet(m.names)}
    IN  InsertAfter(Unpicked(lines, m), at - Cardinality(before),
                    [i \in DOMAIN m.names |-> Inf(m.names[i])])

(* Later moves see the result of earlier ones; the first refusal ends it.  *)
ApplyAprioriMoves(lines, moves) ==
    FoldLeft(LAMBDA s, m : IF ~s.ok \/ Refuses(s.lines, m) THEN [s EXCEPT !.ok = FALSE]
                           ELSE [s EXCEPT !.lines = Moved(s.lines, m)],
             [ok |-> TRUE, lines |-> lines], moves)

-----------------------------------------------------------------------------
(* rewrite_incs: both lists, one set of referenced paths. *)
DxePass(have, o) ==
    LET extra == FoldLeft(LAMBDA s, e : Extra(s, e, have), Filtered(Reference.dxe, have, {}), ExtraDxe)
    IN  IF o.host THEN FoldLeft(LAMBDA s, h : Host(s, h, have), extra, HostDrivers) ELSE extra

AprioriPass(have, referenced) ==
    FoldLeft(LAMBDA s, e : Extra(s, e, have),
             Filtered(Reference.apriori, have, referenced), ExtraApriori)

RewriteIncs(have, o) ==
    LET d == DxePass(have, o)
        a == AprioriPass(have, d.referenced)
        m == ApplyAprioriMoves(a.lines, o.moves)
    IN  [ok |-> m.ok, have |-> have, option |-> o,
         dxe |-> d.lines, apriori |-> m.lines,
         dropped |-> d.dropped \cup a.dropped,
         skipped |-> have \ d.referenced]      \* named in the header of DXE.inc

-----------------------------------------------------------------------------
(* What the lists should be, said of the result. *)

(* What is left out is named, but for one kind of row: a blob is in        *)
(* DXE.inc or named in its header; a line of the reference is in its list  *)
(* or named; and a row of EXTRA_DRIVERS["APRIORI.inc"] with a blob is in   *)
(* the batch, or named, or else DXE.inc has the blob.  In that case, and   *)
(* against the comment on EXTRA_DRIVERS (lines 615-619: both lists take    *)
(* their rows, at the sibling's anchors), the row is left out of the batch *)
(* and nothing says so: what the first pass has put into `referenced` the  *)
(* second takes for its own (line 809).  The last conjunct says that it is *)
(* always so, with no way but a line of the reference into both lists.     *)
NothingIsSilent(g) ==
    /\ \A p \in g.have : p \in Infs(g.dxe) \/ p \in g.skipped
    /\ Infs(Reference.dxe) \subseteq Infs(g.dxe) \cup g.dropped
    /\ Infs(Reference.apriori) \subseteq Infs(g.apriori) \cup g.dropped
    /\ \A e \in ToSet(ExtraApriori) : e.path \in g.have =>
          /\ e.path \in Infs(g.apriori) \cup g.dropped \cup Infs(g.dxe)
          /\ e.path \in Infs(g.dxe) \cap Infs(g.apriori) => e.path \in Infs(Reference.apriori)

(* No list names a blob that is not there, none of them twice, and the     *)
(* host's are in DXE.inc alone, behind their switch.                       *)
NamesWhatIsThere(g) ==
    /\ (Infs(g.dxe) \cup Infs(g.apriori)) \cap Blobs \subseteq g.have
    /\ \A l \in {g.dxe, g.apriori} : \A p \in Blobs : Cardinality(InfsOf(l, p)) <= 1
    /\ Infs(g.apriori) \cap HostBlobs = {}
    /\ ToSet(InfOrder(With(g.dxe, 0)).out) \cap HostBlobs = {}
    /\ g.option.host => HostBlobs \ g.skipped \subseteq ToSet(InfOrder(With(g.dxe, 1)).out)

(* --apriori-move: the batch is that of a plain run with the named lines   *)
(* right behind their anchor, in the order they were named, and everything *)
(* else where it was.                                                      *)
Plain(g) == RewriteIncs(g.have, [g.option EXCEPT !.moves = <<>>]).apriori

OnlyMoves(g) ==
    /\ g.dxe = RewriteIncs(g.have, [g.option EXCEPT !.moves = <<>>]).dxe
    /\ Len(g.option.moves) = 1 =>
        LET m == g.option.moves[1]
        IN  /\ Unpicked(g.apriori, m) = Unpicked(Plain(g), m)
            /\ \E i \in DOMAIN g.apriori :
                  /\ g.apriori[i] = Inf(m.anchor)
                  /\ SubSeq(g.apriori, i + 1, i + Len(m.names))
                        = [k \in DOMAIN m.names |-> Inf(m.names[k])]
            /\ Len(g.apriori) = Len(Plain(g))

ListsHold(g) == NothingIsSilent(g) /\ NamesWhatIsThere(g) /\ OnlyMoves(g)
=============================================================================
