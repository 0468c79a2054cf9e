---------------------------- MODULE PayloadBuild ----------------------------
(***************************************************************************)
(* From the phone's dtbo dump to a booted payload: build-device-tree.sh    *)
(* with make_dtbo_sinks.py, the two payload builders (build-p1-payloads.sh *)
(* and build-p2-payloads.sh), the checks each of them runs, and ABL.       *)
(*                                                                         *)
(* The dump is a copy: the phone's own dtbo may be replaced by an update   *)
(* after the tree was built, and a tree may be kept from one build to the  *)
(* next.                                                                   *)
(***************************************************************************)
EXTENDS BootImage

CONSTANTS
    Boards,     \* [ramoops, fb, msm, size, phandles]: the board's dts, built
    Dtbos,      \* what the dtbo partition may hold
    Kernels, Ramdisks, Cmdlines,
    SINK_BASE,  \* --base of make_dtbo_sinks.py
    NSYM,       \* the symbols build-device-tree.sh asks for
    LOG         \* the address of ramoops it asks for

(* Regions have an address and a length; what is packed is not empty, and  *)
(* a patched kernel's header gives the end of that kernel.  The kernels    *)
(* come to the builder without a tree.                                     *)
Regions == [addr : Nat, size : Nat]
PayloadAssumption ==
    /\ DRAM \subseteq [base : Nat, size : Nat] /\ PHONE_RESERVED \subseteq [base : Nat, size : Nat]
    /\ Kernels \subseteq [form : {"gzip", "patched", "raw"}, member : Nat \ {0}, arm64 : BOOLEAN,
                          imageSize : Nat, field : Nat, trees : {<<>>}]
    /\ \A k \in Kernels :
          k.form = "patched" => k.field # 0 /\ k.field + PATCHED_HEADER = k.member
    /\ Ramdisks \subseteq Nat
    /\ \A c \in Cmdlines : c \in Seq(Regions)
    /\ \A b \in Boards :
          b.ramoops \in Seq(Regions) /\ b.fb \subseteq Regions /\ b.size \in Nat \ {0}
    /\ \A d \in Dtbos : d \in Seq([variant : Nat, fixups : SUBSET Nat])
                        /\ \A k \in 1..Len(d) : IsFiniteSet(d[k].fixups)
ASSUME PayloadTypes == PayloadAssumption

VARIABLES
    board, dtbo,
    dtb,        \* the tree in work/out, as a sequence of at most one
    image,      \* the payload, likewise
    step,       \* "tree", "image", "check", "replay", "flash", "done", "stopped"
    builder,    \* "p1", "p2" or "hand"
    hasFdtoverlay,
    booted      \* what ABL handed to the kernel

vars == <<board, dtbo, dtb, image, step, builder, hasFdtoverlay, booted>>

Init ==
    /\ board \in Boards /\ dtbo \in Dtbos /\ hasFdtoverlay \in BOOLEAN
    /\ dtb = <<>> /\ image = <<>> /\ booted = <<>>
    /\ step = "tree" /\ builder \in {"p1", "p2"}

-----------------------------------------------------------------------------
(* needed(entries): the symbols of every entry. *)
Needed(d) == UNION {d[k].fixups : k \in 1..Len(d)}

(* render(syms, base): one node and one phandle for each, in order.        *)
SinkPhandle(syms, s) == SINK_BASE + Cardinality({t \in syms : t < s})

Sink(s) == <<"sink", s>>

(* The board's dts with the sinks appended to it. *)
TreeOf(b, d) ==
    LET syms    == Needed(d)
        real    == {<<"node", p>> : p \in b.phandles}
        Owns(p) == {<<"node", q>> : q \in b.phandles \cap {p}}
                     \cup {Sink(s) : s \in {t \in syms : SinkPhandle(syms, t) = p}}
        used    == b.phandles \cup {SinkPhandle(syms, s) : s \in syms}
    IN  [size |-> b.size, total |-> b.size, msm |-> b.msm,
         hasSymbols |-> syms # {}, syms |-> [s \in syms |-> Sink(s)],
         nodes |-> real \cup {Sink(s) : s \in syms},
         owners |-> [p \in used |-> Owns(p)],
         ramoops |-> b.ramoops, fb |-> b.fb]

(* validate() of build-device-tree.sh. *)
Validates(t) ==
    /\ Cardinality(DOMAIN t.syms) >= NSYM
    /\ Len(t.ramoops) = 1 /\ t.ramoops[1].addr = LOG
    /\ t.fb # {}

Stops == step' = "stopped" /\ UNCHANGED <<board, dtbo, dtb, image, builder, hasFdtoverlay, booted>>

(* An existing tree is kept by the P2 builder, if it still validates.      *)
ReusesTree ==
    /\ step = "tree" /\ builder = "p2" /\ dtb # <<>>
    /\ IF Validates(dtb[1])
         THEN step' = "image" /\ UNCHANGED <<board, dtbo, dtb, image, builder, hasFdtoverlay, booted>>
         ELSE Stops

BuildsTree ==
    /\ step = "tree" /\ ~(builder = "p2" /\ dtb # <<>>)
    /\ dtb' = <<TreeOf(board, dtbo)>>
    /\ step' = IF Validates(dtb'[1]) THEN "image" ELSE "stopped"
    /\ UNCHANGED <<board, dtbo, image, builder, hasFdtoverlay, booted>>

(* P1 has a command line and only the stock profile; P2 has both profiles, *)
(* an empty command line and the checks of check-payload.py.               *)
BuildsP1(k, rs, c) ==
    builder = "p1" /\ image' = <<Build(k, rs, dtb[1], PROFILES["stock"], c)>> /\ step' = "replay"
BuildsP2(k, p) ==
    builder = "p2" /\ image' = <<Build(k, 1, dtb[1], PROFILES[p], <<>>)>> /\ step' = "check"

BuildsImage ==
    /\ step = "image"
    /\ \E k \in Kernels :
          \/ \E rs \in Ramdisks, c \in Cmdlines : BuildsP1(k, rs, c)
          \/ \E p \in DOMAIN PROFILES : BuildsP2(k, p)
    /\ UNCHANGED <<board, dtbo, dtb, builder, hasFdtoverlay, booted>>

(* Or mkbootimg.py by hand, and a slot with no tree or with several, as    *)
(* the stock image has it.                                                 *)
PacksByHand ==
    /\ step = "image"
    /\ \E k \in Kernels, rs \in Ramdisks \cup {0}, page \in {2, 4, 8}, other \in Boards :
          \E slot \in {<<>>, dtb, <<TreeOf(other, dtbo)>> \o dtb} :
              image' = <<MkBootImg(k, rs, slot, page, <<>>)>>
    /\ step' = "check" /\ builder' = "hand"
    /\ UNCHANGED <<board, dtbo, dtb, hasFdtoverlay, booted>>

ChecksPayload ==
    /\ step = "check"
    /\ step' = IF Problems(image[1]) = {} THEN "replay" ELSE "stopped"
    /\ UNCHANGED <<board, dtbo, dtb, image, builder, hasFdtoverlay, booted>>

Replays ==
    /\ step = "replay"
    /\ step' = IF Replay(image[1], dtbo, hasFdtoverlay) THEN "flash" ELSE "stopped"
    /\ UNCHANGED <<board, dtbo, dtb, image, builder, hasFdtoverlay, booted>>

Boots ==
    /\ step = "flash"
    /\ booted' = AblHandsOver(image[1], dtbo)
    /\ step' = "done"
    /\ UNCHANGED <<board, dtbo, dtb, image, builder, hasFdtoverlay>>

(* The next payload: the tree of this one is still there, the phone's dtbo *)
(* or the board's dts may have changed.                                    *)
StartsOver ==
    /\ step \in {"done", "stopped"}
    /\ step' = "tree" /\ builder' \in {"p1", "p2"}
    /\ dtbo' \in Dtbos /\ board' \in Boards
    /\ image' = <<>> /\ booted' = <<>>
    /\ UNCHANGED <<dtb, hasFdtoverlay>>

Next ==
    \/ ReusesTree \/ BuildsTree \/ BuildsImage \/ PacksByHand
    \/ ChecksPayload \/ Replays \/ Boots \/ StartsOver

Spec == Init /\ [][Next]_vars

-----------------------------------------------------------------------------
TypeOK ==
    /\ board \in Boards /\ dtbo \in Dtbos /\ hasFdtoverlay \in BOOLEAN
    /\ Len(dtb) <= 1 /\ Len(image) <= 1 /\ Len(booted) <= 1
    /\ step \in {"tree", "image", "check", "replay", "flash", "done", "stopped"}
    /\ builder \in {"p1", "p2", "hand"}

Bytes(r) == r.addr..(r.addr + r.size - 1)
Free(b)  == /\ \E d \in DRAM : b >= d.base /\ b < d.base + d.size
            /\ \A c \in PHONE_RESERVED : b < c.base \/ b >= c.base + c.size

(* The log of this boot: the command line's region before the tree's.      *)
LogRegion(img, tree) == IF img.cmdline # <<>> THEN img.cmdline ELSE First(tree.ramoops)

HasOurTree == \E k \in 1..Len(Trees(image[1])) : Trees(image[1])[k].msm = "ours"

(* A payload both checks let through boots: ABL hands over the tree that   *)
(* was packed, every fragment of the phone's overlay lands in a sink node  *)
(* and nowhere else, and the log and the framebuffer are in memory that is *)
(* the kernel's.  (With fdtoverlay at hand, and a tree in the slot that    *)
(* answers to the phone.)                                                  *)
AcceptedBoots ==
    (step = "done" /\ hasFdtoverlay /\ HasOurTree) =>
        /\ booted # <<>>
        /\ builder # "hand" => booted = dtb
        /\ BoardEntry(dtbo) # <<>> =>
              \A s \in BoardEntry(dtbo)[1].fixups : Lands(booted[1], s) = {Sink(s)}
        /\ \A r \in booted[1].fb : \A b \in Bytes(r) : Free(b)
        /\ \A k \in 1..Len(LogRegion(image[1], booted[1])) :
              \A b \in Bytes(LogRegion(image[1], booted[1])[k]) : Free(b)

(* The tree check-payload.py has judged is the one ABL reads, unless the   *)
(* slot holds others before it; and the builders' own images have it where *)
(* both look: P2's gzip packages and stock images are never stopped for it *)
(* or for their shape.                                                     *)
CheckersAgree ==
    /\ TypeOK
    /\ (step = "replay" /\ builder # "p1") =>
          CarriedTree(image[1], PROFILES[DetectProfile(image[1])]) = First(Trees(image[1]))
    /\ (step = "check" /\ builder = "p2" /\ image[1].kernel.arm64) =>
          (Problems(image[1]) = {} <=> (image[1].hv = 1 => image[1].kernel.form # "raw"))
=============================================================================
