---------------------------- MODULE PlatformBuild ----------------------------
(***************************************************************************)
(* From the drivers of this phone's XBL to a firmware volume, and back:    *)
(* xbl_extract.py, make_xbl_binaries.py and make_uefi_platform.py write    *)
(* the generated tree, sync-uefi-platform.sh copies it into the checkout,  *)
(* patched by what regen-mu-basecore-patch.sh saved, the build makes the   *)
(* volume, and build-apriori-variant.sh does all of it for an experiment   *)
(* and puts the trees back.  A tool that stops leaves what it had written. *)
(***************************************************************************)
EXTENDS DriverLists

CONSTANTS
    Extractions,   \* what an extraction of the XBL finds: sets of blobs
    Options,       \* the options the generator is called with by hand
    Experiments,   \* a name |-> the options of build-apriori-variant.sh
    Files,         \* texts uefiplat.cfg may have
    Rows, Bitmaps, \* rows of the memory map and bitmaps of the XBL
    MaxEdits       \* bound: editions of uefiplat.cfg

(* uefiplat.cfg has a map of memory, then one of registers, and no rows    *)
(* elsewhere; the rest is typed.                                           *)
Option   == [moves : Seq([anchor : STRING, names : Seq(STRING)]), host : BOOLEAN]
FileRow  == [k : {"row"}, label : STRING, base : Nat, size : Nat, hob : STRING, cols : {7, 8}, indented : BOOLEAN]
FileLine == [k : {"section"}, name : STRING] \cup FileRow \cup [k : {"param"}, key : STRING, value : Int]
IsSection(l, name) == l.k = "section" /\ l.name = name

ASSUME BuildAssumption ==
    /\ Options \subseteq Option /\ \A e \in DOMAIN Experiments : Experiments[e] \in Option
    /\ CONFIG_EXTRA \in Seq(STRING \X Int) /\ DDR_BASE \in Nat
    /\ \A f \in Files :
          /\ f \in Seq(FileLine)
          /\ \E m, r \in DOMAIN f :
                /\ m < r /\ IsSection(f[m], "MemoryMap") /\ IsSection(f[r], "RegisterMap")
                /\ \A i \in 1..(r - 1) :
                      f[i].k = "section" => i = m \/ (i < m /\ f[i].name # "RegisterMap")
                /\ \A i \in DOMAIN f :
                      f[i].k = "row" => m < i /\ \A j \in (r + 1)..i : f[j].k # "section"
    /\ Rows \subseteq [rtype : {"SYS_MEM", "MEM_RES", "MMAP_IO"}, hob : {"AddMem", "AddDev", "NoHob"},
                      attr : SUBSET STRING]
    /\ Bitmaps \subseteq [size : Nat, off : Int, width : Int, height : Int, bpp : Nat]

NoLists == [ok |-> FALSE, have |-> {}, option |-> [moves |-> <<>>, host |-> FALSE],
            dxe |-> <<>>, apriori |-> <<>>, dropped |-> {}, skipped |-> {}]
Default == [moves |-> <<>>, host |-> FALSE]   \* a plain run

VARIABLES
    dxe,        \* device/dxe: the drivers extracted
    cfg,        \* the edition of uefiplat.cfg
    asl,        \* whether tools/acpi/gauguin.asl was edited since it was copied
    gen,        \* uefi/: [lists, map, bins]
    mu,         \* the Mu-Silicium checkout: the same, and its Mu_Basecore
    fd,         \* SILICIUM_UEFI.fd: [lists, map]
    run,        \* build-apriori-variant.sh: [exp, at, new], new being whether
                \* the volume was written since its time was noted
    ready       \* the image it called ready: [exp, have, map, volume]

vars == <<dxe, cfg, asl, gen, mu, fd, run, ready>>

Idle     == [exp |-> "none", at |-> "idle", new |-> FALSE]
NotReady == [exp |-> "none", have |-> {}, map |-> 0, volume |-> [lists |-> NoLists, map |-> 0]]
Checkout == [lists |-> NoLists, map |-> 0, bins |-> {}, base |-> "pristine"]

Init ==
    /\ dxe = {} /\ cfg = 1 /\ asl = FALSE
    /\ gen = [lists |-> NoLists, map |-> 0, bins |-> {}]
    /\ mu = Checkout
    /\ fd = [lists |-> NoLists, map |-> 0]
    /\ run = Idle
    /\ ready = NotReady

(* A tool called by hand, the variant script not being at work: what the   *)
(* script said of its last image is not followed any further.              *)
ByHand == run.at \in {"idle", "restored"} /\ run' = Idle /\ ready' = NotReady

-----------------------------------------------------------------------------
(* xbl_extract.py writes over what it finds and removes nothing;           *)
(* make_xbl_binaries.py packages what is there.                            *)
Extracts ==
    /\ ByHand
    /\ \E found \in Extractions : dxe' = dxe \cup found
    /\ UNCHANGED <<cfg, asl, gen, mu, fd>>

Packages ==
    /\ ByHand
    /\ gen' = [gen EXCEPT !.bins = @ \cup dxe]
    /\ UNCHANGED <<dxe, cfg, asl, mu, fd>>

(* Somebody edits a source of the build, at any time. *)
Edits ==
    /\ \/ cfg < MaxEdits /\ cfg' = cfg + 1 /\ UNCHANGED <<asl, mu>>
       \/ ~asl /\ asl' = TRUE /\ UNCHANGED <<cfg, mu>>
       \/ mu.base = "patched" /\ mu' = [mu EXCEPT !.base = "edited"] /\ UNCHANGED <<cfg, asl>>
    /\ UNCHANGED <<dxe, gen, fd, run, ready>>

(* regen-mu-basecore-patch.sh: what the checkout differs by is the patch.  *)
SavesPatch ==
    /\ ByHand
    /\ mu.base = "edited"
    /\ mu' = [mu EXCEPT !.base = "patched"]
    /\ UNCHANGED <<dxe, cfg, asl, gen, fd>>

-----------------------------------------------------------------------------
(* make_uefi_platform.py, up to the point it stops at: the SoC package and *)
(* the memory map are on disk before the drivers are looked for, and the   *)
(* blobs of the sibling before the lists are made.                         *)
GenerateTo(o) ==
    LET mapped == [gen EXCEPT !.map = cfg]
        staged == [mapped EXCEPT !.bins = IF o.host THEN @ \cup HostBlobs ELSE @]
        lists  == RewriteIncs(IF o.host THEN dxe \cup HostBlobs ELSE dxe, o)
    IN  IF dxe = {} THEN [ok |-> FALSE, tree |-> mapped]
        ELSE IF ~lists.ok THEN [ok |-> FALSE, tree |-> staged]
        ELSE [ok |-> TRUE, tree |-> [staged EXCEPT !.lists = lists]]

Generating(g) == gen' = g.tree /\ asl' = (asl /\ ~g.ok)

Generates ==
    /\ ByHand
    /\ \E o \in Options : Generating(GenerateTo(o))
    /\ UNCHANGED <<dxe, cfg, mu, fd>>

(* sync-uefi-platform.sh: nothing without the lists; then the packages are *)
(* copied over what is there, and only then is gauguin.asl compared with   *)
(* the one it was copied from, and the patch tried.                        *)
SyncTo ==
    LET copied == [mu EXCEPT !.lists = gen.lists, !.map = gen.map, !.bins = @ \cup gen.bins]
    IN  IF ~gen.lists.ok THEN [ok |-> FALSE, tree |-> mu]
        ELSE IF asl \/ mu.base = "edited" THEN [ok |-> FALSE, tree |-> copied]
        ELSE [ok |-> TRUE, tree |-> [copied EXCEPT !.base = "patched"]]

Syncs ==
    /\ ByHand
    /\ mu' = SyncTo.tree
    /\ UNCHANGED <<dxe, cfg, asl, gen, fd>>

(* build_uefi.py: an INF without its package stops it before the volume.   *)
Buildable == /\ mu.lists.ok
             /\ (Infs(mu.lists.dxe) \cup Infs(mu.lists.apriori)) \cap Blobs \subseteq mu.bins
BuiltNow  == [lists |-> mu.lists, map |-> mu.map]

Builds ==
    /\ ByHand
    /\ Buildable
    /\ fd' = BuiltNow
    /\ UNCHANGED <<dxe, cfg, asl, gen, mu>>

-----------------------------------------------------------------------------
(* build-apriori-variant.sh.  Whatever it stops at, the trap restores.     *)
At(step)  == run.at = step
Goes(to)  == run' = [run EXCEPT !.at = to]
If(ok, to) == Goes(IF ok THEN to ELSE "restore")

Starts ==
    /\ run.at \in {"idle", "restored"}
    /\ \E e \in DOMAIN Experiments : run' = [exp |-> e, at |-> "generate", new |-> FALSE]
    /\ ready' = NotReady
    /\ UNCHANGED <<dxe, cfg, asl, gen, mu, fd>>

VariantGenerates ==
    /\ At("generate")
    /\ LET g == GenerateTo(Experiments[run.exp]) IN Generating(g) /\ If(g.ok, "sync")
    /\ UNCHANGED <<dxe, cfg, mu, fd, ready>>

VariantSyncs ==
    /\ At("sync")
    /\ LET s == SyncTo IN mu' = s.tree /\ If(s.ok, "build")
    /\ UNCHANGED <<dxe, cfg, asl, gen, fd, ready>>

(* The build writes the volume, with or without the mkbootimg complaint;   *)
(* or it ends in a way the script takes for that without having written    *)
(* it; or it fails.                                                        *)
VariantBuilds ==
    /\ At("build")
    /\ \/ Buildable /\ fd' = BuiltNow /\ run' = [run EXCEPT !.at = "artifact", !.new = TRUE]
       \/ Goes("artifact") /\ UNCHANGED fd
       \/ Goes("restore") /\ UNCHANGED fd
    /\ UNCHANGED <<dxe, cfg, asl, gen, mu, ready>>

(* Mutant: the volume only has to exist. *)
ArtifactExists == At("artifact") /\ If(fd.lists.ok, "gates")
                  /\ UNCHANGED <<dxe, cfg, asl, gen, mu, fd, ready>>
(* The artifact is what the build is judged by: its time must be later.    *)
ChecksArtifact == At("artifact") /\ If(fd.lists.ok /\ run.new, "gates")
                  /\ UNCHANGED <<dxe, cfg, asl, gen, mu, fd, ready>>

(* make_boot_image.py packs the volume, and apriori-order.py compares the  *)
(* array in the image with APRIORI.inc.                                    *)
OrderGate ==
    LET paths == Infs(gen.lists.apriori) \cup Infs(fd.lists.apriori)
    IN  OrderExit([lines  |-> gen.lists.apriori, macros |-> With(<<>>, 0).macros,
                   infs   |-> [p \in paths |-> <<p>>],
                   xref   |-> SetToSeq({[name |-> p, guid |-> p] : p \in paths}),
                   array  |-> InfOrder(With(fd.lists.apriori, 0)).out]) = 0

PassesGates ==
    /\ At("gates")
    /\ IF OrderGate
         THEN ready' = [exp |-> run.exp, have |-> gen.lists.have, map |-> gen.map, volume |-> fd]
         ELSE UNCHANGED ready
    /\ Goes("restore")
    /\ UNCHANGED <<dxe, cfg, asl, gen, mu, fd>>

(* restore: the plain generation and a sync under `set -e`, and the staged *)
(* blobs out of both trees.                                                *)
RestoreGenerates ==
    /\ At("restore")
    /\ LET g == GenerateTo(Default)
       IN  Generating(g) /\ Goes(IF g.ok THEN "restore-sync" ELSE "idle")
    /\ UNCHANGED <<dxe, cfg, mu, fd, ready>>

RestoreSyncs ==
    /\ At("restore-sync")
    /\ LET s == SyncTo IN mu' = s.tree /\ Goes(IF s.ok THEN "restore-blobs" ELSE "idle")
    /\ UNCHANGED <<dxe, cfg, asl, gen, fd, ready>>

(* Mutant: the sync is trusted to have taken them out of the checkout. *)
RemovesFromUefi ==
    /\ At("restore-blobs") /\ Goes("restored")
    /\ gen' = [gen EXCEPT !.bins = IF Experiments[run.exp].host THEN @ \ HostBlobs ELSE @]
    /\ UNCHANGED <<dxe, cfg, asl, mu, fd, ready>>
RestoreRemoves ==
    /\ At("restore-blobs") /\ Goes("restored")
    /\ IF Experiments[run.exp].host
         THEN /\ gen' = [gen EXCEPT !.bins = @ \ HostBlobs]
              /\ mu' = [mu EXCEPT !.bins = @ \ HostBlobs]
         ELSE UNCHANGED <<gen, mu>>
    /\ UNCHANGED <<dxe, cfg, asl, fd, ready>>

(* Interrupted the script still restores; killed it does not. *)
Interrupted ==
    /\ run.at \in {"generate", "sync", "build", "artifact", "gates"} /\ Goes("restore")
    /\ UNCHANGED <<dxe, cfg, asl, gen, mu, fd, ready>>

Killed ==
    /\ run.at \notin {"idle", "restored"} /\ run' = Idle
    /\ UNCHANGED <<dxe, cfg, asl, gen, mu, fd, ready>>

Variant == \/ Starts \/ VariantGenerates \/ VariantSyncs \/ VariantBuilds \/ ChecksArtifact
           \/ PassesGates \/ RestoreGenerates \/ RestoreSyncs \/ RestoreRemoves
           \/ Interrupted \/ Killed

Next == \/ Extracts \/ Packages \/ Edits \/ SavesPatch
        \/ Generates \/ Syncs \/ Builds \/ Variant

Spec == Init /\ [][Next]_vars

-----------------------------------------------------------------------------
(* Whatever was extracted and whatever was asked for, the lists leave      *)
(* nothing out in silence, name only what is there, keep the sibling's     *)
(* blobs behind their switch, and an --apriori-move moves what it names    *)
(* and nothing else (rewrite_incs, apply_apriori_moves).                   *)
ListsAreWhole == gen.lists.ok => ListsHold(gen.lists)

(* An image build-apriori-variant.sh calls ready carries the experiment,   *)
(* made of the drivers and the memory map that were generated for it,      *)
(* whatever the build, an older volume, an edit or a stop in between did.  *)
ReadyIsTheExperiment ==
    ready.exp # "none" =>
        /\ ready.volume.lists = RewriteIncs(ready.have, Experiments[ready.exp])
        /\ ready.volume.map = ready.map

(* When the script's restore has run to its end both trees hold the plain  *)
(* generation, and the blobs its experiment staged are in neither.         *)
RestoredIsDefault ==
    run.at = "restored" =>
        /\ gen.lists = RewriteIncs(dxe, Default)
        /\ mu.lists = gen.lists /\ mu.map = gen.map
        /\ Experiments[run.exp].host => (gen.bins \cup mu.bins) \cap HostBlobs = {}

(* What is read from the data is in it, for every file, row and bitmap:    *)
(* looked at once, before anything is done with them.                      *)
Untouched == dxe = {} /\ cfg = 1 /\ ~asl /\ gen.map = 0 /\ mu = Checkout /\ run = Idle

DataIsRead ==
    Untouched =>
        /\ \A f \in Files : FileReadersAgree(f) /\ HolesAreHoles(f) /\ FileDecides(f)
        /\ \A row \in Rows : VerdictIsDxeCores(row)
        /\ \A b \in Bitmaps : BitmapIsCorrected(b)

(* The build and its data: lists that are whole, and data read alike by    *)
(* every reader of it (make_uefi_platform.py).                             *)
PlatformInv == ListsAreWhole /\ DataIsRead

(* The experiments: a ready image carries its own, and a restore that ran  *)
(* to its end restores (build-apriori-variant.sh).                         *)
VariantInv == ReadyIsTheExperiment /\ RestoredIsDefault
=============================================================================
