----------------------- MODULE PlatformBuild_proofs -----------------------
(***************************************************************************)
(* Proof that an image build-apriori-variant.sh calls ready is the         *)
(* experiment it was asked for, and that a restore that ran to its end     *)
(* leaves the plain generation in both trees - for every set of drivers,   *)
(* option and experiment, whatever is edited, interrupted or killed        *)
(* (VariantHolds); and that the lists of drivers the generator makes are   *)
(* whole and the readers of its data agree, for every reference board,     *)
(* table of drivers, set of blobs, option, file, row and bitmap that the   *)
(* assumptions of the modules admit (PlatformHolds).                       *)
(***************************************************************************)
EXTENDS PlatformBuild, SequenceTheorems, FiniteSetTheorems, WellFoundedInduction, TLAPS

(* RewriteIncs is not looked into, but for what it says it was made of. *)
LEMMA ListsSayTheirDrivers ==
    ASSUME NEW have, NEW o PROVE RewriteIncs(have, o).have = have
BY DEF RewriteIncs

(* The lists in the generated tree are those of an option. *)
Made(lists, o) == lists = RewriteIncs(lists.have, o)

-----------------------------------------------------------------------------
(* What the script is up to. *)
RunTyped   == {"exp", "at", "new"} \subseteq DOMAIN run /\ run.new \in BOOLEAN
TreesTyped == {"lists", "map", "bins"} \subseteq DOMAIN gen /\ {"lists", "map", "bins", "base"} \subseteq DOMAIN mu

Same == mu.lists = gen.lists /\ mu.map = gen.map

(* Forward: the trees hold the experiment as far as the script has come,   *)
(* and the volume does once its time is later than the script's.           *)
ForwardInv ==
    /\ run.at \in {"generate", "sync", "build"} => ~run.new
    /\ run.at \in {"sync", "build", "artifact", "gates"} => Made(gen.lists, Experiments[run.exp])
    /\ run.at \in {"build", "artifact", "gates"} => Same
    /\ run.at \in {"artifact", "gates"} /\ run.new => fd.lists = mu.lists /\ fd.map = mu.map
    /\ run.at = "gates" => run.new

(* Back: so do they hold the plain generation on the way of the restore.   *)
BackInv ==
    /\ run.at \in {"restore-sync", "restore-blobs", "restored"} => gen.lists = RewriteIncs(dxe, Default)
    /\ run.at \in {"restore-blobs", "restored"} => Same
    /\ run.at = "restored" /\ Experiments[run.exp].host => (gen.bins \cup mu.bins) \cap HostBlobs = {}

(* The inductive invariant. *)
IInv == RunTyped /\ TreesTyped /\ ForwardInv /\ BackInv /\ ReadyIsTheExperiment

-----------------------------------------------------------------------------
(* Nothing is generated, built or ready. *)
LEMMA Start == Init => IInv
<1> SUFFICES ASSUME Init PROVE IInv
  OBVIOUS
<1>1. /\ gen = [lists |-> NoLists, map |-> 0, bins |-> {}] /\ mu = Checkout /\ run = Idle /\ ready = NotReady
  BY DEF Init
<1>2. run.at = "idle" /\ run.new = FALSE /\ ready.exp = "none"
  BY <1>1 DEF Idle, NotReady
<1>3. RunTyped
  <2>1. run.new \in BOOLEAN
    BY <1>2
  <2> QED
    BY <1>1, <2>1 DEF RunTyped, Idle
<1>4. TreesTyped
  BY <1>1 DEF TreesTyped, Checkout
<1> QED
  BY <1>2, <1>3, <1>4 DEF IInv, ForwardInv, BackInv, ReadyIsTheExperiment

(* The script is not at work: whatever the trees become, it says nothing.  *)
LEMMA IdleStep ==
    ASSUME IInv, ByHand, TreesTyped'
    PROVE  IInv'
<1>1. run' = Idle /\ ready' = NotReady
  BY DEF ByHand
<1>2. run'.at = "idle" /\ run'.new = FALSE /\ ready'.exp = "none"
  BY <1>1 DEF Idle, NotReady
<1>3. RunTyped'
  <2>1. run'.new \in BOOLEAN
    BY <1>2
  <2> QED
    BY <1>1, <2>1 DEF RunTyped, Idle
<1> QED
  BY <1>2, <1>3 DEF IInv, ForwardInv, BackInv, ReadyIsTheExperiment

(* Where the generator may have come to, and what it makes of a tree.      *)
LEMMA GeneratedIs ==
    ASSUME TreesTyped, NEW o
    PROVE  /\ {"lists", "map", "bins"} \subseteq DOMAIN GenerateTo(o).tree
           /\ GenerateTo(o).ok =>
                /\ Made(GenerateTo(o).tree.lists, o)
                /\ ~o.host => GenerateTo(o).tree.lists = RewriteIncs(dxe, o)
<1> DEFINE mapped == [gen EXCEPT !.map = cfg]
           staged == [mapped EXCEPT !.bins = IF o.host THEN @ \cup HostBlobs ELSE @]
           lists  == RewriteIncs(IF o.host THEN dxe \cup HostBlobs ELSE dxe, o)
           done   == [staged EXCEPT !.lists = lists]
           g      == GenerateTo(o)
<1>1. g = IF dxe = {} THEN [ok |-> FALSE, tree |-> mapped]
          ELSE IF ~lists.ok THEN [ok |-> FALSE, tree |-> staged]
          ELSE [ok |-> TRUE, tree |-> done]
  BY DEF GenerateTo
<1>2. DOMAIN mapped = DOMAIN gen /\ DOMAIN staged = DOMAIN gen /\ DOMAIN done = DOMAIN gen
  OBVIOUS
<1>3. done.lists = lists
  <2>1. "lists" \in DOMAIN staged
    BY <1>2 DEF TreesTyped
  <2> HIDE DEF staged, lists
  <2> QED
    BY <2>1
<1>4. Made(lists, o)
  BY ListsSayTheirDrivers DEF Made
<1>5. ~o.host => lists = RewriteIncs(dxe, o)
  OBVIOUS
<1> HIDE DEF mapped, staged, lists, done, g
<1>6. {"lists", "map", "bins"} \subseteq DOMAIN g.tree
  BY <1>1, <1>2 DEF TreesTyped
<1>7. g.ok => g.tree.lists = lists
  BY <1>1, <1>3
<1> QED
  BY <1>4, <1>5, <1>6, <1>7 DEF g

(* A sync that goes through has copied the lists and the map.              *)
LEMMA SyncedIs ==
    ASSUME TreesTyped
    PROVE  /\ {"lists", "map", "bins", "base"} \subseteq DOMAIN SyncTo.tree
           /\ SyncTo.ok => SyncTo.tree.lists = gen.lists /\ SyncTo.tree.map = gen.map
<1> DEFINE copied  == [mu EXCEPT !.lists = gen.lists, !.map = gen.map, !.bins = @ \cup gen.bins]
           patched == [copied EXCEPT !.base = "patched"]
<1>1. SyncTo = IF ~gen.lists.ok THEN [ok |-> FALSE, tree |-> mu]
               ELSE IF asl \/ mu.base = "edited" THEN [ok |-> FALSE, tree |-> copied]
               ELSE [ok |-> TRUE, tree |-> patched]
  BY DEF SyncTo
<1>2. DOMAIN copied = DOMAIN mu /\ DOMAIN patched = DOMAIN mu
  OBVIOUS
<1>3. copied.lists = gen.lists /\ copied.map = gen.map
  BY DEF TreesTyped
<1>4. patched.lists = copied.lists /\ patched.map = copied.map
  <2>1. "lists" \in DOMAIN copied /\ "map" \in DOMAIN copied
    BY <1>2 DEF TreesTyped
  <2> HIDE DEF copied
  <2> QED
    BY <2>1
<1> HIDE DEF copied, patched
<1> QED
  BY <1>1, <1>2, <1>3, <1>4 DEF TreesTyped

-----------------------------------------------------------------------------
(* What somebody does by hand, and the edits at any time. *)
LEMMA HandStep ==
    ASSUME IInv, Extracts \/ Packages \/ SavesPatch \/ Generates \/ Syncs \/ Builds
    PROVE  IInv'
<1>0. TreesTyped
  BY DEF IInv
<1>1. CASE Extracts
  <2>1. ByHand /\ UNCHANGED <<gen, mu>>
    BY <1>1 DEF Extracts
  <2> QED
    BY <1>0, <2>1, IdleStep DEF TreesTyped
<1>2. CASE Packages
  <2>1. ByHand /\ gen' = [gen EXCEPT !.bins = @ \cup dxe] /\ mu' = mu
    BY <1>2 DEF Packages
  <2>2. TreesTyped'
    BY <1>0, <2>1 DEF TreesTyped
  <2> QED
    BY <2>1, <2>2, IdleStep
<1>3. CASE SavesPatch
  <2>1. ByHand /\ mu' = [mu EXCEPT !.base = "patched"] /\ gen' = gen
    BY <1>3 DEF SavesPatch
  <2>2. TreesTyped'
    BY <1>0, <2>1 DEF TreesTyped
  <2> QED
    BY <2>1, <2>2, IdleStep
<1>4. CASE Generates
  <2>1. PICK o \in Options : gen' = GenerateTo(o).tree
    BY <1>4 DEF Generates, Generating
  <2>2. ByHand /\ mu' = mu
    BY <1>4 DEF Generates
  <2>3. TreesTyped'
    <3>1. {"lists", "map", "bins"} \subseteq DOMAIN gen'
      BY <1>0, <2>1, GeneratedIs
    <3> QED
      BY <1>0, <2>2, <3>1 DEF TreesTyped
  <2> QED
    BY <2>2, <2>3, IdleStep
<1>5. CASE Syncs
  <2>1. ByHand /\ mu' = SyncTo.tree /\ gen' = gen
    BY <1>5 DEF Syncs
  <2>2. TreesTyped'
    <3>1. {"lists", "map", "bins", "base"} \subseteq DOMAIN mu'
      BY <1>0, <2>1, SyncedIs
    <3> QED
      BY <1>0, <2>1, <3>1 DEF TreesTyped
  <2> QED
    BY <2>1, <2>2, IdleStep
<1>6. CASE Builds
  <2>1. ByHand /\ UNCHANGED <<gen, mu>>
    BY <1>6 DEF Builds
  <2> QED
    BY <1>0, <2>1, IdleStep DEF TreesTyped
<1> QED
  BY <1>1, <1>2, <1>3, <1>4, <1>5, <1>6

(* An edit of a source leaves the trees that were made of it. *)
LEMMA EditsStep == ASSUME IInv, Edits PROVE IInv'
<1>1. UNCHANGED <<dxe, gen, fd, run, ready>> /\ (mu' = mu \/ mu' = [mu EXCEPT !.base = "edited"])
  BY DEF Edits
<1>2. RunTyped /\ TreesTyped /\ ForwardInv /\ BackInv /\ ReadyIsTheExperiment
  BY DEF IInv
<1>3. /\ DOMAIN mu' = DOMAIN mu
      /\ mu'.lists = mu.lists /\ mu'.map = mu.map /\ mu'.bins = mu.bins
  BY <1>1, <1>2 DEF TreesTyped
<1>4. RunTyped' /\ TreesTyped'
  BY <1>1, <1>2, <1>3 DEF RunTyped, TreesTyped
<1>5. ForwardInv'
  BY <1>1, <1>2, <1>3 DEF ForwardInv, Same, Made
<1>6. BackInv'
  BY <1>1, <1>2, <1>3 DEF BackInv, Same
<1>7. ReadyIsTheExperiment'
  BY <1>1, <1>2 DEF ReadyIsTheExperiment
<1> QED
  BY <1>4, <1>5, <1>6, <1>7 DEF IInv

(* One step of the script, to a place it names. *)
LEMMA GoesTo ==
    ASSUME RunTyped, NEW to, Goes(to)
    PROVE  RunTyped' /\ run'.at = to /\ run'.exp = run.exp /\ run'.new = run.new
BY DEF Goes, RunTyped

-----------------------------------------------------------------------------
(* One lemma per step of the script; each names where it goes.             *)
LEMMA StartsStep == ASSUME IInv, Starts PROVE IInv'
<1>1. PICK e \in DOMAIN Experiments : run' = [exp |-> e, at |-> "generate", new |-> FALSE]
  BY DEF Starts
<1>2. ready' = NotReady /\ UNCHANGED <<dxe, gen, mu, fd>>
  BY DEF Starts
<1>3. run'.at = "generate" /\ run'.new = FALSE /\ {"exp", "at", "new"} \subseteq DOMAIN run' /\ ready'.exp = "none"
  BY <1>1, <1>2 DEF NotReady
<1>4. run'.new \in BOOLEAN
  BY <1>3
<1> QED
  BY <1>2, <1>3, <1>4 DEF IInv, RunTyped, TreesTyped, ForwardInv, BackInv, ReadyIsTheExperiment

(* The generator: what it has made is the experiment's. *)
LEMMA VariantGeneratesStep == ASSUME IInv, VariantGenerates PROVE IInv'
<1> DEFINE g  == GenerateTo(Experiments[run.exp])
           to == IF g.ok THEN "sync" ELSE "restore"
<1>1. run.at = "generate" /\ gen' = g.tree /\ Goes(to) /\ UNCHANGED <<dxe, mu, fd, ready>>
  BY DEF VariantGenerates, Generating, At, If
<1>2. RunTyped /\ TreesTyped /\ ForwardInv /\ BackInv /\ ReadyIsTheExperiment
  BY DEF IInv
<1>3. RunTyped' /\ run'.at = to /\ run'.exp = run.exp /\ run'.new = run.new
  BY <1>1, <1>2, GoesTo
<1>4. /\ {"lists", "map", "bins"} \subseteq DOMAIN g.tree
      /\ g.ok => Made(g.tree.lists, Experiments[run.exp])
  <2> DEFINE o == Experiments[run.exp]
  <2> HIDE DEF o
  <2>1. /\ {"lists", "map", "bins"} \subseteq DOMAIN GenerateTo(o).tree
        /\ GenerateTo(o).ok => Made(GenerateTo(o).tree.lists, o)
    BY <1>2, GeneratedIs
  <2> QED
    BY <2>1 DEF o
<1> HIDE DEF g
<1>5. TreesTyped'
  BY <1>1, <1>2, <1>4 DEF TreesTyped
<1>6. ForwardInv'
  BY <1>1, <1>2, <1>3, <1>4 DEF ForwardInv, Made
<1>7. BackInv'
  BY <1>3 DEF BackInv
<1>8. ReadyIsTheExperiment'
  BY <1>1, <1>2 DEF ReadyIsTheExperiment
<1> QED
  BY <1>3, <1>5, <1>6, <1>7, <1>8 DEF IInv

(* The sync: the checkout holds the same. *)
LEMMA VariantSyncsStep == ASSUME IInv, VariantSyncs PROVE IInv'
<1> DEFINE to == IF SyncTo.ok THEN "build" ELSE "restore"
<1>1. run.at = "sync" /\ mu' = SyncTo.tree /\ Goes(to) /\ UNCHANGED <<dxe, gen, fd, ready>>
  BY DEF VariantSyncs, At, If
<1>2. RunTyped /\ TreesTyped /\ ForwardInv /\ BackInv /\ ReadyIsTheExperiment
  BY DEF IInv
<1>3. RunTyped' /\ run'.at = to /\ run'.exp = run.exp /\ run'.new = run.new
  BY <1>1, <1>2, GoesTo
<1>4. /\ {"lists", "map", "bins", "base"} \subseteq DOMAIN SyncTo.tree
      /\ SyncTo.ok => SyncTo.tree.lists = gen.lists /\ SyncTo.tree.map = gen.map
  BY <1>2, SyncedIs
<1>5. TreesTyped'
  BY <1>1, <1>2, <1>4 DEF TreesTyped
<1>6. ForwardInv'
  BY <1>1, <1>2, <1>3, <1>4 DEF ForwardInv, Made, Same
<1>7. BackInv'
  BY <1>3 DEF BackInv
<1>8. ReadyIsTheExperiment'
  BY <1>1, <1>2 DEF ReadyIsTheExperiment
<1> QED
  BY <1>3, <1>5, <1>6, <1>7, <1>8 DEF IInv

(* The build: a volume it has written is of the checkout. *)
LEMMA VariantBuildsStep == ASSUME IInv, VariantBuilds PROVE IInv'
<1>1. run.at = "build" /\ UNCHANGED <<dxe, gen, mu, ready>>
  BY DEF VariantBuilds, At
<1>2. RunTyped /\ TreesTyped /\ ForwardInv /\ BackInv /\ ReadyIsTheExperiment
  BY DEF IInv
<1>3. CASE fd' = BuiltNow /\ run' = [run EXCEPT !.at = "artifact", !.new = TRUE]
  <2>1. /\ {"exp", "at", "new"} \subseteq DOMAIN run'
        /\ run'.at = "artifact" /\ run'.exp = run.exp /\ run'.new = TRUE
    BY <1>2, <1>3 DEF RunTyped
  <2>2. run'.new \in BOOLEAN
    BY <2>1
  <2>3. fd'.lists = mu.lists /\ fd'.map = mu.map
    BY <1>3 DEF BuiltNow
  <2>4. ForwardInv'
    BY <1>1, <1>2, <2>1, <2>3 DEF ForwardInv, Made, Same
  <2> QED
    BY <1>1, <1>2, <2>1, <2>2, <2>4 DEF IInv, RunTyped, TreesTyped, BackInv, ReadyIsTheExperiment
<1>4. ASSUME NEW to \in {"artifact", "restore"}, Goes(to), fd' = fd PROVE IInv'
  <2>1. RunTyped' /\ run'.at = to /\ run'.exp = run.exp /\ run'.new = run.new
    BY <1>2, <1>4, GoesTo
  <2>2. ~run'.new
    BY <1>1, <1>2, <2>1 DEF ForwardInv
  <2>3. ForwardInv'
    BY <1>1, <1>2, <1>4, <2>1, <2>2 DEF ForwardInv, Made, Same
  <2> QED
    BY <1>1, <1>2, <2>1, <2>3, <1>4 DEF IInv, TreesTyped, BackInv, ReadyIsTheExperiment
<1> QED
  BY <1>3, <1>4 DEF VariantBuilds

(* The artifact: it goes on with a volume that is new. *)
LEMMA ChecksArtifactStep == ASSUME IInv, ChecksArtifact PROVE IInv'
<1> DEFINE to == IF fd.lists.ok /\ run.new THEN "gates" ELSE "restore"
<1>1. run.at = "artifact" /\ Goes(to) /\ UNCHANGED <<dxe, gen, mu, fd, ready>>
  BY DEF ChecksArtifact, At, If
<1>2. RunTyped /\ TreesTyped /\ ForwardInv /\ BackInv /\ ReadyIsTheExperiment
  BY DEF IInv
<1>3. RunTyped' /\ run'.at = to /\ run'.exp = run.exp /\ run'.new = run.new
  BY <1>1, <1>2, GoesTo
<1>4. ForwardInv'
  BY <1>1, <1>2, <1>3 DEF ForwardInv, Made, Same
<1>5. BackInv'
  BY <1>3 DEF BackInv
<1> QED
  BY <1>1, <1>2, <1>3, <1>4, <1>5 DEF IInv, TreesTyped, ReadyIsTheExperiment

(* The gates: what is called ready is in front of them. *)
LEMMA PassesGatesStep == ASSUME IInv, PassesGates PROVE IInv'
<1>1. run.at = "gates" /\ Goes("restore") /\ UNCHANGED <<dxe, gen, mu, fd>>
  BY DEF PassesGates, At
<1>2. RunTyped /\ TreesTyped /\ ForwardInv /\ BackInv /\ ReadyIsTheExperiment
  BY DEF IInv
<1>3. RunTyped' /\ run'.at = "restore" /\ run'.exp = run.exp /\ run'.new = run.new
  BY <1>1, <1>2, GoesTo
<1>4. ForwardInv' /\ BackInv'
  BY <1>1, <1>2, <1>3 DEF ForwardInv, BackInv
<1>5. \/ ready' = ready
      \/ ready' = [exp |-> run.exp, have |-> gen.lists.have, map |-> gen.map, volume |-> fd]
  BY DEF PassesGates
(* The volume is the checkout's lists, and these the experiment's. *)
<1>6. fd.lists = RewriteIncs(gen.lists.have, Experiments[run.exp]) /\ fd.map = gen.map
  BY <1>1, <1>2 DEF ForwardInv, Made, Same
<1>7. ReadyIsTheExperiment'
  <2>1. CASE ready' = ready
    BY <1>2, <2>1 DEF ReadyIsTheExperiment
  <2>2. CASE ready' = [exp |-> run.exp, have |-> gen.lists.have, map |-> gen.map, volume |-> fd]
    <3>1. ready'.exp = run.exp /\ ready'.have = gen.lists.have /\ ready'.map = gen.map /\ ready'.volume = fd
      BY <2>2
    <3> QED
      BY <1>6, <3>1 DEF ReadyIsTheExperiment
  <2> QED
    BY <1>5, <2>1, <2>2
<1> QED
  BY <1>1, <1>2, <1>3, <1>4, <1>7 DEF IInv, TreesTyped

(* The restore: the plain generation. *)
LEMMA RestoreGeneratesStep == ASSUME IInv, RestoreGenerates PROVE IInv'
<1> DEFINE g  == GenerateTo(Default)
           to == IF g.ok THEN "restore-sync" ELSE "idle"
<1>1. run.at = "restore" /\ gen' = g.tree /\ Goes(to) /\ UNCHANGED <<dxe, mu, fd, ready>>
  BY DEF RestoreGenerates, Generating, At
<1>2. RunTyped /\ TreesTyped /\ ForwardInv /\ BackInv /\ ReadyIsTheExperiment
  BY DEF IInv
<1>3. RunTyped' /\ run'.at = to /\ run'.exp = run.exp /\ run'.new = run.new
  BY <1>1, <1>2, GoesTo
<1>4. /\ {"lists", "map", "bins"} \subseteq DOMAIN g.tree
      /\ g.ok => g.tree.lists = RewriteIncs(dxe, Default)
  <2>1. ~Default.host
    BY DEF Default
  <2> QED
    BY <1>2, <2>1, GeneratedIs
<1> HIDE DEF g
<1>5. TreesTyped'
  BY <1>1, <1>2, <1>4 DEF TreesTyped
<1>6. ForwardInv'
  BY <1>3 DEF ForwardInv
<1>7. BackInv'
  BY <1>1, <1>3, <1>4 DEF BackInv
<1>8. ReadyIsTheExperiment'
  BY <1>1, <1>2 DEF ReadyIsTheExperiment
<1> QED
  BY <1>3, <1>5, <1>6, <1>7, <1>8 DEF IInv

(* And its sync. *)
LEMMA RestoreSyncsStep == ASSUME IInv, RestoreSyncs PROVE IInv'
<1> DEFINE to == IF SyncTo.ok THEN "restore-blobs" ELSE "idle"
<1>1. run.at = "restore-sync" /\ mu' = SyncTo.tree /\ Goes(to) /\ UNCHANGED <<dxe, gen, fd, ready>>
  BY DEF RestoreSyncs, At
<1>2. RunTyped /\ TreesTyped /\ ForwardInv /\ BackInv /\ ReadyIsTheExperiment
  BY DEF IInv
<1>3. RunTyped' /\ run'.at = to /\ run'.exp = run.exp /\ run'.new = run.new
  BY <1>1, <1>2, GoesTo
<1>4. /\ {"lists", "map", "bins", "base"} \subseteq DOMAIN SyncTo.tree
      /\ SyncTo.ok => SyncTo.tree.lists = gen.lists /\ SyncTo.tree.map = gen.map
  BY <1>2, SyncedIs
<1>5. TreesTyped'
  BY <1>1, <1>2, <1>4 DEF TreesTyped
<1>6. ForwardInv'
  BY <1>3 DEF ForwardInv
<1>7. BackInv'
  BY <1>1, <1>2, <1>3, <1>4 DEF BackInv, Same
<1>8. ReadyIsTheExperiment'
  BY <1>1, <1>2 DEF ReadyIsTheExperiment
<1> QED
  BY <1>3, <1>5, <1>6, <1>7, <1>8 DEF IInv

(* The last of the restore, behind a sync that went through. *)
LEMMA RestoreRemovesStep == ASSUME IInv, RestoreRemoves PROVE IInv'
<1>1. /\ run.at = "restore-blobs" /\ Goes("restored") /\ UNCHANGED <<dxe, fd, ready>>
      /\ IF Experiments[run.exp].host
           THEN gen' = [gen EXCEPT !.bins = @ \ HostBlobs] /\ mu' = [mu EXCEPT !.bins = @ \ HostBlobs]
           ELSE UNCHANGED <<gen, mu>>
  BY DEF RestoreRemoves, At
<1>2. RunTyped /\ TreesTyped /\ ForwardInv /\ BackInv /\ ReadyIsTheExperiment
  BY DEF IInv
<1>3. RunTyped' /\ run'.at = "restored" /\ run'.exp = run.exp /\ run'.new = run.new
  BY <1>1, <1>2, GoesTo
<1>4. /\ TreesTyped' /\ gen'.lists = gen.lists /\ gen'.map = gen.map /\ mu'.lists = mu.lists /\ mu'.map = mu.map
      /\ Experiments[run.exp].host => (gen'.bins \cup mu'.bins) \cap HostBlobs = {}
  <2>1. CASE Experiments[run.exp].host
    <3>1. gen'.bins = gen.bins \ HostBlobs /\ mu'.bins = mu.bins \ HostBlobs
      BY <1>1, <1>2, <2>1 DEF TreesTyped
    <3>2. (gen'.bins \cup mu'.bins) \cap HostBlobs = {}
      BY <3>1
    <3>3. gen'.lists = gen.lists /\ gen'.map = gen.map /\ DOMAIN gen' = DOMAIN gen
      BY <1>1, <1>2, <2>1 DEF TreesTyped
    <3>4. mu'.lists = mu.lists /\ mu'.map = mu.map /\ DOMAIN mu' = DOMAIN mu
      BY <1>1, <1>2, <2>1 DEF TreesTyped
    <3> QED
      BY <1>2, <3>2, <3>3, <3>4 DEF TreesTyped
  <2>2. CASE ~Experiments[run.exp].host
    BY <1>1, <1>2, <2>2 DEF TreesTyped
  <2> QED
    BY <2>1, <2>2
<1>5. ForwardInv'
  BY <1>3 DEF ForwardInv
<1>6. BackInv'
  BY <1>1, <1>2, <1>3, <1>4 DEF BackInv, Same
<1>7. ReadyIsTheExperiment'
  BY <1>1, <1>2 DEF ReadyIsTheExperiment
<1> QED
  BY <1>3, <1>4, <1>5, <1>6, <1>7 DEF IInv

(* Interrupted it restores, killed it does not. *)
LEMMA StopsStep == ASSUME IInv, Interrupted \/ Killed PROVE IInv'
<1>1. UNCHANGED <<dxe, gen, mu, fd, ready>>
  BY DEF Interrupted, Killed
<1>2. RunTyped /\ TreesTyped /\ ReadyIsTheExperiment
  BY DEF IInv
<1>3. RunTyped' /\ run'.at \in {"restore", "idle"}
  <2>1. CASE Interrupted
    <3>1. Goes("restore")
      BY <2>1 DEF Interrupted
    <3> QED
      BY <1>2, <3>1, GoesTo
  <2>2. CASE Killed
    <3>1. run' = Idle
      BY <2>2 DEF Killed
    <3>2. run'.new \in BOOLEAN /\ run'.at = "idle" /\ {"exp", "at", "new"} \subseteq DOMAIN run'
      BY <3>1 DEF Idle
    <3> QED
      BY <3>2 DEF RunTyped
  <2> QED
    BY <2>1, <2>2
<1> QED
  BY <1>1, <1>2, <1>3 DEF IInv, TreesTyped, ForwardInv, BackInv, ReadyIsTheExperiment

-----------------------------------------------------------------------------
(* Every step keeps the invariant. *)
LEMMA Step == ASSUME IInv, [Next]_vars PROVE IInv'
<1>1. ASSUME UNCHANGED vars PROVE IInv'
  <2>1. UNCHANGED <<dxe, gen, mu, fd, run, ready>>
    BY <1>1 DEF vars
  <2> QED
    BY <2>1 DEF IInv, RunTyped, TreesTyped, ForwardInv, BackInv, ReadyIsTheExperiment, Made, Same
<1> QED
  BY <1>1, HandStep, EditsStep, StartsStep, VariantGeneratesStep, VariantSyncsStep, VariantBuildsStep,
     ChecksArtifactStep, PassesGatesStep, RestoreGeneratesStep, RestoreSyncsStep, RestoreRemovesStep,
     StopsStep DEF Next, Variant

(* build-apriori-variant.sh: an image called ready is the experiment it    *)
(* was asked for, whatever the build, an older volume, an edit or a stop   *)
(* did in between; and a restore that ran to its end leaves the plain      *)
(* generation in both trees, without the blobs the experiment staged       *)
(* (VariantInv).                                                           *)
THEOREM VariantHolds == Spec => []VariantInv
<1>1. Spec => []IInv
  BY Start, Step, PTL DEF Spec
<1>2. IInv => VariantInv
  BY DEF IInv, BackInv, Same, RestoredIsDefault, VariantInv
<1> QED
  BY <1>1, <1>2, PTL

-----------------------------------------------------------------------------
(* Tools for folds: induction, ranks, and what is picked of a list. *)

(* Induction, from the order of the naturals: every set of them has a      *)
(* least element, so one that grows by one from 0 is all of them.          *)
LEMMA LeastOfNaturals ==
    ASSUME NEW S \in SUBSET Nat, S # {}
    PROVE  \E n \in S : \A m \in S : n <= m
<1> DEFINE less == OpToRel(<, Nat)
<1>1. IsWellFoundedOn(less, Nat)
  BY NatLessThanWellFounded
<1>2. \A i, j \in Nat : i < j => <<i, j>> \in less
  BY DEF OpToRel
<1> HIDE DEF less
<1>3. PICK n \in S : \A m \in S : ~ (<<m, n>> \in less)
  BY <1>1, WFMin
<1>4. \A m \in S : m \in Nat /\ n \in Nat /\ ~(m < n)
  BY <1>2, <1>3
<1> QED BY <1>3, <1>4

(* What holds of 0 and of every next number holds of all. *)
LEMMA Induction ==
    ASSUME NEW S \in SUBSET Nat, 0 \in S, \A n \in S : n + 1 \in S
    PROVE  S = Nat
<1> SUFFICES ASSUME Nat \ S # {} PROVE FALSE
  OBVIOUS
<1>1. Nat \ S \in SUBSET Nat
  OBVIOUS
<1>2. PICK n \in Nat \ S : \A m \in Nat \ S : n <= m
  BY <1>1, LeastOfNaturals
<1>3. n # 0 /\ n - 1 \in Nat /\ (n - 1) + 1 = n
  BY <1>2
<1>4. n - 1 \in S
  BY <1>2, <1>3
<1> QED BY <1>2, <1>3, <1>4

(* The greatest number of a set of indices, as the folds use it. *)
LEMMA MaxOf ==
    ASSUME NEW n \in Nat, NEW s \in SUBSET (1..n), s # {}
    PROVE  Max(s) \in s /\ \A x \in s : x <= Max(s)
<1> DEFINE above == {u \in Nat : \A x \in s : x <= u}
<1>1. n \in above
  OBVIOUS
<1>2. PICK u \in above : \A v \in above : u <= v
  BY <1>1, LeastOfNaturals
<1>3. u \in s
  <2> SUFFICES ASSUME u \notin s PROVE FALSE
    OBVIOUS
  <2>1. \A x \in s : x \in Nat /\ x >= 1 /\ x <= u /\ x # u
    BY <1>2
  <2>2. u - 1 \in Nat
    <3>1. PICK x \in s : TRUE
      OBVIOUS
    <3>2. x \in Nat /\ x >= 1 /\ x <= u /\ u \in Nat
      BY <1>2, <2>1
    <3> QED BY <3>2
  <2>3. \A x \in s : x <= u - 1
    BY <1>2, <2>1
  <2>4. u - 1 \in above
    BY <2>2, <2>3
  <2> QED BY <1>2, <2>4
<1>4. \A x \in s : u >= x
  BY <1>2
<1>5. Max(s) \in s /\ \A x \in s : Max(s) >= x
  BY <1>3, <1>4 DEF Max
<1> QED BY <1>5

(* ... and of the first k. *)
LEMMA MaxOfRun ==
    ASSUME NEW k \in Nat \ {0}
    PROVE  Max(1..k) = k /\ (1..k) \ {Max(1..k)} = 1..(k - 1)
<1>1. 1..k \in SUBSET (1..k) /\ k \in 1..k
  OBVIOUS
<1>2. Max(1..k) \in 1..k /\ k <= Max(1..k)
  BY <1>1, MaxOf
<1>3. Max(1..k) = k
  BY <1>2
<1> QED BY <1>3

(* The recursion of a fold has a solution: G[k] is what its k-th step does. *)
Solves(f, A, base, G, m) ==
    /\ f \in [SUBSET (1..m) -> A]
    /\ \A s \in SUBSET (1..m) : f[s] = IF s = {} THEN base ELSE G[Max(s)][f[s \ {Max(s)}]]

(* A fold over nothing has a graph. *)
LEMMA FoldStarts ==
    ASSUME NEW A, NEW base \in A, NEW G
    PROVE  \E f : Solves(f, A, base, G, 0)
<1> DEFINE f == [s \in SUBSET (1..0) |-> base]
<1>1. \A s \in SUBSET (1..0) : s = {}
  OBVIOUS
<1>2. f \in [SUBSET (1..0) -> A] /\ \A s \in SUBSET (1..0) : f[s] = base
  OBVIOUS
<1> HIDE DEF f
<1>3. Solves(f, A, base, G, 0)
  BY <1>1, <1>2 DEF Solves
<1> QED BY <1>3

(* ... over one element more too. *)
LEMMA FoldGoesOn ==
    ASSUME NEW A, NEW n \in Nat, NEW m \in 0..(n - 1), NEW base \in A, NEW G \in [1..n -> [A -> A]],
           NEW g, Solves(g, A, base, G, m)
    PROVE  \E f : Solves(f, A, base, G, m + 1)
<1> DEFINE f == [s \in SUBSET (1..(m + 1)) |-> IF m + 1 \in s THEN G[m + 1][g[s \ {m + 1}]] ELSE g[s]]
<1>1. m \in Nat /\ m + 1 \in Nat /\ m + 1 \in 1..n
  OBVIOUS
<1>2. \A s \in SUBSET (1..(m + 1)) : s \ {m + 1} \in SUBSET (1..m) /\ (m + 1 \notin s => s \in SUBSET (1..m))
  BY <1>1
<1>3. /\ g \in [SUBSET (1..m) -> A]
      /\ \A s \in SUBSET (1..m) : g[s] = IF s = {} THEN base ELSE G[Max(s)][g[s \ {Max(s)}]]
  BY DEF Solves
<1>4. \A s \in SUBSET (1..(m + 1)) : f[s] = IF m + 1 \in s THEN G[m + 1][g[s \ {m + 1}]] ELSE g[s]
  OBVIOUS
<1>5. f \in [SUBSET (1..(m + 1)) -> A]
  <2>1. \A s \in SUBSET (1..(m + 1)) : (IF m + 1 \in s THEN G[m + 1][g[s \ {m + 1}]] ELSE g[s]) \in A
    BY <1>1, <1>2, <1>3
  <2> QED BY <2>1
<1> HIDE DEF f
<1>6. ASSUME NEW s \in SUBSET (1..(m + 1)), s # {} PROVE f[s] = G[Max(s)][f[s \ {Max(s)}]]
  <2>1. Max(s) \in s /\ \A x \in s : x <= Max(s)
    BY <1>1, <1>6, MaxOf
  <2>2. CASE m + 1 \in s
    <3>1. Max(s) = m + 1
      <4>1. Max(s) \in 1..(m + 1) /\ m + 1 <= Max(s)
        BY <2>1, <2>2
      <4> QED BY <1>1, <4>1
    <3>2. m + 1 \notin s \ {m + 1} /\ s \ {m + 1} \in SUBSET (1..(m + 1))
      OBVIOUS
    <3>3. f[s \ {m + 1}] = g[s \ {m + 1}]
      BY <1>4, <3>2
    <3> QED BY <1>4, <2>2, <3>1, <3>3
  <2>3. CASE m + 1 \notin s
    <3>1. s \in SUBSET (1..m) /\ s \ {Max(s)} \in SUBSET (1..(m + 1)) /\ m + 1 \notin s \ {Max(s)}
      BY <1>2, <2>3
    <3>2. f[s] = g[s] /\ f[s \ {Max(s)}] = g[s \ {Max(s)}]
      BY <1>4, <2>3, <3>1
    <3>3. g[s] = G[Max(s)][g[s \ {Max(s)}]]
      BY <1>3, <1>6, <3>1
    <3> QED BY <3>2, <3>3
  <2> QED BY <2>2, <2>3
<1>7. f[{}] = base
  <2>1. {} \in SUBSET (1..(m + 1)) /\ m + 1 \notin {} /\ {} \in SUBSET (1..m)
    OBVIOUS
  <2>2. g[{}] = base
    BY <1>3, <2>1
  <2> QED BY <1>4, <2>1, <2>2
<1>8. Solves(f, A, base, G, m + 1)
  BY <1>5, <1>6, <1>7 DEF Solves
<1> QED BY <1>8

(* ... and over any list, as long as its steps stay within A. *)
LEMMA FoldGraph ==
    ASSUME NEW A, NEW n \in Nat, NEW base \in A, NEW G \in [1..n -> [A -> A]]
    PROVE  \E f : Solves(f, A, base, G, n)
<1> DEFINE S == {m \in Nat : m <= n => \E f : Solves(f, A, base, G, m)}
<1>1. 0 \in S
  BY FoldStarts
<1>2. ASSUME NEW m \in S PROVE m + 1 \in S
  <2>1. m \in Nat /\ m + 1 \in Nat
    OBVIOUS
  <2>2. CASE m + 1 <= n
    <3>1. m \in 0..(n - 1) /\ \E g : Solves(g, A, base, G, m)
      BY <2>1, <2>2
    <3>2. \E f : Solves(f, A, base, G, m + 1)
      BY <3>1, FoldGoesOn
    <3> QED BY <2>1, <3>2
  <2> QED BY <2>1, <2>2
<1>3. S \in SUBSET Nat
  OBVIOUS
<1> HIDE DEF S
<1>4. S = Nat
  BY <1>1, <1>2, <1>3, Induction
<1>5. n \in S
  BY <1>4
<1> QED BY <1>5 DEF S

-----------------------------------------------------------------------------
(* Those of T among the first k, and how many: the place of k, if it is one. *)
Up(T, k)   == T \cap 1..k
Rank(T, k) == Cardinality(Up(T, k))

(* What the first k of T are. *)
LEMMA UpHolds ==
    ASSUME NEW T, NEW k \in Nat
    PROVE  /\ \A u \in Up(T, k) : u \in T /\ u \in Nat /\ u >= 1 /\ u <= k
           /\ \A u \in T : u \in 1..k => u \in Up(T, k)
           /\ Up(T, k) \in SUBSET (1..k)
BY DEF Up

(* The next one is added, or not. *)
LEMMA UpStep ==
    ASSUME NEW T, NEW k \in Nat
    PROVE  /\ Up(T, 0) = {}
           /\ Up(T, k + 1) = IF k + 1 \in T THEN Up(T, k) \cup {k + 1} ELSE Up(T, k)
           /\ k + 1 \notin Up(T, k)
BY DEF Up

(* They grow. *)
LEMMA UpGrows ==
    ASSUME NEW T, NEW k \in Nat
    PROVE  Up(T, k) \subseteq Up(T, k + 1)
BY DEF Up

(* Of none there are none. *)
LEMMA RankZero == ASSUME NEW T PROVE Rank(T, 0) = 0
<1>1. Up(T, 0) = {}
  BY UpStep
<1> QED BY <1>1, FS_EmptySet DEF Rank

(* A rank is a number. *)
LEMMA RankIsNat ==
    ASSUME NEW T, NEW k \in Nat
    PROVE  Rank(T, k) \in Nat /\ IsFiniteSet(Up(T, k))
<1>1. IsFiniteSet(1..k)
  BY FS_Interval
<1>2. Up(T, k) \in SUBSET (1..k)
  BY UpHolds
<1> QED BY <1>1, <1>2, FS_Subset, FS_CardinalityType DEF Rank

(* The next number adds one if it is of T. *)
LEMMA RankStep ==
    ASSUME NEW T, NEW k \in Nat
    PROVE  /\ k + 1 \in T => Rank(T, k + 1) = Rank(T, k) + 1
           /\ k + 1 \notin T => Rank(T, k + 1) = Rank(T, k)
<1>1. IsFiniteSet(Up(T, k))
  BY RankIsNat
<1>2. CASE k + 1 \in T
  <2>1. Up(T, k + 1) = Up(T, k) \cup {k + 1} /\ k + 1 \notin Up(T, k)
    BY <1>2, UpStep
  <2>2. Cardinality(Up(T, k + 1)) = Cardinality(Up(T, k)) + 1
    BY <1>1, <2>1, FS_AddElement
  <2> QED BY <1>2, <2>2 DEF Rank
<1>3. CASE k + 1 \notin T
  <2>1. Up(T, k + 1) = Up(T, k)
    BY <1>3, UpStep
  <2> QED BY <1>3, <2>1 DEF Rank
<1> QED BY <1>2, <1>3

(* Places never go back, and one of T has a place behind all before it. *)
LEMMA RankGrows ==
    ASSUME NEW T, NEW k \in Nat, NEW m \in Nat, k <= m
    PROVE  Rank(T, k) <= Rank(T, m) /\ ((k < m /\ m \in T) => Rank(T, k) < Rank(T, m))
<1> DEFINE I == {d \in Nat : Rank(T, k) <= Rank(T, k + d)}
<1>1. 0 \in I
  <2>1. Rank(T, k) \in Nat
    BY RankIsNat
  <2>2. k + 0 = k
    OBVIOUS
  <2> QED BY <2>1, <2>2
<1>2. ASSUME NEW d \in I PROVE d + 1 \in I
  <2>1. d \in Nat /\ k + d \in Nat /\ k + (d + 1) = (k + d) + 1
    OBVIOUS
  <2>2. Rank(T, k) <= Rank(T, k + d)
    OBVIOUS
  <2>3. Rank(T, k) \in Nat /\ Rank(T, k + d) \in Nat
    BY <2>1, RankIsNat
  <2>4. Rank(T, (k + d) + 1) \in {Rank(T, k + d), Rank(T, k + d) + 1}
    BY <2>1, RankStep
  <2> QED BY <2>1, <2>2, <2>3, <2>4
<1>3. I \in SUBSET Nat
  OBVIOUS
<1>4. I = Nat
  <2> HIDE DEF I
  <2> QED BY <1>1, <1>2, <1>3, Induction
<1>5. \A d \in Nat : Rank(T, k) <= Rank(T, k + d)
  BY <1>4
<1>6. Rank(T, k) <= Rank(T, m)
  <2>1. m - k \in Nat /\ k + (m - k) = m
    OBVIOUS
  <2>2. Rank(T, k) <= Rank(T, k + (m - k))
    BY <1>5, <2>1
  <2> QED BY <2>1, <2>2
<1>7. ASSUME k < m, m \in T PROVE Rank(T, k) < Rank(T, m)
  <2>1. PICK p \in Nat : p + 1 = m /\ p - k \in Nat /\ k + (p - k) = p
    <3>1. m - 1 \in Nat /\ (m - 1) + 1 = m /\ (m - 1) - k \in Nat /\ k + ((m - 1) - k) = m - 1
      BY <1>7
    <3> QED BY <3>1
  <2>2. Rank(T, k) <= Rank(T, k + (p - k))
    BY <1>5, <2>1
  <2>3. Rank(T, k) \in Nat /\ Rank(T, p) \in Nat
    BY RankIsNat
  <2>4. p + 1 \in T => Rank(T, p + 1) = Rank(T, p) + 1
    BY RankStep
  <2>5. Rank(T, m) = Rank(T, p) + 1
    BY <1>7, <2>1, <2>4
  <2>6. Rank(T, k) <= Rank(T, p)
    BY <2>1, <2>2
  <2> QED BY <2>3, <2>5, <2>6
<1> QED BY <1>6, <1>7

(* ... so a place says which one of T it is, *)
LEMMA RankTells ==
    ASSUME NEW T, NEW k \in T, NEW m \in T, k \in Nat, m \in Nat, Rank(T, k) = Rank(T, m)
    PROVE  k = m
<1>1. Rank(T, k) \in Nat /\ Rank(T, m) \in Nat
  BY RankIsNat
<1>2. k < m => Rank(T, k) < Rank(T, m)
  BY RankGrows
<1>3. m < k => Rank(T, m) < Rank(T, k)
  BY RankGrows
<1> QED BY <1>1, <1>2, <1>3

(* and every place is that of one of T. *)
LEMMA RankOnto ==
    ASSUME NEW T, NEW k \in Nat, NEW i \in 1..Rank(T, k)
    PROVE  \E u \in Up(T, k) : Rank(T, u) = i
<1> DEFINE Onto(d) == \A j \in 1..Rank(T, d) : \E u \in Up(T, d) : Rank(T, u) = j
           I == {d \in Nat : Onto(d)}
<1>1. 0 \in I
  <2>1. Rank(T, 0) = 0
    BY RankZero
  <2>2. 1..Rank(T, 0) = {}
    BY <2>1
  <2> QED BY <2>2
<1>2. ASSUME NEW d \in I PROVE d + 1 \in I
  <2>1. d \in Nat /\ d + 1 \in Nat
    OBVIOUS
  <2>2. \A j \in 1..Rank(T, d) : \E u \in Up(T, d) : Rank(T, u) = j
    OBVIOUS
  <2>3. ASSUME NEW j \in 1..Rank(T, d + 1) PROVE \E u \in Up(T, d + 1) : Rank(T, u) = j
    <3>1. Rank(T, d) \in Nat
      BY <2>1, RankIsNat
    <3>2. /\ d + 1 \in T => Rank(T, d + 1) = Rank(T, d) + 1
          /\ d + 1 \notin T => Rank(T, d + 1) = Rank(T, d)
      BY <2>1, RankStep
    <3>3. CASE j \in 1..Rank(T, d)
      <4>1. PICK u \in Up(T, d) : Rank(T, u) = j
        BY <2>2, <3>3
      <4>2. u \in Up(T, d + 1)
        <5>1. Up(T, d) \subseteq Up(T, d + 1)
          BY <2>1, UpGrows
        <5> QED BY <5>1
      <4> QED BY <4>1, <4>2
    <3>4. CASE j \notin 1..Rank(T, d)
      <4>1. d + 1 \in T /\ j = Rank(T, d + 1)
        BY <3>1, <3>2, <3>4
      <4>2. d + 1 \in Up(T, d + 1)
        BY <2>1, <4>1, UpStep
      <4> QED BY <4>1, <4>2
    <3> QED BY <3>3, <3>4
  <2>4. Onto(d + 1)
    BY <2>3
  <2> QED BY <2>1, <2>4
<1>3. I \in SUBSET Nat
  OBVIOUS
<1>4. I = Nat
  <2> HIDE DEF I
  <2> QED BY <1>1, <1>2, <1>3, Induction
<1> QED BY <1>4

(* A fold along a list: F[k] is what it has come to behind the k-th.        *)
Runs(F, A, base, G, n) ==
    /\ F \in [0..n -> A] /\ F[0] = base
    /\ \A k \in 1..n : F[k] = G[k][F[k - 1]]

(* The recursion of a fold, followed along the list. *)
LEMMA FoldRuns ==
    ASSUME NEW n \in Nat, NEW A, NEW base, NEW G, NEW it, Solves(it, A, base, G, n)
    PROVE  Runs([k \in 0..n |-> it[1..k]], A, base, G, n)
<1> DEFINE F == [k \in 0..n |-> it[1..k]]
<1>1. /\ it \in [SUBSET (1..n) -> A]
      /\ \A u \in SUBSET (1..n) : it[u] = IF u = {} THEN base ELSE G[Max(u)][it[u \ {Max(u)}]]
  BY DEF Solves
<1>2. F[0] = base
  <2>1. 0 \in 0..n /\ 1..0 = {} /\ {} \in SUBSET (1..n)
    OBVIOUS
  <2> QED BY <1>1, <2>1
<1>3. ASSUME NEW k \in 1..n PROVE F[k] = G[k][F[k - 1]]
  <2>1. k \in Nat \ {0} /\ k \in 0..n /\ k - 1 \in 0..n /\ 1..k \in SUBSET (1..n) /\ 1..k # {}
    OBVIOUS
  <2>2. Max(1..k) = k /\ (1..k) \ {Max(1..k)} = 1..(k - 1)
    BY <2>1, MaxOfRun
  <2>3. F[k] = it[1..k] /\ F[k - 1] = it[1..(k - 1)]
    BY <2>1
  <2>4. it[1..k] = G[k][it[1..(k - 1)]]
    BY <1>1, <2>1, <2>2
  <2> QED BY <2>3, <2>4
<1>4. F \in [0..n -> A]
  <2>1. \A k \in 0..n : 1..k \in SUBSET (1..n)
    OBVIOUS
  <2> QED BY <1>1, <2>1
<1> QED BY <1>2, <1>3, <1>4 DEF Runs

(* What holds before the first step and is kept by each holds after all.    *)
LEMMA UpTo ==
    ASSUME NEW n \in Nat, NEW I, I \in SUBSET (0..n), 0 \in I, \A k \in 0..(n - 1) : k \in I => k + 1 \in I
    PROVE  n \in I
<1> DEFINE J == {k \in Nat : k <= n => k \in I}
<1>1. 0 \in J
  OBVIOUS
<1>2. ASSUME NEW k \in J PROVE k + 1 \in J
  <2>1. CASE k + 1 <= n
    <3>1. k \in 0..(n - 1) /\ k \in I
      BY <2>1
    <3> QED BY <3>1
  <2> QED BY <2>1
<1>3. J \in SUBSET Nat
  OBVIOUS
<1> HIDE DEF J
<1>4. J = Nat
  BY <1>1, <1>2, <1>3, Induction
<1>5. n \in J
  BY <1>4
<1> QED BY <1>5 DEF J

(* The same up to n, for each of them. *)
LEMMA UpToAll ==
    ASSUME NEW n \in Nat, NEW I, I \in SUBSET (0..n), 0 \in I, \A k \in 0..(n - 1) : k \in I => k + 1 \in I
    PROVE  \A k \in 0..n : k \in I
<1> DEFINE J == {k \in Nat : k <= n => k \in I}
<1>1. 0 \in J
  OBVIOUS
<1>2. ASSUME NEW k \in J PROVE k + 1 \in J
  <2>1. CASE k + 1 <= n
    <3>1. k \in 0..(n - 1) /\ k \in I
      BY <2>1
    <3> QED BY <3>1
  <2> QED BY <2>1
<1>3. J \in SUBSET Nat
  OBVIOUS
<1> HIDE DEF J
<1>4. J = Nat
  BY <1>1, <1>2, <1>3, Induction
<1>5. \A k \in 0..n : k \in J
  BY <1>4
<1> QED BY <1>5 DEF J

-----------------------------------------------------------------------------
(* What is picked of H[1], ..., H[n]: those of U, in order. *)
PickedTo(v, S, U, H, n) ==
    /\ v \in Seq(S) /\ Len(v) = Rank(U, n)
    /\ \A u \in Up(U, n) : v[Rank(U, u)] = H[u]

(* Of nothing, nothing is picked. *)
LEMMA PickStarts == ASSUME NEW S, NEW U, NEW H PROVE PickedTo(<<>>, S, U, H, 0)
<1>1. Rank(U, 0) = 0
  BY RankZero
<1>2. Up(U, 0) = {}
  BY UpStep
<1> QED BY <1>1, <1>2, EmptySeq DEF PickedTo

(* The place of one of the first n. *)
LEMMA PlaceIs ==
    ASSUME NEW U, NEW n \in Nat, NEW u \in Up(U, n)
    PROVE  Rank(U, u) \in 1..Rank(U, n) /\ Rank(U, n) \in Nat
<1>1. u \in U /\ u \in Nat /\ 0 < u /\ u <= n
  BY UpHolds
<1>2. Rank(U, u) \in Nat /\ Rank(U, n) \in Nat
  BY <1>1, RankIsNat
<1>3. Rank(U, 0) = 0
  BY RankZero
<1>4. Rank(U, 0) < Rank(U, u)
  BY <1>1, RankGrows
<1>5. Rank(U, u) <= Rank(U, n)
  BY <1>1, RankGrows
<1> QED BY <1>2, <1>3, <1>4, <1>5

(* The next one is picked, or not. *)
LEMMA PickStep ==
    ASSUME NEW S, NEW U, NEW H, NEW k \in Nat, NEW v, PickedTo(v, S, U, H, k), k + 1 \in U => H[k + 1] \in S,
           NEW w, w = IF k + 1 \in U THEN Append(v, H[k + 1]) ELSE v
    PROVE  PickedTo(w, S, U, H, k + 1)
<1>1. v \in Seq(S) /\ Len(v) = Rank(U, k) /\ \A u \in Up(U, k) : v[Rank(U, u)] = H[u]
  BY DEF PickedTo
<1>2. /\ k + 1 \in U => Rank(U, k + 1) = Rank(U, k) + 1
      /\ k + 1 \notin U => Rank(U, k + 1) = Rank(U, k)
  BY RankStep
<1>3. CASE k + 1 \notin U
  <2>1. Up(U, k + 1) = Up(U, k)
    BY <1>3, UpStep
  <2> QED BY <1>1, <1>2, <1>3, <2>1 DEF PickedTo
<1>4. CASE k + 1 \in U
  <2>1. /\ w \in Seq(S) /\ Len(w) = Len(v) + 1
        /\ \A i \in 1..Len(v) : w[i] = v[i]
        /\ w[Len(v) + 1] = H[k + 1]
    BY <1>1, <1>4, AppendProperties
  <2>2. ASSUME NEW u \in Up(U, k + 1) PROVE w[Rank(U, u)] = H[u]
    <3>1. CASE u = k + 1
      BY <1>1, <1>2, <1>4, <2>1, <3>1
    <3>2. CASE u # k + 1
      <4>1. u \in Up(U, k)
        <5>1. Up(U, k + 1) = Up(U, k) \cup {k + 1}
          BY <1>4, UpStep
        <5> QED BY <3>2, <5>1
      <4>2. Rank(U, u) \in 1..Len(v)
        BY <1>1, <4>1, PlaceIs
      <4> QED BY <1>1, <2>1, <4>1, <4>2
    <3> QED BY <3>1, <3>2
  <2> QED BY <1>1, <1>2, <1>4, <2>1, <2>2 DEF PickedTo
<1> QED BY <1>3, <1>4

(* Each element of what was picked has its place in the list, *)
LEMMA PickedFrom ==
    ASSUME NEW S, NEW U, NEW H, NEW n \in Nat, NEW v, PickedTo(v, S, U, H, n)
    PROVE  \A i \in DOMAIN v : \E u \in Up(U, n) : Rank(U, u) = i /\ v[i] = H[u]
<1>1. v \in Seq(S) /\ Len(v) = Rank(U, n) /\ \A u \in Up(U, n) : v[Rank(U, u)] = H[u]
  BY DEF PickedTo
<1>2. DOMAIN v = 1..Len(v)
  BY <1>1, LenProperties
<1>3. ASSUME NEW i \in DOMAIN v PROVE \E u \in Up(U, n) : Rank(U, u) = i /\ v[i] = H[u]
  <2>1. i \in 1..Rank(U, n)
    BY <1>1, <1>2
  <2>2. PICK u \in Up(U, n) : Rank(U, u) = i
    BY <2>1, RankOnto
  <2> QED BY <1>1, <2>2
<1> QED BY <1>3

(* and each of the list that is to be picked its place in what was, *)
LEMMA PickedHas ==
    ASSUME NEW S, NEW U, NEW H, NEW n \in Nat, NEW v, PickedTo(v, S, U, H, n)
    PROVE  \A u \in Up(U, n) : Rank(U, u) \in DOMAIN v /\ v[Rank(U, u)] = H[u]
<1>1. v \in Seq(S) /\ Len(v) = Rank(U, n) /\ \A u \in Up(U, n) : v[Rank(U, u)] = H[u]
  BY DEF PickedTo
<1>2. DOMAIN v = 1..Len(v)
  BY <1>1, LenProperties
<1>3. ASSUME NEW u \in Up(U, n) PROVE Rank(U, u) \in DOMAIN v
  <2>1. Rank(U, u) \in 1..Rank(U, n)
    BY PlaceIs
  <2> QED BY <1>1, <1>2, <2>1
<1> QED BY <1>1, <1>3

(* ... so it is a set, *)
LEMMA PickedSet ==
    ASSUME NEW S, NEW U, NEW H, NEW n \in Nat, NEW v, PickedTo(v, S, U, H, n)
    PROVE  ToSet(v) = {H[u] : u \in Up(U, n)}
<1>1. \A i \in DOMAIN v : \E u \in Up(U, n) : Rank(U, u) = i /\ v[i] = H[u]
  BY PickedFrom
<1>2. \A u \in Up(U, n) : Rank(U, u) \in DOMAIN v /\ v[Rank(U, u)] = H[u]
  BY PickedHas
<1>3. ToSet(v) = {v[i] : i \in DOMAIN v}
  BY DEF ToSet
<1> QED BY <1>1, <1>2, <1>3

(* and there is one sequence of it. *)
LEMMA PickedSame ==
    ASSUME NEW S, NEW U, NEW H, NEW n \in Nat, NEW v, PickedTo(v, S, U, H, n), NEW w, PickedTo(w, S, U, H, n)
    PROVE  v = w
<1>1. v \in Seq(S) /\ Len(v) = Rank(U, n) /\ Len(v) \in Nat /\ DOMAIN v = 1..Len(v)
  BY LenProperties DEF PickedTo
<1>2. w \in Seq(S) /\ Len(w) = Rank(U, n)
  BY DEF PickedTo
<1>3. \A i \in DOMAIN v : \E u \in Up(U, n) : Rank(U, u) = i /\ v[i] = H[u]
  BY PickedFrom
<1>4. \A u \in Up(U, n) : Rank(U, u) \in DOMAIN w /\ w[Rank(U, u)] = H[u]
  BY PickedHas
<1>5. \A i \in 1..Len(v) : v[i] = w[i]
  BY <1>1, <1>3, <1>4
<1> QED BY <1>1, <1>2, <1>5, SeqEqual

-----------------------------------------------------------------------------
(* Kept is the fold that picks. *)
LEMMA KeptRuns ==
    ASSUME NEW S, NEW s \in Seq(S), NEW T
    PROVE  \E F : /\ Kept(s, T) = F[Len(s)] /\ F[0] = <<>>
                  /\ \A k \in 1..Len(s) : F[k] = IF s[k] \in T THEN Append(F[k - 1], s[k]) ELSE F[k - 1]
<1> DEFINE n == Len(s)
           G == [k \in 1..n |-> [a \in Seq(S) |-> IF s[k] \in T THEN Append(a, s[k]) ELSE a]]
           P(it) == it = [u \in SUBSET DOMAIN s |->
                            IF u = {} THEN <<>>
                            ELSE IF s[Max(u)] \in T THEN Append(it[u \ {Max(u)}], s[Max(u)]) ELSE it[u \ {Max(u)}]]
<1>1. n \in Nat /\ DOMAIN s = 1..n /\ \A k \in 1..n : s[k] \in S
  BY LenProperties, ElementOfSeq
<1>2. Kept(s, T) = (CHOOSE it : P(it))[DOMAIN s]
  BY ONLY Zenon DEF Kept, FoldLeft, MapThenFoldSet
<1> HIDE DEF n
<1>3. \A k \in 1..n, a \in Seq(S) : (IF s[k] \in T THEN Append(a, s[k]) ELSE a) \in Seq(S)
  BY <1>1, AppendProperties
<1>4. G \in [1..n -> [Seq(S) -> Seq(S)]] /\ \A k \in 1..n, a \in Seq(S) : G[k][a] = IF s[k] \in T THEN Append(a, s[k]) ELSE a
  BY <1>3
<1> HIDE DEF G
<1>5. ASSUME NEW it PROVE Solves(it, Seq(S), <<>>, G, n) => P(it)
  <2> SUFFICES ASSUME Solves(it, Seq(S), <<>>, G, n) PROVE P(it)
    OBVIOUS
  <2>1. /\ it \in [SUBSET (1..n) -> Seq(S)]
        /\ \A u \in SUBSET (1..n) : it[u] = IF u = {} THEN <<>> ELSE G[Max(u)][it[u \ {Max(u)}]]
    BY DEF Solves
  <2>2. ASSUME NEW u \in SUBSET (1..n), u # {}
        PROVE  G[Max(u)][it[u \ {Max(u)}]]
               = IF s[Max(u)] \in T THEN Append(it[u \ {Max(u)}], s[Max(u)]) ELSE it[u \ {Max(u)}]
    <3>1. Max(u) \in 1..n /\ u \ {Max(u)} \in SUBSET (1..n)
      BY <1>1, <2>2, MaxOf
    <3>2. it[u \ {Max(u)}] \in Seq(S)
      BY <2>1, <3>1
    <3> QED BY <1>4, <3>1, <3>2
  <2> QED BY <1>1, <2>1, <2>2
<1> DEFINE it == CHOOSE it : P(it)
<1>6. P(it)
  <2>1. \E f : Solves(f, Seq(S), <<>>, G, n)
    BY <1>1, <1>4, EmptySeq, FoldGraph
  <2>2. \E f : P(f)
    BY <1>5, <2>1
  <2> HIDE DEF P
  <2> QED BY <2>2
<1> HIDE DEF it
<1> DEFINE F == [k \in 0..n |-> it[1..k]]
<1>7. F[0] = <<>>
  <2>1. 0 \in 0..n /\ 1..0 = {} /\ {} \in SUBSET DOMAIN s
    BY <1>1
  <2> QED BY <1>6, <2>1
<1>8. ASSUME NEW k \in 1..n PROVE F[k] = IF s[k] \in T THEN Append(F[k - 1], s[k]) ELSE F[k - 1]
  <2>1. k \in Nat \ {0} /\ k \in 0..n /\ k - 1 \in 0..n /\ 1..k \in SUBSET (1..n) /\ 1..k # {}
    BY <1>1
  <2>2. Max(1..k) = k /\ (1..k) \ {Max(1..k)} = 1..(k - 1)
    BY <2>1, MaxOfRun
  <2>3. F[k] = it[1..k] /\ F[k - 1] = it[1..(k - 1)]
    BY <2>1
  <2>4. it[1..k] = IF s[k] \in T THEN Append(it[1..(k - 1)], s[k]) ELSE it[1..(k - 1)]
    BY <1>1, <1>6, <2>1, <2>2
  <2> QED BY <2>3, <2>4
<1>9. Kept(s, T) = F[n]
  <2>1. n \in 0..n
    BY <1>1
  <2> QED BY <1>1, <1>2, <2>1 DEF it
<1> QED BY <1>7, <1>8, <1>9 DEF n

(* What is kept of a list is picked out of it. *)
LEMMA KeptPicks ==
    ASSUME NEW S, NEW s \in Seq(S), NEW T
    PROVE  PickedTo(Kept(s, T), S, {k \in 1..Len(s) : s[k] \in T}, s, Len(s))
<1> DEFINE n == Len(s)
           U == {k \in 1..n : s[k] \in T}
<1>1. n \in Nat /\ \A k \in 1..n : s[k] \in S
  BY LenProperties, ElementOfSeq
<1>2. PICK F : /\ Kept(s, T) = F[n] /\ F[0] = <<>>
               /\ \A k \in 1..n : F[k] = IF s[k] \in T THEN Append(F[k - 1], s[k]) ELSE F[k - 1]
  BY KeptRuns
<1> HIDE DEF n
<1> DEFINE I == {k \in 0..n : PickedTo(F[k], S, U, s, k)}
<1>3. 0 \in I
  BY <1>1, <1>2, PickStarts
<1>4. ASSUME NEW k \in 0..(n - 1), k \in I PROVE k + 1 \in I
  <2>1. k \in Nat /\ k + 1 \in 1..n /\ (k + 1) - 1 = k /\ k + 1 \in 0..n
    BY <1>1
  <2>2. (k + 1 \in U <=> s[k + 1] \in T) /\ s[k + 1] \in S
    BY <1>1, <2>1
  <2> HIDE DEF U
  <2>3. F[k + 1] = IF k + 1 \in U THEN Append(F[k], s[k + 1]) ELSE F[k]
    BY <1>2, <2>1, <2>2
  <2>4. PickedTo(F[k], S, U, s, k)
    BY <1>4
  <2>5. PickedTo(F[k + 1], S, U, s, k + 1)
    BY <2>1, <2>2, <2>3, <2>4, PickStep
  <2> QED BY <2>1, <2>5
<1>5. I \in SUBSET (0..n)
  OBVIOUS
<1> HIDE DEF I
<1>6. n \in I
  BY <1>1, <1>3, <1>4, <1>5, UpTo
<1> QED BY <1>2, <1>6 DEF I, n

-----------------------------------------------------------------------------
(* The memory map: one row, one bitmap. *)

(* promote-check.py: its verdict is the one of DxeCore. *)
LEMMA VerdictHolds ==
    ASSUME NEW row \in [rtype : {"SYS_MEM", "MEM_RES", "MMAP_IO"}, hob : {"AddMem", "AddDev", "NoHob"},
                        attr : SUBSET STRING]
    PROVE  VerdictIsDxeCores(row)
<1> DEFINE attr == row.attr
           settled == attr \cap {"SPECIAL_PURPOSE", "PERSISTENT"} = {}
           begun == {"PRESENT", "INITIALIZED"} \subseteq attr /\ "TESTED" \notin attr
           kind == GcdType(row.rtype, attr)
           caps == Capabilities(kind, attr)
<1>1. row.rtype \in {"SYS_MEM", "MEM_RES", "MMAP_IO"} /\ row.hob \in {"AddMem", "AddDev", "NoHob"}
  OBVIOUS
<1>2. IsInitialized(attr) => attr \cap {"PRESENT", "INITIALIZED", "TESTED"} = {"PRESENT", "INITIALIZED"}
  BY DEF IsInitialized, MEMORY_ATTRIBUTE_MASK
<1>3. attr \cap {"PRESENT", "INITIALIZED", "TESTED"} = {"PRESENT", "INITIALIZED"} <=> begun
  OBVIOUS
<1>4. IsInitialized(attr) <=> begun /\ "READ_PROTECTED" \notin attr
  BY DEF IsInitialized, MEMORY_ATTRIBUTE_MASK
<1>5. IsPresent(attr) => ~begun
  BY DEF IsPresent, MEMORY_ATTRIBUTE_MASK
<1>6. kind = "Reserved" => caps = attr
  BY DEF Capabilities
<1>7. Promotable(row) <=> row.hob # "NoHob" /\ kind = "Reserved" /\ begun
  BY <1>3, <1>6 DEF Promotable
<1>8. VerdictIsDxeCores(row) <=>
        (Promotable(row) <=>
            /\ row.hob \in {"AddMem", "AddDev"} /\ begun
            /\ row.rtype = "MEM_RES" \/ (row.rtype = "SYS_MEM" /\ settled /\ "READ_PROTECTED" \notin attr))
  BY DEF VerdictIsDxeCores
<1>9. settled <=> "SPECIAL_PURPOSE" \notin attr /\ "PERSISTENT" \notin attr
  OBVIOUS
<1>10. Kind(attr) = "Reserved" <=> settled /\ (IsInitialized(attr) \/ IsPresent(attr))
  BY <1>9 DEF Kind
<1>11. CASE row.rtype = "SYS_MEM"
  <2>1. kind = Kind(attr)
    BY <1>11 DEF GcdType
  <2> HIDE DEF attr, settled, begun, kind
  <2> QED BY <1>1, <1>4, <1>5, <1>7, <1>8, <1>10, <1>11, <2>1
<1>12. CASE row.rtype = "MEM_RES"
  <2>1. kind = "Reserved"
    BY <1>12 DEF GcdType
  <2> HIDE DEF attr, settled, begun, kind
  <2> QED BY <1>1, <1>7, <1>8, <1>12, <2>1
<1>13. CASE row.rtype = "MMAP_IO"
  <2>1. kind = "MemoryMappedIo"
    BY <1>13 DEF GcdType
  <2> HIDE DEF attr, settled, begun, kind
  <2> QED BY <1>1, <1>7, <1>8, <1>13, <2>1
<1> QED BY <1>1, <1>11, <1>12, <1>13

(* A product is not less than its factor. *)
LEMMA Products ==
    ASSUME NEW h \in Nat, NEW s \in Nat, h >= 1
    PROVE  h * s \in Nat /\ h * s >= s
OBVIOUS

(* fix_bmp_offset: a bitmap it has corrected ends where its file does. *)
LEMMA BitmapHolds ==
    ASSUME NEW b \in [size : Nat, off : Int, width : Int, height : Int, bpp : Nat]
    PROVE  BitmapIsCorrected(b)
<1> DEFINE correct == b.size - b.height * Stride(b)
           f == FixBmpOffset(b)
<1>1. f = IF b.width <= 0 \/ b.height <= 0 \/ b.bpp = 0 \/ b.off = correct THEN [b |-> b, note |-> "none"]
          ELSE IF correct <= 0 \/ correct >= b.size THEN [b |-> b, note |-> "unfixable"]
          ELSE [b |-> [b EXCEPT !.off = correct], note |-> "fixed"]
  BY DEF FixBmpOffset
<1>2. CASE f.note = "fixed"
  <2>1. /\ b.width > 0 /\ b.height > 0 /\ b.bpp # 0 /\ correct > 0 /\ correct < b.size
        /\ f.b = [b EXCEPT !.off = correct]
    <3> HIDE DEF correct, f
    <3>1. CASE b.width <= 0 \/ b.height <= 0 \/ b.bpp = 0 \/ b.off = correct
      BY <1>1, <1>2, <3>1
    <3>2. CASE ~(b.width <= 0 \/ b.height <= 0 \/ b.bpp = 0 \/ b.off = correct)
      <4>1. b.width > 0 /\ b.height > 0 /\ b.bpp # 0
        BY <3>2
      <4>2. ~(correct <= 0 \/ correct >= b.size)
        BY <1>1, <1>2, <3>2
      <4>3. f = [b |-> [b EXCEPT !.off = correct], note |-> "fixed"]
        BY <1>1, <3>2, <4>2
      <4>4. correct \in Int
        <5>1. Stride(b) \in Int
          <6>1. b.width * b.bpp \in Int
            OBVIOUS
          <6> QED BY <6>1 DEF Stride
        <5>2. b.height * Stride(b) \in Int
          BY <5>1
        <5> QED BY <5>2 DEF correct
      <4> QED BY <4>1, <4>2, <4>3, <4>4
    <3> QED BY <3>1, <3>2
  <2>2. f.b.off = correct /\ f.b.width = b.width /\ f.b.height = b.height /\ f.b.bpp = b.bpp /\ f.b.size = b.size
    BY <2>1
  <2>3. Stride(f.b) = Stride(b)
    BY <2>2 DEF Stride
  <2>4. FixBmpOffset(f.b).note = "none"
    BY <2>2, <2>3 DEF FixBmpOffset
  <2> DEFINE N == b.width * b.bpp
             bytes == (N + 31) \div 8
             stride == Stride(b)
  <2>5. N \in Nat /\ N >= 1
    BY <2>1, Products
  <2>6. stride = bytes - (bytes % 4)
    BY DEF Stride
  <2>7. /\ stride \in Nat /\ stride % 4 = 0 /\ stride * 8 >= N /\ (stride - 4) * 8 < N
    <3> HIDE DEF N
    <3> QED BY <2>5, <2>6
  <2>8. stride \in 0..b.size /\ f.b.off + b.height * stride = b.size
    <3>1. b.height * stride \in Nat /\ b.height * stride >= stride
      BY <2>1, <2>7, Products
    <3> HIDE DEF stride
    <3>2. correct = b.size - b.height * stride
      BY DEF stride
    <3> HIDE DEF correct
    <3> QED BY <2>1, <2>2, <2>7, <3>1, <3>2
  <2> QED BY <1>2, <2>4, <2>7, <2>8 DEF BitmapIsCorrected
<1>3. CASE f.note # "fixed"
  <2>1. f.b = b
    BY <1>1, <1>3
  <2> QED BY <1>3, <2>1 DEF BitmapIsCorrected
<1> QED BY <1>2, <1>3

-----------------------------------------------------------------------------
(* make_uefi_platform.py: how uefiplat.cfg is read. *)

(* The least index of a set of them. *)
LEMMA MinOf ==
    ASSUME NEW n \in Nat, NEW s \in SUBSET (1..n), s # {}
    PROVE  Min(s) \in s /\ \A x \in s : Min(s) <= x
<1>1. s \in SUBSET Nat
  OBVIOUS
<1>2. PICK u \in s : \A x \in s : u <= x
  BY <1>1, LeastOfNaturals
<1> QED BY <1>2 DEF Min

Entry  == STRING \X Int
Config == [section : STRING \cup {""}, memory : Seq(FileRow), registers : Seq(FileRow), params : Seq(Entry)]

(* The parser starts with no rows. *)
LEMMA NoRowsIsConfig == NoRows \in Config
<1>1. <<>> \in Seq(FileRow) /\ <<>> \in Seq(Entry)
  BY EmptySeq
<1> HIDE DEF Entry
<1> QED BY <1>1 DEF NoRows, Config

(* A line is of one kind. *)
LEMMA LineKinds ==
    ASSUME NEW line \in FileLine
    PROVE  /\ line.k \in {"section", "row", "param"}
           /\ line.k = "section" => line.name \in STRING
           /\ line.k = "row" => line \in FileRow /\ IsRow(line) /\ line.cols \in {7, 8}
           /\ line.k = "param" => line.key \in STRING /\ line.value \in Int
<1>1. CASE line \in [k : {"section"}, name : STRING]
  BY <1>1
<1>2. CASE line \in FileRow
  BY <1>2 DEF FileRow, IsRow
<1>3. CASE line \in [k : {"param"}, key : STRING, value : Int]
  BY <1>3
<1> QED BY <1>1, <1>2, <1>3 DEF FileLine

(* What one line does. *)
LEMMA ReadLineStep ==
    ASSUME NEW st \in Config, NEW line \in FileLine
    PROVE  /\ ReadLine(st, line) \in Config
           /\ ReadLine(st, line).section = IF line.k = "section" THEN line.name ELSE st.section
           /\ ReadLine(st, line).memory = IF line.k = "row" /\ st.section = "MemoryMap"
                                            THEN Append(st.memory, line) ELSE st.memory
           /\ ReadLine(st, line).registers = IF line.k = "row" /\ st.section = "RegisterMap"
                                               THEN Append(st.registers, line) ELSE st.registers
<1>1. /\ st.section \in STRING \cup {""} /\ st.memory \in Seq(FileRow) /\ st.registers \in Seq(FileRow)
      /\ st.params \in Seq(Entry)
  BY DEF Config
<1>2. /\ line.k \in {"section", "row", "param"}
      /\ line.k = "section" => line.name \in STRING
      /\ line.k = "row" => line \in FileRow /\ IsRow(line)
      /\ line.k = "param" => line.key \in STRING /\ line.value \in Int
  BY LineKinds
<1>3. IsRow(line) => line.k = "row"
  BY DEF IsRow
<1>4. CASE line.k = "section"
  <2>1. ReadLine(st, line) = [st EXCEPT !.section = line.name]
    BY <1>3, <1>4 DEF ReadLine
  <2> QED BY <1>1, <1>2, <1>4, <2>1 DEF Config
<1>5. CASE line.k = "row" /\ st.section = "MemoryMap"
  <2>1. ReadLine(st, line) = [st EXCEPT !.memory = Append(@, line)]
    BY <1>2, <1>5 DEF ReadLine
  <2>2. Append(st.memory, line) \in Seq(FileRow)
    BY <1>1, <1>2, <1>5, AppendProperties
  <2> QED BY <1>1, <1>2, <1>5, <2>1, <2>2 DEF Config
<1>6. CASE line.k = "row" /\ st.section = "RegisterMap"
  <2>1. ReadLine(st, line) = [st EXCEPT !.registers = Append(@, line)]
    BY <1>2, <1>6 DEF ReadLine
  <2>2. Append(st.registers, line) \in Seq(FileRow)
    BY <1>1, <1>2, <1>6, AppendProperties
  <2> QED BY <1>1, <1>2, <1>6, <2>1, <2>2 DEF Config
<1>7. CASE line.k = "row" /\ st.section \notin {"MemoryMap", "RegisterMap"}
  <2>1. ReadLine(st, line) = st
    BY <1>2, <1>7 DEF ReadLine
  <2> QED BY <1>1, <1>2, <1>7, <2>1 DEF Config
<1>8. CASE line.k = "param"
  <2>1. ReadLine(st, line) \in {st, [st EXCEPT !.params = Append(@, <<line.key, line.value>>)]}
    BY <1>2, <1>3, <1>8 DEF ReadLine
  <2>2. <<line.key, line.value>> \in Entry
    BY <1>2, <1>8 DEF Entry
  <2>3. Append(st.params, <<line.key, line.value>>) \in Seq(Entry)
    BY <1>1, <2>2, AppendProperties
  <2> QED BY <1>1, <1>2, <1>8, <2>1, <2>3 DEF Config
<1> QED BY <1>2, <1>4, <1>5, <1>6, <1>7, <1>8

(* ParseUefiplat is the fold of ReadLine. *)
LEMMA ParseRuns ==
    ASSUME NEW s \in Seq(FileLine)
    PROVE  \E F : /\ ParseUefiplat(s) = F[Len(s)] /\ F[0] = NoRows
                  /\ \A k \in 1..Len(s) : F[k] = ReadLine(F[k - 1], s[k])
<1> DEFINE n == Len(s)
           G == [k \in 1..n |-> [a \in Config |-> ReadLine(a, s[k])]]
           P(it) == it = [u \in SUBSET DOMAIN s |->
                            IF u = {} THEN NoRows ELSE ReadLine(it[u \ {Max(u)}], s[Max(u)])]
<1>1. n \in Nat /\ DOMAIN s = 1..n /\ \A k \in 1..n : s[k] \in FileLine
  BY LenProperties, ElementOfSeq
<1>2. ParseUefiplat(s) = (CHOOSE it : P(it))[DOMAIN s]
  BY ONLY Zenon DEF ParseUefiplat, FoldLeft, MapThenFoldSet
<1> HIDE DEF n
<1>3. \A k \in 1..n, a \in Config : ReadLine(a, s[k]) \in Config
  BY <1>1, ReadLineStep
<1>4. G \in [1..n -> [Config -> Config]] /\ \A k \in 1..n, a \in Config : G[k][a] = ReadLine(a, s[k])
  BY <1>3
<1> HIDE DEF G
<1>5. ASSUME NEW it PROVE Solves(it, Config, NoRows, G, n) => P(it)
  <2> SUFFICES ASSUME Solves(it, Config, NoRows, G, n) PROVE P(it)
    OBVIOUS
  <2>1. /\ it \in [SUBSET (1..n) -> Config]
        /\ \A u \in SUBSET (1..n) : it[u] = IF u = {} THEN NoRows ELSE G[Max(u)][it[u \ {Max(u)}]]
    BY DEF Solves
  <2>2. ASSUME NEW u \in SUBSET (1..n), u # {}
        PROVE  G[Max(u)][it[u \ {Max(u)}]] = ReadLine(it[u \ {Max(u)}], s[Max(u)])
    <3>1. Max(u) \in 1..n /\ u \ {Max(u)} \in SUBSET (1..n)
      BY <1>1, <2>2, MaxOf
    <3>2. it[u \ {Max(u)}] \in Config
      BY <2>1, <3>1
    <3> QED BY <1>4, <3>1, <3>2
  <2> QED BY <1>1, <2>1, <2>2
<1> DEFINE it == CHOOSE it : P(it)
<1>6. P(it)
  <2>1. \E f : Solves(f, Config, NoRows, G, n)
    BY <1>1, <1>4, NoRowsIsConfig, FoldGraph
  <2>2. \E f : P(f)
    BY <1>5, <2>1
  <2> HIDE DEF P
  <2> QED BY <2>2
<1> HIDE DEF it
<1> DEFINE F == [k \in 0..n |-> it[1..k]]
<1>7. F[0] = NoRows
  <2>1. 0 \in 0..n /\ 1..0 = {} /\ {} \in SUBSET DOMAIN s
    BY <1>1
  <2> QED BY <1>6, <2>1
<1>8. ASSUME NEW k \in 1..n PROVE F[k] = ReadLine(F[k - 1], s[k])
  <2>1. k \in Nat \ {0} /\ k \in 0..n /\ k - 1 \in 0..n /\ 1..k \in SUBSET (1..n) /\ 1..k # {}
    BY <1>1
  <2>2. Max(1..k) = k /\ (1..k) \ {Max(1..k)} = 1..(k - 1)
    BY <2>1, MaxOfRun
  <2>3. F[k] = it[1..k] /\ F[k - 1] = it[1..(k - 1)]
    BY <2>1
  <2>4. it[1..k] = ReadLine(it[1..(k - 1)], s[k])
    BY <1>1, <1>6, <2>1, <2>2
  <2> QED BY <2>3, <2>4
<1>9. ParseUefiplat(s) = F[n]
  <2>1. n \in 0..n
    BY <1>1
  <2> QED BY <1>1, <1>2, <2>1 DEF it
<1> QED BY <1>7, <1>8, <1>9 DEF n

-----------------------------------------------------------------------------
(* A file, with its map of memory at line m and that of registers at r. *)
MapsAt(f, m, r) ==
    /\ f \in Seq(FileLine) /\ m \in 1..Len(f) /\ r \in 1..Len(f)
    /\ m < r /\ IsSection(f[m], "MemoryMap") /\ IsSection(f[r], "RegisterMap")
    /\ \A i \in 1..(r - 1) : f[i].k = "section" => i = m \/ (i < m /\ f[i].name # "RegisterMap")
    /\ \A i \in 1..Len(f) : f[i].k = "row" => m < i /\ \A j \in (r + 1)..i : f[j].k # "section"

MemoryRows(f, r)   == {i \in 1..Len(f) : f[i].k = "row" /\ i < r}
RegisterRows(f, r) == {i \in 1..Len(f) : f[i].k = "row" /\ r < i}

(* What is known of the first k lines when they are read. *)
ReadSoFar(f, m, r, st, k) ==
    /\ st \in Config
    /\ m <= k /\ k < r => st.section = "MemoryMap"
    /\ r <= k /\ (\A j \in (r + 1)..k : f[j].k # "section") => st.section = "RegisterMap"
    /\ PickedTo(st.memory, FileRow, MemoryRows(f, r), f, k)
    /\ PickedTo(st.registers, FileRow, RegisterRows(f, r), f, k)

(* ReadLine: one line of uefiplat.cfg more. *)
LEMMA ReadSoFarStep ==
    ASSUME NEW f, NEW m, NEW r, MapsAt(f, m, r), NEW k \in Nat, k + 1 \in 1..Len(f),
           NEW st, ReadSoFar(f, m, r, st, k)
    PROVE  ReadSoFar(f, m, r, ReadLine(st, f[k + 1]), k + 1)
<1> DEFINE line == f[k + 1]
           now == ReadLine(st, line)
           M == MemoryRows(f, r)
           R == RegisterRows(f, r)
<1>1. /\ f \in Seq(FileLine) /\ m \in Nat /\ r \in Nat /\ m >= 1 /\ m < r /\ r <= Len(f) /\ Len(f) \in Nat
      /\ IsSection(f[m], "MemoryMap") /\ IsSection(f[r], "RegisterMap")
      /\ \A i \in 1..(r - 1) : f[i].k = "section" => i = m \/ (i < m /\ f[i].name # "RegisterMap")
      /\ \A i \in 1..Len(f) : f[i].k = "row" => m < i /\ \A j \in (r + 1)..i : f[j].k # "section"
  BY LenProperties DEF MapsAt
<1>2. line \in FileLine
  BY <1>1, ElementOfSeq
<1>3. /\ st \in Config
      /\ m <= k /\ k < r => st.section = "MemoryMap"
      /\ r <= k /\ (\A j \in (r + 1)..k : f[j].k # "section") => st.section = "RegisterMap"
      /\ PickedTo(st.memory, FileRow, M, f, k)
      /\ PickedTo(st.registers, FileRow, R, f, k)
  BY DEF ReadSoFar
<1>4. /\ now \in Config
      /\ now.section = IF line.k = "section" THEN line.name ELSE st.section
      /\ now.memory = IF line.k = "row" /\ st.section = "MemoryMap" THEN Append(st.memory, line) ELSE st.memory
      /\ now.registers = IF line.k = "row" /\ st.section = "RegisterMap"
                           THEN Append(st.registers, line) ELSE st.registers
  BY <1>2, <1>3, ReadLineStep
<1>5. line.k = "row" => line \in FileRow
  BY <1>2, LineKinds
<1>6. f[r].k = "section" /\ f[r].name = "RegisterMap" /\ f[m].k = "section" /\ f[m].name = "MemoryMap"
  BY <1>1 DEF IsSection
<1> HIDE DEF now
<1>7. m <= k + 1 /\ k + 1 < r => now.section = "MemoryMap"
  <2> SUFFICES ASSUME m <= k + 1, k + 1 < r PROVE now.section = "MemoryMap"
    OBVIOUS
  <2>1. CASE k + 1 = m
    BY <1>4, <1>6, <2>1
  <2>2. CASE k + 1 # m
    <3>1. m <= k /\ k < r /\ k + 1 \in 1..(r - 1) /\ ~(k + 1 < m)
      BY <1>1, <2>2
    <3>2. line.k # "section"
      BY <1>1, <2>2, <3>1
    <3> QED BY <1>3, <1>4, <3>1, <3>2
  <2> QED BY <2>1, <2>2
<1>8. r <= k + 1 /\ (\A j \in (r + 1)..(k + 1) : f[j].k # "section") => now.section = "RegisterMap"
  <2> SUFFICES ASSUME r <= k + 1, \A j \in (r + 1)..(k + 1) : f[j].k # "section"
               PROVE  now.section = "RegisterMap"
    OBVIOUS
  <2>1. CASE k + 1 = r
    BY <1>4, <1>6, <2>1
  <2>2. CASE k + 1 # r
    <3>1. r <= k /\ k + 1 \in (r + 1)..(k + 1) /\ \A j \in (r + 1)..k : j \in (r + 1)..(k + 1)
      BY <1>1, <2>2
    <3> QED BY <1>3, <1>4, <3>1
  <2> QED BY <2>1, <2>2
<1>9. line.k = "row" => /\ k + 1 # r /\ m <= k
                        /\ st.section = IF k + 1 < r THEN "MemoryMap" ELSE "RegisterMap"
  <2> SUFFICES ASSUME line.k = "row"
               PROVE  k + 1 # r /\ m <= k /\ st.section = IF k + 1 < r THEN "MemoryMap" ELSE "RegisterMap"
    OBVIOUS
  <2>1. m < k + 1 /\ \A j \in (r + 1)..(k + 1) : f[j].k # "section"
    BY <1>1
  <2>2. k + 1 # r /\ m <= k
    BY <1>1, <1>6, <2>1
  <2>3. CASE k + 1 < r
    BY <1>1, <1>3, <2>2, <2>3
  <2>4. CASE ~(k + 1 < r)
    <3>1. r <= k /\ \A j \in (r + 1)..k : j \in (r + 1)..(k + 1)
      BY <1>1, <2>2, <2>4
    <3>2. st.section = "RegisterMap"
      BY <1>3, <2>1, <3>1
    <3> QED BY <2>2, <2>4, <3>2
  <2> QED BY <2>2, <2>3, <2>4
<1>10. /\ k + 1 \in M <=> line.k = "row" /\ k + 1 < r
       /\ k + 1 \in R <=> line.k = "row" /\ r < k + 1
  BY DEF MemoryRows, RegisterRows
<1>11. /\ now.memory = IF k + 1 \in M THEN Append(st.memory, f[k + 1]) ELSE st.memory
       /\ now.registers = IF k + 1 \in R THEN Append(st.registers, f[k + 1]) ELSE st.registers
  <2>1. ~(k + 1 < r) /\ k + 1 # r <=> r < k + 1
    BY <1>1
  <2> QED BY <1>4, <1>9, <1>10, <2>1
<1>12. /\ k + 1 \in M => f[k + 1] \in FileRow
       /\ k + 1 \in R => f[k + 1] \in FileRow
  BY <1>5, <1>10
<1> HIDE DEF line, M, R
<1>13. PickedTo(now.memory, FileRow, M, f, k + 1)
  BY <1>3, <1>11, <1>12, PickStep
<1>14. PickedTo(now.registers, FileRow, R, f, k + 1)
  BY <1>3, <1>11, <1>12, PickStep
<1> QED BY <1>4, <1>7, <1>8, <1>13, <1>14 DEF ReadSoFar, now, line, M, R

(* What is read of a file: its rows, to the map they are in. *)
LEMMA ParsedIs ==
    ASSUME NEW f, NEW m, NEW r, MapsAt(f, m, r)
    PROVE  /\ ParseUefiplat(f) \in Config
           /\ PickedTo(ParseUefiplat(f).memory, FileRow, MemoryRows(f, r), f, Len(f))
           /\ PickedTo(ParseUefiplat(f).registers, FileRow, RegisterRows(f, r), f, Len(f))
<1> DEFINE n == Len(f)
<1>1. f \in Seq(FileLine) /\ n \in Nat /\ m \in 1..n /\ r \in 1..n
  BY LenProperties DEF MapsAt
<1>2. PICK F : /\ ParseUefiplat(f) = F[n] /\ F[0] = NoRows
               /\ \A k \in 1..n : F[k] = ReadLine(F[k - 1], f[k])
  BY <1>1, ParseRuns
<1> DEFINE I == {k \in 0..n : ReadSoFar(f, m, r, F[k], k)}
<1>3. ReadSoFar(f, m, r, NoRows, 0)
  <2>1. NoRows.memory = <<>> /\ NoRows.registers = <<>>
    BY DEF NoRows
  <2>2. ~(m <= 0) /\ ~(r <= 0)
    BY <1>1
  <2> QED BY <2>1, <2>2, NoRowsIsConfig, PickStarts DEF ReadSoFar
<1>4. 0 \in I
  BY <1>1, <1>2, <1>3
<1>5. ASSUME NEW k \in 0..(n - 1), k \in I PROVE k + 1 \in I
  <2>1. k \in Nat /\ k + 1 \in 1..n /\ (k + 1) - 1 = k /\ k + 1 \in 0..n
    BY <1>1
  <2>2. F[k + 1] = ReadLine(F[k], f[k + 1])
    BY <1>2, <2>1
  <2>3. ReadSoFar(f, m, r, F[k], k)
    BY <1>5
  <2>4. ReadSoFar(f, m, r, F[k + 1], k + 1)
    BY <2>1, <2>2, <2>3, ReadSoFarStep
  <2> QED BY <2>1, <2>4
<1>6. I \in SUBSET (0..n)
  OBVIOUS
<1> HIDE DEF I
<1>7. n \in I
  BY <1>1, <1>4, <1>5, <1>6, UpTo
<1> QED BY <1>2, <1>7 DEF I, ReadSoFar

(* A place among places. *)
LEMMA RankOfRank ==
    ASSUME NEW U, NEW W, NEW X, \A u \in Nat : u \in X <=> u \in U /\ Rank(U, u) \in W, NEW n \in Nat
    PROVE  Rank(X, n) = Rank(W, Rank(U, n))
<1> DEFINE I == {k \in Nat : Rank(X, k) = Rank(W, Rank(U, k))}
<1>1. 0 \in I
  <2>1. Rank(X, 0) = 0 /\ Rank(U, 0) = 0 /\ Rank(W, 0) = 0
    BY RankZero
  <2> QED BY <2>1
<1>2. ASSUME NEW k \in I PROVE k + 1 \in I
  <2>1. k \in Nat /\ k + 1 \in Nat /\ Rank(X, k) = Rank(W, Rank(U, k))
    OBVIOUS
  <2> HIDE DEF I
  <2> DEFINE q == Rank(U, k)
  <2>2. q \in Nat
    BY <2>1, RankIsNat
  <2>3. /\ k + 1 \in U => Rank(U, k + 1) = q + 1
        /\ k + 1 \notin U => Rank(U, k + 1) = q
    BY <2>1, RankStep
  <2>4. /\ k + 1 \in X => Rank(X, k + 1) = Rank(X, k) + 1
        /\ k + 1 \notin X => Rank(X, k + 1) = Rank(X, k)
    BY <2>1, RankStep
  <2>5. k + 1 \in X <=> k + 1 \in U /\ Rank(U, k + 1) \in W
    BY <2>1
  <2>6. /\ q + 1 \in W => Rank(W, q + 1) = Rank(W, q) + 1
        /\ q + 1 \notin W => Rank(W, q + 1) = Rank(W, q)
    BY <2>2, RankStep
  <2>7. Rank(X, k) = Rank(W, q)
    BY <2>1
  <2> HIDE DEF q
  <2>8. Rank(X, k + 1) = Rank(W, Rank(U, k + 1))
    <3>1. CASE k + 1 \notin U
      BY <2>3, <2>4, <2>5, <2>7, <3>1
    <3>2. CASE k + 1 \in U
      <4>1. Rank(U, k + 1) = q + 1
        BY <2>3, <3>2
      <4>2. CASE q + 1 \in W
        BY <2>4, <2>5, <2>6, <2>7, <3>2, <4>1, <4>2
      <4>3. CASE q + 1 \notin W
        BY <2>4, <2>5, <2>6, <2>7, <3>2, <4>1, <4>3
      <4> QED BY <4>2, <4>3
    <3> QED BY <3>1, <3>2
  <2> QED BY <2>1, <2>8 DEF I
<1>3. I \in SUBSET Nat
  OBVIOUS
<1>4. I = Nat
  <2> HIDE DEF I
  <2> QED BY <1>1, <1>2, <1>3, Induction
<1> QED BY <1>4

(* What is picked of what was picked. *)
LEMMA PickedOfPicked ==
    ASSUME NEW S, NEW U, NEW H, NEW n \in Nat, NEW v, PickedTo(v, S, U, H, n),
           NEW W, NEW w, PickedTo(w, S, W, v, Len(v)),
           NEW X, \A u \in Nat : u \in X <=> u \in U /\ Rank(U, u) \in W
    PROVE  PickedTo(w, S, X, H, n)
<1>1. v \in Seq(S) /\ Len(v) = Rank(U, n) /\ \A u \in Up(U, n) : v[Rank(U, u)] = H[u]
  BY DEF PickedTo
<1>2. w \in Seq(S) /\ Len(w) = Rank(W, Len(v)) /\ \A x \in Up(W, Len(v)) : w[Rank(W, x)] = v[x]
  BY DEF PickedTo
<1>3. Len(w) = Rank(X, n)
  BY <1>1, <1>2, RankOfRank
<1>4. ASSUME NEW u \in Up(X, n) PROVE w[Rank(X, u)] = H[u]
  <2>1. u \in X /\ u \in Nat /\ u >= 1 /\ u <= n
    BY UpHolds
  <2>2. u \in U /\ Rank(U, u) \in W
    BY <2>1
  <2>3. u \in Up(U, n)
    BY <2>1, <2>2 DEF Up
  <2>4. Rank(U, u) \in 1..Rank(U, n)
    BY <2>3, PlaceIs
  <2>5. Rank(U, u) \in Up(W, Len(v))
    BY <1>1, <2>2, <2>4 DEF Up
  <2>6. Rank(X, u) = Rank(W, Rank(U, u))
    BY <2>1, RankOfRank
  <2> QED BY <1>1, <1>2, <2>3, <2>5, <2>6
<1> QED BY <1>2, <1>3, <1>4 DEF PickedTo

(* Picked from a longer list that has nothing more to pick, or from one    *)
(* that has the same elements there.                                       *)
LEMMA PickedAlso ==
    ASSUME NEW S, NEW U, NEW H, NEW k \in Nat, NEW v, PickedTo(v, S, U, H, k),
           NEW Z, NEW V, NEW K, NEW n \in Nat, Up(U, k) = Up(V, n),
           \A u \in Up(V, n) : K[u] = H[u] /\ K[u] \in Z /\ Rank(U, u) = Rank(V, u)
    PROVE  PickedTo(v, Z, V, K, n)
<1>1. v \in Seq(S) /\ Len(v) = Rank(U, k) /\ \A u \in Up(U, k) : v[Rank(U, u)] = H[u]
  BY DEF PickedTo
<1>2. Len(v) = Rank(V, n)
  BY <1>1 DEF Rank
<1>3. \A u \in Up(V, n) : v[Rank(V, u)] = K[u]
  BY <1>1
<1>4. \A i \in DOMAIN v : \E u \in Up(U, k) : Rank(U, u) = i /\ v[i] = H[u]
  BY PickedFrom
<1>5. \A i \in DOMAIN v : v[i] \in Z
  BY <1>4
<1>6. v \in Seq(Z)
  <2>1. Len(v) \in Nat /\ DOMAIN v = 1..Len(v)
    BY <1>1, LenProperties
  <2>2. SubSeq(v, 1, Len(v)) = v
    BY <1>1, SubSeqFull
  <2>3. 1 \in Int /\ Len(v) \in Int /\ \A i \in 1..Len(v) : v[i] \in Z
    BY <1>5, <2>1
  <2>4. SubSeq(v, 1, Len(v)) \in Seq(Z)
    BY ONLY <2>3, SubSeqProperties
  <2> QED BY <2>2, <2>4
<1> QED BY <1>2, <1>3, <1>6 DEF PickedTo

(* Places depend on what is in front only. *)
LEMMA RankSame ==
    ASSUME NEW U, NEW V, NEW k \in Nat, \A u \in 1..k : u \in U <=> u \in V
    PROVE  Up(U, k) = Up(V, k) /\ Rank(U, k) = Rank(V, k)
<1>1. Up(U, k) = Up(V, k)
  BY DEF Up
<1> QED BY <1>1 DEF Rank

-----------------------------------------------------------------------------
(* heap-compare.py's rows. *)
Listed(f, r) == {i \in 1..Len(f) : i < r /\ f[i].k = "row" /\ f[i].cols >= 8 /\ ~f[i].indented /\ f[i].hob # "NoHob"}

(* heap-compare.py: its rows are those listed in front of the registers. *)
LEMMA DdrRowsPicked ==
    ASSUME NEW f, NEW m, NEW r, MapsAt(f, m, r)
    PROVE  PickedTo(DdrRows(f), FileRow, Listed(f, r), f, Len(f))
<1> DEFINE n == Len(f)
           cuts == {i \in 1..n : f[i].k = "section" /\ f[i].name = "RegisterMap"}
           head == SubSeq(f, 1, r - 1)
           T == {l \in ToSet(head) : l.k = "row" /\ l.cols >= 8 /\ ~l.indented /\ l.hob # "NoHob"}
           U == {k \in 1..Len(head) : head[k] \in T}
<1>1. /\ f \in Seq(FileLine) /\ m \in Nat /\ r \in Nat /\ m >= 1 /\ m < r /\ r <= n /\ n \in Nat
      /\ IsSection(f[m], "MemoryMap") /\ IsSection(f[r], "RegisterMap")
      /\ \A i \in 1..(r - 1) : f[i].k = "section" => i = m \/ (i < m /\ f[i].name # "RegisterMap")
  BY LenProperties DEF MapsAt
<1>2. Min(cuts) = r /\ cuts # {}
  <2>1. r \in cuts
    BY <1>1 DEF IsSection
  <2>2. \A i \in cuts : ~(i < r)
    <3> SUFFICES ASSUME NEW i \in cuts, i < r PROVE FALSE
      OBVIOUS
    <3>1. i \in 1..(r - 1) /\ f[i].k = "section" /\ f[i].name = "RegisterMap"
      BY <1>1
    <3>2. i = m
      BY <1>1, <3>1
    <3>3. f[m].name = "MemoryMap"
      BY <1>1 DEF IsSection
    <3> QED BY <3>1, <3>2, <3>3
  <2>3. Min(cuts) \in cuts /\ Min(cuts) <= r
    BY <1>1, <2>1, MinOf
  <2>4. Min(cuts) \in Nat
    BY <2>3
  <2> QED BY <1>1, <2>1, <2>2, <2>3, <2>4
<1>3. DdrRows(f) = Kept(head, T)
  <2>1. SelectInSeq(f, LAMBDA l : l.k = "section" /\ l.name = "RegisterMap") = r
    BY <1>2 DEF SelectInSeq
  <2>2. r # 0
    BY <1>1
  <2> QED BY <2>1, <2>2 DEF DdrRows
<1>4. /\ head \in Seq(FileLine) /\ Len(head) = r - 1 /\ r - 1 \in Nat
      /\ \A i \in 1..(r - 1) : head[i] = f[i]
  <2>1. r - 1 \in Nat /\ 1 \in 1..(n + 1) /\ r - 1 \in 0..n
    BY <1>1
  <2> QED BY <1>1, <2>1, SubSeqProperties
<1> HIDE DEF head
<1>5. PickedTo(Kept(head, T), FileLine, U, head, r - 1)
  BY <1>4, KeptPicks
<1>6. \A i \in 1..(r - 1) : i \in U <=> i \in Listed(f, r)
  <2>1. \A i \in 1..(r - 1) : head[i] \in ToSet(head)
    <3>1. DOMAIN head = 1..(r - 1)
      BY <1>4, LenProperties
    <3> QED BY <3>1 DEF ToSet
  <2>2. \A i \in 1..(r - 1) : i \in 1..n /\ i < r
    BY <1>1
  <2> QED BY <1>4, <2>1, <2>2 DEF Listed
<1> HIDE DEF U
<1>7. Up(U, r - 1) = Up(Listed(f, r), n)
  <2>1. Up(U, r - 1) = Up(Listed(f, r), r - 1)
    BY <1>4, <1>6, RankSame
  <2>2. Up(Listed(f, r), r - 1) = Up(Listed(f, r), n)
    BY <1>1 DEF Up, Listed
  <2> QED BY <2>1, <2>2
<1>8. \A u \in Up(Listed(f, r), n) : f[u] = head[u] /\ f[u] \in FileRow /\ Rank(U, u) = Rank(Listed(f, r), u)
  <2> SUFFICES ASSUME NEW u \in Up(Listed(f, r), n)
               PROVE  f[u] = head[u] /\ f[u] \in FileRow /\ Rank(U, u) = Rank(Listed(f, r), u)
    OBVIOUS
  <2>1. u \in 1..n /\ u < r /\ f[u].k = "row"
    BY DEF Up, Listed
  <2>2. u \in 1..(r - 1) /\ u \in Nat
    BY <1>1, <2>1
  <2>3. f[u] \in FileRow
    <3>1. f[u] \in FileLine
      BY <1>1, <2>1, ElementOfSeq
    <3> QED BY <2>1, <3>1, LineKinds
  <2>4. \A i \in 1..u : i \in 1..(r - 1)
    BY <1>1, <2>2
  <2>5. Rank(U, u) = Rank(Listed(f, r), u)
    BY <1>6, <2>2, <2>4, RankSame
  <2> QED BY <1>4, <2>2, <2>3, <2>5
<1> QED BY <1>1, <1>3, <1>4, <1>5, <1>7, <1>8, PickedAlso

-----------------------------------------------------------------------------
(* heap-compare.py and read-dram.py read the rows the generator reads. *)
LEMMA ReadersAgree ==
    ASSUME NEW f, NEW m, NEW r, MapsAt(f, m, r)
    PROVE  FileReadersAgree(f)
<1> DEFINE n == Len(f)
           c == ParseUefiplat(f)
           M == MemoryRows(f, r)
           R == RegisterRows(f, r)
           D == Listed(f, r)
<1>1. /\ f \in Seq(FileLine) /\ m \in Nat /\ r \in Nat /\ m >= 1 /\ m < r /\ r <= n /\ n \in Nat
      /\ DOMAIN f = 1..n /\ IsSection(f[r], "RegisterMap")
  BY LenProperties DEF MapsAt
<1>2. /\ c \in Config
      /\ PickedTo(c.memory, FileRow, M, f, n) /\ PickedTo(c.registers, FileRow, R, f, n)
  BY ParsedIs
<1>3. PickedTo(DdrRows(f), FileRow, D, f, n)
  BY DdrRowsPicked
<1>4. /\ Up(M, n) = M /\ Up(R, n) = R /\ Up(D, n) = D
      /\ D \subseteq M
  BY DEF Up, MemoryRows, RegisterRows, Listed
<1>5. /\ \A i \in 1..n : i \in M <=> f[i].k = "row" /\ i < r
      /\ \A i \in 1..n : i \in R <=> f[i].k = "row" /\ r < i
      /\ \A i \in 1..n : i \in D <=> i < r /\ f[i].k = "row" /\ f[i].cols >= 8 /\ ~f[i].indented /\ f[i].hob # "NoHob"
      /\ M \subseteq 1..n /\ R \subseteq 1..n /\ D \subseteq 1..n
  BY DEF MemoryRows, RegisterRows, Listed
<1> HIDE DEF c, M, R, D
<1>6. /\ ToSet(c.memory) = {f[u] : u \in M} /\ ToSet(c.registers) = {f[u] : u \in R}
      /\ ToSet(DdrRows(f)) = {f[u] : u \in D}
  <2>1. ToSet(c.memory) = {f[u] : u \in Up(M, n)}
    BY <1>1, <1>2, PickedSet
  <2>2. ToSet(c.registers) = {f[u] : u \in Up(R, n)}
    BY <1>1, <1>2, PickedSet
  <2>3. ToSet(DdrRows(f)) = {f[u] : u \in Up(D, n)}
    BY <1>1, <1>3, PickedSet
  <2> QED BY <1>4, <2>1, <2>2, <2>3
<1>7. ToSet(DdrRows(f)) \subseteq ToSet(c.memory)
  BY <1>4, <1>6
<1>8. ASSUME Written(f) PROVE DdrRows(f) = Kept(c.memory, {l \in ToSet(c.memory) : l.hob # "NoHob"})
  <2> DEFINE v == c.memory
             T == {l \in ToSet(v) : l.hob # "NoHob"}
             W == {k \in 1..Len(v) : v[k] \in T}
  <2>1. v \in Seq(FileRow) /\ Len(v) \in Nat /\ DOMAIN v = 1..Len(v)
    BY <1>2, LenProperties DEF PickedTo
  <2>2. PickedTo(Kept(v, T), FileRow, W, v, Len(v))
    BY <2>1, KeptPicks
  <2>3. \A u \in Up(M, n) : Rank(M, u) \in DOMAIN v /\ v[Rank(M, u)] = f[u]
    <3> HIDE DEF v
    <3>1. PickedTo(v, FileRow, M, f, n)
      BY <1>2 DEF v
    <3> QED BY <1>1, <3>1, PickedHas
  <2>4. \A u \in Nat : u \in D <=> u \in M /\ Rank(M, u) \in W
    <3> SUFFICES ASSUME NEW u \in Nat PROVE u \in D <=> u \in M /\ Rank(M, u) \in W
      OBVIOUS
    <3>1. CASE u \notin M
      BY <1>4, <3>1
    <3>2. CASE u \in M
      <4>1. Rank(M, u) \in 1..Len(v) /\ v[Rank(M, u)] = f[u] /\ f[u] \in ToSet(v)
        BY <1>4, <1>6, <2>1, <2>3, <3>2
      <4>2. Rank(M, u) \in W <=> f[u].hob # "NoHob"
        BY <4>1
      <4>3. f[u].k = "row" /\ u < r /\ u \in 1..n
        BY <1>5, <3>2
      <4>4. f[u].cols = 8 /\ ~f[u].indented
        BY <1>1, <1>8, <4>3 DEF Written
      <4>5. u \in D <=> f[u].hob # "NoHob"
        BY <1>5, <4>3, <4>4
      <4> QED BY <3>2, <4>2, <4>5
    <3> QED BY <3>1, <3>2
  <2> HIDE DEF v, T, W
  <2>5. PickedTo(v, FileRow, M, f, n)
    BY <1>2 DEF v
  <2>6. PickedTo(Kept(v, T), FileRow, D, f, n)
    BY <1>1, <2>2, <2>4, <2>5, PickedOfPicked
  <2>7. DdrRows(f) = Kept(v, T)
    BY <1>1, <1>3, <2>6, PickedSame
  <2> QED BY <2>7 DEF v, T
<1>9. ToSet(LoadMap(f)) = ToSet(EmitMemmap(c))
  <2> DEFINE T == {l \in ToSet(f) : l.k = "row"}
             L == {k \in 1..n : f[k] \in T}
  <2>1. PickedTo(Kept(f, T), FileLine, L, f, n)
    BY <1>1, KeptPicks
  <2>2. Up(L, n) = L /\ \A i \in 1..n : i \in L <=> f[i].k = "row"
    <3>1. \A i \in 1..n : f[i] \in ToSet(f)
      BY <1>1 DEF ToSet
    <3> QED BY <3>1 DEF Up
  <2> HIDE DEF T, L
  <2>3. ToSet(Kept(f, T)) = {f[u] : u \in L}
    <3>1. ToSet(Kept(f, T)) = {f[u] : u \in Up(L, n)}
      BY <1>1, <2>1, PickedSet
    <3> QED BY <2>2, <3>1
  <2>4. L = M \cup R
    <3>1. L \subseteq 1..n
      BY DEF L
    <3>2. \A i \in 1..n : f[i].k = "row" => i # r
      BY <1>1 DEF IsSection
    <3>3. \A i \in 1..n : i # r <=> i < r \/ r < i
      BY <1>1
    <3> QED BY <1>5, <2>2, <3>1, <3>2, <3>3
  <2>5. c.memory \in Seq(FileRow) /\ c.registers \in Seq(FileRow)
    BY <1>2 DEF PickedTo
  <2>6. ToSet(c.memory \o c.registers) = ToSet(c.memory) \cup ToSet(c.registers)
    <3> DEFINE a == c.memory
               b == c.registers
    <3>1. /\ Len(a) \in Nat /\ Len(b) \in Nat /\ DOMAIN a = 1..Len(a) /\ DOMAIN b = 1..Len(b)
          /\ a \o b \in Seq(FileRow) /\ Len(a \o b) = Len(a) + Len(b)
          /\ \A i \in 1..(Len(a) + Len(b)) : (a \o b)[i] = IF i <= Len(a) THEN a[i] ELSE b[i - Len(a)]
      BY <2>5, LenProperties, ConcatProperties
    <3>2. DOMAIN (a \o b) = 1..(Len(a) + Len(b))
      BY <3>1, LenProperties
    <3> HIDE DEF a, b
    <3>3. \A i \in DOMAIN (a \o b) : (a \o b)[i] \in ToSet(a) \cup ToSet(b)
      <4> SUFFICES ASSUME NEW i \in DOMAIN (a \o b) PROVE (a \o b)[i] \in ToSet(a) \cup ToSet(b)
        OBVIOUS
      <4>1. CASE i <= Len(a)
        <5>1. i \in DOMAIN a /\ (a \o b)[i] = a[i]
          BY <3>1, <3>2, <4>1
        <5> QED BY <5>1 DEF ToSet
      <4>2. CASE ~(i <= Len(a))
        <5>1. i - Len(a) \in DOMAIN b /\ (a \o b)[i] = b[i - Len(a)]
          BY <3>1, <3>2, <4>2
        <5> QED BY <5>1 DEF ToSet
      <4> QED BY <4>1, <4>2
    <3>4. \A i \in DOMAIN a : i \in DOMAIN (a \o b) /\ (a \o b)[i] = a[i]
      BY <3>1, <3>2
    <3>5. \A i \in DOMAIN b : i + Len(a) \in DOMAIN (a \o b) /\ (a \o b)[i + Len(a)] = b[i]
      <4> SUFFICES ASSUME NEW i \in DOMAIN b
                   PROVE  i + Len(a) \in DOMAIN (a \o b) /\ (a \o b)[i + Len(a)] = b[i]
        OBVIOUS
      <4>1. i + Len(a) \in 1..(Len(a) + Len(b)) /\ ~(i + Len(a) <= Len(a)) /\ (i + Len(a)) - Len(a) = i
        BY <3>1
      <4>2. (a \o b)[i + Len(a)] = b[(i + Len(a)) - Len(a)]
        BY <3>1, <4>1
      <4> QED BY <3>2, <4>1, <4>2
    <3>6. ToSet(a \o b) = ToSet(a) \cup ToSet(b)
      BY <3>3, <3>4, <3>5 DEF ToSet
    <3> QED BY <3>6 DEF a, b
  <2> QED BY <1>6, <2>3, <2>4, <2>6 DEF LoadMap, EmitMemmap, T
<1> QED BY <1>7, <1>8, <1>9 DEF FileReadersAgree, c

(* The first entry of a key of the file is one of the file. *)
LEMMA FileDecidesHolds ==
    ASSUME NEW f, ParseUefiplat(f) \in Config
    PROVE  FileDecides(f)
<1> DEFINE c == ParseUefiplat(f)
           P == c.params
           T == {p \in ToSet(P) : p[1] \notin CONFIG_META_KEYS}
           K == Kept(P, T)
           map == K \o CONFIG_EXTRA
           U == {k \in 1..Len(P) : P[k] \in T}
<1>1. P \in Seq(Entry) /\ Len(P) \in Nat /\ DOMAIN P = 1..Len(P)
  <2>1. P \in Seq(Entry)
    BY DEF Config
  <2> HIDE DEF P
  <2> QED BY <2>1, LenProperties
<1>2. EmitConfigmap(c) = map
  BY DEF EmitConfigmap
<1>3. CONFIG_EXTRA \in Seq(Entry)
  BY BuildAssumption DEF Entry
<1> HIDE DEF P
<1>4. PickedTo(K, Entry, U, P, Len(P))
  BY <1>1, KeptPicks
<1>5. \A x \in 1..Len(P) : x \in U <=> P[x][1] \notin CONFIG_META_KEYS
  <2>1. \A x \in 1..Len(P) : P[x] \in ToSet(P)
    BY <1>1 DEF ToSet
  <2> QED BY <2>1
<1> HIDE DEF T, K, U
<1>6. /\ K \in Seq(Entry) /\ Len(K) \in Nat /\ DOMAIN K = 1..Len(K)
  BY <1>4, LenProperties DEF PickedTo
<1>7. /\ map \in Seq(Entry) /\ Len(map) \in Nat /\ Len(map) >= Len(K)
      /\ \A x \in 1..Len(K) : map[x] = K[x]
  <2>1. Len(CONFIG_EXTRA) \in Nat
    BY <1>3, LenProperties
  <2>2. /\ map \in Seq(Entry) /\ Len(map) = Len(K) + Len(CONFIG_EXTRA)
        /\ \A x \in 1..(Len(K) + Len(CONFIG_EXTRA)) : map[x] = IF x <= Len(K) THEN K[x] ELSE CONFIG_EXTRA[x - Len(K)]
    BY <1>3, <1>6, ConcatProperties
  <2> HIDE DEF map
  <2> QED BY <1>6, <2>1, <2>2
<1> HIDE DEF map
<1>8. ASSUME NEW i \in 1..Len(P), P[i][1] \notin CONFIG_META_KEYS
      PROVE  \E j \in 1..i : map[GetConfig(map, P[i][1])] = P[j]
  <2> DEFINE key == P[i][1]
             I == {x \in 1..Len(map) : map[x][1] = key}
             q == Rank(U, i)
  <2>1. i \in Up(U, Len(P)) /\ i \in Nat /\ i \in U
    BY <1>1, <1>5, <1>8 DEF Up
  <2>2. q \in DOMAIN K /\ K[q] = P[i]
    BY <1>1, <1>4, <2>1, PickedHas
  <2>3. q \in I
    BY <1>6, <1>7, <2>2
  <2>4. GetConfig(map, key) = Min(I)
    BY <2>3 DEF GetConfig, SelectInSeq
  <2> DEFINE g == Min(I)
  <2>5. g \in I /\ g <= q
    BY <1>7, <2>3, MinOf
  <2>6. g \in DOMAIN K /\ map[g] = K[g] /\ g \in Nat /\ q \in Nat
    BY <1>6, <1>7, <2>2, <2>5
  <2> HIDE DEF g, q
  <2>7. \A x \in DOMAIN K : \E u \in Up(U, Len(P)) : Rank(U, u) = x /\ K[x] = P[u]
    BY <1>1, <1>4, PickedFrom
  <2>8. PICK u \in Up(U, Len(P)) : Rank(U, u) = g /\ K[g] = P[u]
    BY <2>6, <2>7
  <2>9. u \in U /\ u \in Nat /\ u >= 1
    BY <1>1, UpHolds
  <2>10. i < u => Rank(U, i) < Rank(U, u)
    BY <2>1, <2>9, RankGrows
  <2>11. ~(i < u)
    BY <2>5, <2>6, <2>8, <2>10 DEF q
  <2>12. u \in 1..i
    BY <2>1, <2>9, <2>11
  <2>13. GetConfig(map, key) = g
    BY <2>4 DEF g
  <2> QED BY <2>6, <2>8, <2>12, <2>13
<1> QED BY <1>1, <1>2, <1>8 DEF FileDecides, P

(* The rows that are at an address or in front of it in the order by       *)
(* address, those of one address staying in theirs.                        *)
Before(rows, i) ==
    {j \in DOMAIN rows : \/ rows[j].base < rows[i].base
                         \/ rows[j].base = rows[i].base /\ j <= i}

(* Of two rows, one has more in front of it: no place is taken twice. *)
LEMMA BeforeGrows ==
    ASSUME NEW rows \in Seq(FileRow), NEW a \in DOMAIN rows, NEW b \in DOMAIN rows, a # b
    PROVE  /\ Cardinality(Before(rows, a)) \in DOMAIN rows
           /\ (rows[a].base < rows[b].base \/ (rows[a].base = rows[b].base /\ a <= b)) =>
                  Cardinality(Before(rows, a)) < Cardinality(Before(rows, b))
<1> DEFINE n == Len(rows)
<1>1. n \in Nat /\ DOMAIN rows = 1..n /\ \A i \in 1..n : rows[i].base \in Nat
  <2>1. n \in Nat /\ DOMAIN rows = 1..n
    BY LenProperties
  <2>2. \A i \in 1..n : rows[i] \in FileRow
    BY ElementOfSeq
  <2> QED BY <2>1, <2>2 DEF FileRow
<1>2. IsFiniteSet(1..n) /\ Cardinality(1..n) = n
  <2> HIDE DEF n
  <2>1. /\ IsFiniteSet(1..n)
        /\ Cardinality(1..n) = IF 1 > n THEN 0 ELSE n - 1 + 1
    BY <1>1, FS_Interval
  <2> QED BY <1>1, <2>1
<1>3. ASSUME NEW i \in 1..n
      PROVE  /\ Before(rows, i) \in SUBSET (1..n) /\ i \in Before(rows, i)
             /\ IsFiniteSet(Before(rows, i)) /\ Cardinality(Before(rows, i)) \in 1..n
  <2>1. Before(rows, i) \in SUBSET (1..n) /\ i \in Before(rows, i)
    BY <1>1 DEF Before
  <2>2. IsFiniteSet(Before(rows, i)) /\ Cardinality(Before(rows, i)) <= n
    BY <1>2, <2>1, FS_Subset
  <2>3. Cardinality(Before(rows, i)) \in Nat /\ Cardinality(Before(rows, i)) # 0
    BY <2>1, <2>2, FS_CardinalityType, FS_EmptySet
  <2> QED BY <1>1, <2>1, <2>2, <2>3
<1>4. ASSUME rows[a].base < rows[b].base \/ (rows[a].base = rows[b].base /\ a <= b)
      PROVE  Cardinality(Before(rows, a)) < Cardinality(Before(rows, b))
  <2>1. a \in Nat /\ b \in Nat /\ rows[a].base \in Nat /\ rows[b].base \in Nat
    BY <1>1
  <2>2. Before(rows, a) \in SUBSET Before(rows, b)
    <3> SUFFICES ASSUME NEW j \in Before(rows, a) PROVE j \in Before(rows, b)
      OBVIOUS
    <3>1. j \in DOMAIN rows /\ j \in Nat /\ rows[j].base \in Nat
      BY <1>1 DEF Before
    <3>2. rows[j].base < rows[a].base \/ (rows[j].base = rows[a].base /\ j <= a)
      BY DEF Before
    <3>3. rows[j].base < rows[b].base \/ (rows[j].base = rows[b].base /\ j <= b)
      BY <1>4, <2>1, <3>1, <3>2
    <3> QED BY <3>1, <3>3 DEF Before
  <2>3. b \notin Before(rows, a)
    <3> SUFFICES ASSUME b \in Before(rows, a) PROVE FALSE
      OBVIOUS
    <3>1. rows[b].base < rows[a].base \/ (rows[b].base = rows[a].base /\ b <= a)
      BY DEF Before
    <3> QED BY <1>4, <2>1, <3>1
  <2>4. b \in Before(rows, b) /\ IsFiniteSet(Before(rows, b))
    BY <1>1, <1>3
  <2>5. /\ Cardinality(Before(rows, a)) <= Cardinality(Before(rows, b))
        /\ Cardinality(Before(rows, a)) # Cardinality(Before(rows, b))
    BY <2>2, <2>3, <2>4, FS_Subset
  <2>6. Cardinality(Before(rows, a)) \in Nat /\ Cardinality(Before(rows, b)) \in Nat
    BY <1>1, <1>3
  <2> QED BY <2>5, <2>6
<1> QED BY <1>1, <1>3, <1>4

(* By address: the same rows, none behind one of a higher address. *)
LEMMA ByAddressSorts ==
    ASSUME NEW rows \in Seq(FileRow)
    PROVE  /\ ByAddress(rows) \in Seq(FileRow) /\ Len(ByAddress(rows)) = Len(rows)
           /\ ToSet(ByAddress(rows)) = ToSet(rows)
           /\ \A i, j \in 1..Len(rows) : i < j => ByAddress(rows)[i].base <= ByAddress(rows)[j].base
<1> DEFINE n == Len(rows)
           place(i) == Cardinality(Before(rows, i))
           at(x) == CHOOSE i \in DOMAIN rows : place(i) = x
           v == [x \in DOMAIN rows |-> rows[at(x)]]
           f == [i \in 1..n |-> place(i)]
<1>1. n \in Nat /\ DOMAIN rows = 1..n /\ \A i \in 1..n : rows[i] \in FileRow /\ rows[i].base \in Nat
  <2>1. n \in Nat /\ DOMAIN rows = 1..n
    BY LenProperties
  <2>2. \A i \in 1..n : rows[i] \in FileRow
    BY ElementOfSeq
  <2> QED BY <2>1, <2>2 DEF FileRow
<1>2. ByAddress(rows) = v
  BY DEF ByAddress, Before
<1>3. ASSUME NEW i \in 1..n PROVE place(i) \in 1..n
  <2>1. CASE \E j \in 1..n : j # i
    BY <1>1, <2>1, BeforeGrows
  <2>2. CASE ~ \E j \in 1..n : j # i
    <3>1. Before(rows, i) = {i}
      BY <1>1, <2>2 DEF Before
    <3>2. place(i) = 1
      BY <3>1, FS_Singleton
    <3> QED BY <1>1, <3>2
  <2> QED BY <2>1, <2>2
<1>4. ASSUME NEW i \in 1..n, NEW j \in 1..n, i # j,
             rows[i].base < rows[j].base \/ (rows[i].base = rows[j].base /\ i <= j)
      PROVE  place(i) < place(j)
  BY <1>1, <1>4, BeforeGrows
<1>5. \A i, j \in 1..n : rows[i].base < rows[j].base => place(i) < place(j)
  BY <1>1, <1>4
<1>6. \A i, j \in 1..n : place(i) = place(j) => i = j
  <2> SUFFICES ASSUME NEW i \in 1..n, NEW j \in 1..n, i # j PROVE place(i) # place(j)
    OBVIOUS
  <2>1. /\ i \in Nat /\ j \in Nat /\ rows[i].base \in Nat /\ rows[j].base \in Nat
        /\ place(i) \in Nat /\ place(j) \in Nat
    BY <1>1, <1>3
  <2>2. CASE rows[i].base < rows[j].base \/ (rows[i].base = rows[j].base /\ i <= j)
    BY <1>4, <2>1, <2>2
  <2>3. CASE rows[j].base < rows[i].base \/ (rows[j].base = rows[i].base /\ j <= i)
    BY <1>4, <2>1, <2>3
  <2> QED BY <2>1, <2>2, <2>3
<1>7. \A x \in 1..n : \E i \in 1..n : place(i) = x
  <2>1. f \in Injection(1..n, 1..n)
    <3>1. f \in [1..n -> 1..n] /\ \A i \in 1..n : f[i] = place(i)
      BY <1>3
    <3> HIDE DEF f
    <3> QED BY <1>6, <3>1 DEF Injection, IsInjective
  <2>2. IsFiniteSet(1..n)
    BY <1>1, FS_Interval
  <2>3. f \in Surjection(1..n, 1..n)
    BY <2>1, <2>2, FS_Injection
  <2>4. \A x \in 1..n : \E i \in 1..n : f[i] = x
    BY <2>3 DEF Surjection
  <2> QED BY <2>4
<1> HIDE DEF place
<1>8. \A x \in 1..n : at(x) \in 1..n /\ place(at(x)) = x
  BY <1>1, <1>7
<1>9. \A i \in 1..n : at(place(i)) = i
  BY <1>3, <1>6, <1>8
<1> HIDE DEF at
<1>10. v \in Seq(FileRow) /\ Len(v) = n
  <2>1. \A x \in 1..n : rows[at(x)] \in FileRow
    BY <1>1, <1>8
  <2>2. v = [x \in 1..n |-> rows[at(x)]]
    BY <1>1
  <2> HIDE DEF v
  <2> QED BY <1>1, <2>1, <2>2
<1>11. \A x \in 1..n : v[x] = rows[at(x)]
  BY <1>1
<1>12. DOMAIN v = 1..n
  BY <1>1
<1> HIDE DEF v
<1>13. ToSet(v) = ToSet(rows)
  <2>1. \A x \in 1..n : \E i \in 1..n : v[x] = rows[i]
    BY <1>8, <1>11
  <2>2. \A i \in 1..n : \E x \in 1..n : v[x] = rows[i]
    BY <1>3, <1>9, <1>11
  <2>3. ToSet(v) = {v[x] : x \in 1..n} /\ ToSet(rows) = {rows[x] : x \in 1..n}
    BY <1>1, <1>12 DEF ToSet
  <2>4. \A x \in 1..n : v[x] \in ToSet(rows)
    BY ONLY <2>1, <2>3
  <2>5. \A x \in 1..n : rows[x] \in ToSet(v)
    BY ONLY <2>2, <2>3
  <2> QED BY ONLY <2>3, <2>4, <2>5
<1>14. ASSUME NEW i \in 1..n, NEW j \in 1..n, i < j PROVE v[i].base <= v[j].base
  <2>1. /\ at(i) \in 1..n /\ at(j) \in 1..n /\ place(at(i)) = i /\ place(at(j)) = j
        /\ v[i] = rows[at(i)] /\ v[j] = rows[at(j)]
    BY <1>8, <1>11
  <2>2. rows[at(j)].base < rows[at(i)].base => j < i
    BY <1>5, <2>1
  <2>3. rows[at(i)].base \in Nat /\ rows[at(j)].base \in Nat
    BY <1>1, <2>1
  <2> QED BY <1>14, <2>1, <2>2, <2>3
<1> QED BY <1>2, <1>10, <1>13, <1>14

HoleAt == [at : Nat, size : Nat]
Scan   == [end : Nat, holes : Seq(HoleAt)]
NoScan == [end |-> 0, holes |-> <<>>]

(* The scan of the holes starts with none. *)
LEMMA NoScanIsScan == NoScan \in Scan
<1>1. <<>> \in Seq(HoleAt)
  BY EmptySeq
<1> QED BY <1>1 DEF NoScan, Scan

(* The greater of two. *)
LEMMA MaxOfTwo ==
    ASSUME NEW a \in Nat, NEW b \in Nat
    PROVE  Max({a, b}) = IF a >= b THEN a ELSE b
BY DEF Max

(* What NextHole makes of a row. *)
LEMMA NextHoleStep ==
    ASSUME NEW acc \in Scan, NEW row \in FileRow
    PROVE  /\ NextHole(acc, row) \in Scan
           /\ NextHole(acc, row).end = IF acc.end >= row.base + row.size THEN acc.end ELSE row.base + row.size
           /\ NextHole(acc, row).holes =
                  IF row.base > acc.end /\ acc.end >= DDR_BASE
                    THEN Append(acc.holes, [at |-> acc.end, size |-> row.base - acc.end]) ELSE acc.holes
<1>1. acc.end \in Nat /\ acc.holes \in Seq(HoleAt) /\ row.base \in Nat /\ row.size \in Nat
  BY DEF Scan, FileRow
<1> DEFINE over == Max({acc.end, row.base + row.size})
           gone == IF row.base > acc.end /\ acc.end >= DDR_BASE
                     THEN Append(acc.holes, [at |-> acc.end, size |-> row.base - acc.end]) ELSE acc.holes
<1>2. NextHole(acc, row) = [end |-> over, holes |-> gone]
  BY DEF NextHole
<1>3. over = IF acc.end >= row.base + row.size THEN acc.end ELSE row.base + row.size
  BY <1>1, MaxOfTwo
<1>4. over \in Nat
  BY <1>1, <1>3
<1>5. gone \in Seq(HoleAt)
  <2>1. CASE row.base > acc.end
    <3>1. row.base - acc.end \in Nat
      BY <1>1, <2>1
    <3>2. [at |-> acc.end, size |-> row.base - acc.end] \in HoleAt
      BY <1>1, <3>1 DEF HoleAt
    <3>3. Append(acc.holes, [at |-> acc.end, size |-> row.base - acc.end]) \in Seq(HoleAt)
      BY <1>1, <3>2, AppendProperties
    <3> QED BY <1>1, <3>3
  <2>2. CASE ~(row.base > acc.end)
    BY <1>1, <2>2
  <2> QED BY <2>1, <2>2
<1> HIDE DEF over, gone
<1> QED BY <1>2, <1>3, <1>4, <1>5 DEF Scan, gone

(* Holes is the fold of NextHole. *)
LEMMA HolesRun ==
    ASSUME NEW s \in Seq(FileRow)
    PROVE  \E F : /\ FoldLeft(NextHole, [end |-> 0, holes |-> <<>>], s) = F[Len(s)] /\ F[0] = NoScan
                  /\ \A k \in 1..Len(s) : F[k] = NextHole(F[k - 1], s[k])
<1> DEFINE n == Len(s)
           G == [k \in 1..n |-> [a \in Scan |-> NextHole(a, s[k])]]
           P(it) == it = [u \in SUBSET DOMAIN s |->
                            IF u = {} THEN NoScan ELSE NextHole(it[u \ {Max(u)}], s[Max(u)])]
<1>1. n \in Nat /\ DOMAIN s = 1..n /\ \A k \in 1..n : s[k] \in FileRow
  BY LenProperties, ElementOfSeq
<1>2. FoldLeft(NextHole, [end |-> 0, holes |-> <<>>], s) = (CHOOSE it : P(it))[DOMAIN s]
  BY ONLY Zenon DEF FoldLeft, MapThenFoldSet, NoScan
<1> HIDE DEF n
<1>3. \A k \in 1..n, a \in Scan : NextHole(a, s[k]) \in Scan
  BY <1>1, NextHoleStep
<1>4. G \in [1..n -> [Scan -> Scan]] /\ \A k \in 1..n, a \in Scan : G[k][a] = NextHole(a, s[k])
  BY <1>3
<1> HIDE DEF G
<1>5. ASSUME NEW it PROVE Solves(it, Scan, NoScan, G, n) => P(it)
  <2> SUFFICES ASSUME Solves(it, Scan, NoScan, G, n) PROVE P(it)
    OBVIOUS
  <2>1. /\ it \in [SUBSET (1..n) -> Scan]
        /\ \A u \in SUBSET (1..n) : it[u] = IF u = {} THEN NoScan ELSE G[Max(u)][it[u \ {Max(u)}]]
    BY DEF Solves
  <2>2. ASSUME NEW u \in SUBSET (1..n), u # {}
        PROVE  G[Max(u)][it[u \ {Max(u)}]] = NextHole(it[u \ {Max(u)}], s[Max(u)])
    <3>1. Max(u) \in 1..n /\ u \ {Max(u)} \in SUBSET (1..n)
      BY <1>1, <2>2, MaxOf
    <3>2. it[u \ {Max(u)}] \in Scan
      BY <2>1, <3>1
    <3> QED BY <1>4, <3>1, <3>2
  <2> QED BY <1>1, <2>1, <2>2
<1> DEFINE it == CHOOSE it : P(it)
<1>6. P(it)
  <2>1. \E f : Solves(f, Scan, NoScan, G, n)
    BY <1>1, <1>4, NoScanIsScan, FoldGraph
  <2>2. \E f : P(f)
    BY <1>5, <2>1
  <2> HIDE DEF P
  <2> QED BY <2>2
<1> HIDE DEF it
<1> DEFINE F == [k \in 0..n |-> it[1..k]]
<1>7. F[0] = NoScan
  <2>1. 0 \in 0..n /\ 1..0 = {} /\ {} \in SUBSET DOMAIN s
    BY <1>1
  <2> QED BY <1>6, <2>1
<1>8. ASSUME NEW k \in 1..n PROVE F[k] = NextHole(F[k - 1], s[k])
  <2>1. k \in Nat \ {0} /\ k \in 0..n /\ k - 1 \in 0..n /\ 1..k \in SUBSET (1..n) /\ 1..k # {}
    BY <1>1
  <2>2. Max(1..k) = k /\ (1..k) \ {Max(1..k)} = 1..(k - 1)
    BY <2>1, MaxOfRun
  <2>3. F[k] = it[1..k] /\ F[k - 1] = it[1..(k - 1)]
    BY <2>1
  <2>4. it[1..k] = NextHole(it[1..(k - 1)], s[k])
    BY <1>1, <1>6, <2>1, <2>2
  <2> QED BY <2>3, <2>4
<1>9. FoldLeft(NextHole, [end |-> 0, holes |-> <<>>], s) = F[n]
  <2>1. n \in 0..n
    BY <1>1
  <2> QED BY <1>1, <1>2, <2>1 DEF it
<1> QED BY <1>7, <1>8, <1>9 DEF n

-----------------------------------------------------------------------------
End(row) == row.base + row.size

Sorted(s) == s \in Seq(FileRow) /\ \A i, j \in 1..Len(s) : i < j => s[i].base <= s[j].base

(* A hole begins behind the rows in front of a row, and ends at that row.  *)
FreeUpTo(s, h, p) ==
    /\ h.at + h.size = s[p].base
    /\ \A j \in 1..(p - 1) : End(s[j]) <= h.at

InRow(s, j, a)  == s[j].base <= a /\ a < End(s[j])
InHole(h, a)    == h.at <= a /\ a < h.at + h.size

(* What is known of the first k rows and the holes found in them. *)
ScannedSoFar(s, acc, k) ==
    /\ acc \in Scan
    /\ \A j \in 1..k : End(s[j]) <= acc.end
    /\ IF k = 0 THEN acc.end = 0 ELSE \E j \in 1..k : acc.end = End(s[j])
    /\ \A x \in 1..Len(acc.holes) : \E p \in 1..k : FreeUpTo(s, acc.holes[x], p)
    /\ \A a \in Nat :
          (a >= DDR_BASE /\ a < acc.end /\ \E j \in 1..k : DDR_BASE <= End(s[j]) /\ End(s[j]) <= a) =>
              \/ \E j \in 1..k : InRow(s, j, a)
              \/ \E x \in 1..Len(acc.holes) : InHole(acc.holes[x], a)

(* NextHole: one row more, by address. *)
LEMMA ScannedSoFarStep ==
    ASSUME NEW s, Sorted(s), NEW k \in Nat, k + 1 \in 1..Len(s), NEW acc, ScannedSoFar(s, acc, k)
    PROVE  ScannedSoFar(s, NextHole(acc, s[k + 1]), k + 1)
<1> DEFINE row == s[k + 1]
           now == NextHole(acc, row)
           new == [at |-> acc.end, size |-> row.base - acc.end]
<1>1. s \in Seq(FileRow) /\ Len(s) \in Nat /\ \A i, j \in 1..Len(s) : i < j => s[i].base <= s[j].base
  BY LenProperties DEF Sorted
<1>2. \A j \in 1..(k + 1) : j \in 1..Len(s) /\ s[j] \in FileRow /\ s[j].base \in Nat /\ s[j].size \in Nat /\ End(s[j]) \in Nat
  <2>1. \A j \in 1..(k + 1) : j \in 1..Len(s)
    BY <1>1
  <2>2. \A j \in 1..(k + 1) : s[j] \in FileRow
    BY <1>1, <2>1, ElementOfSeq
  <2> QED BY <2>1, <2>2 DEF FileRow, End
<1>3. /\ acc \in Scan
      /\ \A j \in 1..k : End(s[j]) <= acc.end
      /\ IF k = 0 THEN acc.end = 0 ELSE \E j \in 1..k : acc.end = End(s[j])
      /\ \A x \in 1..Len(acc.holes) : \E p \in 1..k : FreeUpTo(s, acc.holes[x], p)
      /\ \A a \in Nat :
            (a >= DDR_BASE /\ a < acc.end /\ \E j \in 1..k : DDR_BASE <= End(s[j]) /\ End(s[j]) <= a) =>
                \/ \E j \in 1..k : InRow(s, j, a)
                \/ \E x \in 1..Len(acc.holes) : InHole(acc.holes[x], a)
  BY DEF ScannedSoFar
<1>4. acc.end \in Nat /\ acc.holes \in Seq(HoleAt) /\ Len(acc.holes) \in Nat /\ DDR_BASE \in Nat
  <2>1. acc.holes \in Seq(HoleAt)
    BY <1>3 DEF Scan
  <2> QED BY <1>3, <2>1, LenProperties, BuildAssumption DEF Scan
<1>5. k + 1 \in 1..(k + 1) /\ row \in FileRow /\ row.base \in Nat /\ row.size \in Nat /\ End(row) \in Nat
  BY <1>2
<1>6. /\ now \in Scan
      /\ now.end = IF acc.end >= End(row) THEN acc.end ELSE End(row)
      /\ now.holes = IF row.base > acc.end /\ acc.end >= DDR_BASE THEN Append(acc.holes, new) ELSE acc.holes
  BY <1>3, <1>5, NextHoleStep DEF End
<1> DEFINE found == row.base > acc.end /\ acc.end >= DDR_BASE
<1>8. /\ Len(now.holes) = IF found THEN Len(acc.holes) + 1 ELSE Len(acc.holes)
      /\ \A x \in 1..Len(acc.holes) : now.holes[x] = acc.holes[x]
      /\ found => now.holes[Len(acc.holes) + 1] = new
  <2>1. CASE found
    <3>1. new \in HoleAt
      <4>1. row.base - acc.end \in Nat
        BY <1>4, <1>5, <2>1
      <4> QED BY <1>4, <4>1 DEF HoleAt
    <3> HIDE DEF new
    <3>2. now.holes = Append(acc.holes, new)
      BY <1>6, <2>1
    <3>3. /\ Len(now.holes) = Len(acc.holes) + 1
          /\ \A x \in 1..Len(acc.holes) : now.holes[x] = acc.holes[x]
          /\ now.holes[Len(acc.holes) + 1] = new
      BY <1>4, <3>1, <3>2, AppendProperties
    <3> QED BY <2>1, <3>3
  <2>2. CASE ~found
    BY <1>6, <2>2
  <2> QED BY <2>1, <2>2
<1>9. /\ found <=> row.base > acc.end /\ acc.end >= DDR_BASE
      /\ new.at = acc.end /\ new.size = row.base - acc.end /\ new.at + new.size = row.base
  BY <1>4, <1>5
<1> HIDE DEF now, row, new, found
<1>10. now.end \in Nat /\ acc.end <= now.end /\ End(row) <= now.end
  BY <1>4, <1>5, <1>6
<1>11. \A j \in 1..(k + 1) : End(s[j]) <= now.end
  <2> SUFFICES ASSUME NEW j \in 1..(k + 1) PROVE End(s[j]) <= now.end
    OBVIOUS
  <2>1. CASE j \in 1..k
    BY <1>2, <1>3, <1>4, <1>10, <2>1
  <2>2. CASE j = k + 1
    BY <1>10, <2>2 DEF row
  <2> QED BY <2>1, <2>2
<1>12. \E j \in 1..(k + 1) : now.end = End(s[j])
  <2>1. CASE acc.end >= End(row)
    <3>1. now.end = acc.end
      BY <1>6, <2>1
    <3>2. CASE k = 0
      <4>1. End(row) = now.end
        BY <1>3, <1>5, <2>1, <3>1, <3>2
      <4> QED BY <1>5, <4>1 DEF row
    <3>3. CASE k # 0
      <4>1. PICK j \in 1..k : acc.end = End(s[j])
        BY <1>3, <3>3
      <4>2. j \in 1..(k + 1)
        OBVIOUS
      <4> QED BY <3>1, <4>1, <4>2
    <3> QED BY <3>2, <3>3
  <2>2. CASE ~(acc.end >= End(row))
    BY <1>5, <1>6, <2>2 DEF row
  <2> QED BY <2>1, <2>2
<1>13. ASSUME NEW x \in 1..Len(now.holes) PROVE \E p \in 1..(k + 1) : FreeUpTo(s, now.holes[x], p)
  <2>1. CASE x \in 1..Len(acc.holes)
    <3>1. PICK p \in 1..k : FreeUpTo(s, acc.holes[x], p)
      BY <1>3, <2>1
    <3>2. p \in 1..(k + 1) /\ now.holes[x] = acc.holes[x]
      BY <1>8, <2>1
    <3> QED BY <3>1, <3>2
  <2>2. CASE x \notin 1..Len(acc.holes)
    <3>1. found /\ x = Len(acc.holes) + 1
      BY <1>4, <1>8, <2>2
    <3>2. now.holes[x] = new
      BY <1>8, <3>1
    <3>3. (k + 1) - 1 = k
      OBVIOUS
    <3>4. FreeUpTo(s, new, k + 1)
      BY <1>3, <1>9, <3>3 DEF FreeUpTo, row
    <3> QED BY <1>5, <3>2, <3>4
  <2> QED BY <2>1, <2>2
<1>14. ASSUME NEW a \in Nat, a >= DDR_BASE, a < now.end,
              NEW e \in 1..(k + 1), DDR_BASE <= End(s[e]), End(s[e]) <= a
       PROVE  \/ \E j \in 1..(k + 1) : InRow(s, j, a)
              \/ \E x \in 1..Len(now.holes) : InHole(now.holes[x], a)
  <2>1. CASE a < acc.end /\ e \in 1..k
    <3>1. \/ \E j \in 1..k : InRow(s, j, a)
          \/ \E x \in 1..Len(acc.holes) : InHole(acc.holes[x], a)
      BY <1>3, <1>14, <2>1
    <3>2. \A j \in 1..k : j \in 1..(k + 1)
      OBVIOUS
    <3>3. \A x \in 1..Len(acc.holes) : x \in 1..Len(now.holes) /\ now.holes[x] = acc.holes[x]
      BY <1>4, <1>8
    <3> QED BY <3>1, <3>2, <3>3
  <2>2. CASE a < acc.end /\ e = k + 1
    <3>1. k # 0
      BY <1>3, <1>4, <2>2
    <3>2. PICK j \in 1..k : acc.end = End(s[j])
      BY <1>3, <3>1
    <3>3. j \in 1..(k + 1) /\ j \in 1..Len(s) /\ j < k + 1
      BY <1>2
    <3>4. s[j].base <= row.base
      BY <1>1, <3>3 DEF row
    <3>5. s[j].base <= a
      <4>1. row.base <= End(row) /\ End(row) <= a
        BY <1>5, <1>14, <2>2 DEF End, row
      <4> QED BY <1>2, <1>5, <3>3, <3>4, <4>1
    <3>6. InRow(s, j, a)
      BY <2>2, <3>2, <3>5 DEF InRow
    <3> QED BY <3>3, <3>6
  <2>3. CASE ~(a < acc.end)
    <3>1. a < End(row)
      BY <1>4, <1>5, <1>6, <1>14, <2>3
    <3>2. CASE row.base <= a
      <4>1. InRow(s, k + 1, a)
        BY <3>1, <3>2 DEF InRow, row
      <4> QED BY <1>5, <4>1
    <3>3. CASE ~(row.base <= a)
      <4>1. e \in 1..k
        <5>1. End(s[e]) <= a /\ a < End(row)
          BY <1>14, <3>1
        <5>2. e # k + 1
          BY <1>2, <1>5, <5>1 DEF row
        <5> QED BY <5>2
      <4>2. found
        <5>1. End(s[e]) <= acc.end /\ End(s[e]) \in Nat
          BY <1>2, <1>3, <4>1
        <5> QED BY <1>4, <1>5, <1>9, <1>14, <2>3, <3>3, <5>1
      <4>3. InHole(new, a)
        BY <1>4, <1>5, <1>9, <2>3, <3>3 DEF InHole
      <4>4. Len(acc.holes) + 1 \in 1..Len(now.holes) /\ now.holes[Len(acc.holes) + 1] = new
        BY <1>4, <1>8, <4>2
      <4> QED BY <4>3, <4>4
    <3> QED BY <3>2, <3>3
  <2> QED BY <2>1, <2>2, <2>3
<1>15. \A a \in Nat :
          (a >= DDR_BASE /\ a < now.end /\ \E j \in 1..(k + 1) : DDR_BASE <= End(s[j]) /\ End(s[j]) <= a) =>
              \/ \E j \in 1..(k + 1) : InRow(s, j, a)
              \/ \E x \in 1..Len(now.holes) : InHole(now.holes[x], a)
  BY <1>14
<1>16. k + 1 # 0
  OBVIOUS
<1>17. ScannedSoFar(s, now, k + 1)
  BY <1>6, <1>11, <1>12, <1>13, <1>15, <1>16 DEF ScannedSoFar
<1> QED BY <1>17 DEF now, row

(* What is known of the holes of a list that is sorted. *)
LEMMA ScannedAll ==
    ASSUME NEW s, Sorted(s)
    PROVE  ScannedSoFar(s, FoldLeft(NextHole, [end |-> 0, holes |-> <<>>], s), Len(s))
<1> DEFINE n == Len(s)
           acc == FoldLeft(NextHole, [end |-> 0, holes |-> <<>>], s)
<1>1. s \in Seq(FileRow) /\ n \in Nat
  BY LenProperties DEF Sorted
<1>2. PICK F : /\ acc = F[n] /\ F[0] = NoScan
               /\ \A k \in 1..n : F[k] = NextHole(F[k - 1], s[k])
  BY <1>1, HolesRun
<1> HIDE DEF acc
<1> DEFINE I == {k \in 0..n : ScannedSoFar(s, F[k], k)}
<1>3. ScannedSoFar(s, NoScan, 0)
  <2>1. NoScan.end = 0 /\ NoScan.holes = <<>> /\ Len(NoScan.holes) = 0
    BY DEF NoScan
  <2>2. \A a \in Nat : ~(a < 0)
    OBVIOUS
  <2> QED BY <2>1, <2>2, NoScanIsScan DEF ScannedSoFar
<1>4. 0 \in I
  BY <1>1, <1>2, <1>3
<1>5. ASSUME NEW k \in 0..(n - 1), k \in I PROVE k + 1 \in I
  <2>1. k \in Nat /\ k + 1 \in 1..n /\ (k + 1) - 1 = k /\ k + 1 \in 0..n
    BY <1>1
  <2>2. F[k + 1] = NextHole(F[k], s[k + 1])
    BY <1>2, <2>1
  <2>3. ScannedSoFar(s, F[k], k)
    BY <1>5
  <2>4. ScannedSoFar(s, F[k + 1], k + 1)
    BY <2>1, <2>2, <2>3, ScannedSoFarStep
  <2> QED BY <2>1, <2>4
<1>6. I \in SUBSET (0..n)
  OBVIOUS
<1> HIDE DEF I
<1>7. n \in I
  BY <1>1, <1>4, <1>5, <1>6, UpTo
<1> QED BY <1>2, <1>7 DEF I, acc

(* The holes and the rows make up the memory. *)
LEMMA HolesHold ==
    ASSUME NEW f, NEW m, NEW r, MapsAt(f, m, r)
    PROVE  HolesAreHoles(f)
<1> DEFINE rows == DdrRows(f)
           s == ByAddress(rows)
           n == Len(s)
           acc == FoldLeft(NextHole, [end |-> 0, holes |-> <<>>], s)
           H == acc.holes
           listed == UNION {Extent(x) : x \in ToSet(rows)}
           ends == {x.base + x.size : x \in ToSet(rows)}
           inHole == UNION {Extent([base |-> h.at, size |-> h.size]) : h \in ToSet(H)}
<1>1. rows \in Seq(FileRow)
  <2>1. PickedTo(rows, FileRow, Listed(f, r), f, Len(f))
    BY DdrRowsPicked
  <2> QED BY <2>1 DEF PickedTo
<1>2. /\ s \in Seq(FileRow) /\ n = Len(rows) /\ ToSet(s) = ToSet(rows) /\ Sorted(s)
      /\ n \in Nat /\ DOMAIN s = 1..n /\ \A i \in 1..n : s[i] \in FileRow
  <2>1. /\ s \in Seq(FileRow) /\ Len(s) = Len(rows) /\ ToSet(s) = ToSet(rows)
        /\ \A i, j \in 1..Len(rows) : i < j => s[i].base <= s[j].base
    BY <1>1, ByAddressSorts
  <2> HIDE DEF s
  <2>2. Len(s) \in Nat /\ DOMAIN s = 1..Len(s) /\ \A i \in 1..Len(s) : s[i] \in FileRow
    BY <2>1, LenProperties, ElementOfSeq
  <2> QED BY <2>1, <2>2 DEF Sorted
<1>3. ScannedSoFar(s, acc, n)
  BY <1>2, ScannedAll
<1>4. Holes(rows) = H
  BY DEF Holes
<1>5. /\ \A j \in 1..n : s[j].base \in Nat /\ s[j].size \in Nat /\ End(s[j]) \in Nat /\ End(s[j]) = s[j].base + s[j].size
  BY <1>2 DEF FileRow, End
<1> HIDE DEF rows, s
<1>6. /\ \A x \in ToSet(rows) : \E j \in 1..n : x = s[j]
      /\ \A j \in 1..n : s[j] \in ToSet(rows)
  <2>1. ToSet(s) = {s[j] : j \in 1..n}
    BY <1>2 DEF ToSet
  <2> QED BY <1>2, <2>1
<1> HIDE DEF n, acc
<1>7. /\ acc \in Scan
      /\ \A j \in 1..n : End(s[j]) <= acc.end
      /\ IF n = 0 THEN acc.end = 0 ELSE \E j \in 1..n : acc.end = End(s[j])
      /\ \A x \in 1..Len(acc.holes) : \E p \in 1..n : FreeUpTo(s, acc.holes[x], p)
      /\ \A a \in Nat :
            (a >= DDR_BASE /\ a < acc.end /\ \E j \in 1..n : DDR_BASE <= End(s[j]) /\ End(s[j]) <= a) =>
                \/ \E j \in 1..n : InRow(s, j, a)
                \/ \E x \in 1..Len(acc.holes) : InHole(acc.holes[x], a)
  BY <1>3 DEF ScannedSoFar
<1>8. /\ H \in Seq(HoleAt) /\ Len(H) \in Nat /\ DOMAIN H = 1..Len(H)
      /\ \A x \in 1..Len(H) : H[x].at \in Nat /\ H[x].size \in Nat
  <2>1. H \in Seq(HoleAt)
    BY <1>7 DEF Scan
  <2> HIDE DEF H
  <2>2. Len(H) \in Nat /\ DOMAIN H = 1..Len(H) /\ \A x \in 1..Len(H) : H[x] \in HoleAt
    BY <2>1, LenProperties, ElementOfSeq
  <2> QED BY <2>1, <2>2 DEF HoleAt
<1>9. \A x \in 1..Len(H) : \E p \in 1..n : FreeUpTo(s, H[x], p)
  BY <1>7
<1>10. \A a \in Nat :
         (a >= DDR_BASE /\ a < acc.end /\ \E j \in 1..n : DDR_BASE <= End(s[j]) /\ End(s[j]) <= a) =>
             \/ \E j \in 1..n : InRow(s, j, a)
             \/ \E x \in 1..Len(H) : InHole(H[x], a)
  BY <1>7
<1> HIDE DEF H
<1>11. \A a : a \in listed <=> \E j \in 1..n : a \in Int /\ InRow(s, j, a)
  <2>1. ASSUME NEW a, a \in listed PROVE \E j \in 1..n : a \in Int /\ InRow(s, j, a)
    <3>1. PICK x \in ToSet(rows) : a \in Extent(x)
      BY <2>1
    <3>2. PICK j \in 1..n : x = s[j]
      BY <1>6
    <3>3. a \in s[j].base..(s[j].base + s[j].size - 1)
      BY <3>1, <3>2 DEF Extent
    <3>4. a \in Int /\ InRow(s, j, a)
      BY <1>5, <3>3 DEF InRow
    <3> QED BY <3>4
  <2>2. ASSUME NEW a, NEW j \in 1..n, a \in Int, InRow(s, j, a) PROVE a \in listed
    <3>1. a \in s[j].base..(s[j].base + s[j].size - 1)
      BY <1>5, <2>2 DEF InRow
    <3>2. a \in Extent(s[j]) /\ s[j] \in ToSet(rows)
      BY <1>6, <3>1 DEF Extent
    <3> QED BY <3>2
  <2> QED BY <2>1, <2>2
<1>12. \A a : a \in inHole <=> \E x \in 1..Len(H) : a \in Int /\ InHole(H[x], a)
  <2>1. \A h : Extent([base |-> h.at, size |-> h.size]) = h.at..(h.at + h.size - 1)
    BY DEF Extent
  <2>2. ToSet(H) = {H[x] : x \in 1..Len(H)}
    BY <1>8 DEF ToSet
  <2>3. ASSUME NEW a, a \in inHole PROVE \E x \in 1..Len(H) : a \in Int /\ InHole(H[x], a)
    <3>1. PICK h \in ToSet(H) : a \in Extent([base |-> h.at, size |-> h.size])
      BY <2>3
    <3>2. PICK x \in 1..Len(H) : h = H[x]
      BY <2>2
    <3>3. a \in H[x].at..(H[x].at + H[x].size - 1)
      BY <2>1, <3>1, <3>2
    <3>4. a \in Int /\ InHole(H[x], a)
      BY <1>8, <3>3 DEF InHole
    <3> QED BY <3>4
  <2>4. ASSUME NEW a, NEW x \in 1..Len(H), a \in Int, InHole(H[x], a) PROVE a \in inHole
    <3>1. a \in H[x].at..(H[x].at + H[x].size - 1)
      BY <1>8, <2>4 DEF InHole
    <3>2. a \in Extent([base |-> H[x].at, size |-> H[x].size]) /\ H[x] \in ToSet(H)
      BY <2>1, <2>2, <3>1
    <3> QED BY <3>2
  <2> QED BY <2>3, <2>4
<1>13. inHole \cap listed = {}
  <2> SUFFICES ASSUME NEW a, a \in inHole, a \in listed PROVE FALSE
    OBVIOUS
  <2>1. PICK x \in 1..Len(H) : a \in Int /\ InHole(H[x], a)
    BY <1>12
  <2>2. PICK j \in 1..n : InRow(s, j, a)
    BY <1>11
  <2>3. PICK p \in 1..n : FreeUpTo(s, H[x], p)
    BY <1>9
  <2>4. /\ H[x].at + H[x].size = s[p].base /\ \A i \in 1..(p - 1) : End(s[i]) <= H[x].at
        /\ H[x].at <= a /\ a < H[x].at + H[x].size /\ s[j].base <= a /\ a < End(s[j])
    BY <2>1, <2>2, <2>3 DEF FreeUpTo, InHole, InRow
  <2>5. /\ a \in Int /\ H[x].at \in Nat /\ H[x].size \in Nat /\ s[p].base \in Nat /\ s[j].base \in Nat
        /\ End(s[j]) \in Nat /\ j \in Nat /\ p \in Nat /\ j >= 1
    BY <1>2, <1>5, <1>8, <2>1
  <2>6. ~(j < p)
    <3> SUFFICES ASSUME j < p PROVE FALSE
      OBVIOUS
    <3>1. j \in 1..(p - 1)
      BY <2>5
    <3>2. End(s[j]) <= H[x].at
      BY <2>4, <3>1
    <3> QED BY <2>4, <2>5, <3>2
  <2>7. s[p].base <= s[j].base
    <3>1. CASE p = j
      BY <2>5, <3>1
    <3>2. CASE p # j
      <4>1. p < j
        BY <2>5, <2>6, <3>2
      <4>2. \A i, k \in 1..n : i < k => s[i].base <= s[k].base
        BY <1>2 DEF Sorted, n
      <4> QED BY <4>1, <4>2
    <3> QED BY <3>1, <3>2
  <2> QED BY <2>4, <2>5, <2>7
<1>14. HeapOf(f) \subseteq listed
  <2> DEFINE I == {i \in 1..Len(rows) : rows[i].label = "DXE Heap"}
  <2>1. Len(rows) \in Nat /\ DOMAIN rows = 1..Len(rows)
    BY <1>1, LenProperties
  <2>2. CASE I = {}
    <3>1. HeapOf(f) = {}
      BY <2>2 DEF HeapOf, SelectInSeq, rows
    <3> QED BY <3>1
  <2>3. CASE I # {}
    <3>1. Min(I) \in I
      BY <2>1, <2>3, MinOf
    <3>2. Min(I) \in 1..Len(rows) /\ Min(I) # 0
      <4>1. I \subseteq 1..Len(rows)
        OBVIOUS
      <4> HIDE DEF I
      <4>2. Min(I) \in 1..Len(rows)
        BY <3>1, <4>1
      <4> QED BY <2>1, <4>2
    <3>3. HeapOf(f) = Extent(rows[Min(I)])
      BY <2>3, <3>2 DEF HeapOf, SelectInSeq, rows, Extent
    <3>4. rows[Min(I)] \in ToSet(rows)
      BY <2>1, <3>2 DEF ToSet
    <3> QED BY <3>3, <3>4
  <2> QED BY <2>2, <2>3
<1>15. ASSUME rows # <<>>
       PROVE  \A a \in DDR_BASE..Max(ends) :
                 (\E e \in ends : DDR_BASE <= e /\ e <= a) => (a \in listed \cup inHole \/ a = Max(ends))
  <2>1. n # 0
    <3>1. Len(rows) # 0
      BY <1>1, <1>15, EmptySeq
    <3> QED BY <1>2, <3>1 DEF n
  <2>2. PICK top \in 1..n : acc.end = End(s[top])
    BY <1>7, <2>1
  <2>3. \A e \in ends : \E j \in 1..n : e = End(s[j])
    BY <1>5, <1>6
  <2>4. acc.end \in ends
    BY <1>5, <1>6, <2>2
  <2>5. \A e \in ends : e \in Nat /\ e <= acc.end
    BY <1>5, <1>7, <2>3
  <2> HIDE DEF ends
  <2>6. Max(ends) = acc.end
    <3>1. \A e \in ends : acc.end >= e
      BY <2>4, <2>5
    <3>2. Max(ends) \in ends /\ \A e \in ends : Max(ends) >= e
      BY <2>4, <3>1 DEF Max
    <3> QED BY <2>4, <2>5, <3>2
  <2>7. ASSUME NEW a \in DDR_BASE..Max(ends), NEW e \in ends, DDR_BASE <= e, e <= a, a # Max(ends)
        PROVE  a \in listed \cup inHole
    <3>1. DDR_BASE \in Nat
      BY BuildAssumption
    <3>2. a \in Nat /\ a >= DDR_BASE /\ a < acc.end
      BY <2>4, <2>5, <2>6, <2>7, <3>1
    <3>3. \E j \in 1..n : DDR_BASE <= End(s[j]) /\ End(s[j]) <= a
      BY <2>3, <2>7
    <3>4. \/ \E j \in 1..n : InRow(s, j, a)
          \/ \E x \in 1..Len(H) : InHole(H[x], a)
      BY <1>10, <3>2, <3>3
    <3>5. a \in Int
      BY <3>2
    <3> HIDE DEF listed, inHole
    <3> QED BY <1>11, <1>12, <3>4, <3>5
  <2> QED BY <2>7
<1>16. HeapOf(f) \cap inHole = {}
  BY <1>13, <1>14
<1> HIDE DEF listed, inHole, ends
<1> QED BY <1>4, <1>13, <1>15, <1>16 DEF HolesAreHoles, rows, listed, inHole, ends

(* What is read from the data is in it. *)
LEMMA DataHolds == DataIsRead
<1>1. ASSUME NEW f \in Files PROVE FileReadersAgree(f) /\ HolesAreHoles(f) /\ FileDecides(f)
  <2>1. f \in Seq(FileLine)
    BY BuildAssumption
  <2>2. DOMAIN f = 1..Len(f) /\ Len(f) \in Nat
    BY <2>1, LenProperties
  <2>3. PICK m \in DOMAIN f, r \in DOMAIN f :
           /\ m < r /\ IsSection(f[m], "MemoryMap") /\ IsSection(f[r], "RegisterMap")
           /\ \A i \in 1..(r - 1) : f[i].k = "section" => i = m \/ (i < m /\ f[i].name # "RegisterMap")
           /\ \A i \in DOMAIN f : f[i].k = "row" => m < i /\ \A j \in (r + 1)..i : f[j].k # "section"
    BY BuildAssumption
  <2>4. MapsAt(f, m, r)
    BY <2>1, <2>2, <2>3 DEF MapsAt
  <2>5. ParseUefiplat(f) \in Config
    BY <2>4, ParsedIs
  <2> QED BY <2>4, <2>5, ReadersAgree, HolesHold, FileDecidesHolds
<1>2. \A row \in Rows : VerdictIsDxeCores(row)
  BY BuildAssumption, VerdictHolds
<1>3. \A b \in Bitmaps : BitmapIsCorrected(b)
  BY BuildAssumption, BitmapHolds
<1> QED BY <1>1, <1>2, <1>3 DEF DataIsRead

-----------------------------------------------------------------------------
(* The lists of drivers: a block put in behind a line. *)

(* The lines of a list with a block put in behind line i: those up to i,   *)
(* the block, and the rest.                                                *)
LEMMA InsertedIs ==
    ASSUME NEW S, NEW lines \in Seq(S), NEW i \in 0..Len(lines), NEW new \in Seq(S)
    PROVE  /\ InsertAfter(lines, i, new) \in Seq(S)
           /\ Len(InsertAfter(lines, i, new)) = Len(lines) + Len(new)
           /\ \A k \in 1..i : InsertAfter(lines, i, new)[k] = lines[k]
           /\ \A k \in 1..Len(new) : InsertAfter(lines, i, new)[i + k] = new[k]
           /\ \A k \in (i + 1)..Len(lines) : InsertAfter(lines, i, new)[k + Len(new)] = lines[k]
<1> DEFINE n == Len(lines)
           b == Len(new)
           front == SubSeq(lines, 1, i)
           back == SubSeq(lines, i + 1, n)
           r == InsertAfter(lines, i, new)
<1>1. n \in Nat /\ b \in Nat /\ i \in Nat /\ i <= n
  BY LenProperties
<1>2. \A k \in 1..n : lines[k] \in S
  BY ElementOfSeq
<1>3. front \in Seq(S) /\ Len(front) = i /\ \A k \in 1..i : front[k] = lines[k]
  <2>1. 1 \in Int /\ i \in Int /\ \A k \in 1..i : lines[k] \in S
    BY <1>1, <1>2
  <2>2. /\ front \in Seq(S) /\ Len(front) = IF 1 <= i THEN i - 1 + 1 ELSE 0
        /\ \A k \in 1..(i - 1 + 1) : front[k] = lines[1 + k - 1]
    BY <2>1, SubSeqProperties
  <2> HIDE DEF front
  <2>3. \A k \in 1..i : front[k] = lines[k]
    BY <1>1, <2>2
  <2> QED BY <1>1, <2>2, <2>3
<1>4. back \in Seq(S) /\ Len(back) = n - i /\ \A k \in 1..(n - i) : back[k] = lines[i + k]
  <2>1. i + 1 \in Int /\ n \in Int /\ \A k \in (i + 1)..n : lines[k] \in S
    BY <1>1, <1>2
  <2>2. /\ back \in Seq(S) /\ Len(back) = IF i + 1 <= n THEN n - (i + 1) + 1 ELSE 0
        /\ \A k \in 1..(n - (i + 1) + 1) : back[k] = lines[(i + 1) + k - 1]
    BY <2>1, SubSeqProperties
  <2> HIDE DEF back
  <2>3. Len(back) = n - i
    <3> HIDE DEF n
    <3>1. CASE i + 1 <= n
      BY <1>1, <2>2, <3>1
    <3>2. CASE ~(i + 1 <= n)
      BY <1>1, <2>2, <3>2
    <3> QED BY <3>1, <3>2
  <2>4. ASSUME NEW k \in 1..(n - i) PROVE back[k] = lines[i + k]
    <3>1. k \in 1..(n - (i + 1) + 1) /\ (i + 1) + k - 1 = i + k
      BY <1>1
    <3> QED BY <2>2, <3>1
  <2> QED BY <2>2, <2>3, <2>4
<1> DEFINE head == front \o new
<1>5. r = head \o back
  BY DEF InsertAfter
<1> HIDE DEF front, back, r
<1>6. /\ head \in Seq(S) /\ Len(head) = i + b
      /\ \A k \in 1..(i + b) : head[k] = IF k <= i THEN front[k] ELSE new[k - i]
  BY <1>3, ConcatProperties
<1> HIDE DEF head
<1>7. /\ r \in Seq(S) /\ Len(r) = (i + b) + (n - i)
      /\ \A k \in 1..((i + b) + (n - i)) : r[k] = IF k <= i + b THEN head[k] ELSE back[k - (i + b)]
  <2>1. /\ r \in Seq(S) /\ Len(r) = Len(head) + Len(back)
        /\ \A k \in 1..(Len(head) + Len(back)) : r[k] = IF k <= Len(head) THEN head[k] ELSE back[k - Len(head)]
    BY <1>4, <1>5, <1>6, ConcatProperties
  <2>2. Len(head) = i + b /\ Len(back) = n - i
    BY <1>4, <1>6
  <2> QED BY <2>1, <2>2
<1> HIDE DEF n, b
<1>8. Len(r) = n + b
  BY <1>1, <1>7
<1>9. ASSUME NEW k \in 1..i PROVE r[k] = lines[k]
  <2>1. k \in 1..((i + b) + (n - i)) /\ k <= i + b /\ k \in 1..(i + b) /\ k <= i
    BY <1>1
  <2> QED BY <1>3, <1>6, <1>7, <2>1
<1>10. ASSUME NEW k \in 1..b PROVE r[i + k] = new[k]
  <2>1. /\ i + k \in 1..((i + b) + (n - i)) /\ i + k <= i + b /\ i + k \in 1..(i + b) /\ ~(i + k <= i)
        /\ (i + k) - i = k
    BY <1>1
  <2> QED BY <1>6, <1>7, <2>1
<1>11. ASSUME NEW k \in (i + 1)..n PROVE r[k + b] = lines[k]
  <2>1. /\ k + b \in 1..((i + b) + (n - i)) /\ ~(k + b <= i + b) /\ (k + b) - (i + b) = k - i
        /\ k - i \in 1..(n - i) /\ i + (k - i) = k
    BY <1>1
  <2> QED BY <1>4, <1>7, <2>1
<1> QED BY <1>7, <1>8, <1>9, <1>10, <1>11 DEF n, b, r

(* ... each of its lines is one of these. *)
LEMMA InsertedFrom ==
    ASSUME NEW n \in Nat, NEW b \in Nat, NEW i \in 0..n, NEW x \in 1..(n + b)
    PROVE  \/ x \in 1..i
           \/ \E k \in 1..b : x = i + k
           \/ \E k \in (i + 1)..n : x = k + b
<1>1. CASE x <= i
  BY <1>1
<1>2. CASE i < x /\ x <= i + b
  <2>1. x - i \in 1..b /\ x = i + (x - i)
    BY <1>2
  <2> QED BY <2>1
<1>3. CASE i + b < x
  <2>1. x - b \in (i + 1)..n /\ x = (x - b) + b
    BY <1>3
  <2> QED BY <2>1
<1> QED BY <1>1, <1>2, <1>3

(* A list of drivers: lines, in which a blob is at most once. *)
IsInf(l)    == l.op = "inf"
Plainly(l)  == IsInf(l) => l.value = 0
Once(lines) ==
    \A i, j \in 1..Len(lines) :
        (IsInf(lines[i]) /\ IsInf(lines[j]) /\ lines[i].name = lines[j].name /\ lines[i].name \in Blobs) => i = j
IsList(lines) ==
    /\ lines \in Seq(Line) /\ \A i \in 1..Len(lines) : Plainly(lines[i])
    /\ Once(lines)

(* The INFs of a list are strings, each that of a line. *)
LEMMA InfsAre ==
    ASSUME NEW lines \in Seq(Line)
    PROVE  /\ \A p : p \in Infs(lines) <=> \E i \in 1..Len(lines) : IsInf(lines[i]) /\ lines[i].name = p
           /\ Infs(lines) \subseteq STRING
<1>1. DOMAIN lines = 1..Len(lines) /\ \A i \in 1..Len(lines) : lines[i] \in Line
  BY LenProperties, ElementOfSeq
<1>2. \A p : p \in Infs(lines) <=> \E i \in 1..Len(lines) : IsInf(lines[i]) /\ lines[i].name = p
  BY <1>1 DEF Infs, IsInf
<1>3. \A i \in 1..Len(lines) : lines[i].name \in STRING
  BY <1>1 DEF Line
<1> QED BY <1>2, <1>3

(* What is in a list with a block is in the list or in the block. *)
LEMMA InsertedInfs ==
    ASSUME NEW lines \in Seq(Line), NEW i \in 0..Len(lines), NEW new \in Seq(Line)
    PROVE  Infs(InsertAfter(lines, i, new)) = Infs(lines) \cup Infs(new)
<1> DEFINE n == Len(lines)
           b == Len(new)
           r == InsertAfter(lines, i, new)
<1>1. n \in Nat /\ b \in Nat /\ i \in Nat /\ i <= n
  BY LenProperties
<1>2. /\ r \in Seq(Line) /\ Len(r) = n + b
      /\ \A k \in 1..i : r[k] = lines[k]
      /\ \A k \in 1..b : r[i + k] = new[k]
      /\ \A k \in (i + 1)..n : r[k + b] = lines[k]
  BY InsertedIs, SMTT(30)
<1> HIDE DEF r
<1>3. \A p : p \in Infs(lines) <=> \E k \in 1..n : IsInf(lines[k]) /\ lines[k].name = p
  BY InfsAre
<1>4. \A p : p \in Infs(new) <=> \E k \in 1..b : IsInf(new[k]) /\ new[k].name = p
  BY InfsAre
<1>5. \A p : p \in Infs(r) <=> \E k \in 1..(n + b) : IsInf(r[k]) /\ r[k].name = p
  BY <1>2, InfsAre, SMTT(30)
<1> HIDE DEF n, b
<1>6. ASSUME NEW p, p \in Infs(r) PROVE p \in Infs(lines) \cup Infs(new)
  <2>1. PICK x \in 1..(n + b) : IsInf(r[x]) /\ r[x].name = p
    BY <1>5, <1>6
  <2>2. CASE x \in 1..i
    <3>1. x \in 1..n
      BY <1>1, <2>2
    <3> QED BY <1>2, <1>3, <2>1, <2>2, <3>1
  <2>3. CASE \E k \in 1..b : x = i + k
    BY <1>2, <1>4, <2>1, <2>3
  <2>4. CASE \E k \in (i + 1)..n : x = k + b
    <3>1. PICK k \in (i + 1)..n : x = k + b
      BY <2>4
    <3>2. k \in 1..n
      BY <1>1
    <3> QED BY <1>2, <1>3, <2>1, <3>1, <3>2
  <2>5. i \in 0..n
    BY <1>1
  <2> QED BY <1>1, <2>2, <2>3, <2>4, <2>5, InsertedFrom
<1>7. ASSUME NEW p, p \in Infs(lines) PROVE p \in Infs(r)
  <2>1. PICK k \in 1..n : IsInf(lines[k]) /\ lines[k].name = p
    BY <1>3, <1>7
  <2>2. CASE k <= i
    <3>1. k \in 1..i /\ k \in 1..(n + b)
      BY <1>1, <2>2
    <3> QED BY <1>2, <1>5, <2>1, <3>1
  <2>3. CASE ~(k <= i)
    <3>1. k \in (i + 1)..n /\ k + b \in 1..(n + b)
      BY <1>1, <2>3
    <3> QED BY <1>2, <1>5, <2>1, <3>1
  <2> QED BY <2>2, <2>3
<1>8. ASSUME NEW p, p \in Infs(new) PROVE p \in Infs(r)
  <2>1. PICK k \in 1..b : IsInf(new[k]) /\ new[k].name = p
    BY <1>4, <1>8
  <2>2. i + k \in 1..(n + b)
    BY <1>1
  <2> QED BY <1>2, <1>5, <2>1, <2>2
<1> QED BY <1>6, <1>7, <1>8 DEF r

(* No blob comes in twice, as long as the block's are new. *)
LEMMA InsertedOnce ==
    ASSUME NEW lines, IsList(lines), NEW i \in 0..Len(lines), NEW new, IsList(new),
           Infs(lines) \cap Infs(new) \cap Blobs = {}
    PROVE  IsList(InsertAfter(lines, i, new))
<1> DEFINE n == Len(lines)
           b == Len(new)
           r == InsertAfter(lines, i, new)
<1>0. /\ lines \in Seq(Line) /\ new \in Seq(Line)
      /\ \A k \in 1..n : Plainly(lines[k])
      /\ \A k \in 1..b : Plainly(new[k])
      /\ Once(lines) /\ Once(new)
  BY DEF IsList
<1>1. n \in Nat /\ b \in Nat /\ i \in Nat /\ i <= n /\ i \in 0..n
  BY <1>0, LenProperties
<1>2. /\ r \in Seq(Line) /\ Len(r) = n + b
      /\ \A k \in 1..i : r[k] = lines[k]
      /\ \A k \in 1..b : r[i + k] = new[k]
      /\ \A k \in (i + 1)..n : r[k + b] = lines[k]
  BY <1>0, InsertedIs, SMTT(30)
<1> HIDE DEF r
<1>3. \A p : p \in Infs(lines) <=> \E k \in 1..n : IsInf(lines[k]) /\ lines[k].name = p
  BY <1>0, InfsAre
<1>4. \A p : p \in Infs(new) <=> \E k \in 1..b : IsInf(new[k]) /\ new[k].name = p
  BY <1>0, InfsAre
<1>5. /\ \A k, l \in 1..n : (IsInf(lines[k]) /\ IsInf(lines[l]) /\ lines[k].name = lines[l].name /\ lines[k].name \in Blobs) => k = l
      /\ \A k, l \in 1..b : (IsInf(new[k]) /\ IsInf(new[l]) /\ new[k].name = new[l].name /\ new[k].name \in Blobs) => k = l
  BY <1>0 DEF Once
<1> HIDE DEF n, b
<1> DEFINE FromList(x) == \E k \in 1..n : r[x] = lines[k] /\ x = IF k <= i THEN k ELSE k + b
           FromNew(x) == \E k \in 1..b : r[x] = new[k] /\ x = i + k
<1>6. ASSUME NEW x \in 1..(n + b) PROVE FromList(x) \/ FromNew(x)
  <2>1. CASE x \in 1..i
    <3>1. x \in 1..n /\ x <= i
      BY <1>1, <2>1
    <3> QED BY <1>2, <2>1, <3>1
  <2>2. CASE \E k \in 1..b : x = i + k
    BY <1>2, <2>2
  <2>3. CASE \E k \in (i + 1)..n : x = k + b
    <3>1. PICK k \in (i + 1)..n : x = k + b
      BY <2>3
    <3>2. k \in 1..n /\ ~(k <= i)
      BY <1>1
    <3> QED BY <1>2, <3>1, <3>2
  <2> QED BY <1>1, <2>1, <2>2, <2>3, InsertedFrom
<1>7. \A x \in 1..(n + b) : Plainly(r[x])
  BY <1>0, <1>6 DEF n, b
<1>8. ASSUME NEW x \in 1..(n + b), NEW y \in 1..(n + b),
             IsInf(r[x]), IsInf(r[y]), r[x].name = r[y].name, r[x].name \in Blobs
      PROVE  x = y
  <2>1. CASE FromList(x) /\ FromList(y)
    <3>1. PICK k \in 1..n : r[x] = lines[k] /\ x = IF k <= i THEN k ELSE k + b
      BY <2>1
    <3>2. PICK l \in 1..n : r[y] = lines[l] /\ y = IF l <= i THEN l ELSE l + b
      BY <2>1
    <3>3. k = l
      BY <1>5, <1>8, <3>1, <3>2
    <3> QED BY <3>1, <3>2, <3>3
  <2>2. CASE FromNew(x) /\ FromNew(y)
    <3>1. PICK k \in 1..b : r[x] = new[k] /\ x = i + k
      BY <2>2
    <3>2. PICK l \in 1..b : r[y] = new[l] /\ y = i + l
      BY <2>2
    <3>3. k = l
      BY <1>5, <1>8, <3>1, <3>2
    <3> QED BY <3>1, <3>2, <3>3
  <2>3. CASE FromList(x) /\ FromNew(y)
    <3>1. r[x].name \in Infs(lines)
      BY <1>3, <1>8, <2>3
    <3>2. r[y].name \in Infs(new)
      BY <1>4, <1>8, <2>3
    <3> QED BY <1>8, <3>1, <3>2
  <2>4. CASE FromNew(x) /\ FromList(y)
    <3>1. r[y].name \in Infs(lines)
      BY <1>3, <1>8, <2>4
    <3>2. r[x].name \in Infs(new)
      BY <1>4, <1>8, <2>4
    <3> QED BY <1>8, <3>1, <3>2
  <2> HIDE DEF FromList, FromNew
  <2> QED BY <1>6, <2>1, <2>2, <2>3, <2>4
<1>9. Once(r)
  BY <1>2, <1>8 DEF Once
<1> QED BY <1>2, <1>7, <1>9 DEF IsList, r

-----------------------------------------------------------------------------
(* apriori-order.py, inf_order: runs over the lines of a list. *)

(* Running a list of lines: what inf_order goes through.                   *)
RunState == [stack : Seq(BOOLEAN), out : Seq(STRING), exited : BOOLEAN]
NoRun    == [stack |-> <<>>, out |-> <<>>, exited |-> FALSE]
Mac(v)   == [x \in {HostGuard, Display} |-> IF x = HostGuard THEN v ELSE 0]
AllOn(stack) == \A k \in 1..Len(stack) : stack[k]

(* inf_order starts with no condition. *)
LEMMA NoRunIsRun == NoRun \in RunState
<1>1. <<>> \in Seq(BOOLEAN) /\ <<>> \in Seq(STRING)
  BY EmptySeq
<1> QED BY <1>1 DEF NoRun, RunState

(* What OnLine makes of a line, as far as the lists have need of it. *)
LEMMA OnLineStep ==
    ASSUME NEW s \in RunState, NEW l \in Line, NEW v
    PROVE  /\ OnLine(s, l, Mac(v)) \in RunState
           /\ s.exited => OnLine(s, l, Mac(v)) = s
           /\ l.op \notin {"if", "else", "endif"} =>
                 OnLine(s, l, Mac(v)).stack = s.stack /\ OnLine(s, l, Mac(v)).exited = s.exited
           /\ OnLine(s, l, Mac(v)).out =
                 IF ~s.exited /\ IsInf(l) /\ AllOn(s.stack) THEN Append(s.out, l.name) ELSE s.out
           /\ (~s.exited /\ l.op = "if" /\ l.name = HostGuard) =>
                 /\ OnLine(s, l, Mac(v)).stack = Append(s.stack, v = l.value)
                 /\ ~OnLine(s, l, Mac(v)).exited
           /\ (~s.exited /\ l.op = "endif" /\ s.stack # <<>>) =>
                 /\ OnLine(s, l, Mac(v)).stack = SubSeq(s.stack, 1, Len(s.stack) - 1)
                 /\ ~OnLine(s, l, Mac(v)).exited
<1> DEFINE r == OnLine(s, l, Mac(v))
<1>1. s.stack \in Seq(BOOLEAN) /\ s.out \in Seq(STRING) /\ s.exited \in BOOLEAN /\ l.name \in STRING
  BY DEF RunState, Line
<1>2. CASE s.exited
  <2>1. r = s
    BY <1>2 DEF OnLine
  <2> QED BY <1>2, <2>1
<1> DEFINE out == [s EXCEPT !.exited = TRUE]
<1>3. out \in RunState /\ out.stack = s.stack /\ out.out = s.out
  BY DEF RunState
<1>4. CASE ~s.exited /\ l.op = "if"
  <2> DEFINE pushed == Append(s.stack, Mac(v)[l.name] = l.value)
  <2>1. r = IF l.name \in DOMAIN Mac(v) THEN [s EXCEPT !.stack = pushed] ELSE out
    BY <1>4 DEF OnLine
  <2>2. pushed \in Seq(BOOLEAN)
    <3>1. (Mac(v)[l.name] = l.value) \in BOOLEAN
      OBVIOUS
    <3> QED BY <1>1, <3>1, AppendProperties
  <2>3. l.name = HostGuard => l.name \in DOMAIN Mac(v) /\ pushed = Append(s.stack, v = l.value)
    BY DEF Mac
  <2> HIDE DEF pushed, out
  <2>4. [s EXCEPT !.stack = pushed] \in RunState /\ [s EXCEPT !.stack = pushed].stack = pushed
        /\ [s EXCEPT !.stack = pushed].out = s.out /\ [s EXCEPT !.stack = pushed].exited = s.exited
    BY <2>2 DEF RunState
  <2>5. r \in RunState /\ r.out = s.out /\ (l.name = HostGuard => r.stack = Append(s.stack, v = l.value) /\ ~r.exited)
    BY <1>3, <1>4, <2>1, <2>3, <2>4
  <2> HIDE DEF r
  <2> QED BY <1>4, <2>5 DEF IsInf, r
<1>5. CASE ~s.exited /\ l.op = "else"
  <2> DEFINE turned == [s EXCEPT !.stack[Len(s.stack)] = ~@]
  <2>1. r = IF s.stack = <<>> THEN out ELSE turned
    BY <1>5 DEF OnLine
  <2>2. CASE s.stack # <<>>
    <3> DEFINE top == Len(s.stack)
               now == [s.stack EXCEPT ![top] = ~s.stack[top]]
    <3>0. top \in Nat /\ top # 0
      BY <1>1, <2>2, EmptySeq, LenProperties
    <3>1. top \in 1..Len(s.stack) /\ (~s.stack[top]) \in BOOLEAN
      <4>1. top \in 1..Len(s.stack)
        BY <3>0
      <4>2. s.stack[top] = TRUE \/ s.stack[top] = FALSE
        BY <1>1, <4>1, ElementOfSeq
      <4>3. (~TRUE) = FALSE /\ (~FALSE) = TRUE
        OBVIOUS
      <4> HIDE DEF top
      <4>4. (~s.stack[top]) = TRUE \/ (~s.stack[top]) = FALSE
        BY <4>2, <4>3, Zenon
      <4> QED BY <4>1, <4>4, Zenon
    <3>2. now \in Seq(BOOLEAN)
      BY ONLY <1>1, <3>1, ExceptSeq
    <3>3. turned = [s EXCEPT !.stack = now]
      OBVIOUS
    <3> HIDE DEF now, turned
    <3>4. turned \in RunState /\ turned.out = s.out
      BY <3>2, <3>3 DEF RunState
    <3> HIDE DEF out, r
    <3>5. r = turned
      BY <2>1, <2>2
    <3> QED BY <1>5, <3>4, <3>5 DEF IsInf, r
  <2>3. CASE s.stack = <<>>
    <3> HIDE DEF out, r, turned
    <3>1. r = out
      BY <2>1, <2>3
    <3> QED BY <1>3, <1>5, <3>1 DEF IsInf, r
  <2> QED BY <2>2, <2>3
<1>6. CASE ~s.exited /\ l.op = "endif"
  <2> DEFINE short == SubSeq(s.stack, 1, Len(s.stack) - 1)
             popped == [s EXCEPT !.stack = short]
  <2>1. r = IF s.stack = <<>> THEN out ELSE popped
    BY <1>6 DEF OnLine
  <2>2. CASE s.stack # <<>>
    <3>1. short \in Seq(BOOLEAN)
      <4>1. Len(s.stack) \in Nat
        BY <1>1, LenProperties
      <4>2. 1 \in Int /\ Len(s.stack) - 1 \in Int /\ \A i \in 1..(Len(s.stack) - 1) : s.stack[i] \in BOOLEAN
        <5>1. \A i \in 1..Len(s.stack) : s.stack[i] \in BOOLEAN
          BY <1>1, ElementOfSeq
        <5> QED BY <4>1, <5>1
      <4> QED BY ONLY <4>2, SubSeqProperties
    <3> HIDE DEF short
    <3>2. popped \in RunState /\ popped.out = s.out /\ popped.stack = short /\ popped.exited = s.exited
      BY <3>1 DEF RunState
    <3> HIDE DEF out, r, popped
    <3>3. r = popped
      BY <2>1, <2>2
    <3> QED BY <1>6, <3>2, <3>3 DEF IsInf, r, short
  <2>3. CASE s.stack = <<>>
    <3> HIDE DEF out, r, popped
    <3>1. r = out
      BY <2>1, <2>3
    <3> QED BY <1>3, <1>6, <2>3, <3>1 DEF IsInf, r
  <2> QED BY <2>2, <2>3
<1>7. CASE ~s.exited /\ l.op = "inf"
  <2> DEFINE more == Append(s.out, l.name)
             grown == [s EXCEPT !.out = more]
  <2>1. r = IF AllOn(s.stack) THEN grown ELSE s
    BY <1>7 DEF OnLine, AllOn
  <2>2. more \in Seq(STRING)
    BY <1>1, AppendProperties
  <2> HIDE DEF more
  <2>3. grown \in RunState /\ grown.out = more /\ grown.stack = s.stack /\ grown.exited = s.exited
    BY <2>2 DEF RunState
  <2> HIDE DEF r, grown
  <2> QED BY <1>7, <2>1, <2>3 DEF IsInf, r, more
<1>8. CASE ~s.exited /\ l.op \notin {"if", "else", "endif", "inf"}
  <2>1. r = s
    BY <1>8 DEF OnLine
  <2> HIDE DEF r
  <2> QED BY <1>8, <2>1 DEF IsInf, r
<1> QED BY <1>1, <1>2, <1>4, <1>5, <1>6, <1>7, <1>8

(* The conditions do not depend on what came out.                          *)
LEMMA OnLineAlike ==
    ASSUME NEW s \in RunState, NEW t \in RunState, NEW l \in Line, NEW v,
           s.stack = t.stack, s.exited = t.exited
    PROVE  /\ OnLine(s, l, Mac(v)).stack = OnLine(t, l, Mac(v)).stack
           /\ OnLine(s, l, Mac(v)).exited = OnLine(t, l, Mac(v)).exited
<1> DEFINE alike(a, b) == a.stack = b.stack /\ a.exited = b.exited
<1>1. CASE s.exited
  BY <1>1 DEF OnLine
<1>2. ASSUME NEW x PROVE alike([s EXCEPT !.stack = x], [t EXCEPT !.stack = x])
  BY DEF RunState
<1>3. alike([s EXCEPT !.exited = TRUE], [t EXCEPT !.exited = TRUE])
  BY DEF RunState
<1>4. ASSUME NEW x PROVE alike([s EXCEPT !.out = x], s) /\ alike([t EXCEPT !.out = x], t)
  BY DEF RunState
<1>5. CASE ~s.exited /\ l.op = "if"
  <2> DEFINE x == Append(s.stack, Mac(v)[l.name] = l.value)
             known == l.name \in DOMAIN Mac(v)
  <2>1. OnLine(s, l, Mac(v)) = IF known THEN [s EXCEPT !.stack = x] ELSE [s EXCEPT !.exited = TRUE]
    BY <1>5 DEF OnLine
  <2>2. OnLine(t, l, Mac(v)) = IF known THEN [t EXCEPT !.stack = x] ELSE [t EXCEPT !.exited = TRUE]
    BY <1>5 DEF OnLine
  <2> HIDE DEF x, known
  <2>3. alike([s EXCEPT !.stack = x], [t EXCEPT !.stack = x])
    BY <1>2
  <2> HIDE DEF alike
  <2>4. alike(OnLine(s, l, Mac(v)), OnLine(t, l, Mac(v)))
    BY ONLY <1>3, <2>1, <2>2, <2>3, Zenon
  <2> QED BY <2>4 DEF alike
<1>6. CASE ~s.exited /\ l.op = "else"
  <2>1. [s EXCEPT !.stack[Len(s.stack)] = ~@].stack = [s.stack EXCEPT ![Len(s.stack)] = ~@]
        /\ [s EXCEPT !.stack[Len(s.stack)] = ~@].exited = s.exited
    BY DEF RunState
  <2>2. [t EXCEPT !.stack[Len(t.stack)] = ~@].stack = [t.stack EXCEPT ![Len(t.stack)] = ~@]
        /\ [t EXCEPT !.stack[Len(t.stack)] = ~@].exited = t.exited
    BY DEF RunState
  <2> QED BY <1>3, <1>6, <2>1, <2>2 DEF OnLine
<1>7. CASE ~s.exited /\ l.op = "endif"
  BY <1>2, <1>3, <1>7 DEF OnLine
<1>8. CASE ~s.exited /\ l.op = "inf"
  BY <1>4, <1>8 DEF OnLine
<1>9. CASE ~s.exited /\ l.op \notin {"if", "else", "endif", "inf"}
  BY <1>9 DEF OnLine
<1>10. s.exited \in BOOLEAN
  BY DEF RunState
<1> QED BY <1>1, <1>5, <1>6, <1>7, <1>8, <1>9, <1>10

(* The states inf_order goes through on a list of lines.                   *)
Trace(F, lines, v) ==
    /\ F \in [0..Len(lines) -> RunState] /\ F[0] = NoRun
    /\ \A k \in 1..Len(lines) : F[k] = OnLine(F[k - 1], lines[k], Mac(v))
Run(lines, v) == CHOOSE F : Trace(F, lines, v)

(* inf_order has a trace over its lines, and ends where the trace does. *)
LEMMA OrderRuns ==
    ASSUME NEW s \in Seq(Line), NEW v
    PROVE  \E F : Trace(F, s, v) /\ InfOrder(With(s, v)) = F[Len(s)]
<1> DEFINE n == Len(s)
           M == Mac(v)
           G == [k \in 1..n |-> [a \in RunState |-> OnLine(a, s[k], M)]]
           P(it) == it = [u \in SUBSET DOMAIN s |->
                            IF u = {} THEN NoRun ELSE OnLine(it[u \ {Max(u)}], s[Max(u)], M)]
<1>1. n \in Nat /\ DOMAIN s = 1..n /\ \A k \in 1..n : s[k] \in Line
  BY LenProperties, ElementOfSeq
<1>2. InfOrder(With(s, v)) = (CHOOSE it : P(it))[DOMAIN s]
  <2>1. With(s, v).lines = s /\ With(s, v).macros = M
    BY DEF With, Mac
  <2> DEFINE Q(it, l, m) == it = [u \in SUBSET DOMAIN l |->
                               IF u = {} THEN [stack |-> <<>>, out |-> <<>>, exited |-> FALSE]
                               ELSE OnLine(it[u \ {Max(u)}], l[Max(u)], m)]
  <2>2. ASSUME NEW o PROVE InfOrder(o) = (CHOOSE it : Q(it, o.lines, o.macros))[DOMAIN o.lines]
    BY ONLY Zenon DEF InfOrder, FoldLeft, MapThenFoldSet
  <2> HIDE DEF M
  <2>3. InfOrder(With(s, v)) = (CHOOSE it : Q(it, s, M))[DOMAIN s]
    BY <2>1, <2>2
  <2> QED BY <2>3 DEF NoRun
<1> HIDE DEF n, M
<1>3. \A k \in 1..n, a \in RunState : OnLine(a, s[k], M) \in RunState
  BY <1>1, OnLineStep DEF M
<1>4. G \in [1..n -> [RunState -> RunState]] /\ \A k \in 1..n, a \in RunState : G[k][a] = OnLine(a, s[k], M)
  BY <1>3
<1> HIDE DEF G
<1>5. ASSUME NEW it PROVE Solves(it, RunState, NoRun, G, n) => P(it)
  <2> SUFFICES ASSUME Solves(it, RunState, NoRun, G, n) PROVE P(it)
    OBVIOUS
  <2>1. /\ it \in [SUBSET (1..n) -> RunState]
        /\ \A u \in SUBSET (1..n) : it[u] = IF u = {} THEN NoRun ELSE G[Max(u)][it[u \ {Max(u)}]]
    BY DEF Solves
  <2>2. ASSUME NEW u \in SUBSET (1..n), u # {}
        PROVE  G[Max(u)][it[u \ {Max(u)}]] = OnLine(it[u \ {Max(u)}], s[Max(u)], M)
    <3>1. Max(u) \in 1..n /\ u \ {Max(u)} \in SUBSET (1..n)
      BY <1>1, <2>2, MaxOf
    <3>2. it[u \ {Max(u)}] \in RunState
      BY <2>1, <3>1
    <3> QED BY <1>4, <3>1, <3>2
  <2> QED BY <1>1, <2>1, <2>2
<1> DEFINE it == CHOOSE it : P(it)
<1>6. P(it)
  <2>1. \E f : Solves(f, RunState, NoRun, G, n)
    BY <1>1, <1>4, NoRunIsRun, FoldGraph
  <2>2. \E f : P(f)
    BY <1>5, <2>1
  <2> HIDE DEF P
  <2> QED BY <2>2
<1> HIDE DEF it
<1> DEFINE F == [k \in 0..n |-> it[1..k]]
<1>7. F[0] = NoRun
  <2>1. 0 \in 0..n /\ 1..0 = {} /\ {} \in SUBSET DOMAIN s
    BY <1>1
  <2> QED BY <1>6, <2>1
<1>8. ASSUME NEW k \in 1..n PROVE F[k] = OnLine(F[k - 1], s[k], M)
  <2>1. k \in Nat \ {0} /\ k \in 0..n /\ k - 1 \in 0..n /\ 1..k \in SUBSET (1..n) /\ 1..k # {}
    BY <1>1
  <2>2. Max(1..k) = k /\ (1..k) \ {Max(1..k)} = 1..(k - 1)
    BY <2>1, MaxOfRun
  <2>3. F[k] = it[1..k] /\ F[k - 1] = it[1..(k - 1)]
    BY <2>1
  <2>4. it[1..k] = OnLine(it[1..(k - 1)], s[k], M)
    BY <1>1, <1>6, <2>1, <2>2
  <2> QED BY <2>3, <2>4
<1>9. InfOrder(With(s, v)) = F[n]
  <2>1. n \in 0..n
    BY <1>1
  <2> QED BY <1>1, <1>2, <2>1 DEF it
<1> HIDE DEF F
<1>10. \A k \in 0..n : F[k] \in RunState
  <2> DEFINE I == {k \in 0..n : F[k] \in RunState}
  <2>1. 0 \in I
    BY <1>1, <1>7, NoRunIsRun
  <2>2. ASSUME NEW k \in 0..(n - 1), k \in I PROVE k + 1 \in I
    <3>1. k + 1 \in 1..n /\ (k + 1) - 1 = k
      BY <1>1
    <3>2. F[k + 1] = OnLine(F[k], s[k + 1], M)
      BY <1>8, <3>1
    <3> QED BY <1>3, <2>2, <3>1, <3>2
  <2> HIDE DEF I
  <2>3. \A k \in 0..n : k \in I
    <3>1. I \in SUBSET (0..n)
      BY DEF I
    <3> QED BY <1>1, <2>1, <2>2, <3>1, UpToAll
  <2> QED BY <2>3 DEF I
<1>11. F \in [0..n -> RunState]
  <2>1. DOMAIN F = 0..n /\ F = [k \in DOMAIN F |-> F[k]]
    BY DEF F
  <2> QED BY <1>10, <2>1
<1> QED BY <1>7, <1>8, <1>9, <1>11 DEF n, M, Trace

(* Lists that are alike up to a line are read alike up to it.              *)
LEMMA TraceSame ==
    ASSUME NEW F, NEW s, NEW G, NEW t, NEW v, Trace(F, s, v), Trace(G, t, v),
           NEW n \in Nat, n <= Len(s), n <= Len(t), Len(s) \in Nat, Len(t) \in Nat,
           \A k \in 1..n : s[k] = t[k]
    PROVE  \A k \in 0..n : F[k] = G[k]
<1> DEFINE I == {k \in 0..n : F[k] = G[k]}
<1>1. 0 \in I
  BY DEF Trace
<1>2. ASSUME NEW k \in 0..(n - 1), k \in I PROVE k + 1 \in I
  <2>1. k + 1 \in 1..n /\ (k + 1) - 1 = k /\ k + 1 \in 1..Len(s) /\ k + 1 \in 1..Len(t) /\ k + 1 \in 0..n
    OBVIOUS
  <2>2. F[k + 1] = OnLine(F[k], s[k + 1], Mac(v)) /\ G[k + 1] = OnLine(G[k], t[k + 1], Mac(v))
    BY <2>1 DEF Trace
  <2> QED BY <1>2, <2>1, <2>2
<1>3. I \in SUBSET (0..n)
  OBVIOUS
<1> HIDE DEF I
<1>4. \A k \in 0..n : k \in I
  BY <1>1, <1>2, <1>3, UpToAll
<1> QED BY <1>4 DEF I

(* The trace, taken by name. *)
LEMMA RunIs ==
    ASSUME NEW s \in Seq(Line), NEW v
    PROVE  /\ Trace(Run(s, v), s, v)
           /\ InfOrder(With(s, v)) = Run(s, v)[Len(s)]
           /\ Run(s, v)[0] = NoRun
           /\ \A k \in 0..Len(s) : Run(s, v)[k] \in RunState
           /\ \A k \in 1..Len(s) : /\ Run(s, v)[k] = OnLine(Run(s, v)[k - 1], s[k], Mac(v))
                                   /\ Run(s, v)[k - 1] \in RunState /\ s[k] \in Line
<1>1. PICK F : Trace(F, s, v) /\ InfOrder(With(s, v)) = F[Len(s)]
  BY OrderRuns
<1>2. Trace(Run(s, v), s, v)
  <2> HIDE DEF Trace
  <2> QED BY <1>1 DEF Run
<1> DEFINE R == Run(s, v)
<1>3. Len(s) \in Nat /\ \A k \in 1..Len(s) : s[k] \in Line
  BY LenProperties, ElementOfSeq
<1>4. \A k \in 0..Len(s) : R[k] = F[k]
  <2> HIDE DEF R
  <2>1. Trace(R, s, v)
    BY <1>2 DEF R
  <2> QED BY <1>1, <1>3, <2>1, TraceSame
<1>5. InfOrder(With(s, v)) = R[Len(s)]
  BY <1>1, <1>3, <1>4
<1> HIDE DEF R
<1>6. R[0] = NoRun /\ (\A k \in 0..Len(s) : R[k] \in RunState)
      /\ \A k \in 1..Len(s) : R[k] = OnLine(R[k - 1], s[k], Mac(v))
  BY <1>2 DEF Trace, R
<1>7. \A k \in 1..Len(s) : k - 1 \in 0..Len(s)
  BY <1>3
<1> QED BY <1>2, <1>3, <1>5, <1>6, <1>7 DEF R

(* Lists whose conditions are the same are read with the same conditions. *)
Alike(a, b)     == a.stack = b.stack /\ a.exited = b.exited
Neutral(l)      == l.op \notin {"if", "else", "endif"}
SameCond(l, m)  == l = m \/ (Neutral(l) /\ Neutral(m))

(* Two runs that are alike stay so over lines that ask the same. *)
LEMMA AlikeOn ==
    ASSUME NEW s \in RunState, NEW t \in RunState, NEW l \in Line, NEW m \in Line, NEW v,
           Alike(s, t), SameCond(l, m)
    PROVE  Alike(OnLine(s, l, Mac(v)), OnLine(t, m, Mac(v)))
<1>1. CASE l = m
  BY <1>1, OnLineAlike DEF Alike
<1>2. CASE Neutral(l) /\ Neutral(m)
  BY <1>2, OnLineStep DEF Alike, Neutral
<1> QED BY <1>1, <1>2 DEF SameCond

(* So they do over a stretch of such lines. *)
LEMMA RunsAlike ==
    ASSUME NEW s \in Seq(Line), NEW t \in Seq(Line), NEW v,
           NEW a \in Nat, NEW b \in Nat, NEW n \in Nat, a + n <= Len(s), b + n <= Len(t),
           Alike(Run(s, v)[a], Run(t, v)[b]),
           \A k \in 1..n : SameCond(s[a + k], t[b + k])
    PROVE  \A k \in 0..n : Alike(Run(s, v)[a + k], Run(t, v)[b + k])
<1> DEFINE I == {k \in 0..n : Alike(Run(s, v)[a + k], Run(t, v)[b + k])}
<1>0. Len(s) \in Nat /\ Len(t) \in Nat
  BY LenProperties
<1>1. 0 \in I
  <2>1. a + 0 = a /\ b + 0 = b
    OBVIOUS
  <2> QED BY <2>1
<1>2. ASSUME NEW k \in 0..(n - 1), k \in I PROVE k + 1 \in I
  <2> DEFINE x == a + (k + 1)
             y == b + (k + 1)
  <2>1. k + 1 \in 1..n /\ k + 1 \in 0..n /\ x \in 1..Len(s) /\ y \in 1..Len(t) /\ x - 1 = a + k /\ y - 1 = b + k
    BY <1>0
  <2> HIDE DEF x, y
  <2>2. Run(s, v)[x] = OnLine(Run(s, v)[x - 1], s[x], Mac(v)) /\ Run(s, v)[x - 1] \in RunState /\ s[x] \in Line
    BY <2>1, RunIs
  <2>3. Run(t, v)[y] = OnLine(Run(t, v)[y - 1], t[y], Mac(v)) /\ Run(t, v)[y - 1] \in RunState /\ t[y] \in Line
    BY <2>1, RunIs
  <2>4. Alike(Run(s, v)[x - 1], Run(t, v)[y - 1])
    BY <1>2, <2>1
  <2>5. SameCond(s[x], t[y])
    BY <2>1 DEF x, y
  <2>6. Alike(Run(s, v)[x], Run(t, v)[y])
    BY <2>2, <2>3, <2>4, <2>5, AlikeOn
  <2> QED BY <2>1, <2>6 DEF x, y
<1>3. I \in SUBSET (0..n)
  OBVIOUS
<1> HIDE DEF I
<1>4. \A k \in 0..n : k \in I
  BY <1>1, <1>2, <1>3, UpToAll
<1> QED BY <1>4 DEF I

(* A line that puts an INF out. *)
Emits(s, v, k) == IsInf(s[k]) /\ ~Run(s, v)[k - 1].exited /\ AllOn(Run(s, v)[k - 1].stack)

(* What a list holds when one is appended. *)
LEMMA ToSetOf ==
    ASSUME NEW S, NEW w \in Seq(S), NEW x \in S
    PROVE  /\ ToSet(Append(w, x)) = ToSet(w) \cup {x}
           /\ ToSet(<<>>) = {}
<1>1. /\ Append(w, x) \in Seq(S) /\ Len(Append(w, x)) = Len(w) + 1
      /\ \A i \in 1..Len(w) : Append(w, x)[i] = w[i]
      /\ Append(w, x)[Len(w) + 1] = x
  BY AppendProperties
<1>2. Len(w) \in Nat /\ DOMAIN w = 1..Len(w) /\ DOMAIN Append(w, x) = 1..(Len(w) + 1)
  BY <1>1, LenProperties
<1> DEFINE q == Append(w, x)
<1> HIDE DEF q
<1>3. ToSet(w) = {w[i] : i \in 1..Len(w)} /\ ToSet(q) = {q[i] : i \in 1..(Len(w) + 1)}
  BY <1>2 DEF ToSet, q
<1>4. 1..(Len(w) + 1) = (1..Len(w)) \cup {Len(w) + 1}
  BY <1>2
<1>5. ToSet(q) = ToSet(w) \cup {x}
  BY <1>1, <1>3, <1>4 DEF q
<1>6. ToSet(<<>>) = {}
  BY DEF ToSet
<1> QED BY <1>5, <1>6 DEF q

(* inf_order puts out the INFs whose conditions hold, and no other. *)
LEMMA OutIs ==
    ASSUME NEW s \in Seq(Line), NEW v
    PROVE  \A p : p \in ToSet(InfOrder(With(s, v)).out)
                    <=> \E k \in 1..Len(s) : Emits(s, v, k) /\ s[k].name = p
<1> DEFINE n == Len(s)
           R == Run(s, v)
           E(p, m) == \E k \in 1..m : Emits(s, v, k) /\ s[k].name = p
           I == {m \in 0..n : \A p : p \in ToSet(R[m].out) <=> E(p, m)}
<1>0. n \in Nat /\ InfOrder(With(s, v)) = R[n] /\ R[0] = NoRun
      /\ \A k \in 1..n : R[k] = OnLine(R[k - 1], s[k], Mac(v)) /\ R[k - 1] \in RunState /\ s[k] \in Line
  BY LenProperties, RunIs
<1> HIDE DEF n
<1>1. 0 \in I
  <2>1. R[0].out = <<>>
    BY <1>0 DEF NoRun
  <2>2. ToSet(<<>>) = {}
    BY DEF ToSet
  <2>3. \A p : ~E(p, 0)
    OBVIOUS
  <2> QED BY <1>0, <2>1, <2>2, <2>3
<1> HIDE DEF R
<1>2. ASSUME NEW m \in 0..(n - 1), m \in I PROVE m + 1 \in I
  <2> DEFINE x == m + 1
  <2>1. x \in 1..n /\ x - 1 = m /\ x \in 0..n
    BY <1>0
  <2>2. 1..x = (1..m) \cup {x}
    BY <1>0
  <2> HIDE DEF x
  <2>3. R[x] = OnLine(R[m], s[x], Mac(v)) /\ R[m] \in RunState /\ s[x] \in Line
    BY <1>0, <2>1
  <2>4. Emits(s, v, x) <=> (~R[m].exited /\ IsInf(s[x]) /\ AllOn(R[m].stack))
    BY <2>1 DEF Emits, R
  <2>5. R[x].out = IF Emits(s, v, x) THEN Append(R[m].out, s[x].name) ELSE R[m].out
    BY <2>3, <2>4, OnLineStep, SMTT(30)
  <2>6. R[m].out \in Seq(STRING) /\ s[x].name \in STRING
    BY <2>3 DEF RunState, Line
  <2>7. ToSet(R[x].out) = IF Emits(s, v, x) THEN ToSet(R[m].out) \cup {s[x].name} ELSE ToSet(R[m].out)
    <3>1. ToSet(Append(R[m].out, s[x].name)) = ToSet(R[m].out) \cup {s[x].name}
      BY <2>6, ToSetOf
    <3>2. CASE Emits(s, v, x)
      BY <2>5, <3>1, <3>2
    <3>3. CASE ~Emits(s, v, x)
      BY <2>5, <3>3
    <3> QED BY <3>2, <3>3
  <2>8. \A p : p \in ToSet(R[m].out) <=> E(p, m)
    BY <1>2
  <2>9. \A p : E(p, x) <=> E(p, m) \/ (Emits(s, v, x) /\ s[x].name = p)
    BY <2>2
  <2> HIDE DEF E
  <2>10. \A p : p \in ToSet(R[x].out) <=> E(p, x)
    BY <2>7, <2>8, <2>9
  <2> QED BY <2>1, <2>10 DEF x
<1>3. I \in SUBSET (0..n)
  OBVIOUS
<1> HIDE DEF I
<1>4. n \in I
  <2>1. \A k \in 0..n : k \in I
    BY <1>0, <1>1, <1>2, <1>3, UpToAll
  <2> QED BY <1>0, <2>1
<1> QED BY <1>0, <1>4 DEF I, n

(* To be alike is an equivalence. *)
LEMMA AlikeIs ==
    /\ \A a : Alike(a, a)
    /\ \A a, b : Alike(a, b) => Alike(b, a)
    /\ \A a, b, c : Alike(a, b) /\ Alike(b, c) => Alike(a, c)
BY DEF Alike

(* A line is active in both of two runs that are alike, or in neither. *)
LEMMA EmitsAlike ==
    ASSUME NEW s, NEW t, NEW v, NEW j, NEW k, s[j] = t[k], Alike(Run(s, v)[j - 1], Run(t, v)[k - 1])
    PROVE  Emits(s, v, j) <=> Emits(t, v, k)
BY DEF Emits, Alike

(* InsertedIs, of lines. *)
LEMMA InsertedLines ==
    ASSUME NEW lines \in Seq(Line), NEW i \in 0..Len(lines), NEW new \in Seq(Line)
    PROVE  /\ InsertAfter(lines, i, new) \in Seq(Line)
           /\ Len(InsertAfter(lines, i, new)) = Len(lines) + Len(new)
           /\ \A k \in 1..i : InsertAfter(lines, i, new)[k] = lines[k]
           /\ \A k \in 1..Len(new) : InsertAfter(lines, i, new)[i + k] = new[k]
           /\ \A k \in (i + 1)..Len(lines) : InsertAfter(lines, i, new)[k + Len(new)] = lines[k]
BY InsertedIs, SMTT(30)

(* A block that leaves the conditions as they were changes nothing around  *)
(* it.                                                                     *)
LEMMA InsertRuns ==
    ASSUME NEW lines \in Seq(Line), NEW i \in 0..Len(lines), NEW new \in Seq(Line), NEW v
    PROVE  LET r == InsertAfter(lines, i, new)
           IN  /\ \A k \in 0..i : Alike(Run(lines, v)[k], Run(r, v)[k])
               /\ \A k \in 1..i : Emits(r, v, k) <=> Emits(lines, v, k)
               /\ Alike(Run(r, v)[i], Run(r, v)[i + Len(new)]) =>
                     /\ \A k \in i..Len(lines) : Alike(Run(lines, v)[k], Run(r, v)[k + Len(new)])
                     /\ \A k \in (i + 1)..Len(lines) : Emits(r, v, k + Len(new)) <=> Emits(lines, v, k)
<1> DEFINE n == Len(lines)
           b == Len(new)
           r == InsertAfter(lines, i, new)
<1>1. n \in Nat /\ b \in Nat /\ i \in Nat /\ i <= n
  BY LenProperties
<1>2. /\ r \in Seq(Line) /\ Len(r) = n + b
      /\ \A k \in 1..i : r[k] = lines[k]
      /\ \A k \in 1..b : r[i + k] = new[k]
      /\ \A k \in (i + 1)..n : r[k + b] = lines[k]
  BY InsertedLines
<1> HIDE DEF r
<1>3. Run(lines, v)[0] = NoRun /\ Run(r, v)[0] = NoRun
  BY <1>2, RunIs
<1> HIDE DEF n, b
<1>4. \A k \in 0..i : Alike(Run(lines, v)[k], Run(r, v)[k])
  <2>1. \A k \in 1..i : SameCond(lines[0 + k], r[0 + k])
    <3> SUFFICES ASSUME NEW k \in 1..i PROVE SameCond(lines[0 + k], r[0 + k])
      OBVIOUS
    <3>1. 0 + k = k
      BY <1>1
    <3> QED BY <1>2, <3>1 DEF SameCond
  <2>2. Alike(Run(lines, v)[0], Run(r, v)[0])
    BY <1>3 DEF Alike
  <2>3. 0 \in Nat /\ 0 + i <= Len(lines) /\ 0 + i <= Len(r)
    BY <1>1, <1>2 DEF n
  <2>4. \A k \in 0..i : Alike(Run(lines, v)[0 + k], Run(r, v)[0 + k])
    BY <1>1, <1>2, <2>1, <2>2, <2>3, RunsAlike
  <2> SUFFICES ASSUME NEW k \in 0..i PROVE Alike(Run(lines, v)[k], Run(r, v)[k])
    OBVIOUS
  <2>5. 0 + k = k
    BY <1>1
  <2> QED BY <2>4, <2>5
<1>5. ASSUME NEW k \in 1..i PROVE Emits(r, v, k) <=> Emits(lines, v, k)
  <2>1. k - 1 \in 0..i
    BY <1>1
  <2>2. Alike(Run(lines, v)[k - 1], Run(r, v)[k - 1]) /\ r[k] = lines[k]
    BY <1>2, <1>4, <2>1
  <2> QED BY <2>2, EmitsAlike
<1>6. ASSUME Alike(Run(r, v)[i], Run(r, v)[i + b])
      PROVE  /\ \A k \in i..n : Alike(Run(lines, v)[k], Run(r, v)[k + b])
             /\ \A k \in (i + 1)..n : Emits(r, v, k + b) <=> Emits(lines, v, k)
  <2> DEFINE m == n - i
  <2>1. m \in Nat /\ i + m <= Len(lines) /\ (i + b) + m <= Len(r) /\ i + b \in Nat /\ i \in 0..i
    BY <1>1, <1>2 DEF n
  <2>2. Alike(Run(lines, v)[i], Run(r, v)[i + b])
    <3>1. Alike(Run(lines, v)[i], Run(r, v)[i])
      BY <1>4, <2>1
    <3> QED BY <1>6, <3>1, AlikeIs
  <2>3. \A k \in 1..m : SameCond(lines[i + k], r[(i + b) + k])
    <3> SUFFICES ASSUME NEW k \in 1..m PROVE SameCond(lines[i + k], r[(i + b) + k])
      OBVIOUS
    <3>1. i + k \in (i + 1)..n /\ (i + b) + k = (i + k) + b
      BY <1>1
    <3> QED BY <1>2, <3>1 DEF SameCond
  <2> HIDE DEF m
  <2>4. \A k \in 0..m : Alike(Run(lines, v)[i + k], Run(r, v)[(i + b) + k])
    BY <1>1, <1>2, <2>1, <2>2, <2>3, RunsAlike
  <2>5. ASSUME NEW k \in i..n PROVE Alike(Run(lines, v)[k], Run(r, v)[k + b])
    <3>1. k - i \in 0..m /\ i + (k - i) = k /\ (i + b) + (k - i) = k + b
      BY <1>1 DEF m
    <3> QED BY <2>4, <3>1
  <2>6. ASSUME NEW k \in (i + 1)..n PROVE Emits(r, v, k + b) <=> Emits(lines, v, k)
    <3>1. k - 1 \in i..n /\ (k - 1) + b = (k + b) - 1
      BY <1>1
    <3>2. Alike(Run(lines, v)[k - 1], Run(r, v)[(k + b) - 1]) /\ r[k + b] = lines[k]
      BY <1>2, <2>5, <3>1
    <3> QED BY <3>2, EmitsAlike
  <2> QED BY <2>5, <2>6
<1> QED BY <1>4, <1>5, <1>6 DEF n, b, r

(* A block of INFs is one that leaves them. *)
LEMMA InfBlock ==
    ASSUME NEW s \in Seq(Line), NEW i \in Nat, NEW c \in Nat, i + c <= Len(s), NEW v,
           \A k \in 1..c : IsInf(s[i + k])
    PROVE  \A k \in 0..c : Alike(Run(s, v)[i], Run(s, v)[i + k])
<1> DEFINE I == {k \in 0..c : Alike(Run(s, v)[i], Run(s, v)[i + k])}
<1>0. Len(s) \in Nat
  BY LenProperties
<1>1. 0 \in I
  <2>1. i + 0 = i
    OBVIOUS
  <2> QED BY <2>1, AlikeIs
<1>2. ASSUME NEW k \in 0..(c - 1), k \in I PROVE k + 1 \in I
  <2> DEFINE x == i + (k + 1)
  <2>1. k + 1 \in 1..c /\ k + 1 \in 0..c /\ x \in 1..Len(s) /\ x - 1 = i + k
    BY <1>0
  <2>2. IsInf(s[x])
    BY <2>1
  <2> HIDE DEF x
  <2>3. Run(s, v)[x] = OnLine(Run(s, v)[x - 1], s[x], Mac(v)) /\ Run(s, v)[x - 1] \in RunState /\ s[x] \in Line
    BY <2>1, RunIs
  <2>4. Alike(Run(s, v)[x - 1], Run(s, v)[x])
    <3>1. s[x].op \notin {"if", "else", "endif"}
      BY <2>2 DEF IsInf
    <3> QED BY <2>3, <3>1, OnLineStep DEF Alike
  <2>5. Alike(Run(s, v)[i], Run(s, v)[x])
    BY <1>2, <2>1, <2>4, AlikeIs
  <2> QED BY <2>1, <2>5 DEF x
<1>3. I \in SUBSET (0..c)
  OBVIOUS
<1> HIDE DEF I
<1>4. \A k \in 0..c : k \in I
  BY <1>1, <1>2, <1>3, UpToAll
<1> QED BY <1>4 DEF I

(* A condition put on the stack, and taken off it. *)
LEMMA Pushed ==
    ASSUME NEW w \in Seq(BOOLEAN), NEW x \in BOOLEAN
    PROVE  /\ Append(w, x) # <<>>
           /\ SubSeq(Append(w, x), 1, Len(Append(w, x)) - 1) = w
           /\ AllOn(Append(w, x)) <=> AllOn(w) /\ x
<1> DEFINE q == Append(w, x)
           m == Len(w)
<1>1. /\ q \in Seq(BOOLEAN) /\ Len(q) = m + 1
      /\ \A i \in 1..m : q[i] = w[i]
      /\ q[m + 1] = x
  BY AppendProperties
<1>2. m \in Nat
  BY LenProperties
<1> HIDE DEF q
<1>3. q # <<>>
  <2>1. Len(q) # 0
    BY <1>1, <1>2
  <2> QED BY <2>1, EmptySeq
<1>4. SubSeq(q, 1, Len(q) - 1) = w
  <2> DEFINE f == SubSeq(q, 1, m)
  <2>1. Len(q) - 1 = m
    BY <1>1, <1>2
  <2>2. /\ f \in Seq(BOOLEAN) /\ Len(f) = IF 1 <= m THEN m - 1 + 1 ELSE 0
        /\ \A i \in 1..(m - 1 + 1) : f[i] = q[1 + i - 1]
    <3>1. 1 \in Int /\ m \in Int /\ \A i \in 1..m : q[i] \in BOOLEAN
      <4>1. \A i \in 1..Len(q) : q[i] \in BOOLEAN
        BY <1>1, ElementOfSeq
      <4> QED BY <1>1, <1>2, <4>1
    <3> QED BY ONLY <3>1, SubSeqProperties
  <2> HIDE DEF f
  <2>3. Len(f) = m /\ \A i \in 1..m : f[i] = w[i]
    <3> HIDE DEF m
    <3>1. Len(f) = m
      BY <1>2, <2>2
    <3>2. ASSUME NEW i \in 1..m PROVE f[i] = w[i]
      <4>1. i \in 1..(m - 1 + 1) /\ 1 + i - 1 = i
        BY <1>2
      <4> QED BY <1>1, <2>2, <4>1
    <3> QED BY <3>1, <3>2
  <2>4. f = w
    BY <2>2, <2>3, SeqEqual
  <2> QED BY <2>1, <2>4 DEF f
<1>5. AllOn(q) <=> AllOn(w) /\ x
  <2>1. 1..Len(q) = (1..m) \cup {m + 1}
    BY <1>1, <1>2
  <2> QED BY <1>1, <2>1 DEF AllOn
<1> QED BY <1>3, <1>4, <1>5 DEF q

(* An `!if` of the switch puts its condition on the stack. *)
LEMMA OnIf ==
    ASSUME NEW s \in RunState, NEW l \in Line, NEW v, ~s.exited, l.op = "if", l.name = HostGuard
    PROVE  OnLine(s, l, Mac(v)).stack = Append(s.stack, v = l.value) /\ ~OnLine(s, l, Mac(v)).exited
BY OnLineStep

(* An `!endif` takes one off. *)
LEMMA OnEndif ==
    ASSUME NEW s \in RunState, NEW l \in Line, NEW v, ~s.exited, l.op = "endif", s.stack # <<>>
    PROVE  OnLine(s, l, Mac(v)).stack = SubSeq(s.stack, 1, Len(s.stack) - 1) /\ ~OnLine(s, l, Mac(v)).exited
BY OnLineStep

(* Once it has given up, a line changes nothing. *)
LEMMA OnNothing ==
    ASSUME NEW s \in RunState, NEW l \in Line, NEW v, s.exited
    PROVE  OnLine(s, l, Mac(v)) = s
BY DEF OnLine

(* So is a block behind the switch of the host, and what is in it is put   *)
(* out when the switch is on.                                              *)
IsHostBlock(s, i, c) ==
    /\ i + (c + 2) <= Len(s)
    /\ s[i + 1].op = "if" /\ s[i + 1].name = HostGuard /\ s[i + 1].value = 1
    /\ \A k \in 1..c : IsInf(s[i + (1 + k)])
    /\ s[i + (c + 2)].op = "endif"
IsRead(s, i, c, v) ==
    /\ Alike(Run(s, v)[i], Run(s, v)[i + (c + 2)])
    /\ \A k \in 1..c : Emits(s, v, i + (1 + k)) <=>
                          ~Run(s, v)[i].exited /\ AllOn(Run(s, v)[i].stack) /\ v = 1
    /\ \A k \in 0..c : Run(s, v)[i + (1 + k)].exited = Run(s, v)[i].exited

(* A block behind the switch: its INFs are active when the switch is on. *)
LEMMA HostBlock ==
    ASSUME NEW s \in Seq(Line), NEW i \in Nat, NEW c \in Nat, IsHostBlock(s, i, c), NEW v
    PROVE  IsRead(s, i, c, v)
<1>0. /\ i + (c + 2) <= Len(s)
      /\ s[i + 1].op = "if" /\ s[i + 1].name = HostGuard /\ s[i + 1].value = 1
      /\ \A k \in 1..c : IsInf(s[i + (1 + k)])
      /\ s[i + (c + 2)].op = "endif"
  BY DEF IsHostBlock
<1> SUFFICES /\ Alike(Run(s, v)[i], Run(s, v)[i + (c + 2)])
             /\ \A k \in 1..c : Emits(s, v, i + (1 + k)) <=>
                                   ~Run(s, v)[i].exited /\ AllOn(Run(s, v)[i].stack) /\ v = 1
             /\ \A k \in 0..c : Run(s, v)[i + (1 + k)].exited = Run(s, v)[i].exited
  BY DEF IsRead
<1> DEFINE n == Len(s)
           a == i + 1
           z == i + (c + 2)
           R == Run(s, v)
<1>1. n \in Nat /\ a \in 1..n /\ z \in 1..n /\ a - 1 = i /\ z - 1 = a + c /\ a + c <= n /\ a \in Nat /\ i \in 0..n
  BY <1>0, LenProperties
<1>2. /\ R[a] = OnLine(R[i], s[a], Mac(v)) /\ R[i] \in RunState /\ s[a] \in Line
      /\ R[z] = OnLine(R[a + c], s[z], Mac(v)) /\ R[a + c] \in RunState /\ s[z] \in Line
  BY <1>1, RunIs
<1>3. \A k \in 0..c : Alike(R[a], R[a + k])
  <2>1. \A k \in 1..c : IsInf(s[a + k])
    <3> SUFFICES ASSUME NEW k \in 1..c PROVE IsInf(s[a + k])
      OBVIOUS
    <3>1. a + k = i + (1 + k)
      OBVIOUS
    <3> QED BY <1>0, <3>1
  <2> HIDE DEF a
  <2> QED BY <1>1, <2>1, InfBlock
<1>4. c \in 0..c
  OBVIOUS
<1>5. s[a].op = "if" /\ s[a].name = HostGuard /\ s[a].value = 1 /\ s[z].op = "endif"
  BY <1>0
<1> DEFINE st == R[i].stack
           on == (v = 1)
<1>6. st \in Seq(BOOLEAN) /\ R[i].exited \in BOOLEAN /\ on \in BOOLEAN
  BY <1>2 DEF RunState
<1>7. ASSUME NEW k \in 1..c
      PROVE  /\ i + (1 + k) = a + k
             /\ Emits(s, v, i + (1 + k)) <=> ~R[a].exited /\ AllOn(R[a].stack)
  <2>1. i + (1 + k) = a + k /\ (a + k) - 1 = a + (k - 1) /\ k - 1 \in 0..c
    OBVIOUS
  <2>2. IsInf(s[a + k])
    BY <1>0, <2>1
  <2>3. Alike(R[a], R[a + (k - 1)])
    BY <1>3, <2>1
  <2> HIDE DEF a, R
  <2> QED BY <2>1, <2>2, <2>3 DEF Emits, Alike, R
<1>8. \A k \in 0..c : i + (1 + k) = a + k
  OBVIOUS
<1> HIDE DEF a, z, n, R
<1>9. CASE R[i].exited
  <2>1. R[a] = R[i]
    BY ONLY <1>2, <1>9, OnNothing
  <2>2. R[a + c].exited
    BY <1>3, <1>4, <1>9, <2>1 DEF Alike
  <2>3. R[z] = R[a + c]
    BY ONLY <1>2, <2>2, OnNothing
  <2>4. Alike(R[i], R[z])
    BY <1>3, <1>4, <2>1, <2>3
  <2>5. \A k \in 0..c : R[a + k].exited = R[i].exited
    BY <1>3, <2>1 DEF Alike
  <2> QED BY <1>7, <1>8, <1>9, <2>1, <2>4, <2>5 DEF z, R
<1>10. CASE ~R[i].exited
  <2> DEFINE q == Append(st, on)
  <2>1. R[a].stack = q /\ ~R[a].exited
    <3>1. R[a].stack = Append(R[i].stack, v = s[a].value) /\ ~R[a].exited
      BY ONLY <1>2, <1>5, <1>10, OnIf, SMTT(30)
    <3> QED BY <1>5, <3>1
  <2>2. q # <<>> /\ SubSeq(q, 1, Len(q) - 1) = st /\ (AllOn(q) <=> AllOn(st) /\ on)
    BY <1>6, Pushed
  <2> HIDE DEF q
  <2>3. R[a + c].stack = q /\ ~R[a + c].exited
    BY <1>3, <1>4, <2>1 DEF Alike
  <2>4. R[z].stack = st /\ ~R[z].exited
    <3>1. R[z].stack = SubSeq(R[a + c].stack, 1, Len(R[a + c].stack) - 1) /\ ~R[z].exited
      BY ONLY <1>2, <1>5, <2>2, <2>3, OnEndif
    <3> QED BY <2>2, <2>3, <3>1
  <2>5. R[z].exited \in BOOLEAN /\ \A k \in 0..c : R[a + k].exited = R[a].exited
    <3>1. R[z] \in RunState
      BY ONLY <1>2, OnLineStep
    <3> QED BY <1>3, <3>1 DEF Alike, RunState
  <2>6. R[a].exited = FALSE
    <3>1. R[a] \in RunState
      BY ONLY <1>2, OnLineStep
    <3> QED BY <2>1, <3>1 DEF RunState
  <2>7. Alike(R[i], R[z]) /\ \A k \in 0..c : R[a + k].exited = R[i].exited
    BY <1>6, <1>10, <2>4, <2>5, <2>6 DEF Alike
  <2>8. \A k \in 1..c : Emits(s, v, i + (1 + k)) <=> ~R[i].exited /\ AllOn(st) /\ v = 1
    BY <1>7, <1>10, <2>1, <2>2
  <2> QED BY <1>8, <2>7, <2>8 DEF z, R
<1> QED BY <1>9, <1>10

(* What is kept of a list while the blocks of the host go in.  The         *)
(* conditions are never left wrong and are closed behind an anchor; with   *)
(* the switch off no blob of the host comes out, and with it on those of Q *)
(* do.                                                                     *)
Calm(s)    == /\ \A k \in 0..Len(s) : ~Run(s, 1)[k].exited
              /\ \A k \in 1..Len(s) : s[k].name \in Anchors => Run(s, 1)[k].stack = <<>>
Hushed(s)  == \A k \in 1..Len(s) : s[k].name \in HostBlobs => ~Emits(s, 0, k)
Loud(s, Q) == \A p \in Q : \E k \in 1..Len(s) : s[k].name = p /\ Emits(s, 1, k)
Guarded(s, Q) == Calm(s) /\ Hushed(s) /\ Loud(s, Q)

(* A list stays guarded when a block that leaves its runs alike goes in. *)
LEMMA InsertGuarded ==
    ASSUME NEW lines \in Seq(Line), NEW i \in 0..Len(lines), NEW new \in Seq(Line), NEW Q, NEW P,
           Guarded(lines, Q),
           \A v \in {0, 1} : Alike(Run(InsertAfter(lines, i, new), v)[i],
                                   Run(InsertAfter(lines, i, new), v)[i + Len(new)]),
           \A k \in 1..Len(new) :
              /\ ~Run(InsertAfter(lines, i, new), 1)[i + k].exited
              /\ new[k].name \notin Anchors
              /\ new[k].name \in HostBlobs => ~Emits(InsertAfter(lines, i, new), 0, i + k),
           \A p \in P : \E k \in 1..Len(new) : new[k].name = p /\ Emits(InsertAfter(lines, i, new), 1, i + k)
    PROVE  Guarded(InsertAfter(lines, i, new), Q \cup P)
<1> DEFINE n == Len(lines)
           b == Len(new)
           r == InsertAfter(lines, i, new)
<1>1. n \in Nat /\ b \in Nat /\ i \in Nat /\ i <= n /\ i \in 0..n
  BY LenProperties
<1>2. /\ r \in Seq(Line) /\ Len(r) = n + b
      /\ \A k \in 1..i : r[k] = lines[k]
      /\ \A k \in 1..b : r[i + k] = new[k]
      /\ \A k \in (i + 1)..n : r[k + b] = lines[k]
  <2>1. lines \in Seq(Line) /\ new \in Seq(Line) /\ i \in 0..Len(lines)
    OBVIOUS
  <2> QED BY ONLY <2>1, InsertedLines
<1>3. ASSUME NEW v \in {0, 1}
      PROVE  /\ \A k \in 0..i : Alike(Run(lines, v)[k], Run(r, v)[k])
             /\ \A k \in 1..i : Emits(r, v, k) <=> Emits(lines, v, k)
             /\ \A k \in i..n : Alike(Run(lines, v)[k], Run(r, v)[k + b])
             /\ \A k \in (i + 1)..n : Emits(r, v, k + b) <=> Emits(lines, v, k)
  BY InsertRuns
<1>4. \A k \in 1..b : ~Run(r, 1)[i + k].exited
  OBVIOUS
<1>5. \A k \in 1..b : new[k].name \notin Anchors /\ (new[k].name \in HostBlobs => ~Emits(r, 0, i + k))
  OBVIOUS
<1>6. \A p \in P : \E k \in 1..b : new[k].name = p /\ Emits(r, 1, i + k)
  OBVIOUS
<1> HIDE DEF n, b, r
<1>7. Calm(lines) /\ Hushed(lines) /\ Loud(lines, Q)
  BY DEF Guarded
<1>8. ASSUME NEW x \in 1..(n + b)
      PROVE  /\ x \in 1..i => x \in 1..n
             /\ \A k \in (i + 1)..n : k \in 1..n /\ k \in i..n
             /\ x \in 1..i \/ (\E k \in 1..b : x = i + k) \/ (\E k \in (i + 1)..n : x = k + b)
  BY <1>1, InsertedFrom
<1>9. Calm(r)
  <2>1. (\A k \in 0..n : ~Run(lines, 1)[k].exited) /\ \A k \in 1..n : lines[k].name \in Anchors => Run(lines, 1)[k].stack = <<>>
    BY <1>7 DEF Calm, n
  <2>2. ~Run(r, 1)[0].exited
    <3>1. 0 \in 0..i /\ 0 \in 0..n
      BY <1>1
    <3> QED BY <1>3, <2>1, <3>1 DEF Alike
  <2>3. ASSUME NEW x \in 1..(n + b)
        PROVE  ~Run(r, 1)[x].exited /\ (r[x].name \in Anchors => Run(r, 1)[x].stack = <<>>)
    <3>1. CASE x \in 1..i
      <4>1. x \in 0..i /\ x \in 1..n /\ x \in 0..n
        BY <1>1, <3>1
      <4>2. r[x] = lines[x] /\ Alike(Run(lines, 1)[x], Run(r, 1)[x])
        BY <1>2, <1>3, <3>1, <4>1
      <4>3. ~Run(lines, 1)[x].exited /\ (lines[x].name \in Anchors => Run(lines, 1)[x].stack = <<>>)
        BY <2>1, <4>1
      <4> QED BY ONLY <4>2, <4>3 DEF Alike
    <3>2. CASE \E k \in 1..b : x = i + k
      BY <1>2, <1>4, <1>5, <3>2
    <3>3. CASE \E k \in (i + 1)..n : x = k + b
      <4>1. PICK k \in (i + 1)..n : x = k + b
        BY <3>3
      <4>2. k \in i..n /\ k \in 1..n /\ k \in 0..n
        BY <1>1
      <4>3. r[x] = lines[k] /\ Alike(Run(lines, 1)[k], Run(r, 1)[x])
        BY <1>2, <1>3, <4>1, <4>2
      <4>4. ~Run(lines, 1)[k].exited /\ (lines[k].name \in Anchors => Run(lines, 1)[k].stack = <<>>)
        BY <2>1, <4>2
      <4> QED BY ONLY <4>3, <4>4 DEF Alike
    <3> QED BY <1>8, <3>1, <3>2, <3>3
  <2>4. ASSUME NEW x \in 0..(n + b) PROVE x = 0 \/ x \in 1..(n + b)
    BY <1>1
  <2> QED BY <1>2, <2>2, <2>3, <2>4 DEF Calm
<1>10. Hushed(r)
  <2>1. \A k \in 1..n : lines[k].name \in HostBlobs => ~Emits(lines, 0, k)
    BY <1>7 DEF Hushed, n
  <2>2. ASSUME NEW x \in 1..(n + b), r[x].name \in HostBlobs PROVE ~Emits(r, 0, x)
    <3>1. CASE x \in 1..i
      BY <1>2, <1>3, <1>8, <2>1, <2>2, <3>1
    <3>2. CASE \E k \in 1..b : x = i + k
      BY <1>2, <1>5, <2>2, <3>2
    <3>3. CASE \E k \in (i + 1)..n : x = k + b
      BY <1>2, <1>3, <1>8, <2>1, <2>2, <3>3
    <3> QED BY <1>8, <3>1, <3>2, <3>3
  <2> QED BY <1>2, <2>2 DEF Hushed
<1>11. Loud(r, Q \cup P)
  <2>1. ASSUME NEW p \in Q PROVE \E k \in 1..(n + b) : r[k].name = p /\ Emits(r, 1, k)
    <3>1. PICK k \in 1..n : lines[k].name = p /\ Emits(lines, 1, k)
      BY <1>7 DEF Loud, n
    <3>2. CASE k <= i
      <4>1. k \in 1..i /\ k \in 1..(n + b)
        BY <1>1, <3>2
      <4> QED BY <1>2, <1>3, <3>1, <4>1
    <3>3. CASE ~(k <= i)
      <4>1. k \in (i + 1)..n /\ k + b \in 1..(n + b)
        BY <1>1, <3>3
      <4> QED BY <1>2, <1>3, <3>1, <4>1
    <3> QED BY <3>2, <3>3
  <2>2. ASSUME NEW p \in P PROVE \E k \in 1..(n + b) : r[k].name = p /\ Emits(r, 1, k)
    <3>1. PICK k \in 1..b : new[k].name = p /\ Emits(r, 1, i + k)
      BY <1>6
    <3>2. i + k \in 1..(n + b)
      BY <1>1
    <3> QED BY <1>2, <3>1, <3>2
  <2> QED BY <1>2, <2>1, <2>2 DEF Loud
<1>12. Guarded(r, Q \cup P)
  BY <1>9, <1>10, <1>11 DEF Guarded
<1> QED BY <1>12 DEF r

(* A line of the block a blob makes.                                       *)
LEMMA InfIs ==
    ASSUME NEW p \in STRING
    PROVE  Inf(p) \in Line /\ IsInf(Inf(p)) /\ Inf(p).name = p /\ Plainly(Inf(p)) /\ Inf(p).value = 0
<1>2. Inf(p).op = "inf" /\ Inf(p).name = p /\ Inf(p).value = 0
  BY DEF Inf
<1>3. Inf(p) \in Line
  BY DEF Inf, Line
<1> QED BY <1>2, <1>3 DEF IsInf, Plainly

(* So it does when a line that is none of the host's goes in. *)
LEMMA ExtraGuarded ==
    ASSUME NEW lines \in Seq(Line), NEW i \in 0..Len(lines), NEW p \in STRING, NEW Q,
           p \notin Anchors, p \notin HostBlobs, Guarded(lines, Q)
    PROVE  Guarded(InsertAfter(lines, i, <<Inf(p)>>), Q)
<1> DEFINE n == Len(lines)
           new == <<Inf(p)>>
           r == InsertAfter(lines, i, new)
<1>1. /\ new \in Seq(Line) /\ Len(new) = 1 /\ new[1] = Inf(p)
  BY InfIs
<1> HIDE DEF new
<1>2. n \in Nat /\ i \in Nat /\ i <= n
  BY LenProperties
<1>3. /\ r \in Seq(Line) /\ Len(r) = n + Len(new)
      /\ \A k \in 1..Len(new) : r[i + k] = new[k]
  <2>1. /\ r \in Seq(Line) /\ Len(r) = n + Len(new)
        /\ \A k \in 1..i : r[k] = lines[k]
        /\ \A k \in 1..Len(new) : r[i + k] = new[k]
        /\ \A k \in (i + 1)..n : r[k + Len(new)] = lines[k]
    BY <1>1, InsertedLines, ZenonT(40)
  <2> HIDE DEF r
  <2> QED BY <2>1
<1> HIDE DEF r
<1>4. ASSUME NEW v PROVE Alike(Run(r, v)[i], Run(r, v)[i + 1])
  <2>1. i + 1 <= Len(r) /\ \A k \in 1..1 : IsInf(r[i + k])
    BY <1>1, <1>2, <1>3, InfIs DEF n
  <2>2. \A k \in 0..1 : Alike(Run(r, v)[i], Run(r, v)[i + k])
    BY <1>2, <1>3, <2>1, InfBlock
  <2> QED BY <2>2
<1>5. ~Run(r, 1)[i].exited
  <2>1. i \in 0..i /\ i \in 0..Len(lines)
    BY <1>2
  <2>2. Alike(Run(lines, 1)[i], Run(r, 1)[i])
    BY <1>1, <2>1, InsertRuns DEF r
  <2> QED BY <2>1, <2>2 DEF Alike, Guarded, Calm
<1>6. /\ \A v \in {0, 1} : Alike(Run(r, v)[i], Run(r, v)[i + Len(new)])
      /\ \A k \in 1..Len(new) :
            /\ ~Run(r, 1)[i + k].exited
            /\ new[k].name \notin Anchors
            /\ new[k].name \in HostBlobs => ~Emits(r, 0, i + k)
  <2>1. \A k \in 1..Len(new) : k = 1
    BY <1>1
  <2>2. new[1].name = p
    BY <1>1, InfIs
  <2>3. ~Run(r, 1)[i + 1].exited
    BY <1>4, <1>5 DEF Alike
  <2> QED BY <1>1, <1>4, <2>1, <2>2, <2>3
<1>7. Guarded(r, Q \cup {})
  <2>1. \A q \in {} : \E k \in 1..Len(new) : new[k].name = q /\ Emits(r, 1, i + k)
    OBVIOUS
  <2> QED BY <1>1, <1>6, <2>1, InsertGuarded DEF r
<1>8. Q \cup {} = Q
  OBVIOUS
<1> QED BY <1>7, <1>8 DEF r, new

(* The lines of a row of the host's.                                       *)
InfLines(w)  == [k \in DOMAIN w |-> Inf(w[k])]
Opens        == [op |-> "if", name |-> HostGuard, value |-> 1]
Closes       == [op |-> "endif", name |-> HostGuard, value |-> 0]
HostLines(w) == <<Opens>> \o InfLines(w) \o <<Closes>>

(* The lines of a sequence of blobs. *)
LEMMA InfLinesAre ==
    ASSUME NEW w \in Seq(STRING)
    PROVE  /\ InfLines(w) \in Seq(Line) /\ Len(InfLines(w)) = Len(w)
           /\ \A k \in 1..Len(w) : InfLines(w)[k] = Inf(w[k]) /\ w[k] \in STRING
<1> DEFINE c == Len(w)
<1>1. c \in Nat /\ DOMAIN w = 1..c /\ \A k \in 1..c : w[k] \in STRING
  BY LenProperties, ElementOfSeq
<1> HIDE DEF c
<1>2. \A k \in 1..c : Inf(w[k]) \in Line
  BY <1>1, InfIs
<1>3. InfLines(w) = [k \in 1..c |-> Inf(w[k])]
  BY <1>1 DEF InfLines
<1>4. InfLines(w) \in [1..c -> Line]
  BY <1>2, <1>3
<1>5. InfLines(w) \in Seq(Line) /\ Len(InfLines(w)) = c
  <2>1. InfLines(w) \in Seq(Line)
    BY <1>1, <1>4, IsASeq
  <2>2. DOMAIN InfLines(w) = 1..c
    BY <1>3
  <2> QED BY <1>1, <2>1, <2>2, LenProperties
<1> QED BY <1>1, <1>3, <1>5 DEF c

(* The lines of a block of the host's. *)
LEMMA HostLinesAre ==
    ASSUME NEW w \in Seq(STRING)
    PROVE  /\ HostLines(w) \in Seq(Line) /\ Len(HostLines(w)) = Len(w) + 2
           /\ HostLines(w)[1] = Opens
           /\ \A k \in 1..Len(w) : HostLines(w)[1 + k] = Inf(w[k]) /\ w[k] \in STRING
           /\ HostLines(w)[Len(w) + 2] = Closes
<1> DEFINE c == Len(w)
           mid == InfLines(w)
           a == <<Opens>>
           z == <<Closes>>
           am == a \o mid
           r == am \o z
<1>1. HostGuard \in STRING
  BY ListsAssumption
<1>2. Opens \in Line /\ Closes \in Line
  BY <1>1 DEF Opens, Closes, Line
<1>3. a \in Seq(Line) /\ Len(a) = 1 /\ a[1] = Opens /\ z \in Seq(Line) /\ Len(z) = 1 /\ z[1] = Closes
  BY <1>2
<1>4. mid \in Seq(Line) /\ Len(mid) = c /\ \A k \in 1..c : mid[k] = Inf(w[k]) /\ w[k] \in STRING
  BY InfLinesAre
<1>5. c \in Nat
  BY LenProperties
<1>6. r = HostLines(w)
  BY DEF HostLines
<1> HIDE DEF c, mid, a, z, r
<1>7. /\ am \in Seq(Line) /\ Len(am) = 1 + c
      /\ \A k \in 1..(1 + c) : am[k] = IF k <= 1 THEN a[k] ELSE mid[k - 1]
  <2>1. /\ am \in Seq(Line) /\ Len(am) = Len(a) + Len(mid)
        /\ \A k \in 1..(Len(a) + Len(mid)) : am[k] = IF k <= Len(a) THEN a[k] ELSE mid[k - Len(a)]
    BY <1>3, <1>4, ConcatProperties
  <2> QED BY <1>3, <1>4, <2>1
<1> HIDE DEF am
<1>8. /\ r \in Seq(Line) /\ Len(r) = (1 + c) + 1
      /\ \A k \in 1..((1 + c) + 1) : r[k] = IF k <= 1 + c THEN am[k] ELSE z[k - (1 + c)]
  <2>1. /\ r \in Seq(Line) /\ Len(r) = Len(am) + Len(z)
        /\ \A k \in 1..(Len(am) + Len(z)) : r[k] = IF k <= Len(am) THEN am[k] ELSE z[k - Len(am)]
    BY <1>3, <1>7, ConcatProperties DEF r
  <2> QED BY <1>3, <1>7, <2>1
<1>9. r[1] = Opens
  <2>1. 1 \in 1..((1 + c) + 1) /\ 1 <= 1 + c /\ 1 \in 1..(1 + c)
    BY <1>5
  <2> QED BY <1>3, <1>7, <1>8, <2>1
<1>10. ASSUME NEW k \in 1..c PROVE r[1 + k] = Inf(w[k])
  <2>1. 1 + k \in 1..((1 + c) + 1) /\ 1 + k <= 1 + c /\ 1 + k \in 1..(1 + c) /\ ~(1 + k <= 1) /\ (1 + k) - 1 = k
    BY <1>5
  <2> QED BY <1>4, <1>7, <1>8, <2>1
<1>11. r[c + 2] = Closes
  <2>1. c + 2 \in 1..((1 + c) + 1) /\ ~(c + 2 <= 1 + c) /\ (c + 2) - (1 + c) = 1
    BY <1>5
  <2> QED BY <1>3, <1>8, <2>1
<1>12. Len(r) = c + 2
  BY <1>5, <1>8
<1> QED BY <1>4, <1>6, <1>8, <1>9, <1>10, <1>11, <1>12 DEF c

(* A list stays guarded when a block of the host's goes in behind an anchor. *)
LEMMA HostGuarded ==
    ASSUME NEW lines \in Seq(Line), NEW i \in 1..Len(lines), lines[i].name \in Anchors,
           NEW w \in Seq(STRING), \A k \in 1..Len(w) : w[k] \in HostBlobs,
           NEW Q, Guarded(lines, Q)
    PROVE  Guarded(InsertAfter(lines, i, HostLines(w)), Q \cup ToSet(w))
<1> DEFINE n == Len(lines)
           c == Len(w)
           new == HostLines(w)
           r == InsertAfter(lines, i, new)
<1>1. n \in Nat /\ i \in Nat /\ i <= n /\ i \in 0..n /\ c \in Nat /\ i \in 1..n /\ i \in 0..i
  BY LenProperties
<1>2. /\ new \in Seq(Line) /\ Len(new) = c + 2
      /\ new[1] = Opens
      /\ \A k \in 1..c : new[1 + k] = Inf(w[k]) /\ w[k] \in STRING
      /\ new[c + 2] = Closes
  BY HostLinesAre
<1> HIDE DEF new
<1>3. /\ r \in Seq(Line) /\ Len(r) = n + Len(new)
      /\ \A k \in 1..Len(new) : r[i + k] = new[k]
  <2>1. lines \in Seq(Line) /\ new \in Seq(Line) /\ i \in 0..Len(lines)
    BY <1>1, <1>2
  <2>2. /\ r \in Seq(Line) /\ Len(r) = n + Len(new)
        /\ \A k \in 1..i : r[k] = lines[k]
        /\ \A k \in 1..Len(new) : r[i + k] = new[k]
        /\ \A k \in (i + 1)..n : r[k + Len(new)] = lines[k]
    BY ONLY <2>1, InsertedLines
  <2> HIDE DEF r
  <2> QED BY <2>2
<1>4. \A k \in 0..i : Alike(Run(lines, 1)[k], Run(r, 1)[k])
  BY <1>1, <1>2, InsertRuns
<1>5. \A k \in 1..c : w[k] \in HostBlobs
  OBVIOUS
<1>6. lines[i].name \in Anchors
  OBVIOUS
<1> HIDE DEF n, c, r
<1>7. ~Run(lines, 1)[i].exited /\ Run(lines, 1)[i].stack = <<>>
  BY <1>1, <1>6 DEF Guarded, Calm, n
<1>8. ~Run(r, 1)[i].exited /\ AllOn(Run(r, 1)[i].stack)
  <2>1. Alike(Run(lines, 1)[i], Run(r, 1)[i])
    BY <1>1, <1>4
  <2>2. AllOn(<<>>)
    BY DEF AllOn
  <2>3. ~Run(r, 1)[i].exited /\ Run(r, 1)[i].stack = <<>>
    BY <1>7, <2>1 DEF Alike
  <2> QED BY <2>2, <2>3
<1>9. /\ \A k \in 1..c : 1 + k \in 1..Len(new)
      /\ 1 \in 1..Len(new) /\ c + 2 \in 1..Len(new) /\ i + (c + 2) <= Len(r)
      /\ \A x \in 1..Len(new) : x = 1 \/ x = c + 2 \/ \E k \in 1..c : x = 1 + k
  <2>1. /\ \A k \in 1..c : 1 + k \in 1..(c + 2)
        /\ 1 \in 1..(c + 2) /\ c + 2 \in 1..(c + 2) /\ i + (c + 2) <= n + (c + 2)
    BY <1>1
  <2>2. ASSUME NEW x \in 1..(c + 2), x # 1, x # c + 2 PROVE \E k \in 1..c : x = 1 + k
    <3>1. x - 1 \in 1..c /\ x = 1 + (x - 1)
      BY <1>1, <2>2
    <3> QED BY <3>1
  <2> QED BY <1>2, <1>3, <2>1, <2>2
<1>10. /\ r[i + 1] = Opens /\ r[i + (c + 2)] = Closes
       /\ \A k \in 1..c : r[i + (1 + k)] = Inf(w[k])
  BY <1>2, <1>3, <1>9
<1>11. ASSUME NEW v
       PROVE  /\ Alike(Run(r, v)[i], Run(r, v)[i + Len(new)])
              /\ \A k \in 1..c : Emits(r, v, i + (1 + k)) <=>
                                    ~Run(r, v)[i].exited /\ AllOn(Run(r, v)[i].stack) /\ v = 1
              /\ \A k \in 0..c : Run(r, v)[i + (1 + k)].exited = Run(r, v)[i].exited
  <2>1. /\ r[i + 1].op = "if" /\ r[i + 1].name = HostGuard /\ r[i + 1].value = 1
        /\ r[i + (c + 2)].op = "endif"
    BY <1>10 DEF Opens, Closes
  <2>2. \A k \in 1..c : IsInf(r[i + (1 + k)])
    BY <1>2, <1>10, InfIs
  <2>3. IsHostBlock(r, i, c)
    BY <1>9, <2>1, <2>2 DEF IsHostBlock
  <2>4. IsRead(r, i, c, v)
    BY <1>1, <1>3, <2>3, HostBlock
  <2> QED BY <1>2, <2>4 DEF IsRead
<1>12. ASSUME NEW x \in 1..Len(new)
       PROVE  /\ ~Run(r, 1)[i + x].exited
              /\ new[x].name \notin Anchors
              /\ new[x].name \in HostBlobs => ~Emits(r, 0, i + x)
  <2>1. Anchors \cap HostBlobs = {} /\ HostGuard \notin Anchors
    BY ListsAssumption
  <2>2. \A k \in 0..c : ~Run(r, 1)[i + (1 + k)].exited
    BY <1>8, <1>11
  <2>3. Opens.name = HostGuard /\ Closes.name = HostGuard /\ ~IsInf(Opens) /\ ~IsInf(Closes)
    BY DEF Opens, Closes, IsInf
  <2>4. CASE x = 1
    <3>1. 0 \in 0..c /\ 1 + 0 = 1
      BY <1>1
    <3>2. ~Run(r, 1)[i + 1].exited
      BY <2>2, <3>1
    <3>3. ~Emits(r, 0, i + 1)
      BY <1>10, <2>3 DEF Emits
    <3> QED BY <1>2, <2>1, <2>3, <2>4, <3>2, <3>3
  <2>5. CASE x = c + 2
    <3>1. ~Run(r, 1)[i + (c + 2)].exited
      BY <1>2, <1>8, <1>11 DEF Alike
    <3>2. ~Emits(r, 0, i + (c + 2))
      BY <1>10, <2>3 DEF Emits
    <3> QED BY <1>2, <2>1, <2>3, <2>5, <3>1, <3>2
  <2>6. CASE \E k \in 1..c : x = 1 + k
    <3>1. PICK k \in 1..c : x = 1 + k
      BY <2>6
    <3>2. new[x].name = w[k] /\ w[k] \in HostBlobs
      BY <1>2, <1>5, <3>1, InfIs
    <3>3. ~Emits(r, 0, i + (1 + k))
      <4>1. Emits(r, 0, i + (1 + k)) => 0 = 1
        BY <1>11
      <4> QED BY <4>1
    <3>4. k \in 0..c
      BY <1>1
    <3> QED BY <2>1, <2>2, <3>1, <3>2, <3>3, <3>4
  <2> QED BY <1>9, <2>4, <2>5, <2>6
<1>13. \A p \in ToSet(w) : \E x \in 1..Len(new) : new[x].name = p /\ Emits(r, 1, i + x)
  <2> SUFFICES ASSUME NEW p \in ToSet(w) PROVE \E x \in 1..Len(new) : new[x].name = p /\ Emits(r, 1, i + x)
    OBVIOUS
  <2>1. PICK k \in 1..c : w[k] = p
    <3>1. DOMAIN w = 1..c
      BY LenProperties DEF c
    <3> QED BY <3>1 DEF ToSet
  <2>2. new[1 + k].name = p
    BY <1>2, <2>1, InfIs
  <2>3. Emits(r, 1, i + (1 + k))
    BY <1>8, <1>11
  <2> QED BY <1>9, <2>2, <2>3
<1>14. Guarded(r, Q \cup ToSet(w))
  BY <1>1, <1>2, <1>11, <1>12, <1>13, InsertGuarded DEF r, n
<1> QED BY <1>14 DEF r, new

(* The lists of the reference.                                             *)
LEMMA RunOfPrefix ==
    ASSUME NEW s \in Seq(Line), NEW k \in 0..Len(s), NEW v
    PROVE  InfOrder(With(SubSeq(s, 1, k), v)) = Run(s, v)[k]
<1> DEFINE q == SubSeq(s, 1, k)
<1>1. Len(s) \in Nat /\ k \in Nat /\ k <= Len(s) /\ \A j \in 1..Len(s) : s[j] \in Line
  BY LenProperties, ElementOfSeq
<1>2. q \in Seq(Line) /\ Len(q) = k /\ \A j \in 1..k : q[j] = s[j]
  <2>1. 1 \in Int /\ k \in Int /\ \A j \in 1..k : s[j] \in Line
    BY <1>1
  <2>2. /\ q \in Seq(Line) /\ Len(q) = IF 1 <= k THEN k - 1 + 1 ELSE 0
        /\ \A j \in 1..(k - 1 + 1) : q[j] = s[1 + j - 1]
    BY ONLY <2>1, SubSeqProperties
  <2> HIDE DEF q
  <2>3. Len(q) = k
    BY <1>1, <2>2
  <2>4. ASSUME NEW j \in 1..k PROVE q[j] = s[j]
    <3>1. j \in 1..(k - 1 + 1) /\ 1 + j - 1 = j
      BY <1>1
    <3> QED BY <2>2, <3>1
  <2> QED BY <2>2, <2>3, <2>4
<1> HIDE DEF q
<1>3. Trace(Run(q, v), q, v) /\ InfOrder(With(q, v)) = Run(q, v)[Len(q)]
  BY <1>2, RunIs
<1>4. Trace(Run(s, v), s, v)
  BY RunIs
<1>5. \A j \in 0..k : Run(q, v)[j] = Run(s, v)[j]
  <2>1. k <= Len(q) /\ Len(q) \in Nat /\ \A j \in 1..k : q[j] = s[j]
    BY <1>1, <1>2
  <2> QED BY <1>1, <1>3, <1>4, <2>1, TraceSame
<1>6. k \in 0..k
  BY <1>1
<1> QED BY <1>2, <1>3, <1>5, <1>6 DEF q

(* The lists of the reference board are lists, without the host's blobs. *)
LEMMA References ==
    /\ Reference.dxe \in Seq(Line) /\ Reference.apriori \in Seq(Line)
    /\ IsList(Reference.dxe) /\ IsList(Reference.apriori)
    /\ Infs(Reference.dxe) \cap HostBlobs = {} /\ Infs(Reference.apriori) \cap HostBlobs = {}
<1>1. Reference.dxe \in Seq(Line) /\ Reference.apriori \in Seq(Line)
  BY ListsAssumption
<1>2. ASSUME NEW l \in Seq(Line), NamedOnce(l), \A i \in DOMAIN l : l[i].op = "inf" => l[i].value = 0
      PROVE  IsList(l)
  <2>1. DOMAIN l = 1..Len(l) /\ \A i \in 1..Len(l) : l[i] \in Line
    BY LenProperties, ElementOfSeq
  <2>2. \A i \in 1..Len(l) : Plainly(l[i])
    BY <1>2, <2>1 DEF Plainly, IsInf
  <2>3. ASSUME NEW i \in 1..Len(l), NEW j \in 1..Len(l),
               IsInf(l[i]), IsInf(l[j]), l[i].name = l[j].name, l[i].name \in Blobs
        PROVE  i = j
    <3>1. l[i] = l[j]
      <4>1. l[i] = [op |-> l[i].op, name |-> l[i].name, value |-> l[i].value]
            /\ l[j] = [op |-> l[j].op, name |-> l[j].name, value |-> l[j].value]
        BY <2>1 DEF Line
      <4>2. l[i].op = l[j].op /\ l[i].value = l[j].value
        BY <2>2, <2>3 DEF IsInf, Plainly
      <4> QED BY <2>3, <4>1, <4>2
    <3>2. l[i].op = "inf"
      BY <2>3 DEF IsInf
    <3> QED BY <1>2, <2>1, <2>3, <3>1, <3>2 DEF NamedOnce
  <2>4. Once(l)
    BY <2>3 DEF Once
  <2> QED BY <2>2, <2>4 DEF IsList
<1>3. \A l \in {Reference.dxe, Reference.apriori} :
          NamedOnce(l) /\ \A i \in DOMAIN l : l[i].op = "inf" => l[i].value = 0
  BY ListsAssumption
<1>4. IsList(Reference.dxe) /\ IsList(Reference.apriori)
  BY <1>1, <1>2, <1>3
<1>5. HostBlobs \cap (Infs(Reference.dxe) \cup Infs(Reference.apriori) \cup Extras) = {}
  BY ListsAssumption
<1> QED BY <1>1, <1>4, <1>5

(* No condition of the reference board gives inf_order up. *)
LEMMA ReferenceIsCalm == Calm(Reference.dxe)
<1> DEFINE s == Reference.dxe
<1>1. s \in Seq(Line)
  BY References
<1>2. ASSUME NEW k \in 0..Len(s)
      PROVE  ~Run(s, 1)[k].exited /\ (k > 0 /\ s[k].name \in Anchors => Run(s, 1)[k].stack = <<>>)
  <2>1. InfOrder(With(SubSeq(s, 1, k), 1)) = Run(s, 1)[k]
    BY <1>1, RunOfPrefix
  <2> QED BY <2>1, ListsAssumption
<1> HIDE DEF s
<1>3. \A k \in 1..Len(s) : k \in 0..Len(s) /\ k > 0
  BY <1>1, LenProperties
<1> QED BY <1>2, <1>3 DEF Calm, s

(* A reference list without the lines that have no blob.                   *)
LEMMA FilteredIs ==
    ASSUME NEW ref, IsList(ref), NEW have, NEW B
    PROVE  LET f == Filtered(ref, have, B).lines
           IN  /\ IsList(f) /\ Len(f) = Len(ref)
               /\ \A k \in 1..Len(ref) : /\ SameCond(ref[k], f[k]) /\ f[k].name = ref[k].name
                                         /\ IsInf(f[k]) => IsInf(ref[k])
               /\ Infs(f) = Infs(ref) \ (Blobs \ have)
<1> DEFINE f == Filtered(ref, have, B).lines
           n == Len(ref)
<1>1. ref \in Seq(Line) /\ Once(ref) /\ \A k \in 1..n : Plainly(ref[k])
  BY DEF IsList
<1>2. n \in Nat /\ DOMAIN ref = 1..n /\ \A k \in 1..n : ref[k] \in Line
  BY <1>1, LenProperties, ElementOfSeq
<1> HIDE DEF n
<1>3. f = [k \in 1..n |-> IF IsMissing(ref[k], have) THEN [ref[k] EXCEPT !.op = "dropped"] ELSE ref[k]]
  BY <1>2 DEF Filtered
<1> HIDE DEF f
<1>4. ASSUME NEW k \in 1..n
      PROVE  /\ f[k] \in Line /\ f[k].name = ref[k].name
             /\ IsInf(f[k]) <=> IsInf(ref[k]) /\ ~(ref[k].name \in Blobs \ have)
             /\ IsInf(f[k]) => f[k] = ref[k]
             /\ SameCond(ref[k], f[k])
  <2>1. ref[k] \in Line
    BY <1>2
  <2>2. CASE IsMissing(ref[k], have)
    <3>1. f[k] = [ref[k] EXCEPT !.op = "dropped"]
      BY <1>3, <2>2
    <3>2. f[k] \in Line /\ f[k].op = "dropped" /\ f[k].name = ref[k].name
      BY <2>1, <3>1 DEF Line
    <3>3. ref[k].op = "inf" /\ ref[k].name \in Blobs \ have
      BY <2>2 DEF IsMissing
    <3> QED BY <3>2, <3>3 DEF IsInf, SameCond, Neutral
  <2>3. CASE ~IsMissing(ref[k], have)
    <3>1. f[k] = ref[k]
      BY <1>3, <2>3
    <3> QED BY <2>1, <2>3, <3>1 DEF IsMissing, IsInf, SameCond
  <2> QED BY <2>2, <2>3
<1>5. f \in Seq(Line) /\ Len(f) = n
  <2>1. f = [k \in 1..n |-> f[k]]
    BY <1>3
  <2>2. f \in [1..n -> Line]
    BY <1>4, <2>1
  <2>3. f \in Seq(Line)
    BY <1>2, <2>2, IsASeq
  <2>4. DOMAIN f = 1..n
    BY <1>3
  <2> QED BY <1>2, <2>3, <2>4, LenProperties
<1>6. IsList(f)
  <2>1. \A k \in 1..n : Plainly(f[k])
    BY <1>1, <1>4 DEF Plainly
  <2>2. Once(f)
    BY <1>1, <1>4, <1>5 DEF Once, n
  <2> QED BY <1>5, <2>1, <2>2 DEF IsList
<1>7. \A p : p \in Infs(f) <=> p \in Infs(ref) \ (Blobs \ have)
  <2>1. \A p : p \in Infs(f) <=> \E k \in 1..n : IsInf(f[k]) /\ f[k].name = p
    BY <1>5, InfsAre
  <2>2. \A p : p \in Infs(ref) <=> \E k \in 1..n : IsInf(ref[k]) /\ ref[k].name = p
    BY <1>1, InfsAre DEF n
  <2> QED BY <1>4, <2>1, <2>2
<1>8. Infs(f) = Infs(ref) \ (Blobs \ have)
  BY <1>7
<1> QED BY <1>4, <1>5, <1>6, <1>8 DEF f, n

(* The reference is guarded, also with its missing lines commented out. *)
LEMMA FilteredIsGuarded ==
    ASSUME NEW have, NEW B
    PROVE  Guarded(Filtered(Reference.dxe, have, B).lines, {})
<1> DEFINE s == Reference.dxe
           f == Filtered(s, have, B).lines
           n == Len(s)
<1>1. IsList(s) /\ s \in Seq(Line) /\ Infs(s) \cap HostBlobs = {}
  BY References
<1>2. /\ IsList(f) /\ Len(f) = n
      /\ \A k \in 1..n : /\ SameCond(s[k], f[k]) /\ f[k].name = s[k].name
                         /\ IsInf(f[k]) => IsInf(s[k])
  BY <1>1, FilteredIs
<1>3. Calm(s)
  BY ReferenceIsCalm
<1>4. n \in Nat
  BY <1>1, LenProperties
<1> HIDE DEF s, f
<1>5. f \in Seq(Line)
  BY <1>2 DEF IsList
<1>6. \A k \in 0..n : Alike(Run(s, 1)[k], Run(f, 1)[k])
  <2>1. Alike(Run(s, 1)[0], Run(f, 1)[0])
    BY <1>1, <1>5, RunIs, AlikeIs
  <2>2. 0 \in Nat /\ 0 + n <= Len(s) /\ 0 + n <= Len(f)
    BY <1>2, <1>4
  <2>3. \A k \in 1..n : SameCond(s[0 + k], f[0 + k])
    <3> SUFFICES ASSUME NEW k \in 1..n PROVE SameCond(s[0 + k], f[0 + k])
      OBVIOUS
    <3>1. 0 + k = k
      BY <1>4
    <3> QED BY <1>2, <3>1
  <2>4. \A k \in 0..n : Alike(Run(s, 1)[0 + k], Run(f, 1)[0 + k])
    <3> HIDE DEF n
    <3> QED BY <1>1, <1>4, <1>5, <2>1, <2>2, <2>3, RunsAlike
  <2> SUFFICES ASSUME NEW k \in 0..n PROVE Alike(Run(s, 1)[k], Run(f, 1)[k])
    OBVIOUS
  <2>5. 0 + k = k
    BY <1>4
  <2> QED BY <2>4, <2>5
<1>7. Calm(f)
  <2>1. \A k \in 1..n : k \in 0..n
    BY <1>4
  <2> QED BY <1>2, <1>3, <1>6, <2>1 DEF Calm, Alike
<1>8. Hushed(f)
  <2>1. ASSUME NEW k \in 1..n, f[k].name \in HostBlobs, IsInf(f[k]) PROVE FALSE
    <3>1. s[k].name \in Infs(s)
      BY <1>1, <1>2, <2>1, InfsAre
    <3> QED BY <1>1, <1>2, <2>1, <3>1
  <2> QED BY <1>2, <2>1 DEF Hushed, Emits
<1>9. Loud(f, {})
  BY DEF Loud
<1> QED BY <1>7, <1>8, <1>9 DEF Guarded, f, s

-----------------------------------------------------------------------------
(* rewrite_incs: what its passes hold to. *)

(* A pass over a list ref: of the blobs, those in the list are there and   *)
(* referenced; of the referenced, those not in it were so before (B); what *)
(* the reference had is in it or named; the host's in it are of X; and it  *)
(* is guarded, if it was (g).                                              *)
PassState == [lines : Seq(Line), referenced : SUBSET STRING, dropped : SUBSET STRING]
PassHolds(s, ref, have, B, X, g) ==
    /\ s \in PassState /\ IsList(s.lines)
    /\ Infs(s.lines) \cap Blobs \subseteq have
    /\ Infs(s.lines) \cap Blobs \subseteq s.referenced
    /\ s.referenced \subseteq Infs(s.lines) \cup B
    /\ Infs(ref) \subseteq Infs(s.lines) \cup s.dropped
    /\ Infs(s.lines) \cap HostBlobs \subseteq X
    /\ g => Guarded(s.lines, s.referenced \cap HostBlobs)

(* A pass starts well. *)
LEMMA FilteredHolds ==
    ASSUME NEW ref, IsList(ref), Infs(ref) \cap HostBlobs = {}, NEW have, NEW B \in SUBSET STRING, NEW g,
           g => ref = Reference.dxe /\ B = {}
    PROVE  PassHolds(Filtered(ref, have, B), ref, have, B, {}, g)
<1> DEFINE s == Filtered(ref, have, B)
<1>1. ref \in Seq(Line)
  BY DEF IsList
<1>2. Infs(ref) \in SUBSET STRING
  BY <1>1, InfsAre
<1>3. IsList(s.lines) /\ Infs(s.lines) = Infs(ref) \ (Blobs \ have)
  BY FilteredIs
<1>4. s.referenced = B \cup (Infs(ref) \cap Blobs \cap have) /\ s.dropped = Infs(ref) \cap (Blobs \ have)
  BY DEF Filtered
<1>5. s = [lines |-> s.lines, referenced |-> s.referenced, dropped |-> s.dropped]
  BY DEF Filtered
<1>6. ASSUME g PROVE Guarded(s.lines, s.referenced \cap HostBlobs)
  <2>1. Guarded(s.lines, {})
    BY <1>6, FilteredIsGuarded
  <2>2. s.referenced \cap HostBlobs = {}
    BY <1>4, <1>6
  <2> QED BY <2>1, <2>2
<1> HIDE DEF s
<1>7. s \in PassState
  <2>1. s.lines \in Seq(Line)
    BY <1>3 DEF IsList
  <2>2. s.referenced \in SUBSET STRING /\ s.dropped \in SUBSET STRING
    BY <1>2, <1>4
  <2> QED BY <1>5, <2>1, <2>2 DEF PassState
<1>8. Infs(s.lines) \cap HostBlobs = {}
  BY <1>3
<1>9. /\ Infs(s.lines) \cap Blobs \subseteq have
      /\ Infs(s.lines) \cap Blobs \subseteq s.referenced
      /\ s.referenced \subseteq Infs(s.lines) \cup B
      /\ Infs(ref) \subseteq Infs(s.lines) \cup s.dropped
  BY <1>3, <1>4
<1>10. PassHolds(s, ref, have, B, {}, g)
  BY <1>3, <1>6, <1>7, <1>8, <1>9 DEF PassHolds
<1> QED BY <1>10 DEF s

(* The line a block goes behind.                                           *)
LEMMA AnchorIs ==
    ASSUME NEW lines \in Seq(Line), NEW a, LinesOf(lines, a) # {}
    PROVE  /\ Min(LinesOf(lines, a)) \in 1..Len(lines)
           /\ lines[Min(LinesOf(lines, a))].name = a
<1>1. Len(lines) \in Nat /\ DOMAIN lines = 1..Len(lines)
  BY LenProperties
<1>2. LinesOf(lines, a) \in SUBSET (1..Len(lines)) /\ \A i \in LinesOf(lines, a) : lines[i].name = a
  BY <1>1 DEF LinesOf
<1>3. Min(LinesOf(lines, a)) \in LinesOf(lines, a)
  BY <1>1, <1>2, MinOf
<1> QED BY <1>2, <1>3

(* A block of blobs that are new, there, and of one list.                  *)
LEMMA InsertedHolds ==
    ASSUME NEW s, NEW ref, NEW have, NEW B, NEW X, NEW g, PassHolds(s, ref, have, B, X, g),
           NEW a, NEW block, IsList(block), NEW paths \in Seq(STRING), paths # <<>>,
           Infs(block) = ToSet(paths), ToSet(paths) \subseteq Blobs, ToSet(paths) \subseteq have,
           Infs(s.lines) \cap ToSet(paths) = {},
           NEW Y, X \subseteq Y, ToSet(paths) \cap HostBlobs \subseteq Y,
           \A i \in 1..Len(s.lines) : (g /\ s.lines[i].name = a) =>
               Guarded(InsertAfter(s.lines, i, block), (s.referenced \cup ToSet(paths)) \cap HostBlobs)
    PROVE  PassHolds(Inserted(s, a, block, paths), ref, have, B, Y, g)
<1> DEFINE r == Inserted(s, a, block, paths)
<1>1. /\ s \in PassState /\ IsList(s.lines)
      /\ Infs(s.lines) \cap Blobs \subseteq have
      /\ Infs(s.lines) \cap Blobs \subseteq s.referenced
      /\ s.referenced \subseteq Infs(s.lines) \cup B
      /\ Infs(ref) \subseteq Infs(s.lines) \cup s.dropped
      /\ Infs(s.lines) \cap HostBlobs \subseteq X
      /\ g => Guarded(s.lines, s.referenced \cap HostBlobs)
  BY DEF PassHolds
<1>2. s.lines \in Seq(Line) /\ s.referenced \in SUBSET STRING /\ s.dropped \in SUBSET STRING
  BY <1>1 DEF PassState
<1>3. CASE LinesOf(s.lines, a) = {}
  <2>1. r = [s EXCEPT !.dropped = @ \cup {Head(paths)}]
    BY <1>3 DEF Inserted
  <2>2. Head(paths) \in STRING
    BY HeadTailProperties
  <2>3. /\ r.lines = s.lines /\ r.referenced = s.referenced /\ r.dropped = s.dropped \cup {Head(paths)}
        /\ r \in PassState
    BY <1>1, <1>2, <2>1, <2>2 DEF PassState
  <2> HIDE DEF r
  <2>4. PassHolds(r, ref, have, B, Y, g)
    BY <1>1, <2>3 DEF PassHolds
  <2> QED BY <2>4 DEF r
<1>4. CASE LinesOf(s.lines, a) # {}
  <2> DEFINE i == Min(LinesOf(s.lines, a))
             new == InsertAfter(s.lines, i, block)
  <2>1. i \in 1..Len(s.lines) /\ s.lines[i].name = a
    BY <1>2, <1>4, AnchorIs
  <2>2. i \in 0..Len(s.lines)
    <3> HIDE DEF i
    <3>1. Len(s.lines) \in Nat
      BY <1>2, LenProperties
    <3> QED BY <2>1, <3>1
  <2>3. r = [s EXCEPT !.lines = new, !.referenced = @ \cup ToSet(paths)]
    BY <1>4 DEF Inserted
  <2> HIDE DEF i
  <2>4. ToSet(paths) \in SUBSET STRING
    <3>1. \A k \in DOMAIN paths : paths[k] \in STRING
      BY LenProperties, ElementOfSeq
    <3> QED BY <3>1 DEF ToSet
  <2>5. Infs(s.lines) \cap Infs(block) \cap Blobs = {}
    OBVIOUS
  <2>6. IsList(new)
    BY <1>1, <2>2, <2>5, InsertedOnce
  <2>7. block \in Seq(Line)
    BY DEF IsList
  <2>8. Infs(new) = Infs(s.lines) \cup ToSet(paths)
    BY <1>2, <2>2, <2>7, InsertedInfs
  <2>9. g => Guarded(new, (s.referenced \cup ToSet(paths)) \cap HostBlobs)
    BY <2>1
  <2> HIDE DEF new
  <2>10. new \in Seq(Line)
    BY <2>6 DEF IsList
  <2>11. /\ r.lines = new /\ r.referenced = s.referenced \cup ToSet(paths) /\ r.dropped = s.dropped
         /\ r \in PassState
    BY <1>1, <1>2, <2>3, <2>4, <2>10 DEF PassState
  <2> HIDE DEF r
  <2>12. /\ Infs(new) \cap Blobs \subseteq have
         /\ Infs(new) \cap Blobs \subseteq s.referenced \cup ToSet(paths)
         /\ s.referenced \cup ToSet(paths) \subseteq Infs(new) \cup B
         /\ Infs(ref) \subseteq Infs(new) \cup s.dropped
         /\ Infs(new) \cap HostBlobs \subseteq Y
    BY <1>1, <2>8
  <2>13. PassHolds(r, ref, have, B, Y, g)
    BY <2>6, <2>9, <2>11, <2>12 DEF PassHolds
  <2> QED BY <2>13 DEF r
<1> QED BY <1>3, <1>4

ExtraRow == [anchor : STRING, path : Blobs]

(* Extra: so it goes on with a row of EXTRA_DRIVERS. *)
LEMMA ExtraHolds ==
    ASSUME NEW s, NEW ref, NEW have, NEW B, NEW X, NEW g, PassHolds(s, ref, have, B, X, g),
           NEW e \in ExtraRow, e.path \in Extras
    PROVE  PassHolds(Extra(s, e, have), ref, have, B, X, g)
<1> DEFINE p == e.path
           block == <<Inf(p)>>
           paths == <<p>>
<1>1. CASE e.path \notin have \/ e.path \in s.referenced
  BY <1>1 DEF Extra
<1>2. CASE ~(e.path \notin have \/ e.path \in s.referenced)
  <2>1. Extra(s, e, have) = Inserted(s, e.anchor, block, paths)
    BY <1>2 DEF Extra
  <2>2. p \in Blobs /\ p \in STRING /\ p \in have /\ p \notin s.referenced
    BY <1>2, ListsAssumption DEF ExtraRow
  <2>3. p \notin HostBlobs /\ p \notin Anchors
    BY ListsAssumption
  <2> HIDE DEF p
  <2>4. Inf(p) \in Line /\ IsInf(Inf(p)) /\ Inf(p).name = p /\ Plainly(Inf(p))
    BY <2>2, InfIs
  <2>5. block \in Seq(Line) /\ Len(block) = 1 /\ block[1] = Inf(p)
    BY <2>4
  <2>6. paths \in Seq(STRING) /\ paths # <<>> /\ ToSet(paths) = {p}
    BY <2>2 DEF ToSet
  <2>7. g => \A i \in 1..Len(s.lines) :
                 Guarded(InsertAfter(s.lines, i, block), s.referenced \cap HostBlobs)
    <3> SUFFICES ASSUME g, NEW i \in 1..Len(s.lines)
                 PROVE  Guarded(InsertAfter(s.lines, i, block), s.referenced \cap HostBlobs)
      OBVIOUS
    <3>1. s.lines \in Seq(Line) /\ Guarded(s.lines, s.referenced \cap HostBlobs)
      BY DEF PassHolds, IsList
    <3>2. i \in 0..Len(s.lines)
      BY <3>1, LenProperties
    <3> QED BY <2>2, <2>3, <3>1, <3>2, ExtraGuarded
  <2> HIDE DEF block, paths
  <2>8. IsList(block)
    <3>1. \A k \in 1..Len(block) : k = 1
      BY <2>5
    <3>2. Once(block)
      BY <3>1 DEF Once
    <3>3. \A k \in 1..Len(block) : Plainly(block[k])
      BY <2>4, <2>5, <3>1
    <3> QED BY <2>5, <3>2, <3>3 DEF IsList
  <2>9. Infs(block) = ToSet(paths)
    <3>1. \A q : q \in Infs(block) <=> \E k \in 1..1 : IsInf(block[k]) /\ block[k].name = q
      BY <2>5, InfsAre
    <3>2. \A k \in 1..1 : k = 1
      OBVIOUS
    <3> QED BY <2>4, <2>5, <2>6, <3>1, <3>2
  <2>10. Infs(s.lines) \cap ToSet(paths) = {}
    BY <2>2, <2>6 DEF PassHolds
  <2>11. (s.referenced \cup ToSet(paths)) \cap HostBlobs = s.referenced \cap HostBlobs
         /\ ToSet(paths) \cap HostBlobs \subseteq X
    BY <2>3, <2>6
  <2>12. ToSet(paths) \subseteq Blobs /\ ToSet(paths) \subseteq have
    BY <2>2, <2>6
  <2>13. \A i \in 1..Len(s.lines) : (g /\ s.lines[i].name = e.anchor) =>
            Guarded(InsertAfter(s.lines, i, block), (s.referenced \cup ToSet(paths)) \cap HostBlobs)
    BY <2>7, <2>11
  <2>14. X \subseteq X
    OBVIOUS
  <2>15. PassHolds(Inserted(s, e.anchor, block, paths), ref, have, B, X, g)
    BY <2>6, <2>8, <2>9, <2>10, <2>11, <2>12, <2>13, <2>14, InsertedHolds
  <2> QED BY <2>1, <2>15
<1> QED BY <1>1, <1>2

(* What is kept of a list without repetitions has none.                    *)
LEMMA KeptOf ==
    ASSUME NEW S, NEW s \in Seq(S), NEW T
    PROVE  /\ Kept(s, T) \in Seq(S)
           /\ \A i \in 1..Len(Kept(s, T)) : \E u \in 1..Len(s) : s[u] \in T /\ Kept(s, T)[i] = s[u]
           /\ (\A a, b \in 1..Len(s) : s[a] = s[b] => a = b) =>
                 \A i, j \in 1..Len(Kept(s, T)) : Kept(s, T)[i] = Kept(s, T)[j] => i = j
<1> DEFINE w == Kept(s, T)
           n == Len(s)
           U == {k \in 1..n : s[k] \in T}
<1>1. n \in Nat
  BY LenProperties
<1>2. PickedTo(w, S, U, s, n)
  BY KeptPicks
<1> HIDE DEF w
<1>3. w \in Seq(S) /\ DOMAIN w = 1..Len(w)
  BY <1>2, LenProperties DEF PickedTo
<1>4. \A i \in 1..Len(w) : \E u \in Up(U, n) : Rank(U, u) = i /\ w[i] = s[u]
  <2> HIDE DEF U
  <2>1. \A i \in DOMAIN w : \E u \in Up(U, n) : Rank(U, u) = i /\ w[i] = s[u]
    BY <1>1, <1>2, PickedFrom
  <2> QED BY <1>3, <2>1
<1>5. \A u \in Up(U, n) : u \in 1..n /\ s[u] \in T
  BY <1>1, UpHolds
<1> HIDE DEF U, n
<1>6. ASSUME \A a, b \in 1..n : s[a] = s[b] => a = b,
             NEW i \in 1..Len(w), NEW j \in 1..Len(w), w[i] = w[j]
      PROVE  i = j
  <2>1. PICK u \in Up(U, n) : Rank(U, u) = i /\ w[i] = s[u]
    BY <1>4
  <2>2. PICK x \in Up(U, n) : Rank(U, x) = j /\ w[j] = s[x]
    BY <1>4
  <2>3. u = x
    BY <1>5, <1>6, <2>1, <2>2
  <2> QED BY <2>1, <2>2, <2>3
<1>7. \A i \in 1..Len(w) : \E u \in 1..n : s[u] \in T /\ w[i] = s[u]
  BY <1>4, <1>5
<1> QED BY <1>3, <1>6, <1>7 DEF w, n

(* The block of blobs of a row is a list of them. *)
LEMMA HostLinesList ==
    ASSUME NEW w \in Seq(STRING), \A i, j \in 1..Len(w) : w[i] = w[j] => i = j
    PROVE  IsList(HostLines(w)) /\ Infs(HostLines(w)) = ToSet(w)
<1> DEFINE c == Len(w)
           l == HostLines(w)
<1>1. /\ l \in Seq(Line) /\ Len(l) = c + 2
      /\ l[1] = Opens
      /\ \A k \in 1..c : l[1 + k] = Inf(w[k]) /\ w[k] \in STRING
      /\ l[c + 2] = Closes
  BY HostLinesAre
<1>2. c \in Nat /\ DOMAIN w = 1..c
  BY LenProperties
<1>3. ~IsInf(Opens) /\ ~IsInf(Closes)
  BY DEF Opens, Closes, IsInf
<1>4. \A i, j \in 1..c : w[i] = w[j] => i = j
  OBVIOUS
<1> HIDE DEF c, l
<1>5. ASSUME NEW x \in 1..(c + 2), IsInf(l[x])
      PROVE  \E k \in 1..c : x = 1 + k /\ l[x] = Inf(w[k]) /\ l[x].name = w[k] /\ Plainly(l[x])
  <2>1. x # 1 /\ x # c + 2
    BY <1>1, <1>3, <1>5
  <2>2. x - 1 \in 1..c /\ x = 1 + (x - 1)
    BY <1>2, <2>1
  <2>3. l[x] = Inf(w[x - 1]) /\ w[x - 1] \in STRING
    BY <1>1, <2>2
  <2> QED BY <2>2, <2>3, InfIs
<1>6. \A x \in 1..(c + 2) : Plainly(l[x])
  BY <1>5 DEF Plainly
<1>7. Once(l)
  BY <1>1, <1>4, <1>5 DEF Once
<1>8. \A p : p \in Infs(l) <=> \E x \in 1..(c + 2) : IsInf(l[x]) /\ l[x].name = p
  BY <1>1, InfsAre
<1>9. ASSUME NEW k \in 1..c PROVE 1 + k \in 1..(c + 2) /\ IsInf(l[1 + k]) /\ l[1 + k].name = w[k]
  <2>1. 1 + k \in 1..(c + 2)
    BY <1>2
  <2>2. l[1 + k] = Inf(w[k]) /\ w[k] \in STRING
    BY <1>1
  <2> QED BY <2>1, <2>2, InfIs
<1>10. \A p : p \in ToSet(w) <=> \E k \in 1..c : w[k] = p
  BY <1>2 DEF ToSet
<1>11. Infs(l) = ToSet(w)
  <2>1. ASSUME NEW p, p \in Infs(l) PROVE p \in ToSet(w)
    <3>1. PICK x \in 1..(c + 2) : IsInf(l[x]) /\ l[x].name = p
      BY <1>8, <2>1
    <3>2. PICK k \in 1..c : l[x].name = w[k]
      BY <1>5, <3>1
    <3> QED BY <1>10, <3>1, <3>2
  <2>2. ASSUME NEW p, p \in ToSet(w) PROVE p \in Infs(l)
    <3>1. PICK k \in 1..c : w[k] = p
      BY <1>10, <2>2
    <3> QED BY <1>8, <1>9, <3>1
  <2> QED BY <2>1, <2>2
<1> QED BY <1>1, <1>6, <1>7, <1>11 DEF IsList, l

(* The rows of the host's, and their blobs.                                *)
PathsOf(j) == ToSet(HostDrivers[j].paths)

(* A row of XHCI_HOST_DRIVERS. *)
LEMMA RowIs ==
    ASSUME NEW j \in 1..Len(HostDrivers)
    PROVE  LET h == HostDrivers[j]
           IN  /\ h \in [anchor : STRING, paths : Seq(Blobs)] /\ h.paths # <<>> /\ h.anchor \in Anchors
               /\ h.paths \in Seq(STRING)
               /\ \A k \in 1..Len(h.paths) : h.paths[k] \in HostBlobs /\ h.paths[k] \in Blobs
                                             /\ h.paths[k] \in PathsOf(j)
               /\ \A a, b \in 1..Len(h.paths) : h.paths[a] = h.paths[b] => a = b
<1> DEFINE h == HostDrivers[j]
<1>1. HostDrivers \in Seq([anchor : STRING, paths : Seq(Blobs)])
  BY ListsAssumption
<1>2. h \in [anchor : STRING, paths : Seq(Blobs)] /\ j \in DOMAIN HostDrivers
  BY <1>1, LenProperties, ElementOfSeq
<1>3. h \in ToSet(HostDrivers)
  BY <1>2 DEF ToSet
<1>4. h.paths # <<>>
  BY <1>3, ListsAssumption
<1>5. h.anchor \in Anchors /\ ToSet(h.paths) \subseteq HostBlobs
  BY <1>3 DEF Anchors, HostBlobs
<1>6. h.paths \in Seq(Blobs)
  BY <1>2
<1>7. DOMAIN h.paths = 1..Len(h.paths) /\ \A k \in 1..Len(h.paths) : h.paths[k] \in Blobs
  BY <1>6, LenProperties, ElementOfSeq
<1>8. h.paths \in Seq(STRING)
  BY <1>6, ListsAssumption, SeqMonotonic
<1>9. \A k \in 1..Len(h.paths) : h.paths[k] \in ToSet(h.paths)
  BY <1>7 DEF ToSet
<1>10. \A i, k \in DOMAIN HostDrivers :
          \A a \in DOMAIN HostDrivers[i].paths, b \in DOMAIN HostDrivers[k].paths :
              HostDrivers[i].paths[a] = HostDrivers[k].paths[b] => i = k /\ a = b
  BY ListsAssumption
<1>11. \A a, b \in 1..Len(h.paths) : h.paths[a] = h.paths[b] => a = b
  BY <1>2, <1>7, <1>10
<1> QED BY <1>2, <1>4, <1>5, <1>7, <1>8, <1>9, <1>11 DEF PathsOf

(* No two rows have a blob in common. *)
LEMMA RowsApart ==
    ASSUME NEW i \in 1..Len(HostDrivers), NEW j \in 1..Len(HostDrivers), i # j
    PROVE  PathsOf(i) \cap PathsOf(j) = {}
<1>1. HostDrivers \in Seq([anchor : STRING, paths : Seq(Blobs)])
  BY ListsAssumption
<1>2. i \in DOMAIN HostDrivers /\ j \in DOMAIN HostDrivers
  BY <1>1, LenProperties
<1> SUFFICES ASSUME NEW p, p \in PathsOf(i), p \in PathsOf(j) PROVE FALSE
  OBVIOUS
<1>3. PICK a \in DOMAIN HostDrivers[i].paths : HostDrivers[i].paths[a] = p
  BY DEF PathsOf, ToSet
<1>4. PICK b \in DOMAIN HostDrivers[j].paths : HostDrivers[j].paths[b] = p
  BY DEF PathsOf, ToSet
<1> QED BY <1>2, <1>3, <1>4, ListsAssumption

(* Host: a pass goes on with a row of XHCI_HOST_DRIVERS. *)
LEMMA HostHolds ==
    ASSUME NEW s, NEW ref, NEW have, NEW B, NEW X, NEW g, PassHolds(s, ref, have, B, X, g),
           NEW j \in 1..Len(HostDrivers), X \cap PathsOf(j) = {}
    PROVE  PassHolds(Host(s, HostDrivers[j], have), ref, have, B, X \cup PathsOf(j), g)
<1> DEFINE h == HostDrivers[j]
           w == Kept(h.paths, have)
           block == HostLines(w)
           Y == X \cup PathsOf(j)
<1>1. /\ h \in [anchor : STRING, paths : Seq(Blobs)] /\ h.paths # <<>> /\ h.anchor \in Anchors
      /\ h.paths \in Seq(STRING)
      /\ \A k \in 1..Len(h.paths) : h.paths[k] \in HostBlobs /\ h.paths[k] \in Blobs
                                    /\ h.paths[k] \in PathsOf(j)
      /\ \A a, b \in 1..Len(h.paths) : h.paths[a] = h.paths[b] => a = b
  BY RowIs
<1> HIDE DEF h
<1>2. CASE w = <<>>
  <2> DEFINE r == [s EXCEPT !.dropped = @ \cup {Head(h.paths)}]
  <2>1. Host(s, h, have) = r
    BY <1>2 DEF Host
  <2>2. Head(h.paths) \in STRING
    BY <1>1, HeadTailProperties
  <2>3. s \in PassState
    BY DEF PassHolds
  <2>4. r.lines = s.lines /\ r.referenced = s.referenced /\ r.dropped = s.dropped \cup {Head(h.paths)}
        /\ r \in PassState
    BY <2>2, <2>3 DEF PassState
  <2> HIDE DEF r
  <2>5. PassHolds(r, ref, have, B, Y, g)
    BY <2>4 DEF PassHolds
  <2> QED BY <2>1, <2>5 DEF h
<1>3. CASE w # <<>>
  <2>1. Host(s, h, have) = Inserted(s, h.anchor, block, w)
    BY <1>3 DEF Host, HostLines, InfLines, Opens, Closes
  <2>2. /\ w \in Seq(STRING)
        /\ \A i \in 1..Len(w) : \E u \in 1..Len(h.paths) : h.paths[u] \in have /\ w[i] = h.paths[u]
        /\ \A i, k \in 1..Len(w) : w[i] = w[k] => i = k
    BY <1>1, KeptOf
  <2> HIDE DEF w
  <2>3. \A k \in 1..Len(w) : w[k] \in HostBlobs /\ w[k] \in Blobs /\ w[k] \in have /\ w[k] \in PathsOf(j)
    BY <1>1, <2>2
  <2>4. ToSet(w) \subseteq HostBlobs /\ ToSet(w) \subseteq Blobs /\ ToSet(w) \subseteq have /\ ToSet(w) \subseteq PathsOf(j)
    <3>1. DOMAIN w = 1..Len(w)
      BY <2>2, LenProperties
    <3> QED BY <2>3, <3>1 DEF ToSet
  <2>5. IsList(block) /\ Infs(block) = ToSet(w)
    BY <2>2, HostLinesList
  <2>6. Infs(s.lines) \cap HostBlobs \subseteq X
    BY DEF PassHolds
  <2>7. Infs(s.lines) \cap ToSet(w) = {}
    BY <2>4, <2>6
  <2>8. \A i \in 1..Len(s.lines) : (g /\ s.lines[i].name = h.anchor) =>
            Guarded(InsertAfter(s.lines, i, block), (s.referenced \cup ToSet(w)) \cap HostBlobs)
    <3> SUFFICES ASSUME NEW i \in 1..Len(s.lines), g, s.lines[i].name = h.anchor
                 PROVE  Guarded(InsertAfter(s.lines, i, block), (s.referenced \cup ToSet(w)) \cap HostBlobs)
      OBVIOUS
    <3>1. s.lines \in Seq(Line) /\ Guarded(s.lines, s.referenced \cap HostBlobs)
      BY DEF PassHolds, IsList
    <3>2. s.lines[i].name \in Anchors /\ \A k \in 1..Len(w) : w[k] \in HostBlobs
      BY <1>1, <2>3
    <3>3. Guarded(InsertAfter(s.lines, i, block), (s.referenced \cap HostBlobs) \cup ToSet(w))
      BY <2>2, <3>1, <3>2, HostGuarded
    <3>4. (s.referenced \cap HostBlobs) \cup ToSet(w) = (s.referenced \cup ToSet(w)) \cap HostBlobs
      BY <2>4
    <3> QED BY <3>3, <3>4
  <2> HIDE DEF block, Y
  <2>9. X \subseteq Y /\ ToSet(w) \cap HostBlobs \subseteq Y
    BY <2>4 DEF Y
  <2>10. w # <<>>
    BY <1>3 DEF w
  <2>11. PassHolds(Inserted(s, h.anchor, block, w), ref, have, B, Y, g)
    BY <2>2, <2>4, <2>5, <2>7, <2>8, <2>9, <2>10, InsertedHolds
  <2> QED BY <2>1, <2>11 DEF Y, h
<1> QED BY <1>2, <1>3

(* The rows of EXTRA_DRIVERS, one after the other.                         *)
Extended(base, rows, have) == FoldLeft(LAMBDA s, e : Extra(s, e, have), base, rows)

(* What k rows have made of a pass: nothing referenced is given up, no     *)
(* blob referenced before them is put in, and each row with a blob is      *)
(* referenced or named.                                                    *)
Told(s, base, rows, have, k) ==
    /\ s \in PassState
    /\ base.referenced \subseteq s.referenced
    /\ Infs(s.lines) \cap base.referenced \subseteq Infs(base.lines)
    /\ \A i \in 1..k : rows[i].path \in have => rows[i].path \in s.referenced \cup s.dropped

(* No row yet. *)
LEMMA ToldStarts ==
    ASSUME NEW base \in PassState, NEW rows, NEW have
    PROVE  Told(base, base, rows, have, 0)
<1>1. 1..0 = {}
  OBVIOUS
<1> QED BY <1>1 DEF Told

(* A row more. *)
LEMMA ToldGoesOn ==
    ASSUME NEW k \in Nat, NEW s, NEW base, NEW rows, NEW have, Told(s, base, rows, have, k),
           rows[k + 1] \in ExtraRow
    PROVE  Told(Extra(s, rows[k + 1], have), base, rows, have, k + 1)
<1> DEFINE e == rows[k + 1]
           p == e.path
           r == Extra(s, e, have)
<1>1. e.anchor \in STRING /\ p \in Blobs /\ p \in STRING
  BY ListsAssumption DEF ExtraRow
<1>2. /\ s.lines \in Seq(Line) /\ s.referenced \in SUBSET STRING /\ s.dropped \in SUBSET STRING
      /\ s \in PassState /\ base.referenced \subseteq s.referenced
      /\ Infs(s.lines) \cap base.referenced \subseteq Infs(base.lines)
      /\ \A i \in 1..k : rows[i].path \in have => rows[i].path \in s.referenced \cup s.dropped
  BY DEF Told, PassState
<1>3. \A i \in 1..(k + 1) : i \in 1..k \/ i = k + 1
  OBVIOUS
<1>4. CASE p \notin have \/ p \in s.referenced
  <2>1. r = s
    BY <1>4 DEF Extra
  <2> HIDE DEF r, e
  <2>2. \A i \in 1..(k + 1) : rows[i].path \in have => rows[i].path \in s.referenced \cup s.dropped
    BY <1>2, <1>3, <1>4 DEF e
  <2>3. Told(s, base, rows, have, k + 1)
    BY <1>2, <2>2 DEF Told
  <2> QED BY <2>1, <2>3 DEF r, e
<1>5. CASE ~(p \notin have \/ p \in s.referenced) /\ LinesOf(s.lines, e.anchor) = {}
  <2>1. r = [s EXCEPT !.dropped = @ \cup {p}]
    BY <1>5 DEF Extra, Inserted
  <2> HIDE DEF p
  <2>2. /\ r.lines = s.lines /\ r.referenced = s.referenced /\ r.dropped = s.dropped \cup {p}
        /\ r \in PassState
    BY <1>1, <1>2, <2>1 DEF PassState
  <2> HIDE DEF r, e
  <2>3. \A i \in 1..(k + 1) : rows[i].path \in have => rows[i].path \in r.referenced \cup r.dropped
    BY <1>2, <1>3, <2>2 DEF e, p
  <2>4. Told(r, base, rows, have, k + 1)
    BY <1>2, <2>2, <2>3 DEF Told
  <2> QED BY <2>4 DEF r, e
<1>6. CASE ~(p \notin have \/ p \in s.referenced) /\ LinesOf(s.lines, e.anchor) # {}
  <2> DEFINE i == Min(LinesOf(s.lines, e.anchor))
             block == <<Inf(p)>>
             new == InsertAfter(s.lines, i, block)
  <2>1. r = [s EXCEPT !.lines = new, !.referenced = @ \cup ToSet(<<p>>)]
    BY <1>6 DEF Extra, Inserted
  <2>2. ToSet(<<p>>) = {p}
    BY DEF ToSet
  <2>3. i \in 1..Len(s.lines) /\ Len(s.lines) \in Nat
    BY <1>2, <1>6, AnchorIs, LenProperties
  <2> HIDE DEF i, p
  <2>4. i \in 0..Len(s.lines)
    BY <2>3
  <2>5. Inf(p) \in Line /\ IsInf(Inf(p)) /\ Inf(p).name = p
    BY <1>1, InfIs
  <2>6. block \in Seq(Line) /\ Len(block) = 1 /\ block[1] = Inf(p)
    BY <2>5
  <2> HIDE DEF block
  <2>7. Infs(block) = {p}
    <3>1. \A q : q \in Infs(block) <=> \E j \in 1..1 : IsInf(block[j]) /\ block[j].name = q
      BY <2>6, InfsAre
    <3>2. \A j \in 1..1 : j = 1
      OBVIOUS
    <3> QED BY <2>5, <2>6, <3>1, <3>2
  <2>8. Infs(new) = Infs(s.lines) \cup {p} /\ new \in Seq(Line)
    <3>1. s.lines \in Seq(Line) /\ block \in Seq(Line)
      BY <1>2, <2>6
    <3>2. Infs(new) = Infs(s.lines) \cup Infs(block)
      BY <2>4, <3>1, InsertedInfs
    <3>3. new \in Seq(Line)
      BY <2>4, <3>1, InsertedLines
    <3> QED BY <2>7, <3>2, <3>3
  <2> HIDE DEF new
  <2>9. /\ r.lines = new /\ r.referenced = s.referenced \cup {p} /\ r.dropped = s.dropped
        /\ r \in PassState
    BY <1>1, <1>2, <2>1, <2>2, <2>8 DEF PassState
  <2> HIDE DEF r, e
  <2>10. Infs(r.lines) \cap base.referenced \subseteq Infs(base.lines)
    BY <1>2, <1>6, <2>8, <2>9
  <2>11. \A j \in 1..(k + 1) : rows[j].path \in have => rows[j].path \in r.referenced \cup r.dropped
    BY <1>2, <1>3, <2>9 DEF e, p
  <2>12. Told(r, base, rows, have, k + 1)
    BY <1>2, <2>9, <2>10, <2>11 DEF Told
  <2> QED BY <2>12 DEF r, e
<1> QED BY <1>4, <1>5, <1>6

(* A pass goes on with all of EXTRA_DRIVERS. *)
LEMMA ExtrasHold ==
    ASSUME NEW base, NEW ref, NEW have, NEW B, NEW X, NEW g, PassHolds(base, ref, have, B, X, g),
           NEW s \in Seq(ExtraRow), \A k \in 1..Len(s) : s[k].path \in Extras
    PROVE  /\ PassHolds(Extended(base, s, have), ref, have, B, X, g)
           /\ Told(Extended(base, s, have), base, s, have, Len(s))
<1> DEFINE n == Len(s)
           A == {p \in PassState : PassHolds(p, ref, have, B, X, g)}
           G == [k \in 1..n |-> [a \in A |-> Extra(a, s[k], have)]]
           P(it) == it = [u \in SUBSET DOMAIN s |->
                            IF u = {} THEN base ELSE Extra(it[u \ {Max(u)}], s[Max(u)], have)]
           r == Extended(base, s, have)
<1>1. n \in Nat /\ DOMAIN s = 1..n /\ \A k \in 1..n : s[k] \in ExtraRow /\ s[k].path \in Extras
  BY LenProperties, ElementOfSeq
<1>2. r = (CHOOSE it : P(it))[DOMAIN s]
  BY ONLY Zenon DEF Extended, FoldLeft, MapThenFoldSet
<1> HIDE DEF n, r
<1>3. \A k \in 1..n, a \in A : Extra(a, s[k], have) \in A
  <2> SUFFICES ASSUME NEW k \in 1..n, NEW a \in A PROVE Extra(a, s[k], have) \in A
    OBVIOUS
  <2>1. PassHolds(a, ref, have, B, X, g)
    OBVIOUS
  <2>2. PassHolds(Extra(a, s[k], have), ref, have, B, X, g)
    BY <1>1, <2>1, ExtraHolds
  <2> QED BY <2>2 DEF PassHolds
<1>4. base \in A
  BY DEF PassHolds
<1> HIDE DEF A
<1>5. G \in [1..n -> [A -> A]] /\ \A k \in 1..n, a \in A : G[k][a] = Extra(a, s[k], have)
  BY <1>3
<1> HIDE DEF G
<1>6. ASSUME NEW it PROVE Solves(it, A, base, G, n) => P(it)
  <2> SUFFICES ASSUME Solves(it, A, base, G, n) PROVE P(it)
    OBVIOUS
  <2>1. /\ it \in [SUBSET (1..n) -> A]
        /\ \A u \in SUBSET (1..n) : it[u] = IF u = {} THEN base ELSE G[Max(u)][it[u \ {Max(u)}]]
    BY DEF Solves
  <2>2. ASSUME NEW u \in SUBSET (1..n), u # {}
        PROVE  G[Max(u)][it[u \ {Max(u)}]] = Extra(it[u \ {Max(u)}], s[Max(u)], have)
    <3>1. Max(u) \in 1..n /\ u \ {Max(u)} \in SUBSET (1..n)
      BY <1>1, <2>2, MaxOf
    <3>2. it[u \ {Max(u)}] \in A
      BY <2>1, <3>1
    <3> QED BY <1>5, <3>1, <3>2
  <2> QED BY <1>1, <2>1, <2>2
<1> DEFINE it == CHOOSE it : P(it)
<1>7. P(it)
  <2>1. \E f : Solves(f, A, base, G, n)
    BY <1>1, <1>4, <1>5, FoldGraph
  <2>2. \E f : P(f)
    BY <1>6, <2>1
  <2> HIDE DEF P
  <2> QED BY <2>2
<1> HIDE DEF it
<1> DEFINE I == {k \in 0..n : it[1..k] \in A /\ Told(it[1..k], base, s, have, k)}
<1>8. 0 \in I
  <2>1. 0 \in 0..n /\ 1..0 = {} /\ {} \in SUBSET DOMAIN s
    BY <1>1
  <2>2. Told(base, base, s, have, 0)
    BY ToldStarts DEF PassHolds
  <2> QED BY <1>4, <1>7, <2>1, <2>2
<1>9. ASSUME NEW k \in 0..(n - 1), k \in I PROVE k + 1 \in I
  <2> DEFINE x == k + 1
  <2>1. k \in Nat /\ x \in Nat \ {0} /\ x \in 0..n /\ x \in 1..n /\ x - 1 = k /\ 1..x \in SUBSET (1..n) /\ 1..x # {}
    <3>1. k \in Nat /\ x \in Nat \ {0} /\ x \in 0..n /\ x \in 1..n /\ x - 1 = k
      BY <1>1
    <3> HIDE DEF x, I
    <3>2. 1..x \in SUBSET (1..n) /\ 1 \in 1..x
      BY <1>1, <3>1
    <3> QED BY <3>1, <3>2
  <2> HIDE DEF x
  <2>2. Max(1..x) = x /\ (1..x) \ {Max(1..x)} = 1..k
    BY <2>1, MaxOfRun
  <2>3. it[1..x] = Extra(it[1..k], s[x], have)
    BY <1>1, <1>7, <2>1, <2>2
  <2>4. it[1..x] \in A
    BY <1>3, <1>9, <2>1, <2>3
  <2>5. Told(Extra(it[1..k], s[k + 1], have), base, s, have, k + 1)
    <3>1. Told(it[1..k], base, s, have, k)
      BY <1>9
    <3>2. s[k + 1] \in ExtraRow
      BY <1>1, <2>1 DEF x
    <3> QED BY <2>1, <3>1, <3>2, ToldGoesOn
  <2> QED BY <2>1, <2>3, <2>4, <2>5 DEF x
<1>10. I \in SUBSET (0..n)
  OBVIOUS
<1> HIDE DEF I
<1>11. n \in I
  BY <1>1, <1>8, <1>9, <1>10, UpTo
<1>12. r \in A /\ Told(r, base, s, have, n)
  <2>1. it[1..n] \in A /\ Told(it[1..n], base, s, have, n)
    BY <1>11 DEF I
  <2> QED BY <1>1, <1>2, <2>1 DEF it
<1> QED BY <1>12 DEF A, r, n

(* A row of XHCI_HOST_DRIVERS leaves a pass one. *)
LEMMA HostIsPass ==
    ASSUME NEW s \in PassState, NEW j \in 1..Len(HostDrivers), NEW have
    PROVE  Host(s, HostDrivers[j], have) \in PassState
<1> DEFINE h == HostDrivers[j]
           w == Kept(h.paths, have)
           block == HostLines(w)
<1>1. h.paths # <<>> /\ h.paths \in Seq(STRING)
  BY RowIs
<1> HIDE DEF h
<1>2. w \in Seq(STRING)
  BY <1>1, KeptOf
<1>3. Head(h.paths) \in STRING /\ (w # <<>> => Head(w) \in STRING)
  <2> HIDE DEF w
  <2> QED BY <1>1, <1>2, HeadTailProperties
<1>4. ToSet(w) \in SUBSET STRING
  <2> HIDE DEF w
  <2>1. \A k \in DOMAIN w : w[k] \in STRING
    BY <1>2, LenProperties, ElementOfSeq
  <2> QED BY <2>1 DEF ToSet
<1>5. block \in Seq(Line)
  <2> HIDE DEF w
  <2> QED BY <1>2, HostLinesAre
<1>6. Host(s, h, have) = IF w = <<>> THEN [s EXCEPT !.dropped = @ \cup {Head(h.paths)}]
                         ELSE IF LinesOf(s.lines, h.anchor) = {}
                         THEN [s EXCEPT !.dropped = @ \cup {Head(w)}]
                         ELSE [s EXCEPT !.lines = InsertAfter(@, Min(LinesOf(@, h.anchor)), block),
                                        !.referenced = @ \cup ToSet(w)]
  BY DEF Host, Inserted, HostLines, InfLines, Opens, Closes
<1> HIDE DEF w, block
<1>7. s.lines \in Seq(Line) /\ s.referenced \in SUBSET STRING /\ s.dropped \in SUBSET STRING
  BY DEF PassState
<1>8. LinesOf(s.lines, h.anchor) # {} => InsertAfter(s.lines, Min(LinesOf(s.lines, h.anchor)), block) \in Seq(Line)
  <2> DEFINE i == Min(LinesOf(s.lines, h.anchor))
  <2> SUFFICES ASSUME LinesOf(s.lines, h.anchor) # {} PROVE InsertAfter(s.lines, i, block) \in Seq(Line)
    OBVIOUS
  <2>1. i \in 1..Len(s.lines) /\ Len(s.lines) \in Nat
    BY <1>7, AnchorIs, LenProperties
  <2> HIDE DEF i
  <2>2. i \in 0..Len(s.lines)
    BY <2>1
  <2> QED BY <1>5, <1>7, <2>2, InsertedLines
<1>9. Host(s, h, have) \in PassState
  BY <1>3, <1>4, <1>6, <1>7, <1>8 DEF PassState
<1> QED BY <1>9 DEF h

(* The blobs of the first k rows of the host's. *)
PathsTo(k) == UNION {PathsOf(j) : j \in 1..k}

(* Each row brings new ones. *)
LEMMA PathsGrow ==
    ASSUME NEW k \in Nat, k + 1 \in 1..Len(HostDrivers)
    PROVE  /\ PathsTo(k + 1) = PathsTo(k) \cup PathsOf(k + 1)
           /\ PathsTo(k) \cap PathsOf(k + 1) = {}
<1>1. HostDrivers \in Seq([anchor : STRING, paths : Seq(Blobs)])
  BY ListsAssumption
<1>2. Len(HostDrivers) \in Nat
  BY <1>1, LenProperties
<1>3. 1..(k + 1) = (1..k) \cup {k + 1}
  OBVIOUS
<1>4. \A j \in 1..k : j \in 1..Len(HostDrivers) /\ j # k + 1
  BY <1>2
<1>5. \A j \in 1..k : PathsOf(j) \cap PathsOf(k + 1) = {}
  BY <1>4, RowsApart
<1>6. PathsTo(k) \cap PathsOf(k + 1) = {}
  <2> SUFFICES ASSUME NEW p \in PathsTo(k), p \in PathsOf(k + 1) PROVE FALSE
    OBVIOUS
  <2>1. PICK j \in 1..k : p \in PathsOf(j)
    BY DEF PathsTo
  <2> QED BY <1>5, <2>1
<1>7. PathsTo(k + 1) = PathsTo(k) \cup PathsOf(k + 1)
  BY <1>3 DEF PathsTo
<1> QED BY <1>6, <1>7

(* They are the blobs of the host, in the end. *)
LEMMA PathsAre ==
    /\ PathsTo(0) = {}
    /\ PathsTo(Len(HostDrivers)) \subseteq HostBlobs
<1>1. PathsTo(0) = {}
  BY DEF PathsTo
<1>2. ASSUME NEW p \in PathsTo(Len(HostDrivers)) PROVE p \in HostBlobs
  <2>1. PICK j \in 1..Len(HostDrivers) : p \in PathsOf(j)
    BY DEF PathsTo
  <2>2. HostDrivers[j].paths \in Seq(STRING)
        /\ \A k \in 1..Len(HostDrivers[j].paths) : HostDrivers[j].paths[k] \in HostBlobs
    BY RowIs
  <2>3. DOMAIN HostDrivers[j].paths = 1..Len(HostDrivers[j].paths)
    BY <2>2, LenProperties
  <2> QED BY <2>1, <2>2, <2>3 DEF PathsOf, ToSet
<1> QED BY <1>1, <1>2

(* The rows of XHCI_HOST_DRIVERS, one after the other.                     *)
Hosted(base, have) == FoldLeft(LAMBDA s, h : Host(s, h, have), base, HostDrivers)

(* A pass goes on with all of XHCI_HOST_DRIVERS. *)
LEMMA HostsHold ==
    ASSUME NEW base, NEW ref, NEW have, NEW B, NEW g, PassHolds(base, ref, have, B, {}, g)
    PROVE  PassHolds(Hosted(base, have), ref, have, B, HostBlobs, g)
<1> DEFINE s == HostDrivers
           n == Len(s)
           A == PassState
           G == [k \in 1..n |-> [a \in A |-> Host(a, s[k], have)]]
           P(it) == it = [u \in SUBSET DOMAIN s |->
                            IF u = {} THEN base ELSE Host(it[u \ {Max(u)}], s[Max(u)], have)]
           r == Hosted(base, have)
<1>1. n \in Nat /\ DOMAIN s = 1..n
  <2>1. HostDrivers \in Seq([anchor : STRING, paths : Seq(Blobs)])
    BY ListsAssumption
  <2> QED BY <2>1, LenProperties
<1>2. r = (CHOOSE it : P(it))[DOMAIN s]
  BY ONLY Zenon DEF Hosted, FoldLeft, MapThenFoldSet
<1>3. \A k \in 1..n, a \in A : Host(a, s[k], have) \in A
  BY HostIsPass
<1>4. base \in A
  BY DEF PassHolds
<1> HIDE DEF s, n, r, A
<1>5. G \in [1..n -> [A -> A]] /\ \A k \in 1..n, a \in A : G[k][a] = Host(a, s[k], have)
  BY <1>3
<1> HIDE DEF G
<1>6. ASSUME NEW it PROVE Solves(it, A, base, G, n) => P(it)
  <2> SUFFICES ASSUME Solves(it, A, base, G, n) PROVE P(it)
    OBVIOUS
  <2>1. /\ it \in [SUBSET (1..n) -> A]
        /\ \A u \in SUBSET (1..n) : it[u] = IF u = {} THEN base ELSE G[Max(u)][it[u \ {Max(u)}]]
    BY DEF Solves
  <2>2. ASSUME NEW u \in SUBSET (1..n), u # {}
        PROVE  G[Max(u)][it[u \ {Max(u)}]] = Host(it[u \ {Max(u)}], s[Max(u)], have)
    <3>1. Max(u) \in 1..n /\ u \ {Max(u)} \in SUBSET (1..n)
      BY <1>1, <2>2, MaxOf
    <3>2. it[u \ {Max(u)}] \in A
      BY <2>1, <3>1
    <3> QED BY <1>5, <3>1, <3>2
  <2> QED BY <1>1, <2>1, <2>2
<1> DEFINE it == CHOOSE it : P(it)
<1>7. P(it)
  <2>1. \E f : Solves(f, A, base, G, n)
    BY <1>1, <1>4, <1>5, FoldGraph
  <2>2. \E f : P(f)
    BY <1>6, <2>1
  <2> HIDE DEF P
  <2> QED BY <2>2
<1> HIDE DEF it
<1> DEFINE I == {k \in 0..n : PassHolds(it[1..k], ref, have, B, PathsTo(k), g)}
<1>8. 0 \in I
  <2>1. 0 \in 0..n /\ 1..0 = {} /\ {} \in SUBSET DOMAIN s
    BY <1>1
  <2>2. it[1..0] = base
    BY <1>7, <2>1
  <2> QED BY <2>1, <2>2, PathsAre
<1>9. ASSUME NEW k \in 0..(n - 1), k \in I PROVE k + 1 \in I
  <2> DEFINE x == k + 1
  <2>1. x \in Nat \ {0} /\ x \in 0..n /\ x \in 1..n /\ x - 1 = k /\ k \in Nat
    BY <1>1
  <2> HIDE DEF x
  <2>2. 1..x \in SUBSET (1..n) /\ 1 \in 1..x
    BY <1>1, <2>1
  <2>3. Max(1..x) = x /\ (1..x) \ {Max(1..x)} = 1..k
    BY <2>1, MaxOfRun
  <2>4. it[1..x] = Host(it[1..k], s[x], have)
    BY <1>1, <1>7, <2>2, <2>3
  <2>5. PathsTo(x) = PathsTo(k) \cup PathsOf(x) /\ PathsTo(k) \cap PathsOf(x) = {}
    BY <2>1, PathsGrow DEF x, s, n
  <2>6. PassHolds(it[1..k], ref, have, B, PathsTo(k), g)
    BY <1>9
  <2>7. PassHolds(Host(it[1..k], s[x], have), ref, have, B, PathsTo(k) \cup PathsOf(x), g)
    BY <2>1, <2>5, <2>6, HostHolds DEF s, n
  <2> QED BY <2>1, <2>4, <2>5, <2>7 DEF x
<1>10. I \in SUBSET (0..n)
  OBVIOUS
<1> HIDE DEF I
<1>11. n \in I
  BY <1>1, <1>8, <1>9, <1>10, UpTo
<1>12. PassHolds(r, ref, have, B, PathsTo(n), g)
  <2>1. PassHolds(it[1..n], ref, have, B, PathsTo(n), g)
    BY <1>11 DEF I
  <2> QED BY <1>1, <1>2, <2>1 DEF it
<1>13. PathsTo(n) \subseteq HostBlobs
  BY PathsAre DEF n, s
<1>14. PassHolds(r, ref, have, B, HostBlobs, g)
  BY <1>12, <1>13 DEF PassHolds
<1> QED BY <1>14 DEF r

-----------------------------------------------------------------------------
(* The two passes of rewrite_incs.                                         *)
LEMMA ExtraRowsAre ==
    /\ ExtraDxe \in Seq(ExtraRow) /\ \A k \in 1..Len(ExtraDxe) : ExtraDxe[k].path \in Extras
    /\ ExtraApriori \in Seq(ExtraRow) /\ \A k \in 1..Len(ExtraApriori) : ExtraApriori[k].path \in Extras
<1>1. ExtraDxe \in Seq(ExtraRow) /\ ExtraApriori \in Seq(ExtraRow)
  BY ListsAssumption DEF ExtraRow
<1>2. DOMAIN ExtraDxe = 1..Len(ExtraDxe) /\ DOMAIN ExtraApriori = 1..Len(ExtraApriori)
  BY <1>1, LenProperties
<1>3. \A k \in 1..Len(ExtraDxe) : ExtraDxe[k] \in ToSet(ExtraDxe)
  BY <1>2 DEF ToSet
<1>4. \A k \in 1..Len(ExtraApriori) : ExtraApriori[k] \in ToSet(ExtraApriori)
  BY <1>2 DEF ToSet
<1> QED BY <1>1, <1>3, <1>4 DEF Extras

(* The pass over DXE.inc. *)
LEMMA DxePassHolds ==
    ASSUME NEW have, NEW o
    PROVE  /\ PassHolds(DxePass(have, o), Reference.dxe, have, {}, HostBlobs, TRUE)
           /\ DxePass(have, o).referenced \in SUBSET STRING
<1> DEFINE first == Filtered(Reference.dxe, have, {})
           extra == Extended(first, ExtraDxe, have)
<1>1. PassHolds(first, Reference.dxe, have, {}, {}, TRUE)
  BY References, FilteredHolds
<1> HIDE DEF first
<1>2. PassHolds(extra, Reference.dxe, have, {}, {}, TRUE)
  BY <1>1, ExtraRowsAre, ExtrasHold
<1>3. DxePass(have, o) = IF o.host THEN Hosted(extra, have) ELSE extra
  BY ONLY Zenon DEF DxePass, first, Extended, Hosted
<1> HIDE DEF extra
<1>4. PassHolds(Hosted(extra, have), Reference.dxe, have, {}, HostBlobs, TRUE)
  BY <1>2, HostsHold
<1>5. PassHolds(extra, Reference.dxe, have, {}, HostBlobs, TRUE)
  BY <1>2 DEF PassHolds
<1>6. PassHolds(DxePass(have, o), Reference.dxe, have, {}, HostBlobs, TRUE)
  BY <1>3, <1>4, <1>5
<1>7. DxePass(have, o) \in PassState
  BY <1>6 DEF PassHolds
<1> QED BY <1>6, <1>7 DEF PassState

(* The pass over APRIORI.inc, of what DXE.inc has referenced (B): a row    *)
(* with a blob is referenced or named, and of B it has only the lines of   *)
(* the reference.                                                          *)
LEMMA AprioriPassHolds ==
    ASSUME NEW have, NEW B \in SUBSET STRING
    PROVE  /\ PassHolds(AprioriPass(have, B), Reference.apriori, have, B, {}, FALSE)
           /\ Infs(AprioriPass(have, B).lines) \cap B \subseteq Infs(Reference.apriori)
           /\ \A e \in ToSet(ExtraApriori) : e.path \in have =>
                 e.path \in AprioriPass(have, B).referenced \cup AprioriPass(have, B).dropped
<1> DEFINE first == Filtered(Reference.apriori, have, B)
           a == AprioriPass(have, B)
<1>1. PassHolds(first, Reference.apriori, have, B, {}, FALSE)
  BY References, FilteredHolds
<1>2. B \subseteq first.referenced /\ Infs(first.lines) \subseteq Infs(Reference.apriori)
  <2>1. Infs(first.lines) = Infs(Reference.apriori) \ (Blobs \ have)
    BY References, FilteredIs
  <2>2. first.referenced = B \cup (Infs(Reference.apriori) \cap Blobs \cap have)
    BY DEF Filtered
  <2> QED BY <2>1, <2>2
<1> HIDE DEF first
<1>3. /\ PassHolds(Extended(first, ExtraApriori, have), Reference.apriori, have, B, {}, FALSE)
      /\ Told(Extended(first, ExtraApriori, have), first, ExtraApriori, have, Len(ExtraApriori))
  BY <1>1, ExtraRowsAre, ExtrasHold
<1>4. a = Extended(first, ExtraApriori, have)
  BY ONLY Zenon DEF AprioriPass, Extended, first, a
<1> HIDE DEF a
<1>5. Infs(a.lines) \cap B \subseteq Infs(Reference.apriori)
  BY <1>2, <1>3, <1>4 DEF Told
<1>6. ASSUME NEW e \in ToSet(ExtraApriori), e.path \in have
      PROVE  e.path \in a.referenced \cup a.dropped
  <2>1. DOMAIN ExtraApriori = 1..Len(ExtraApriori)
    BY ExtraRowsAre, LenProperties
  <2>2. PICK k \in 1..Len(ExtraApriori) : ExtraApriori[k] = e
    BY <2>1 DEF ToSet
  <2> QED BY <1>3, <1>4, <1>6, <2>2 DEF Told
<1> QED BY <1>3, <1>4, <1>5, <1>6 DEF a

-----------------------------------------------------------------------------
(* apply_apriori_moves. *)

(* The lines a move leaves where they are, and those it takes out.         *)
Move == [anchor : STRING, names : Seq(STRING)]
Names(m)    == ToSet(m.names)
Stays(l, m) == ~(IsInf(l) /\ l.name \in Names(m))
Left(P, m)  == {k \in 1..Len(P) : Stays(P[k], m)}

(* Unpicked keeps those that stay, in order. *)
LEMMA UnpickedIs ==
    ASSUME NEW P \in Seq(Line), NEW m
    PROVE  PickedTo(Unpicked(P, m), Line, Left(P, m), P, Len(P))
<1> DEFINE T == {l \in ToSet(P) : ~(l.op = "inf" /\ l.name \in ToSet(m.names))}
           U == {k \in 1..Len(P) : P[k] \in T}
<1>1. Unpicked(P, m) = Kept(P, T)
  BY DEF Unpicked
<1>2. PickedTo(Kept(P, T), Line, U, P, Len(P))
  <2> HIDE DEF T
  <2> QED BY KeptPicks
<1>3. DOMAIN P = 1..Len(P)
  BY LenProperties
<1>4. \A k \in 1..Len(P) : P[k] \in ToSet(P)
  BY <1>3 DEF ToSet
<1>5. \A k \in 1..Len(P) : P[k] \in T <=> Stays(P[k], m)
  BY <1>4 DEF Stays, Names, IsInf
<1>6. U = Left(P, m)
  <2> HIDE DEF T
  <2> QED BY <1>5 DEF Left
<1> HIDE DEF T, U
<1> QED BY <1>1, <1>2, <1>6

(* What a rank leaves out.                                                 *)
LEMMA RankOut ==
    ASSUME NEW U, NEW n \in Nat
    PROVE  /\ IsFiniteSet((1..n) \ U)
           /\ Cardinality((1..n) \ U) = n - Rank(U, n)
<1>1. IsFiniteSet(1..n) /\ Cardinality(1..n) = n
  <2>1. 1 \in Int /\ n \in Int
    OBVIOUS
  <2>2. IsFiniteSet(1..n) /\ Cardinality(1..n) = IF 1 > n THEN 0 ELSE n - 1 + 1
    BY <2>1, FS_Interval
  <2> QED BY <2>2
<1>2. IsFiniteSet((1..n) \ U) /\ Cardinality((1..n) \ U) = n - Cardinality((1..n) \cap U)
  BY <1>1, FS_Difference
<1>3. (1..n) \cap U = Up(U, n)
  BY UpHolds
<1> QED BY <1>2, <1>3 DEF Rank

(* The lines of a blob, by number. *)
LEMMA InfsOfAre ==
    ASSUME NEW P \in Seq(Line), NEW p
    PROVE  /\ \A i : i \in InfsOf(P, p) <=> i \in 1..Len(P) /\ IsInf(P[i]) /\ P[i].name = p
           /\ Cardinality(InfsOf(P, p)) = 1 => \E i : InfsOf(P, p) = {i}
<1> DEFINE I == InfsOf(P, p)
<1>1. Len(P) \in Nat /\ DOMAIN P = 1..Len(P)
  BY LenProperties
<1>2. \A i : i \in I <=> i \in 1..Len(P) /\ IsInf(P[i]) /\ P[i].name = p
  BY <1>1 DEF InfsOf, LinesOf, IsInf
<1> HIDE DEF I
<1>3. IsFiniteSet(I)
  <2>1. I \in SUBSET (1..Len(P))
    BY <1>2
  <2>2. IsFiniteSet(1..Len(P))
    BY <1>1, FS_Interval
  <2> QED BY <2>1, <2>2, FS_Subset
<1>4. Cardinality(I) = 1 => \E i : I = {i}
  BY <1>3, FS_Singleton
<1> QED BY <1>2, <1>4 DEF I

(* What apply_apriori_moves has made sure of.                              *)
Accepts(P, m) ==
    /\ P \in Seq(Line) /\ m \in Move /\ IsList(P)
    /\ \E at \in 1..Len(P) : InfsOf(P, m.anchor) = {at}
    /\ \A i \in 1..Len(m.names) :
          m.names[i] # m.anchor /\ \E k \in 1..Len(P) : InfsOf(P, m.names[i]) = {k}
    /\ \A a, b \in 1..Len(m.names) : m.names[a] = m.names[b] => a = b

(* A move that is not refused is accepted. *)
LEMMA AcceptsIs ==
    ASSUME NEW P, IsList(P), NEW m \in Move, ~Refuses(P, m)
    PROVE  Accepts(P, m)
<1>1. P \in Seq(Line) /\ m.anchor \in STRING /\ m.names \in Seq(STRING)
  BY DEF IsList, Move
<1>2. DOMAIN m.names = 1..Len(m.names)
  BY <1>1, LenProperties
<1>3. /\ Cardinality(InfsOf(P, m.anchor)) = 1
      /\ \A i \in 1..Len(m.names) : Cardinality(InfsOf(P, m.names[i])) = 1 /\ m.names[i] # m.anchor
      /\ IsInjective(m.names)
  BY <1>2 DEF Refuses
<1>4. ASSUME NEW p, Cardinality(InfsOf(P, p)) = 1 PROVE \E k \in 1..Len(P) : InfsOf(P, p) = {k}
  <2>1. PICK i : InfsOf(P, p) = {i}
    BY <1>1, <1>4, InfsOfAre
  <2>2. i \in 1..Len(P)
    BY <1>1, <2>1, InfsOfAre
  <2> QED BY <2>1, <2>2
<1>5. \A a, b \in 1..Len(m.names) : m.names[a] = m.names[b] => a = b
  BY <1>2, <1>3 DEF IsInjective
<1>6. \A i \in 1..Len(m.names) :
          m.names[i] # m.anchor /\ \E k \in 1..Len(P) : InfsOf(P, m.names[i]) = {k}
  BY <1>3, <1>4
<1> QED BY <1>1, <1>3, <1>4, <1>5, <1>6 DEF Accepts

(* As many lines are taken out as there are names.                         *)
LEMMA AsManyAsNames ==
    ASSUME NEW P, NEW m, Accepts(P, m)
    PROVE  Len(m.names) = Len(P) - Rank(Left(P, m), Len(P))
<1> DEFINE n == Len(P)
           c == Len(m.names)
           O == (1..n) \ Left(P, m)
           f == [i \in 1..c |-> CHOOSE k \in 1..n : InfsOf(P, m.names[i]) = {k}]
<1>1. /\ P \in Seq(Line) /\ m.names \in Seq(STRING)
      /\ \A i \in 1..c : \E k \in 1..n : InfsOf(P, m.names[i]) = {k}
      /\ \A a, b \in 1..c : m.names[a] = m.names[b] => a = b
  BY DEF Accepts, Move
<1>2. n \in Nat /\ c \in Nat /\ DOMAIN m.names = 1..c
  BY <1>1, LenProperties
<1>3. \A k \in 1..n : k \in O <=> IsInf(P[k]) /\ \E i \in 1..c : P[k].name = m.names[i]
  BY <1>2 DEF Left, Stays, Names, ToSet
<1>4. \A p, i : i \in InfsOf(P, p) <=> i \in 1..n /\ IsInf(P[i]) /\ P[i].name = p
  BY <1>1, InfsOfAre
<1>5. IsFiniteSet(O) /\ Cardinality(O) = n - Rank(Left(P, m), n)
  BY <1>2, RankOut
<1>6. O \subseteq 1..n
  OBVIOUS
<1> HIDE DEF n, c, O
<1>7. ASSUME NEW i \in 1..c
      PROVE  f[i] \in 1..n /\ InfsOf(P, m.names[i]) = {f[i]} /\ IsInf(P[f[i]]) /\ P[f[i]].name = m.names[i]
  <2>1. f[i] \in 1..n /\ InfsOf(P, m.names[i]) = {f[i]}
    BY <1>1
  <2> HIDE DEF f
  <2> QED BY <1>4, <2>1
<1>8. DOMAIN f = 1..c /\ f = [i \in 1..c |-> f[i]]
  OBVIOUS
<1> HIDE DEF f
<1>9. f \in [1..c -> O]
  <2>1. \A i \in 1..c : f[i] \in O
    BY <1>3, <1>7
  <2> QED BY <1>8, <2>1
<1>10. ASSUME NEW a \in 1..c, NEW b \in 1..c, f[a] = f[b] PROVE a = b
  BY <1>1, <1>7, <1>10
<1>11. ASSUME NEW k \in O PROVE \E i \in 1..c : f[i] = k
  <2>1. k \in 1..n
    BY <1>6
  <2>2. PICK i \in 1..c : IsInf(P[k]) /\ P[k].name = m.names[i]
    BY <1>3, <2>1
  <2>3. k \in InfsOf(P, m.names[i])
    BY <1>4, <2>1, <2>2
  <2> QED BY <1>7, <2>3
<1>12. f \in Bijection(1..c, O)
  BY <1>8, <1>9, <1>10, <1>11 DEF Bijection, Injection, Surjection, IsInjective
<1>13. IsFiniteSet(1..c) /\ Cardinality(1..c) = c
  <2>1. 1 \in Int /\ c \in Int
    BY <1>2
  <2>2. IsFiniteSet(1..c) /\ Cardinality(1..c) = IF 1 > c THEN 0 ELSE c - 1 + 1
    BY <2>1, FS_Interval
  <2> QED BY <1>2, <2>2
<1>14. Cardinality(O) = c
  BY <1>12, <1>13, FS_Bijection DEF ExistsBijection
<1> QED BY <1>5, <1>14 DEF n, c

(* What stays is a list, without the names that are moved. *)
LEMMA UnpickedList ==
    ASSUME NEW P, IsList(P), NEW m
    PROVE  /\ IsList(Unpicked(P, m)) /\ Len(Unpicked(P, m)) = Rank(Left(P, m), Len(P))
           /\ Infs(Unpicked(P, m)) = Infs(P) \ Names(m)
           /\ \A k \in 1..Len(Unpicked(P, m)) : Stays(Unpicked(P, m)[k], m)
<1> DEFINE u == Unpicked(P, m)
           n == Len(P)
           U == Left(P, m)
<1>1. P \in Seq(Line) /\ Once(P) /\ \A k \in 1..n : Plainly(P[k])
  BY DEF IsList
<1>2. n \in Nat
  BY <1>1, LenProperties
<1>3. PickedTo(u, Line, U, P, n)
  BY <1>1, UnpickedIs
<1>4. \A k : k \in U <=> k \in 1..n /\ Stays(P[k], m)
  BY DEF Left
<1> HIDE DEF u, n, U
<1>5. u \in Seq(Line) /\ Len(u) = Rank(U, n) /\ DOMAIN u = 1..Len(u)
  BY <1>3, LenProperties DEF PickedTo
<1>6. \A i \in 1..Len(u) : \E k \in Up(U, n) : Rank(U, k) = i /\ u[i] = P[k]
  BY <1>2, <1>3, <1>5, PickedFrom
<1>7. \A k \in Up(U, n) : k \in 1..n /\ Stays(P[k], m) /\ Rank(U, k) \in 1..Len(u) /\ u[Rank(U, k)] = P[k]
  <2>1. \A k \in Up(U, n) : Rank(U, k) \in 1..Len(u) /\ u[Rank(U, k)] = P[k]
    BY <1>2, <1>3, <1>5, PickedHas
  <2>2. \A k \in Up(U, n) : k \in U
    BY <1>2, UpHolds
  <2> QED BY <1>4, <2>1, <2>2
<1>8. \A k \in 1..n : Stays(P[k], m) => k \in Up(U, n)
  BY <1>2, <1>4, UpHolds
<1>9. \A i \in 1..Len(u) : Plainly(u[i]) /\ Stays(u[i], m)
  BY <1>1, <1>6, <1>7 DEF n
<1>10. Once(u)
  <2> SUFFICES ASSUME NEW i \in 1..Len(u), NEW j \in 1..Len(u),
                      IsInf(u[i]), IsInf(u[j]), u[i].name = u[j].name, u[i].name \in Blobs
               PROVE  i = j
    BY DEF Once
  <2>1. PICK k \in Up(U, n) : Rank(U, k) = i /\ u[i] = P[k]
    BY <1>6
  <2>2. PICK l \in Up(U, n) : Rank(U, l) = j /\ u[j] = P[l]
    BY <1>6
  <2>3. k \in 1..n /\ l \in 1..n
    BY <1>7
  <2>4. k = l
    BY <1>1, <2>1, <2>2, <2>3 DEF Once, n
  <2> QED BY <2>1, <2>2, <2>4
<1>11. /\ \A p : p \in Infs(u) <=> \E i \in 1..Len(u) : IsInf(u[i]) /\ u[i].name = p
       /\ \A p : p \in Infs(P) <=> \E k \in 1..n : IsInf(P[k]) /\ P[k].name = p
  BY <1>1, <1>5, InfsAre DEF n
<1>12. ASSUME NEW p, p \in Infs(u) PROVE p \in Infs(P) \ Names(m)
  <2>1. PICK i \in 1..Len(u) : IsInf(u[i]) /\ u[i].name = p
    BY <1>11, <1>12
  <2>2. PICK k \in Up(U, n) : u[i] = P[k]
    BY <1>6
  <2> QED BY <1>7, <1>11, <2>1, <2>2 DEF Stays
<1>13. ASSUME NEW p, p \in Infs(P) \ Names(m) PROVE p \in Infs(u)
  <2>1. PICK k \in 1..n : IsInf(P[k]) /\ P[k].name = p
    BY <1>11, <1>13
  <2>2. k \in Up(U, n)
    BY <1>8, <1>13, <2>1 DEF Stays
  <2> QED BY <1>7, <1>11, <2>1, <2>2
<1>14. IsList(u)
  BY <1>5, <1>9, <1>10 DEF IsList
<1> QED BY <1>5, <1>9, <1>12, <1>13, <1>14 DEF u, n, U

(* A move puts the names behind the anchor, where it is when they are out. *)
LEMMA MovedIs ==
    ASSUME NEW P, NEW m, Accepts(P, m)
    PROVE  \E j \in 1..Len(Unpicked(P, m)) :
              /\ Moved(P, m) = InsertAfter(Unpicked(P, m), j, InfLines(m.names))
              /\ Unpicked(P, m)[j] = Inf(m.anchor)
<1> DEFINE u == Unpicked(P, m)
           n == Len(P)
           U == Left(P, m)
           at == CHOOSE i \in InfsOf(P, m.anchor) : TRUE
           before == {i \in 1..(at - 1) : P[i].op = "inf" /\ P[i].name \in ToSet(m.names)}
           j == at - Cardinality(before)
<1>1. Moved(P, m) = InsertAfter(u, j, InfLines(m.names))
  BY DEF Moved, InfLines
<1>2. /\ P \in Seq(Line) /\ IsList(P) /\ m.names \in Seq(STRING)
      /\ \E k \in 1..n : InfsOf(P, m.anchor) = {k}
      /\ \A i \in 1..Len(m.names) : m.names[i] # m.anchor
  BY DEF Accepts, Move
<1>3. n \in Nat /\ DOMAIN m.names = 1..Len(m.names)
  BY <1>2, LenProperties
<1>4. at \in InfsOf(P, m.anchor)
  BY <1>2
<1>5. before = {i \in 1..(at - 1) : ~Stays(P[i], m)}
  BY DEF Stays, Names, IsInf
<1> HIDE DEF at
<1>6. at \in 1..n /\ IsInf(P[at]) /\ P[at].name = m.anchor /\ at \in Nat
  BY <1>2, <1>3, <1>4, InfsOfAre
<1>7. m.anchor \notin Names(m)
  BY <1>2, <1>3 DEF Names, ToSet
<1>8. \A k : k \in U <=> k \in 1..n /\ Stays(P[k], m)
  BY DEF Left
<1>9. PickedTo(u, Line, U, P, n)
  BY <1>2, UnpickedIs
<1> HIDE DEF before, n, u, U
<1>10. at \in U
  BY <1>6, <1>7, <1>8 DEF Stays
<1>11. before = (1..at) \ U
  <2>1. \A i \in 1..at : i \in 1..n
    BY <1>3, <1>6
  <2>2. \A i : i \in 1..at <=> i \in 1..(at - 1) \/ i = at
    BY <1>6
  <2>3. \A i : i \in 1..(at - 1) => i # at
    BY <1>6
  <2> QED BY <1>5, <1>8, <1>10, <2>1, <2>2, <2>3
<1>12. j = Rank(U, at)
  <2>1. Cardinality(before) = at - Rank(U, at)
    BY <1>6, <1>11, RankOut
  <2>2. Rank(U, at) \in Nat
    BY <1>6, RankIsNat
  <2> QED BY <1>6, <2>1, <2>2
<1>13. at \in Up(U, n)
  BY <1>3, <1>6, <1>10, UpHolds
<1>14. j \in 1..Len(u) /\ u[j] = P[at]
  <2>1. \A k \in Up(U, n) : Rank(U, k) \in DOMAIN u /\ u[Rank(U, k)] = P[k]
    BY <1>3, <1>9, PickedHas
  <2>2. DOMAIN u = 1..Len(u)
    BY <1>9, LenProperties DEF PickedTo
  <2> HIDE DEF j
  <2> QED BY <1>12, <1>13, <2>1, <2>2
<1> HIDE DEF j
<1>15. P[at] = Inf(m.anchor)
  <2>1. P[at] \in Line /\ Plainly(P[at])
    BY <1>2, <1>6, ElementOfSeq DEF IsList, n
  <2>2. P[at] = [op |-> P[at].op, name |-> P[at].name, value |-> P[at].value]
    BY <2>1 DEF Line
  <2>3. P[at].op = "inf" /\ P[at].value = 0
    BY <1>6, <2>1 DEF Plainly, IsInf
  <2> QED BY <1>6, <2>2, <2>3 DEF Inf
<1> QED BY <1>1, <1>14, <1>15 DEF u

(* The moved lines are a list of the names. *)
LEMMA NamesList ==
    ASSUME NEW P, NEW m, Accepts(P, m)
    PROVE  /\ IsList(InfLines(m.names)) /\ Infs(InfLines(m.names)) = Names(m)
           /\ InfLines(m.names) \in Seq(Line) /\ Len(InfLines(m.names)) = Len(m.names)
           /\ \A k \in 1..Len(m.names) : ~Stays(InfLines(m.names)[k], m)
           /\ Names(m) \subseteq Infs(P)
<1> DEFINE w == m.names
           c == Len(w)
           l == InfLines(w)
<1>1. w \in Seq(STRING) /\ P \in Seq(Line)
      /\ (\A i \in 1..c : \E k \in 1..Len(P) : InfsOf(P, w[i]) = {k})
      /\ \A a, b \in 1..c : w[a] = w[b] => a = b
  BY DEF Accepts, Move
<1>2. c \in Nat /\ DOMAIN w = 1..c
  BY <1>1, LenProperties
<1>3. l \in Seq(Line) /\ Len(l) = c /\ \A k \in 1..c : l[k] = Inf(w[k]) /\ w[k] \in STRING
  BY <1>1, InfLinesAre
<1>4. \A p : p \in Names(m) <=> \E k \in 1..c : w[k] = p
  BY <1>2 DEF Names, ToSet
<1> HIDE DEF w, c, l
<1>5. \A k \in 1..c : IsInf(l[k]) /\ l[k].name = w[k] /\ Plainly(l[k])
  BY <1>3, InfIs
<1>6. Once(l)
  <2> SUFFICES ASSUME NEW i \in 1..Len(l), NEW j \in 1..Len(l), l[i].name = l[j].name PROVE i = j
    BY DEF Once
  <2>1. i \in 1..c /\ j \in 1..c /\ w[i] = l[i].name /\ w[j] = l[j].name
    BY <1>3, <1>5
  <2> QED BY <1>1, <2>1
<1>7. \A p : p \in Infs(l) <=> \E k \in 1..c : IsInf(l[k]) /\ l[k].name = p
  BY <1>3, InfsAre
<1>8. Infs(l) = Names(m)
  BY <1>4, <1>5, <1>7
<1>9. \A k \in 1..c : ~Stays(l[k], m)
  BY <1>4, <1>5 DEF Stays
<1>10. ASSUME NEW p \in Names(m) PROVE p \in Infs(P)
  <2>1. PICK k \in 1..Len(P) : InfsOf(P, p) = {k}
    BY <1>1, <1>4
  <2>2. IsInf(P[k]) /\ P[k].name = p
    BY <1>1, <2>1, InfsOfAre
  <2> QED BY <1>1, <2>2, InfsAre
<1>11. IsList(l)
  BY <1>3, <1>5, <1>6 DEF IsList
<1> QED BY <1>3, <1>8, <1>9, <1>10, <1>11 DEF w, c, l

(* Moved: a list of the same INFs. *)
LEMMA MovedHolds ==
    ASSUME NEW P, NEW m, Accepts(P, m)
    PROVE  IsList(Moved(P, m)) /\ Infs(Moved(P, m)) = Infs(P)
<1> DEFINE u == Unpicked(P, m)
           l == InfLines(m.names)
<1>1. IsList(P)
  BY DEF Accepts
<1>2. IsList(u) /\ Infs(u) = Infs(P) \ Names(m)
  BY <1>1, UnpickedList
<1>3. IsList(l) /\ Infs(l) = Names(m) /\ Names(m) \subseteq Infs(P)
  BY NamesList
<1>4. PICK j \in 1..Len(u) : Moved(P, m) = InsertAfter(u, j, l)
  BY MovedIs
<1> HIDE DEF u, l
<1>5. u \in Seq(Line) /\ l \in Seq(Line)
  BY <1>2, <1>3 DEF IsList
<1>6. j \in 0..Len(u)
  BY <1>5, LenProperties
<1>7. Infs(u) \cap Infs(l) \cap Blobs = {}
  BY <1>2, <1>3
<1>8. IsList(InsertAfter(u, j, l))
  BY <1>2, <1>3, <1>6, <1>7, InsertedOnce
<1>9. Infs(InsertAfter(u, j, l)) = Infs(u) \cup Infs(l)
  BY <1>5, <1>6, InsertedInfs
<1>10. Infs(u) \cup Infs(l) = Infs(P)
  BY <1>2, <1>3
<1> QED BY <1>4, <1>8, <1>9, <1>10

(* The ranks in what is around a gap of c lines behind line j.             *)
LEMMA RankGap ==
    ASSUME NEW V, NEW n \in Nat, NEW c \in Nat, NEW j \in 0..n,
           \A k \in 1..(n + c) : k \in V <=> (k <= j \/ j + c < k)
    PROVE  \A k \in 0..(n + c) : Rank(V, k) = IF k <= j THEN k ELSE IF k <= j + c THEN j ELSE k - c
<1> DEFINE R(k) == IF k <= j THEN k ELSE IF k <= j + c THEN j ELSE k - c
           I == {k \in 0..(n + c) : Rank(V, k) = R(k)}
           N == n + c
<1>0. N \in Nat
  OBVIOUS
<1>1. 0 \in I
  BY RankZero
<1>2. ASSUME NEW k \in 0..(N - 1), k \in I PROVE k + 1 \in I
  <2>1. k \in Nat /\ k + 1 \in 1..(n + c) /\ k + 1 \in 0..(n + c) /\ Rank(V, k) = R(k)
    BY <1>2
  <2>2. Rank(V, k + 1) = IF k + 1 \in V THEN Rank(V, k) + 1 ELSE Rank(V, k)
    BY <2>1, RankStep
  <2>3. k + 1 \in V <=> (k + 1 <= j \/ j + c < k + 1)
    BY <2>1
  <2>4. CASE k + 1 <= j
    <3>1. R(k) = k /\ R(k + 1) = k + 1
      BY <2>1, <2>4
    <3> QED BY <2>1, <2>2, <2>3, <2>4, <3>1
  <2>5. CASE ~(k + 1 <= j) /\ k + 1 <= j + c
    <3>1. R(k) = j /\ R(k + 1) = j /\ ~(j + c < k + 1)
      BY <2>1, <2>5
    <3> QED BY <2>1, <2>2, <2>3, <2>5, <3>1
  <2>6. CASE j + c < k + 1
    <3>1. R(k) = k - c /\ R(k + 1) = (k - c) + 1
      BY <2>1, <2>6
    <3> QED BY <2>1, <2>2, <2>3, <2>6, <3>1
  <2>7. k + 1 <= j \/ (~(k + 1 <= j) /\ k + 1 <= j + c) \/ j + c < k + 1
    BY <2>1
  <2> QED BY <2>4, <2>5, <2>6, <2>7
<1>3. I \in SUBSET (0..N)
  OBVIOUS
<1> HIDE DEF I, N, R
<1>4. \A k \in 0..N : k \in I
  BY <1>0, <1>1, <1>2, <1>3, UpToAll
<1> QED BY <1>4 DEF I, N, R

(* What a move takes out of its own result is what it put there.           *)
LEMMA MovedApart ==
    ASSUME NEW P, NEW m, Accepts(P, m)
    PROVE  /\ Unpicked(Moved(P, m), m) = Unpicked(P, m)
           /\ Len(Moved(P, m)) = Len(P)
           /\ \E i \in DOMAIN Moved(P, m) :
                 /\ Moved(P, m)[i] = Inf(m.anchor)
                 /\ SubSeq(Moved(P, m), i + 1, i + Len(m.names)) = InfLines(m.names)
<1> DEFINE u == Unpicked(P, m)
           l == InfLines(m.names)
           r == Moved(P, m)
           n == Len(u)
           c == Len(m.names)
           V == Left(r, m)
<1>1. /\ u \in Seq(Line) /\ n = Rank(Left(P, m), Len(P))
      /\ \A k \in 1..n : Stays(u[k], m)
  <2>1. IsList(P)
    BY DEF Accepts
  <2> QED BY <2>1, UnpickedList DEF IsList
<1>2. l \in Seq(Line) /\ Len(l) = c /\ \A k \in 1..c : ~Stays(l[k], m)
  BY NamesList
<1>3. PICK j \in 1..n : r = InsertAfter(u, j, l) /\ u[j] = Inf(m.anchor)
  BY MovedIs
<1>4. c = Len(P) - n
  BY <1>1, AsManyAsNames
<1>5. Len(P) \in Nat /\ n \in Nat /\ c \in Nat
  <2>1. P \in Seq(Line) /\ m.names \in Seq(STRING)
    BY DEF Accepts, Move
  <2> QED BY <1>1, <2>1, LenProperties
<1> HIDE DEF u, l, n, c
<1>6. /\ r \in Seq(Line) /\ Len(r) = n + c
      /\ \A k \in 1..j : r[k] = u[k]
      /\ \A k \in 1..c : r[j + k] = l[k]
      /\ \A k \in (j + 1)..n : r[k + c] = u[k]
  <2>1. j \in 0..Len(u)
    BY <1>5 DEF n
  <2>2. /\ InsertAfter(u, j, l) \in Seq(Line) /\ Len(InsertAfter(u, j, l)) = n + Len(l)
        /\ \A k \in 1..j : InsertAfter(u, j, l)[k] = u[k]
        /\ \A k \in 1..Len(l) : InsertAfter(u, j, l)[j + k] = l[k]
        /\ \A k \in (j + 1)..n : InsertAfter(u, j, l)[k + Len(l)] = u[k]
    <3>1. u \in Seq(Line) /\ l \in Seq(Line)
      BY <1>1, <1>2
    <3> QED BY <2>1, <3>1, InsertedLines, ZenonT(40) DEF n
  <2> HIDE DEF r
  <2> QED BY <1>2, <1>3, <2>2
<1> HIDE DEF r
<1>7. Len(r) = Len(P)
  BY <1>4, <1>5, <1>6
<1>8. ASSUME NEW k \in 1..(n + c)
      PROVE  /\ k <= j => k \in 1..j /\ k \in 1..n
             /\ j + c < k => k - c \in (j + 1)..n /\ k - c \in 1..n /\ (k - c) + c = k
             /\ ~(k <= j) /\ ~(j + c < k) => k - j \in 1..c /\ j + (k - j) = k
  BY <1>5
<1>9. \A k \in 1..(n + c) : k \in V <=> (k <= j \/ j + c < k)
  <2> SUFFICES ASSUME NEW k \in 1..(n + c) PROVE Stays(r[k], m) <=> (k <= j \/ j + c < k)
    BY <1>6 DEF Left
  <2>1. CASE k <= j
    BY <1>1, <1>6, <1>8, <2>1
  <2>2. CASE j + c < k
    <3>1. r[k] = u[k - c]
      BY <1>6, <1>8, <2>2
    <3> QED BY <1>1, <1>8, <2>2, <3>1
  <2>3. CASE ~(k <= j) /\ ~(j + c < k)
    <3>1. r[k] = l[k - j]
      BY <1>6, <1>8, <2>3
    <3> QED BY <1>2, <1>8, <2>3, <3>1
  <2> QED BY <2>1, <2>2, <2>3
<1> HIDE DEF V
<1>10. \A k \in 0..(n + c) : Rank(V, k) = IF k <= j THEN k ELSE IF k <= j + c THEN j ELSE k - c
  <2>1. j \in 0..n
    BY <1>5
  <2> QED BY <1>5, <1>9, <2>1, RankGap
<1>11. Unpicked(r, m) = u
  <2>1. PickedTo(Unpicked(r, m), Line, V, r, n + c)
    BY <1>6, UnpickedIs DEF V
  <2>2. Rank(V, n + c) = n
    <3>1. n + c \in 0..(n + c)
      BY <1>5
    <3>2. (IF n + c <= j THEN n + c ELSE IF n + c <= j + c THEN j ELSE (n + c) - c) = n
      BY <1>5
    <3> QED BY <1>10, <3>1, <3>2
  <2>3. ASSUME NEW k \in Up(V, n + c) PROVE u[Rank(V, k)] = r[k]
    <3>1. n + c \in Nat
      BY <1>5
    <3>2. k \in V /\ k \in 1..(n + c)
      BY <3>1, UpHolds
    <3>3. k <= j \/ j + c < k
      BY <1>9, <3>2
    <3>4. k \in 0..(n + c)
      BY <1>5, <3>2
    <3>5. CASE k <= j
      BY <1>6, <1>8, <1>10, <3>2, <3>4, <3>5
    <3>6. CASE j + c < k
      <4>1. ~(k <= j) /\ ~(k <= j + c)
        BY <1>5, <3>2, <3>6
      <4>2. Rank(V, k) = k - c
        BY <1>10, <3>4, <4>1
      <4> QED BY <1>6, <1>8, <3>2, <3>6, <4>2
    <3> QED BY <3>3, <3>5, <3>6
  <2>4. PickedTo(u, Line, V, r, n + c)
    BY <1>1, <2>2, <2>3 DEF PickedTo, n
  <2>5. n + c \in Nat
    BY <1>5
  <2> QED BY <2>1, <2>4, <2>5, PickedSame
<1>12. j \in DOMAIN r /\ r[j] = Inf(m.anchor)
  <2>1. DOMAIN r = 1..(n + c)
    BY <1>6, LenProperties
  <2>2. j \in 1..(n + c) /\ j \in 1..j
    BY <1>5
  <2> QED BY <1>3, <1>6, <2>1, <2>2
<1>13. SubSeq(r, j + 1, j + c) = l
  <2> DEFINE q == SubSeq(r, j + 1, j + c)
  <2>1. j + 1 \in Int /\ j + c \in Int /\ \A k \in (j + 1)..(j + c) : r[k] \in Line
    <3>1. \A k \in 1..Len(r) : r[k] \in Line
      BY <1>6, ElementOfSeq
    <3>2. \A k \in (j + 1)..(j + c) : k \in 1..Len(r)
      BY <1>5, <1>6
    <3> QED BY <1>5, <3>1, <3>2
  <2>2. /\ q \in Seq(Line) /\ Len(q) = IF j + 1 <= j + c THEN (j + c) - (j + 1) + 1 ELSE 0
        /\ \A k \in 1..((j + c) - (j + 1) + 1) : q[k] = r[(j + 1) + k - 1]
    BY ONLY <2>1, SubSeqProperties
  <2> HIDE DEF q
  <2>3. Len(q) = c
    BY <1>5, <2>2
  <2>4. ASSUME NEW k \in 1..c PROVE q[k] = l[k]
    <3>1. k \in 1..((j + c) - (j + 1) + 1) /\ (j + 1) + k - 1 = j + k
      BY <1>5
    <3> QED BY <1>6, <2>2, <3>1
  <2>5. q = l
    BY <1>2, <2>2, <2>3, <2>4, SeqEqual
  <2> QED BY <2>5 DEF q
<1> QED BY <1>7, <1>11, <1>12, <1>13 DEF u, l, r, c

(* The moves, one after the other: each is refused for good, or leaves a   *)
(* list of the same INFs.                                                  *)
MoveStep(s, m) ==
    IF ~s.ok \/ Refuses(s.lines, m) THEN [s EXCEPT !.ok = FALSE]
    ELSE [s EXCEPT !.lines = Moved(s.lines, m)]
MoveState(lines) == {x \in [ok : BOOLEAN, lines : Seq(Line)] : IsList(x.lines) /\ Infs(x.lines) = Infs(lines)}

(* One move leaves a list of the same INFs. *)
LEMMA MoveStepHolds ==
    ASSUME NEW lines, NEW s \in MoveState(lines), NEW m \in Move
    PROVE  MoveStep(s, m) \in MoveState(lines)
<1>1. s \in [ok : BOOLEAN, lines : Seq(Line)] /\ IsList(s.lines) /\ Infs(s.lines) = Infs(lines)
  BY DEF MoveState
<1>2. CASE ~s.ok \/ Refuses(s.lines, m)
  <2>1. MoveStep(s, m) = [s EXCEPT !.ok = FALSE]
    BY <1>2 DEF MoveStep
  <2> QED BY <1>1, <2>1 DEF MoveState
<1>3. CASE ~(~s.ok \/ Refuses(s.lines, m))
  <2>1. MoveStep(s, m) = [s EXCEPT !.lines = Moved(s.lines, m)]
    BY <1>3 DEF MoveStep
  <2>2. IsList(Moved(s.lines, m)) /\ Infs(Moved(s.lines, m)) = Infs(s.lines)
    BY <1>1, <1>3, AcceptsIs, MovedHolds
  <2>3. Moved(s.lines, m) \in Seq(Line)
    BY <2>2 DEF IsList
  <2> HIDE DEF Moved
  <2> QED BY <1>1, <2>1, <2>2, <2>3 DEF MoveState
<1> QED BY <1>2, <1>3

(* What is said of a run of moves: F[k] is what the first k of them made.  *)
MovesTo(F, lines, moves) ==
    /\ ApplyAprioriMoves(lines, moves) = F[Len(moves)]
    /\ F[0] = [ok |-> TRUE, lines |-> lines]
    /\ \A k \in 1..Len(moves) : F[k] = MoveStep(F[k - 1], moves[k])
    /\ \A k \in 0..Len(moves) : F[k] \in MoveState(lines)

(* apply_apriori_moves: the moves have such a run. *)
LEMMA MovesRun ==
    ASSUME NEW lines, IsList(lines), NEW s \in Seq(Move)
    PROVE  \E F : MovesTo(F, lines, s)
<1> DEFINE n == Len(s)
           base == [ok |-> TRUE, lines |-> lines]
           A == MoveState(lines)
           G == [k \in 1..n |-> [a \in A |-> MoveStep(a, s[k])]]
           P(it) == it = [u \in SUBSET DOMAIN s |->
                            IF u = {} THEN base ELSE MoveStep(it[u \ {Max(u)}], s[Max(u)])]
           r == ApplyAprioriMoves(lines, s)
<1>1. n \in Nat /\ DOMAIN s = 1..n /\ \A k \in 1..n : s[k] \in Move
  BY LenProperties, ElementOfSeq
<1>2. r = (CHOOSE it : P(it))[DOMAIN s]
  BY ONLY Zenon DEF ApplyAprioriMoves, FoldLeft, MapThenFoldSet, MoveStep
<1>4. base \in A
  <2>1. lines \in Seq(Line)
    BY DEF IsList
  <2> QED BY <2>1 DEF MoveState
<1> HIDE DEF n, r, base, A
<1>3. \A k \in 1..n, a \in A : MoveStep(a, s[k]) \in A
  BY <1>1, MoveStepHolds DEF A
<1>5. G \in [1..n -> [A -> A]] /\ \A k \in 1..n, a \in A : G[k][a] = MoveStep(a, s[k])
  BY <1>3
<1> HIDE DEF G
<1>6. ASSUME NEW it PROVE Solves(it, A, base, G, n) => P(it)
  <2> SUFFICES ASSUME Solves(it, A, base, G, n) PROVE P(it)
    OBVIOUS
  <2>1. /\ it \in [SUBSET (1..n) -> A]
        /\ \A u \in SUBSET (1..n) : it[u] = IF u = {} THEN base ELSE G[Max(u)][it[u \ {Max(u)}]]
    BY DEF Solves
  <2>2. ASSUME NEW u \in SUBSET (1..n), u # {}
        PROVE  G[Max(u)][it[u \ {Max(u)}]] = MoveStep(it[u \ {Max(u)}], s[Max(u)])
    <3>1. Max(u) \in 1..n /\ u \ {Max(u)} \in SUBSET (1..n)
      BY <1>1, <2>2, MaxOf
    <3>2. it[u \ {Max(u)}] \in A
      BY <2>1, <3>1
    <3> QED BY <1>5, <3>1, <3>2
  <2> QED BY <1>1, <2>1, <2>2
<1> DEFINE it == CHOOSE it : P(it)
<1>7. P(it)
  <2>1. \E f : Solves(f, A, base, G, n)
    BY <1>1, <1>4, <1>5, FoldGraph
  <2>2. \E f : P(f)
    BY <1>6, <2>1
  <2> HIDE DEF P
  <2> QED BY <2>2
<1> HIDE DEF it
<1> DEFINE F == [k \in 0..n |-> it[1..k]]
<1>8. F[0] = base
  <2>1. 0 \in 0..n /\ 1..0 = {} /\ {} \in SUBSET DOMAIN s
    BY <1>1
  <2> QED BY <1>7, <2>1
<1>9. ASSUME NEW x \in 1..n PROVE F[x] = MoveStep(F[x - 1], s[x])
  <2>1. x \in Nat \ {0} /\ x \in 0..n /\ x - 1 \in 0..n /\ 1..x \in SUBSET (1..n) /\ 1 \in 1..x
    BY <1>1
  <2>2. Max(1..x) = x /\ (1..x) \ {Max(1..x)} = 1..(x - 1)
    BY <2>1, MaxOfRun
  <2>3. it[1..x] = MoveStep(it[1..(x - 1)], s[x])
    BY <1>1, <1>7, <2>1, <2>2
  <2> QED BY <2>1, <2>3
<1>10. r = F[n]
  <2>1. n \in 0..n
    BY <1>1
  <2> QED BY <1>1, <1>2, <2>1 DEF it
<1> HIDE DEF F
<1> DEFINE I == {k \in 0..n : F[k] \in A}
<1>11. I \in SUBSET (0..n) /\ 0 \in I
  BY <1>1, <1>4, <1>8
<1>12. ASSUME NEW k \in 0..(n - 1), k \in I PROVE k + 1 \in I
  <2>1. k + 1 \in 1..n /\ k + 1 \in 0..n /\ (k + 1) - 1 = k
    BY <1>1
  <2>2. F[k + 1] = MoveStep(F[k], s[k + 1])
    BY <1>9, <2>1
  <2>3. F[k] \in A
    BY <1>12
  <2> QED BY <1>3, <2>1, <2>2, <2>3
<1> HIDE DEF I
<1>13. \A k \in 0..n : k \in I
  BY <1>1, <1>11, <1>12, UpToAll
<1>14. \A k \in 0..n : F[k] \in A
  BY <1>13 DEF I
<1>15. MovesTo(F, lines, s)
  BY <1>8, <1>9, <1>10, <1>14 DEF MovesTo, r, base, A, n
<1> QED BY <1>15

-----------------------------------------------------------------------------
(* rewrite_incs: what its lists are. *)

(* Of a blob there is at most one line. *)
LEMMA OneLine ==
    ASSUME NEW l, IsList(l), NEW p \in Blobs
    PROVE  Cardinality(InfsOf(l, p)) <= 1
<1> DEFINE I == InfsOf(l, p)
<1>1. l \in Seq(Line) /\ Once(l)
  BY DEF IsList
<1>2. \A i : i \in I <=> i \in 1..Len(l) /\ IsInf(l[i]) /\ l[i].name = p
  BY <1>1, InfsOfAre
<1> HIDE DEF I
<1>3. \A i, j \in I : i = j
  BY <1>1, <1>2 DEF Once
<1>4. I = {} \/ \E i : I = {i}
  BY <1>3
<1>5. I = {} => Cardinality(I) = 0
  BY FS_EmptySet
<1>6. \A i : I = {i} => Cardinality(I) = 1
  <2> SUFFICES ASSUME NEW i, I = {i} PROVE Cardinality(I) = 1
    OBVIOUS
  <2>1. Cardinality({i}) = 1
    BY FS_Singleton
  <2> QED BY <2>1
<1> QED BY <1>4, <1>5, <1>6 DEF I

(* What the two passes and the moves make.                                 *)
LEMMA RewritesTo ==
    ASSUME NEW have, NEW o \in Option
    PROVE  /\ PassHolds(DxePass(have, o), Reference.dxe, have, {}, HostBlobs, TRUE)
           /\ PassHolds(AprioriPass(have, DxePass(have, o).referenced), Reference.apriori, have,
                        DxePass(have, o).referenced, {}, FALSE)
           /\ LET a == AprioriPass(have, DxePass(have, o).referenced)
                  m == ApplyAprioriMoves(a.lines, o.moves)
              IN  m \in MoveState(a.lines)
<1> DEFINE B == DxePass(have, o).referenced
           a == AprioriPass(have, B)
<1>1. PassHolds(DxePass(have, o), Reference.dxe, have, {}, HostBlobs, TRUE) /\ B \in SUBSET STRING
  BY DxePassHolds
<1> HIDE DEF B
<1>2. PassHolds(a, Reference.apriori, have, B, {}, FALSE)
  BY <1>1, AprioriPassHolds
<1> HIDE DEF a
<1>3. IsList(a.lines)
  BY <1>2 DEF PassHolds
<1>4. o.moves \in Seq(Move)
  BY DEF Option, Move
<1>5. PICK F : MovesTo(F, a.lines, o.moves)
  BY <1>3, <1>4, MovesRun
<1>6. Len(o.moves) \in 0..Len(o.moves)
  <2>1. Len(o.moves) \in Nat
    BY <1>4, LenProperties
  <2> QED BY <2>1
<1>7. ApplyAprioriMoves(a.lines, o.moves) \in MoveState(a.lines)
  BY <1>5, <1>6 DEF MovesTo
<1> QED BY <1>1, <1>2, <1>7 DEF a, B

(* What is left out is named, but for the rows whose blob DXE.inc has.     *)
LEMMA NothingIsSilentHolds ==
    ASSUME NEW have, NEW o \in Option
    PROVE  NothingIsSilent(RewriteIncs(have, o))
<1> DEFINE d == DxePass(have, o)
           a == AprioriPass(have, d.referenced)
           m == ApplyAprioriMoves(a.lines, o.moves)
           g == RewriteIncs(have, o)
<1>1. /\ PassHolds(d, Reference.dxe, have, {}, HostBlobs, TRUE)
      /\ PassHolds(a, Reference.apriori, have, d.referenced, {}, FALSE)
      /\ m \in MoveState(a.lines)
  BY RewritesTo
<1>2. /\ g.have = have /\ g.dxe = d.lines /\ g.apriori = m.lines
      /\ g.dropped = d.dropped \cup a.dropped /\ g.skipped = have \ d.referenced
  BY DEF RewriteIncs
<1>3. /\ Infs(a.lines) \cap d.referenced \subseteq Infs(Reference.apriori)
      /\ \A e \in ToSet(ExtraApriori) : e.path \in have => e.path \in a.referenced \cup a.dropped
  <2>1. d.referenced \in SUBSET STRING
    BY DxePassHolds
  <2> HIDE DEF d
  <2> QED BY <2>1, AprioriPassHolds
<1> HIDE DEF d, a, m, g
<1>4. Infs(g.apriori) = Infs(a.lines)
  BY <1>1, <1>2 DEF MoveState
<1>5. /\ d.referenced \subseteq Infs(d.lines)
      /\ Infs(d.lines) \cap Blobs \subseteq d.referenced
      /\ a.referenced \subseteq Infs(a.lines) \cup d.referenced
      /\ Infs(Reference.dxe) \subseteq Infs(d.lines) \cup d.dropped
      /\ Infs(Reference.apriori) \subseteq Infs(a.lines) \cup a.dropped
  BY <1>1 DEF PassHolds
<1>6. ASSUME NEW e \in ToSet(ExtraApriori), e.path \in have
      PROVE  /\ e.path \in Infs(g.apriori) \cup g.dropped \cup Infs(g.dxe)
             /\ e.path \in Infs(g.dxe) \cap Infs(g.apriori) => e.path \in Infs(Reference.apriori)
  <2>1. e.path \in Blobs
    <3>1. DOMAIN ExtraApriori = 1..Len(ExtraApriori) /\ ExtraApriori \in Seq(ExtraRow)
      BY ExtraRowsAre, LenProperties
    <3>2. PICK k \in 1..Len(ExtraApriori) : ExtraApriori[k] = e
      BY <3>1 DEF ToSet
    <3>3. e \in ExtraRow
      BY <3>1, <3>2, ElementOfSeq
    <3> QED BY <3>3 DEF ExtraRow
  <2> QED BY <1>2, <1>3, <1>4, <1>5, <1>6, <2>1
<1>7. NothingIsSilent(g)
  BY <1>2, <1>4, <1>5, <1>6 DEF NothingIsSilent
<1> QED BY <1>7 DEF g

(* The lists name what is there, once, and the host's behind their switch. *)
LEMMA NamesWhatIsThereHolds ==
    ASSUME NEW have, NEW o \in Option, o.host => HostBlobs \subseteq have
    PROVE  NamesWhatIsThere(RewriteIncs(have, o))
<1> DEFINE d == DxePass(have, o)
           a == AprioriPass(have, d.referenced)
           m == ApplyAprioriMoves(a.lines, o.moves)
           g == RewriteIncs(have, o)
<1>1. /\ PassHolds(d, Reference.dxe, have, {}, HostBlobs, TRUE)
      /\ PassHolds(a, Reference.apriori, have, d.referenced, {}, FALSE)
      /\ m \in MoveState(a.lines)
  BY RewritesTo
<1>2. /\ g.have = have /\ g.option = o /\ g.dxe = d.lines /\ g.apriori = m.lines
      /\ g.skipped = have \ d.referenced
  BY DEF RewriteIncs
<1> HIDE DEF d, a, m, g
<1>3. Infs(g.apriori) = Infs(a.lines) /\ IsList(g.apriori)
  BY <1>1, <1>2 DEF MoveState
<1>4. IsList(g.dxe) /\ g.dxe \in Seq(Line)
  BY <1>1, <1>2 DEF PassHolds, IsList
<1>5. (Infs(g.dxe) \cup Infs(g.apriori)) \cap Blobs \subseteq g.have
  <2>1. Infs(g.dxe) \cap Blobs \subseteq have /\ Infs(g.apriori) \cap Blobs \subseteq have
    BY <1>1, <1>2, <1>3 DEF PassHolds
  <2> QED BY <1>2, <2>1
<1>6. \A l \in {g.dxe, g.apriori} : \A p \in Blobs : Cardinality(InfsOf(l, p)) <= 1
  BY <1>3, <1>4, OneLine
<1>7. Infs(g.apriori) \cap HostBlobs = {}
  BY <1>1, <1>3 DEF PassHolds
<1>8. Guarded(g.dxe, d.referenced \cap HostBlobs)
  BY <1>1, <1>2 DEF PassHolds
<1>9. ToSet(InfOrder(With(g.dxe, 0)).out) \cap HostBlobs = {}
  <2>1. \A p : p \in ToSet(InfOrder(With(g.dxe, 0)).out)
                 <=> \E k \in 1..Len(g.dxe) : Emits(g.dxe, 0, k) /\ g.dxe[k].name = p
    BY <1>4, OutIs
  <2>2. \A k \in 1..Len(g.dxe) : g.dxe[k].name \in HostBlobs => ~Emits(g.dxe, 0, k)
    BY <1>8 DEF Guarded, Hushed
  <2> QED BY <2>1, <2>2
<1>10. ASSUME g.option.host, NEW p \in HostBlobs \ g.skipped
       PROVE  p \in ToSet(InfOrder(With(g.dxe, 1)).out)
  <2>1. p \in d.referenced \cap HostBlobs
    BY <1>2, <1>10
  <2>2. \E k \in 1..Len(g.dxe) : g.dxe[k].name = p /\ Emits(g.dxe, 1, k)
    BY <1>8, <2>1 DEF Guarded, Loud
  <2>3. \A q : q \in ToSet(InfOrder(With(g.dxe, 1)).out)
                 <=> \E k \in 1..Len(g.dxe) : Emits(g.dxe, 1, k) /\ g.dxe[k].name = q
    BY <1>4, OutIs
  <2> QED BY <2>2, <2>3
<1>11. NamesWhatIsThere(g)
  BY <1>5, <1>6, <1>7, <1>9, <1>10 DEF NamesWhatIsThere
<1> QED BY <1>11 DEF g

(* A move moves what it names, and nothing else.                           *)
LEMMA OnlyMovesHolds ==
    ASSUME NEW have, NEW o \in Option, RewriteIncs(have, o).ok
    PROVE  OnlyMoves(RewriteIncs(have, o))
<1> DEFINE d == DxePass(have, o)
           a == AprioriPass(have, d.referenced)
           m == ApplyAprioriMoves(a.lines, o.moves)
           g == RewriteIncs(have, o)
           q == [o EXCEPT !.moves = <<>>]
           P == RewriteIncs(have, q)
<1>1. /\ PassHolds(a, Reference.apriori, have, d.referenced, {}, FALSE)
      /\ m \in MoveState(a.lines)
  BY RewritesTo
<1>2. g.have = have /\ g.option = o /\ g.dxe = d.lines /\ g.apriori = m.lines /\ g.ok = m.ok
  BY DEF RewriteIncs
<1>3. q.host = o.host /\ q.moves = <<>>
  BY DEF Option
<1>4. DxePass(have, q) = d
  BY <1>3 DEF DxePass
<1>5. P.dxe = d.lines /\ P.apriori = ApplyAprioriMoves(a.lines, <<>>).lines
  BY <1>3, <1>4 DEF RewriteIncs
<1>6. Plain(g) = P.apriori /\ RewriteIncs(g.have, [g.option EXCEPT !.moves = <<>>]) = P
  BY <1>2 DEF Plain
<1> HIDE DEF d, a, m, g, q, P
<1>7. IsList(a.lines)
  BY <1>1 DEF PassHolds
<1>8. ApplyAprioriMoves(a.lines, <<>>).lines = a.lines
  <2>1. <<>> \in Seq(Move) /\ Len(<<>>) = 0
    BY EmptySeq
  <2>2. PICK F : MovesTo(F, a.lines, <<>>)
    BY <1>7, <2>1, MovesRun
  <2> QED BY <2>1, <2>2 DEF MovesTo
<1>9. Plain(g) = a.lines
  BY <1>5, <1>6, <1>8
<1>10. ASSUME Len(g.option.moves) = 1
       PROVE  LET c == g.option.moves[1]
              IN  /\ Unpicked(g.apriori, c) = Unpicked(Plain(g), c)
                  /\ \E i \in DOMAIN g.apriori :
                        /\ g.apriori[i] = Inf(c.anchor)
                        /\ SubSeq(g.apriori, i + 1, i + Len(c.names))
                              = [k \in DOMAIN c.names |-> Inf(c.names[k])]
                  /\ Len(g.apriori) = Len(Plain(g))
  <2> DEFINE c == o.moves[1]
  <2>1. o.moves \in Seq(Move) /\ Len(o.moves) = 1
    BY <1>2, <1>10 DEF Option, Move
  <2>2. c \in Move
    BY <2>1, ElementOfSeq
  <2>3. PICK F : MovesTo(F, a.lines, o.moves)
    BY <1>7, <2>1, MovesRun
  <2>4. m = F[1] /\ F[0] = [ok |-> TRUE, lines |-> a.lines] /\ F[1] = MoveStep(F[0], c)
    BY <2>1, <2>3 DEF MovesTo, m
  <2> HIDE DEF c
  <2>5. m.ok
    BY <1>2 DEF g
  <2>6. F[0].ok = TRUE /\ F[0].lines = a.lines
    BY <2>4
  <2>7. ~Refuses(a.lines, c)
    <3> SUFFICES ASSUME Refuses(a.lines, c) PROVE FALSE
      OBVIOUS
    <3>1. F[1] = [F[0] EXCEPT !.ok = FALSE]
      BY <2>4, <2>6 DEF MoveStep
    <3>2. F[1].ok = FALSE
      BY <2>4, <3>1
    <3> QED BY <2>4, <2>5, <3>2
  <2>8. m.lines = Moved(a.lines, c)
    <3>1. F[1] = [F[0] EXCEPT !.lines = Moved(a.lines, c)]
      BY <2>4, <2>6, <2>7 DEF MoveStep
    <3> HIDE DEF Moved
    <3>2. F[1].lines = Moved(a.lines, c)
      BY <2>4, <3>1
    <3> QED BY <2>4, <3>2
  <2>9. Accepts(a.lines, c)
    BY <1>7, <2>2, <2>7, AcceptsIs
  <2>10. /\ Unpicked(Moved(a.lines, c), c) = Unpicked(a.lines, c)
         /\ Len(Moved(a.lines, c)) = Len(a.lines)
         /\ \E i \in DOMAIN Moved(a.lines, c) :
               /\ Moved(a.lines, c)[i] = Inf(c.anchor)
               /\ SubSeq(Moved(a.lines, c), i + 1, i + Len(c.names)) = InfLines(c.names)
    BY <2>9, MovedApart
  <2>11. g.apriori = Moved(a.lines, c) /\ g.option.moves[1] = c
    BY <1>2, <2>8 DEF c
  <2> HIDE DEF Moved
  <2> QED BY <1>9, <2>10, <2>11 DEF InfLines
<1>11. g.dxe = RewriteIncs(g.have, [g.option EXCEPT !.moves = <<>>]).dxe
  BY <1>2, <1>5, <1>6
<1>12. OnlyMoves(g)
  BY <1>10, <1>11 DEF OnlyMoves
<1> QED BY <1>12 DEF g

(* rewrite_incs: its lists are whole, for every set of blobs and option.   *)
LEMMA RewriteIncsHolds ==
    ASSUME NEW have, NEW o \in Option, o.host => HostBlobs \subseteq have, RewriteIncs(have, o).ok
    PROVE  ListsHold(RewriteIncs(have, o))
BY NothingIsSilentHolds, NamesWhatIsThereHolds, OnlyMovesHolds DEF ListsHold

(* The lists in the generated tree are those of an option: what it asks of *)
(* the host has been staged.                                               *)
FromOption(lists) ==
    lists.ok => /\ lists.option \in Option
                /\ lists = RewriteIncs(lists.have, lists.option)
                /\ lists.option.host => HostBlobs \subseteq lists.have
OptionInv ==
    /\ FromOption(gen.lists)
    /\ run.at = "generate" => Experiments[run.exp] \in Option

(* The generator leaves the lists alone, or makes those of its option.     *)
LEMMA GeneratedFrom ==
    ASSUME TreesTyped, FromOption(gen.lists), NEW o \in Option
    PROVE  FromOption(GenerateTo(o).tree.lists)
<1> DEFINE mapped == [gen EXCEPT !.map = cfg]
           staged == [mapped EXCEPT !.bins = IF o.host THEN @ \cup HostBlobs ELSE @]
           have   == IF o.host THEN dxe \cup HostBlobs ELSE dxe
           lists  == RewriteIncs(have, o)
           done   == [staged EXCEPT !.lists = lists]
           g      == GenerateTo(o)
<1>1. g = IF dxe = {} THEN [ok |-> FALSE, tree |-> mapped]
          ELSE IF ~lists.ok THEN [ok |-> FALSE, tree |-> staged]
          ELSE [ok |-> TRUE, tree |-> done]
  BY DEF GenerateTo
<1>2. DOMAIN staged = DOMAIN gen
  OBVIOUS
<1>3. mapped.lists = gen.lists /\ staged.lists = gen.lists
  BY DEF TreesTyped
<1>4. done.lists = lists
  <2>1. "lists" \in DOMAIN staged
    BY <1>2 DEF TreesTyped
  <2> HIDE DEF staged, lists
  <2> QED BY <2>1
<1>5. lists.have = have /\ lists.option = o
  BY DEF RewriteIncs
<1>6. o.host => HostBlobs \subseteq have
  OBVIOUS
<1>7. FromOption(lists)
  <2>1. lists = RewriteIncs(lists.have, lists.option)
    BY <1>5
  <2> HIDE DEF lists, have
  <2> QED BY <1>5, <1>6, <2>1 DEF FromOption
<1> HIDE DEF mapped, staged, lists, done, g, have
<1>8. g.tree.lists = gen.lists \/ g.tree.lists = lists
  BY <1>1, <1>3, <1>4
<1>9. FromOption(g.tree.lists)
  BY <1>7, <1>8
<1> QED BY <1>9 DEF g

(* No lists yet, and nothing is generated. *)
LEMMA OptionStart == Init => OptionInv
<1> SUFFICES ASSUME Init PROVE OptionInv
  OBVIOUS
<1>1. gen.lists = NoLists /\ run = Idle
  BY DEF Init
<1>2. ~gen.lists.ok /\ run.at = "idle"
  BY <1>1 DEF NoLists, Idle
<1> QED BY <1>2 DEF OptionInv, FromOption

(* The script goes on to another place than the one it generates at. *)
LEMMA OptionGoes ==
    ASSUME RunTyped, OptionInv, FromOption(gen'.lists), NEW to, to # "generate", Goes(to)
    PROVE  OptionInv'
<1>1. run'.at = to
  BY GoesTo
<1> QED BY <1>1 DEF OptionInv, FromOption

(* One step of the tools, the script or somebody's edits. *)
LEMMA OptionStep == ASSUME IInv, OptionInv, [Next]_vars PROVE OptionInv'
<1>0. RunTyped /\ TreesTyped /\ FromOption(gen.lists) /\ (run.at = "generate" => Experiments[run.exp] \in Option)
  BY DEF IInv, OptionInv
<1>1. ASSUME ByHand, FromOption(gen'.lists) PROVE OptionInv'
  <2>1. run'.at = "idle"
    BY <1>1 DEF ByHand, Idle
  <2> QED BY <1>1, <2>1 DEF OptionInv, FromOption
<1>2. ASSUME gen' = gen PROVE FromOption(gen'.lists)
  BY <1>0, <1>2
<1>3. CASE Extracts \/ SavesPatch \/ Syncs \/ Builds
  <2>1. ByHand /\ gen' = gen
    BY <1>3 DEF Extracts, SavesPatch, Syncs, Builds
  <2> QED BY <1>1, <1>2, <2>1
<1>4. CASE Packages
  <2>1. ByHand /\ gen' = [gen EXCEPT !.bins = @ \cup dxe]
    BY <1>4 DEF Packages
  <2>2. gen'.lists = gen.lists
    BY <1>0, <2>1 DEF TreesTyped
  <2> QED BY <1>0, <1>1, <2>1, <2>2
<1>5. CASE Generates
  <2>1. PICK o \in Options : gen' = GenerateTo(o).tree
    BY <1>5 DEF Generates, Generating
  <2>2. ByHand /\ o \in Option
    BY <1>5, BuildAssumption DEF Generates
  <2>3. FromOption(gen'.lists)
    BY <1>0, <2>1, <2>2, GeneratedFrom
  <2> QED BY <1>1, <2>2, <2>3
<1>6. CASE Edits
  <2>1. gen' = gen /\ run' = run
    BY <1>6 DEF Edits
  <2> QED BY <2>1 DEF OptionInv, FromOption
<1>7. CASE Starts
  <2>1. PICK e \in DOMAIN Experiments : run' = [exp |-> e, at |-> "generate", new |-> FALSE]
    BY <1>7 DEF Starts
  <2>2. gen' = gen /\ run'.exp = e /\ Experiments[e] \in Option
    BY <1>7, <2>1, BuildAssumption DEF Starts
  <2> QED BY <1>0, <2>2 DEF OptionInv, FromOption
<1>8. CASE VariantGenerates
  <2> DEFINE o == Experiments[run.exp]
             to == IF GenerateTo(o).ok THEN "sync" ELSE "restore"
  <2>1. gen' = GenerateTo(o).tree /\ Goes(to) /\ o \in Option /\ to # "generate"
    BY <1>0, <1>8 DEF VariantGenerates, Generating, At, If
  <2> HIDE DEF o, to
  <2>2. FromOption(gen'.lists)
    BY <1>0, <2>1, GeneratedFrom
  <2> QED BY <1>0, <2>1, <2>2, OptionGoes
<1>9. CASE VariantSyncs \/ ChecksArtifact \/ RestoreSyncs
  <2>1. gen' = gen /\ \E to \in {"build", "gates", "restore-blobs", "restore", "idle"} : Goes(to)
    BY <1>9 DEF VariantSyncs, ChecksArtifact, RestoreSyncs, If
  <2>2. PICK to \in {"build", "gates", "restore-blobs", "restore", "idle"} : Goes(to)
    BY <2>1
  <2>3. to # "generate"
    BY <2>2
  <2> QED BY <1>0, <1>2, <2>1, <2>2, <2>3, OptionGoes
<1>10. CASE VariantBuilds \/ PassesGates \/ Interrupted \/ Killed
  <2>1. gen' = gen
    BY <1>10 DEF VariantBuilds, PassesGates, Interrupted, Killed
  <2>2. run'.at \in {"artifact", "restore", "idle"}
    <3>1. ASSUME VariantBuilds PROVE run'.at \in {"artifact", "restore"}
      <4>1. \/ run' = [run EXCEPT !.at = "artifact", !.new = TRUE]
            \/ Goes("artifact") \/ Goes("restore")
        BY <3>1 DEF VariantBuilds
      <4>2. "at" \in DOMAIN run
        BY <1>0 DEF RunTyped
      <4>3. run' = [run EXCEPT !.at = "artifact", !.new = TRUE] => run'.at = "artifact"
        BY <4>2
      <4>4. (Goes("artifact") => run'.at = "artifact") /\ (Goes("restore") => run'.at = "restore")
        BY <4>2 DEF Goes
      <4> QED BY <4>1, <4>3, <4>4
    <3>2. ASSUME PassesGates \/ Interrupted PROVE run'.at = "restore"
      <4>1. Goes("restore")
        BY <3>2 DEF PassesGates, Interrupted
      <4> QED BY <1>0, <4>1, GoesTo
    <3>3. Killed => run'.at = "idle"
      BY DEF Killed, Idle
    <3> QED BY <1>10, <3>1, <3>2, <3>3
  <2> QED BY <1>0, <2>1, <2>2 DEF OptionInv, FromOption
<1>11. CASE RestoreGenerates
  <2> DEFINE to == IF GenerateTo(Default).ok THEN "restore-sync" ELSE "idle"
  <2>1. gen' = GenerateTo(Default).tree /\ Goes(to) /\ to # "generate"
    BY <1>11 DEF RestoreGenerates, Generating
  <2>2. Default \in Option
    <3>1. <<>> \in Seq([anchor : STRING, names : Seq(STRING)])
      BY EmptySeq
    <3> QED BY <3>1 DEF Default, Option
  <2> HIDE DEF to
  <2>3. FromOption(gen'.lists)
    BY <1>0, <2>1, <2>2, GeneratedFrom
  <2> QED BY <1>0, <2>1, <2>3, OptionGoes
<1>12. CASE RestoreRemoves
  <2>1. Goes("restored") /\ (gen' = gen \/ gen' = [gen EXCEPT !.bins = @ \ HostBlobs])
    BY <1>12 DEF RestoreRemoves
  <2>2. gen'.lists = gen.lists
    BY <1>0, <2>1 DEF TreesTyped
  <2>3. FromOption(gen'.lists)
    BY <1>0, <2>2
  <2>4. "restored" # "generate"
    OBVIOUS
  <2> QED BY <1>0, <2>1, <2>3, <2>4, OptionGoes
<1>13. CASE UNCHANGED vars
  <2>1. gen' = gen /\ run' = run
    BY <1>13 DEF vars
  <2> QED BY <2>1 DEF OptionInv, FromOption
<1> QED BY <1>3, <1>4, <1>5, <1>6, <1>7, <1>8, <1>9, <1>10, <1>11, <1>12, <1>13 DEF Next, Variant

(* make_uefi_platform.py, xbl_extract.py and the tools that read their     *)
(* data: whatever was extracted and asked for, the lists leave nothing out *)
(* in silence, name only what is there, keep the sibling's blobs behind    *)
(* their switch and move what a move names and nothing else; and every     *)
(* reader of the data reads the same in it (PlatformInv).                  *)
THEOREM PlatformHolds == Spec => []PlatformInv
<1>1. Init => IInv /\ OptionInv
  BY Start, OptionStart
<1>2. (IInv /\ OptionInv) /\ [Next]_vars => (IInv /\ OptionInv)'
  BY Step, OptionStep
<1>3. IInv /\ OptionInv => PlatformInv
  <2> SUFFICES ASSUME OptionInv PROVE PlatformInv
    OBVIOUS
  <2>1. ASSUME gen.lists.ok PROVE ListsHold(gen.lists)
    <3> DEFINE have == gen.lists.have
               o    == gen.lists.option
    <3>1. o \in Option /\ gen.lists = RewriteIncs(have, o) /\ (o.host => HostBlobs \subseteq have)
      BY <2>1 DEF OptionInv, FromOption
    <3> HIDE DEF have, o
    <3>2. RewriteIncs(have, o).ok
      BY <2>1, <3>1
    <3>3. ListsHold(RewriteIncs(have, o))
      BY <3>1, <3>2, RewriteIncsHolds
    <3> QED BY <3>1, <3>3
  <2> QED BY <2>1, DataHolds DEF PlatformInv, ListsAreWhole
<1> QED BY <1>1, <1>2, <1>3, PTL DEF Spec
=============================================================================
