---------------------------- MODULE AprioriTools ----------------------------
(***************************************************************************)
(* What the analysis tools say a run will print, before it runs, and how   *)
(* they read it afterwards: tools/fv-census.py, tools/apriori-prefix.py    *)
(* and tools/apriori-index.py, which read the firmware volume on the host, *)
(* beside the dispatcher that walks the same volume on the device.         *)
(*                                                                         *)
(* The tools think of a walk that stopped: fv-census.py by the physical    *)
(* index of the last file, apriori-prefix.py by the number of DRIVER files *)
(* seen.  Indices are the tools' own and start at 0.                       *)
(***************************************************************************)
EXTENDS DxeDispatch, SequencesExt

CONSTANT Images     \* what the tools were given: [files, apriori]

DRIVER == "DRIVER"  \* EFI_FV_FILETYPE_DRIVER, the type of the walk's first pass

ImageFile == [guid : Guid \cup STRING, type : STRING]

(* As in WellFormed: no other file of the volume has a driver's GUID.      *)
ASSUME ImageAssumption ==
    \A img \in Images :
        /\ img.files \in Seq(ImageFile) /\ img.apriori \in Seq(Guid)
        /\ \A i, j \in DOMAIN img.files :
              (img.files[i].type = DRIVER /\ img.files[j].guid = img.files[i].guid) => i = j

Physical(img) == 0..(Len(img.files) - 1)
Entries(img)  == 0..(Len(img.apriori) - 1)
FileAt(img, i)  == img.files[i + 1]
EntryAt(img, a) == img.apriori[a + 1]
Drivers(img) ==
    FoldLeft(LAMBDA drivers, f : IF f.type = DRIVER THEN Append(drivers, f) ELSE drivers, <<>>, img.files)

-----------------------------------------------------------------------------
(* tools/fv-census.py                                                      *)

(* `by_guid.get(g) or 0`: the last file of that name, of any type, and 0   *)
(* for a name that is not in the volume.                                   *)
ByGuidOr0(img, g) ==
    LET hits == {i \in Physical(img) : FileAt(img, i).guid = g}
    IN  IF hits = {} THEN 0 ELSE CHOOSE i \in hits : \A j \in hits : j <= i

(* Mutant: the file at the stop was not handed over. *)
WithinBelow(img, a, stop) == ByGuidOr0(img, EntryAt(img, a)) < stop
Within(img, a, stop)      == ByGuidOr0(img, EntryAt(img, a)) <= stop

(* first_miss(stop), promoted(stop), seen_at[stop]: entry 0 is the core.   *)
FirstMiss(img, stop) ==
    LET missed == {a \in Entries(img) \ {0} : ~Within(img, a, stop)}
    IN  IF missed = {} THEN None ELSE CHOOSE a \in missed : \A b \in missed : a <= b

PromotedCount(img, stop) == Cardinality({a \in Entries(img) \ {0} : Within(img, a, stop)})

SeenAt(img, stop) == Cardinality({i \in 0..stop : FileAt(img, i).type = DRIVER})

(* cands: the stops that promote as many entries as the SEQ line is long.  *)
Candidates(img, length) ==
    {k \in Physical(img) \cup {-1} : PromotedCount(img, k) = length}

(* The `miss` decoder: the band of stops that print this miss.             *)
MissBand(img, miss) == {k \in Physical(img) \cup {-1} : FirstMiss(img, k) = miss}

(* walk_last(stop): the type filter makes it the last DRIVER, not the stop. *)
WalkLast(img, stop) ==
    LET handed == {i \in 0..stop : FileAt(img, i).type = DRIVER}
    IN  IF handed = {} THEN NoGuid
                       ELSE FileAt(img, CHOOSE i \in handed : \A j \in handed : j <= i).guid

(* ap_drivers, absent: every entry but the core's names a DRIVER file.     *)
NothingAbsent(img) ==
    LET drivers == Drivers(img)
    IN  \A a \in Entries(img) \ {0} : \E k \in 1..Len(drivers) : drivers[k].guid = EntryAt(img, a)

-----------------------------------------------------------------------------
(* tools/apriori-prefix.py                                                 *)

(* `g in rank and rank[g] < seen` *)
(* Mutant: the driver the walk stopped at was handed over. *)
MatchedThrough(img, g, seen) ==
    LET drivers == Drivers(img) IN \E k \in 1..Len(drivers) : k <= seen + 1 /\ drivers[k].guid = g
MatchedBy(img, g, seen) ==
    LET drivers == Drivers(img) IN \E k \in 1..Len(drivers) : k <= seen /\ drivers[k].guid = g

(* promoted(seen): the batch, by slot. *)
Batch(img, seen) ==
    FoldLeft(LAMBDA batch, a : IF MatchedBy(img, EntryAt(img, a), seen) THEN Append(batch, a) ELSE batch,
             <<>>, [n \in 1..Len(img.apriori) |-> n - 1])

Unhit(img, seen) == {a \in Entries(img) : ~MatchedBy(img, EntryAt(img, a), seen)}

Miss(img, seen) ==
    LET u == Unhit(img, seen) \ {0}
    IN  IF u = {} THEN None ELSE CHOOSE a \in u : \A b \in u : a <= b

-----------------------------------------------------------------------------
(* tools/apriori-index.py                                                  *)

(* main(): what --skip names, and every entry that is no DRIVER file.      *)
Skips(img, named) ==
    named \cup {a \in Entries(img) : ~MatchedBy(img, EntryAt(img, a), Len(img.files))}

(* positions(entries, skips): entry -> slot of the SEQ line. *)
Positions(img, skips) ==
    [a \in Entries(img) \ skips |-> Cardinality((0..(a - 1)) \ skips)]

(* entry_at(entries, pos, i) *)
EntryOfSlot(pos, i) == {a \in DOMAIN pos : pos[a] = i}

(* SEQ_LETTERS, and why_table() with the letters of the two phases. *)
SEQ_LETTERS == {"?", "s", "S", "L"}
WHY_TABLE   == {"?", "L", "S", "s", "R", "N", "X", "D", "E", "P", "U", "O"}

(* nons[0], s.index('?') and s.count: positions start at 0. *)
FirstNotLoad(s) == LET n == SelectInSeq(s, LAMBDA ch : ch = "L") IN IF n = 0 THEN None ELSE n - 1   \* mutant
FirstNot(s)     == LET n == SelectInSeq(s, LAMBDA ch : ch # "s") IN IF n = 0 THEN None ELSE n - 1
FirstPending(s) == LET n == SelectInSeq(s, LAMBDA ch : ch = "?") IN IF n = 0 THEN None ELSE n - 1

(* runs: [letter, start, end] of what stands together. *)
Runs(s) ==
    FoldLeft(LAMBDA runs, i :
                IF runs = <<>> \/ Last(runs).ch # s[i]
                  THEN Append(runs, [ch |-> s[i], start |-> i - 1, end |-> i - 1])
                  ELSE [runs EXCEPT ![Len(runs)].end = i - 1],
             <<>>, [i \in 1..Len(s) |-> i])

(* decode(letters, entries, pos, table, kind)                              *)
Decode(img, s, table) ==
    LET pos == Positions(img, Skips(img, {}))
    IN  [stopped     |-> Len(s) # Cardinality(DOMAIN pos),
         named       |-> [i \in 1..Len(s) |-> EntryOfSlot(pos, i - 1)],
         bad         |-> \E i \in 1..Len(s) : s[i] \notin table,
         at          |-> FirstNot(s),
         unattempted |-> FirstPending(s),
         noneRan     |-> \A i \in 1..Len(s) : s[i] # "S",
         runs        |-> Runs(s)]

-----------------------------------------------------------------------------
(* The device, when its promotion loop has passed the last entry.          *)
LoopIsOver == AprioriFile # <<>> /\ scanIdx = Len(AprioriFile) + 1

(* It scanned this image, and its walk had stopped after `seen` drivers.   *)
StoppedAt(img, seen) ==
    /\ LoopIsOver
    /\ img.apriori = AprioriFile
    /\ seen = Cardinality(walked)
    /\ seen <= Len(Drivers(img))
    /\ walked = {Drivers(img)[k].guid : k \in 1..seen}

(* Of the letters a run has so far, whatever volume they are read with:    *)
(* none is unknown; behind the first '?' no driver was attempted; without  *)
(* an 'S' no driver of the array ran and failed; the runs are the line;    *)
(* and at the end the first position that is not 's' is KEY's, with the    *)
(* letter of KEY's status in the WHY line.                                 *)
LettersTell(img) ==
    LET seq  == Decode(img, SeqLetters, SEQ_LETTERS)
        whys == [i \in 1..SeqLen |-> mP2ApriWhy[i]]
        why  == Decode(img, whys, WHY_TABLE)
        Tried(i) == {k \in 1..Len(attempts) : attempts[k].guid = mP2AprioriGuid[i]}
    IN  /\ ~seq.bad /\ (phase = "done" => ~why.bad)
        /\ seq.unattempted # None => \A i \in (seq.unattempted + 1)..SeqLen : Tried(i) = {}
        /\ seq.noneRan => \A i \in 1..SeqLen : \A k \in Tried(i) : attempts[k].phase # "S"
        /\ \A i \in 1..SeqLen : \E r \in 1..Len(seq.runs) :
              /\ seq.runs[r].start < i /\ i <= seq.runs[r].end + 1 /\ seq.runs[r].ch = SeqLetters[i]
              /\ r > 1 => seq.runs[r - 1].ch # seq.runs[r].ch
        /\ phase = "done" =>
              /\ seq.at = why.at
              /\ IF FailedSlots = {} THEN seq.at = None
                 ELSE seq.at = KeyAt - 1 /\ whys[KeyAt] = WhyLetter(mP2ApriSt[KeyAt])

(* A line that is not as long as the volume's array is a walk that         *)
(* stopped, where the slots hold the array; and after a whole walk the     *)
(* volume's names are those of the slots.                                  *)
LengthTells(img, seen) ==
    LET seq == Decode(img, SeqLetters, SEQ_LETTERS)
    IN  /\ (seq.stopped /\ mP2Apriori <= AprioriMax) => seen < Len(Drivers(img))
        /\ seen = Len(Drivers(img)) =>
              \A i \in 1..SeqLen : \A a \in seq.named[i] : EntryAt(img, a) = mP2AprioriGuid[i]

(* The stop the device had is among those fv-census.py reads from the      *)
(* length of its SEQ line and from its miss, and every stop it names has   *)
(* the WALK line that was printed or one with as many promoted drivers.    *)
StopIsNamed(img) ==
    \A seen \in 0..Len(img.files) : (StoppedAt(img, seen) /\ NothingAbsent(img)) =>
        /\ Candidates(img, mP2Apriori) \cap MissBand(img, mP2ApriMiss) # {}
        /\ \A k \in Physical(img) : SeenAt(img, k) = seen =>
              /\ k \in Candidates(img, mP2Apriori) \cap MissBand(img, mP2ApriMiss)
              /\ seen > 0 => WalkLast(img, k) = Drivers(img)[seen].guid

(* apriori-prefix.py predicts every field of the device's APRI line and    *)
(* the driver of every slot from `seen` alone, whatever is absent from the *)
(* volume; and apriori-index.py, told the entries that were not hit, puts  *)
(* each slot's letter to the driver it belongs to, and what it reads from  *)
(* the letters happened; and fv-census.py names the stop of every walk     *)
(* over a volume with a DRIVER file for every entry behind the core's.     *)
PredictionsHold ==
  /\ \A img \in Images : StopIsNamed(img) /\ LettersTell(img)
  /\ \A img \in Images : \A seen \in 0..Len(img.files) : StoppedAt(img, seen) =>
        LengthTells(img, seen) /\
        LET batch == Batch(img, seen)
            pos   == Positions(img, Skips(img, Unhit(img, seen)))
        IN  /\ mP2Apriori = Len(batch)
            /\ mP2ApriUnhit = Cardinality(Unhit(img, seen))
            /\ mP2ApriMiss = Miss(img, seen)
            /\ batch # <<>> => /\ mP2ApriMatchFirst = batch[1]
                               /\ mP2ApriMatchLast = batch[Len(batch)]
            /\ \A i \in 1..SeqLen : mP2AprioriGuid[i] = EntryAt(img, batch[i])
            /\ \A a \in DOMAIN pos : pos[a] < SeqLen =>
                   mP2AprioriGuid[pos[a] + 1] = EntryAt(img, a)
=============================================================================
