------------------------------- MODULE FvTools -------------------------------
(***************************************************************************)
(* The host's reading of a firmware volume: fv-inventory.py lists its      *)
(* files (FvVolume), fv-census.py replays the walk the device does when it *)
(* checks the volume, and apriori-order.py and depex-census.py judge what  *)
(* the list holds (AprioriOrder; the expressions, below); and the two      *)
(* tools that judge it by the sources it was built of (SourceReaders).     *)
(***************************************************************************)
EXTENDS FvVolume, AprioriOrder, SourceReaders

CONSTANTS
    Images,
    UNINSTALLED,    \* the architectural protocols the device reported missing
    Defined,        \* every GUID some header defines; UNINSTALLED is among them
    ArchProtocols   \* all the architectural protocols

ASSUME UninstalledDefined == UNINSTALLED \subseteq Defined

VARIABLES
    volume,     \* the image the tools were given
    order,      \* APRIORI.inc, the cross reference and the array in the image
    driver,     \* a driver of the image and what its DEPEX section holds
    sized,      \* what the run made of the drivers: [soi, letter, pos]
    source,     \* a source, and the literals of the files of the image
    off,        \* fv-census.py: where its replay of FvCheck is
    listed,     \* ... the files it has put on FfsFileListHeader
    ended       \* ... "no", or how it ended

vars == <<volume, order, driver, sized, source, off, listed, ended>>

Init ==
    /\ \E i \in Images : volume = i.volume /\ order = i.order /\ driver = i.driver
                      /\ source = i.source /\ sized = i.sized
    /\ off = Start(volume)
    /\ listed = <<>>
    /\ ended = "no"

-----------------------------------------------------------------------------
(* depex-census.py: which drivers of an image are held off, and on what.   *)
(* A driver d of the image is [type, apriori, depex], its depex <<>> or    *)
(* the decoded expression: [op, guid] up to END.                           *)
DRIVER_TYPES == {3, 7, 8, 10, 11}

Needs(d) == {d.depex[k].guid : k \in {j \in 1..Len(d.depex) : d.depex[j].op = "PUSH"}}

(* Mutant: the tool before a file without DEPEX was known to be gated. *)
ClassAxis(d) ==
    IF d.type \notin DRIVER_TYPES THEN "not counted"
    ELSE IF d.depex = <<>> THEN "free"
    ELSE IF d.apriori THEN "inert"
    ELSE IF Needs(d) \cap UNINSTALLED # {} THEN "waiting"
    ELSE IF ~(Needs(d) \subseteq Defined) THEN "unknown"
    ELSE "gated_ok"
Class(d) ==
    IF d.type \notin DRIVER_TYPES THEN "not counted"
    ELSE IF d.depex = <<>> THEN IF d.apriori THEN "free" ELSE "nodepex_gated"
    ELSE IF d.apriori THEN "inert"
    ELSE IF Needs(d) \cap UNINSTALLED # {} THEN "waiting"
    ELSE IF ~(Needs(d) \subseteq Defined) THEN "unknown"
    ELSE "gated_ok"

(* What the dispatcher does: CoreIsSchedulable runs the expression on a    *)
(* stack of Booleans, and takes a missing one for all the architectural    *)
(* protocols; a driver the Apriori file names is never asked.              *)
OnOpcode(stack, e, installed) ==
    LET n == Len(stack)
        below == SubSeq(stack, 1, n - 2)
    IN  CASE e.op = "PUSH"  -> Append(stack, e.guid \in installed)
          [] e.op = "TRUE"  -> Append(stack, TRUE)
          [] e.op = "FALSE" -> Append(stack, FALSE)
          [] e.op = "NOT"   -> [stack EXCEPT ![n] = ~@]
          [] e.op = "AND"   -> Append(below, stack[n - 1] /\ stack[n])
          [] e.op = "OR"    -> Append(below, stack[n - 1] \/ stack[n])
          [] e.op = "END"   -> stack

IsSchedulable(d, installed) ==
    LET After[k \in 0..Len(d.depex)] ==
            IF k = 0 THEN <<>> ELSE OnOpcode(After[k - 1], d.depex[k], installed)
    IN  \/ d.apriori
        \/ d.depex = <<>> /\ ArchProtocols \subseteq installed
        \/ d.depex # <<>> /\ After[Len(d.depex)][1]

Conjunctive(d) == \A k \in 1..Len(d.depex) : d.depex[k].op \in {"PUSH", "AND", "TRUE", "END"}

(* The class says what the dispatcher will do before and after the missing *)
(* protocols arrive.  Without them a driver that waits, or has no DEPEX,   *)
(* is never scheduled; one that is gated_ok or unknown may be; every one   *)
(* is, once all it names is installed: waiting is not dead.                *)
ClassForesees(d) ==
    LET installs == SUBSET ((Defined \cup Needs(d)) \ UNINSTALLED)
        never == \A i \in installs : ~IsSchedulable(d, i)
    IN  Conjunctive(d) =>
          /\ Class(d) \in {"waiting", "nodepex_gated"} => never
          /\ Class(d) \in {"free", "inert", "gated_ok", "unknown"} => ~never
          /\ Class(d) # "not counted" => IsSchedulable(d, ArchProtocols \cup Needs(d))

-----------------------------------------------------------------------------
(* get_file_state: the highest bit that was written. *)
FileState(h)  == IF h.bits = {} THEN 0 ELSE CHOOSE b \in h.bits : \A c \in h.bits : c <= b

HeaderValid   == 2
DataValid     == 4
MarkedForUpdate == 8
Deleted       == 16
HeaderInvalid == 32
Construction  == 1

(* The header as the replay sees it; in the middle of a file the sum of 24 *)
(* bytes is not zero.                                                      *)
Header(v, o) ==
    LET h == HeaderAt(v, o)
    IN  IF h.kind = "noise" THEN [bits |-> v.noise, head |-> FALSE] ELSE h

(* header_state_ok and verify_header_checksum *)
HeaderOk(h) == FileState(h) \in {HeaderValid, DataValid, MarkedForUpdate, Deleted} /\ h.head

(* data_checksum_ok: the complement of the body's sum when the file asks   *)
(* for it, the fixed value when it does not.                               *)
DataOkBySum(h) == FileState(h) \in {Deleted, DataValid, MarkedForUpdate}     \* mutant
                  /\ h.sum = IF h.attr THEN "sum" ELSE "fixed"
DataOk(h) == FileState(h) \in {Deleted, DataValid, MarkedForUpdate}
             /\ h.sum = IF h.attr THEN "complement" ELSE "fixed"

-----------------------------------------------------------------------------
(* apriori-index.py, sizes_table: which sizes a rule "refuse anything at   *)
(* or above t" would get wrong, and the first threshold with the fewest.   *)
Group(rows, letter) == {r \in rows : r.letter = letter}
WrongStrictly(obs, t) ==                                        \* mutant
    {o \in obs : (o.letter = "L" /\ o.soi <= t) \/ (o.letter = "s" /\ o.soi > t)}
Wrong(obs, t) ==
    {o \in obs : (o.letter = "L" /\ o.soi < t) \/ (o.letter = "s" /\ o.soi >= t)}
Thresholds(obs) == {o.soi : o \in obs} \ {0}
BestRule(rows) ==
    LET obs == Group(rows, "s") \cup Group(rows, "L")
        Fewest(t) == \A u \in Thresholds(obs) : Cardinality(Wrong(obs, t)) <= Cardinality(Wrong(obs, u))
        t == Min({u \in Thresholds(obs) : Fewest(u)})
    IN  [t |-> t, wrong |-> Wrong(obs, t)]

(* pairs: the closest of one size and two outcomes. *)
Pairs(rows) == {[f |-> f, o |-> o] : f \in Group(rows, "L"), o \in {x \in Group(rows, "s") : x.soi # 0}}
Closest(rows) ==
    LET equal   == {p \in Pairs(rows) : p.f.soi = p.o.soi}
        Apart(p) == IF p.f.pos > p.o.pos THEN p.f.pos - p.o.pos ELSE p.o.pos - p.f.pos
    IN  {p \in equal : \A q \in equal : Apart(p) <= Apart(q)}

-----------------------------------------------------------------------------
Walking == ended = "no" /\ off + HEADER_SIZE <= FvLength(volume)

Ends(how) == ended' = how /\ UNCHANGED <<volume, order, driver, sized, source, off, listed>>

MeetsErased == Walking /\ IsErasedAt(volume, off) /\ Ends("erased")

(* Mutant: `continue` without the step. *)
ResyncsInPlace == Walking /\ ~IsErasedAt(volume, off) /\ UNCHANGED vars

(* HEADER_INVALID or still under construction: 24 bytes further. *)
Resyncs ==
    /\ Walking /\ ~IsErasedAt(volume, off)
    /\ LET h == Header(volume, off)
       IN  ~HeaderOk(h) /\ FileState(h) \in {HeaderInvalid, Construction}
    /\ off' = off + HEADER_SIZE
    /\ UNCHANGED <<volume, order, driver, sized, source, listed, ended>>

MeetsCorruption ==
    /\ Walking /\ ~IsErasedAt(volume, off)
    /\ LET h == Header(volume, off)
       IN  IF HeaderOk(h) THEN ~DataOk(h)
                          ELSE FileState(h) \notin {HeaderInvalid, Construction}
    /\ Ends("corrupt")

(* A file is listed unless it was deleted. *)
Lists ==
    /\ Walking /\ ~IsErasedAt(volume, off)
    /\ LET h == Header(volume, off)
       IN  /\ HeaderOk(h) /\ DataOk(h)
           /\ listed' = IF FileState(h) = Deleted THEN listed
                          ELSE Append(listed, [guid |-> h.guid, off |-> off])
           /\ off' = NextFile(off, h.size)
    /\ UNCHANGED <<volume, order, driver, sized, source, ended>>

ReachesEnd == ended = "no" /\ off + HEADER_SIZE > FvLength(volume) /\ Ends("end")

Done == ended # "no" /\ UNCHANGED vars

Next == MeetsErased \/ Resyncs \/ MeetsCorruption \/ Lists \/ ReachesEnd \/ Done

(* The replay is one loop of one process. *)
Spec == Init /\ [][Next]_vars
FairSpec == Spec /\ WF_vars(MeetsErased \/ Resyncs \/ MeetsCorruption \/ Lists \/ ReachesEnd)

-----------------------------------------------------------------------------
TypeOK ==
    /\ off \in Nat /\ ended \in {"no", "erased", "corrupt", "end"}
    /\ \A k \in 1..Len(listed) : listed[k].off < off

(* What GenFv writes: whole files with their sums, no erased run between   *)
(* them.                                                                   *)
IsBuilt(v) ==
    \A k \in 1..Len(v.pieces) :
        LET p == v.pieces[k]
        IN  /\ p.kind = "file" /\ p.guid # ErasedName
            /\ p.bits = {Construction, HeaderValid, DataValid} /\ p.head
            /\ p.sum = IF p.attr THEN "complement" ELSE "fixed"

(* A file whose name is erased bytes ends the inventory's walk.            *)
Nameless(v) == \E k \in 1..Len(v.pieces) : v.pieces[k].kind = "gap" \/ v.pieces[k].guid = ErasedName

(* On a volume as GenFv writes it the two walks list the same files at the *)
(* same offsets, GenFv's map agrees with them and the replay meets nothing *)
(* but the end.  On any other, every file the device lists has an index in *)
(* the inventory, unless a nameless one lies before it; and a list the map *)
(* agrees with is the whole list of the files GenFv placed.  The walk of   *)
(* xbl_extract.py lists every named file of any volume.                    *)
WalksAgree ==
    LET files == FvFiles(volume)
    IN  /\ (ended # "no" /\ IsBuilt(volume)) =>
             /\ listed = files /\ CompareMap(files, GenFvMap(volume))
             /\ ended \in {"erased", "end"}
        /\ ~Nameless(volume) =>
             \A k \in 1..Len(listed) : \E m \in 1..Len(files) : files[m] = listed[k]
        /\ ended # "no" => XblFiles(volume, HeaderLength) = GenFvMap(volume)
        /\ CompareMap(files, GenFvMap(volume)) =>
             \A k \in 1..Len(listed) : listed[k].guid # ErasedName =>
                 \E m \in 1..Len(files) : files[m] = listed[k]

(* The walks agree in every state of the replay. *)
VolumesInv == TypeOK /\ WalksAgree

(* No rule that refuses from some driver's size on is right about more     *)
(* drivers than the one that is told; and where two drivers of one size    *)
(* came out differently every rule is wrong.                               *)
SizeRuleIsBest(rows) ==
    LET tested   == {r \in rows : r.letter \in {"s", "L"}}
        RightOf(t) == {r \in tested : (r.soi >= t) = (r.letter = "L")}
        told     == BestRule(rows)
    IN  (Group(rows, "s") # {} /\ Group(rows, "L") # {} /\ Thresholds(tested) # {}) =>
            /\ \A r \in tested : r.soi # 0 => Cardinality(RightOf(r.soi)) <= Cardinality(tested) - Cardinality(told.wrong)
            /\ told.wrong = {} => Closest(rows) = {}

(* The tool that checks the order against the build proves it, and a       *)
(* driver's class foretells when the dispatcher will run it; no size rule  *)
(* does better than the one that is told; lines and rows are attributed to *)
(* their function, and found in an image.                                  *)
VerdictsHold ==
    /\ OrderProved(order)
    /\ ClassForesees(driver)
    /\ SizeRuleIsBest(sized)
    /\ FunctionsAreFound(source.lines) /\ InstrumentsAreTold(source.image)

(* The replay ends, whatever the volume holds. *)
ReplayEnds == <>(ended # "no")
=============================================================================
