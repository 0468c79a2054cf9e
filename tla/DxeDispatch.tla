----------------------------- MODULE DxeDispatch -----------------------------
(***************************************************************************)
(* The DXE dispatcher of Mu_Basecore with the P2BRINGUP instrumentation of *)
(* uefi/patches/mu-basecore-local.patch: the walk of a firmware volume,    *)
(* the promotion of its Apriori file, the FIFO drain of the scheduled      *)
(* queue, and every counter and record the digest prints afterwards.       *)
(*                                                                         *)
(* The patch shows the dispatcher only through its context lines; the      *)
(* parts of CoreDispatcher it does not show (DEPEX evaluation, the pop of  *)
(* a loaded driver) are modelled from how the patch's code uses them.      *)
(***************************************************************************)
EXTENDS Integers, Sequences, FiniteSets

CONSTANTS
    Guid,           \* the file GUIDs that occur in some volume or Apriori file
    DxeCore,        \* gDxeCoreFileName, the GUID of the core's own file
    NoGuid,         \* an array slot that was never written
    ErrorStatus,    \* the EFI error codes a load or an EntryPoint may return
    VolumeLists,    \* the sequences of volumes that may be installed
    AprioriMax,     \* P2BRINGUP_APRIORI_MAX, 128 in the build
    DiagMax         \* P2BRINGUP_DIAG_MAX, 64 in the build

Success           == "EFI_SUCCESS"
SecurityViolation == "EFI_SECURITY_VIOLATION"
Driver            == Guid \ {DxeCore}

(* A volume: the files it holds and the entries of its Apriori file. *)
Volume == [files : SUBSET Guid, apriori : Seq(Guid)]

ASSUME GuidAssumption ==
    /\ IsFiniteSet(Guid)
    /\ DxeCore \in Guid
    /\ NoGuid \notin Guid
    /\ Success \notin ErrorStatus
    /\ AprioriMax \in Nat \ {0}
    /\ DiagMax \in Nat \ {0}

(* An Apriori file names each file once, and the core first (APRIORI.inc). *)
AprioriShape(a) ==
    /\ a # <<>> => a[1] = DxeCore
    /\ \A i, j \in 1..Len(a) : i # j => a[i] # a[j]

(* What the build can produce: no two files with one GUID, and, as in      *)
(* gauguin.fdf, an Apriori file in one volume only.                        *)
WellFormed(vs) ==
    /\ vs \in Seq(Volume)
    /\ \A k, m \in 1..Len(vs) :
          k # m => (vs[k].files \cap vs[m].files) \ {DxeCore} = {}
    /\ \A k \in 1..Len(vs) : AprioriShape(vs[k].apriori)
    /\ \A k, m \in 1..Len(vs) :
          vs[k].apriori # <<>> /\ vs[m].apriori # <<>> => k = m

ASSUME VolumeAssumption == \A vs \in VolumeLists : WellFormed(vs)

Slot == 1..AprioriMax
None == -1          \* (UINTN)-1

VARIABLES
    volumes,            \* volumes whose protocol is still to be installed
    discovered,         \* files on mDiscoveredList
    dependent,          \* ... whose Dependent flag is set
    untrusted,          \* ... whose Untrusted flag is set
    initialized,        \* ... whose Initialized flag is set
    mScheduledQueue,    \* the FIFO of scheduled drivers
    phase,              \* where CoreDispatcher is
    cur,                \* the driver it is loading or starting
    walked,             \* the drivers whose FvHandle is the volume being scanned
    scanIdx,            \* 1 + Index of the promotion loop, 0 outside of it
    AprioriFile,        \* the buffer the loop scans (the last one read)
    mP2Discovered, mP2AprioriCount, mP2ApriEntries,
    mP2Apriori,         \* entries promoted
    mP2AprioriGuid, mP2AprioriRes, mP2ApriWhy, mP2ApriSt,   \* one per slot
    mP2ApriUnhit, mP2ApriMiss, mP2ApriMatchFirst, mP2ApriMatchLast,
    mP2Diag,            \* mP2Diag[0 .. mP2DiagCount - 1]
    mP2Started,
    mP2Tick,
    lastRow,            \* the GUID on the last K row that was printed
    attempts            \* history: every dispatch attempt that returned

listVars == <<discovered, dependent, untrusted, initialized>>
scanVars == <<walked, scanIdx, AprioriFile>>
apriVars == <<mP2AprioriCount, mP2ApriEntries, mP2ApriUnhit, mP2ApriMiss,
              mP2ApriMatchFirst, mP2ApriMatchLast>>
slotVars == <<mP2AprioriGuid, mP2AprioriRes, mP2ApriWhy, mP2ApriSt>>
runVars  == <<mP2Diag, mP2Started, mP2Tick, lastRow, attempts>>

vars == <<volumes, listVars, mScheduledQueue, phase, cur, scanVars,
          mP2Discovered, apriVars, mP2Apriori, slotVars, runVars>>

-----------------------------------------------------------------------------
(* P2WhyLetter: the status class of an EFI status. *)
WhyLetter(status) ==
    CASE status = Success                 -> "s"
      [] status = "EFI_OUT_OF_RESOURCES"  -> "R"
      [] status = "EFI_NOT_FOUND"         -> "N"
      [] status = SecurityViolation       -> "X"
      [] status = "EFI_DEVICE_ERROR"      -> "D"
      [] status = "EFI_LOAD_ERROR"        -> "E"
      [] status = "EFI_INVALID_PARAMETER" -> "P"
      [] status = "EFI_UNSUPPORTED"       -> "U"
      [] OTHER                            -> "O"

(* The number of slots in use: SeqLen of P2Digest and P2Key. *)
SeqLen == IF mP2Apriori > AprioriMax THEN AprioriMax ELSE mP2Apriori

(* Mutant: the loop of P2MarkSeq stops one slot early. *)
IsSlotOfShort(i, g) ==
    /\ i < SeqLen
    /\ mP2AprioriGuid[i] = g
    /\ \A j \in 1..(i - 1) : mP2AprioriGuid[j] # g

(* The first slot in use that holds g, if there is one, and only that one. *)
IsSlotOf(i, g) ==
    /\ i <= SeqLen
    /\ mP2AprioriGuid[i] = g
    /\ \A j \in 1..(i - 1) : mP2AprioriGuid[j] # g

(* P2MarkSeq (Guid, Ch, Status) *)
MarkSeq(g, ch, status) ==
    /\ mP2AprioriRes' =
          [i \in Slot |-> IF IsSlotOf(i, g) THEN ch ELSE mP2AprioriRes[i]]
    /\ mP2ApriWhy' =
          [i \in Slot |-> IF IsSlotOf(i, g) THEN WhyLetter(status) ELSE mP2ApriWhy[i]]
    /\ mP2ApriSt' =
          [i \in Slot |-> IF IsSlotOf(i, g) THEN status ELSE mP2ApriSt[i]]

Entry(g, letter, status) == [guid |-> g, phase |-> letter, status |-> status]

(* Mutants: `<=` for `<`, and a return when mP2Diag is full. *)
RecordOverflows(g, letter, status) ==
    /\ mP2Diag' = IF Len(mP2Diag) <= DiagMax
                    THEN Append(mP2Diag, Entry(g, letter, status))
                    ELSE mP2Diag
    /\ MarkSeq(g, letter, status)

RecordReturnsWhenFull(g, letter, status) ==
    IF Len(mP2Diag) < DiagMax
      THEN /\ mP2Diag' = Append(mP2Diag, Entry(g, letter, status))
           /\ MarkSeq(g, letter, status)
      ELSE UNCHANGED <<mP2Diag, mP2AprioriRes, mP2ApriWhy, mP2ApriSt>>

(* P2Record (Guid, Phase, Status): a record while there is room, and the   *)
(* slot's letter either way.                                               *)
Record(g, letter, status) ==
    /\ mP2Diag' = IF Len(mP2Diag) < DiagMax
                    THEN Append(mP2Diag, Entry(g, letter, status))
                    ELSE mP2Diag
    /\ MarkSeq(g, letter, status)

(* P2Tick (Phase, Status, Guid): one K row, after the attempt. *)
Tick(g) ==
    /\ mP2Tick' = mP2Tick + 1
    /\ lastRow' = g

-----------------------------------------------------------------------------
Init ==
    /\ volumes \in VolumeLists
    /\ discovered = {} /\ dependent = {} /\ untrusted = {} /\ initialized = {}
    /\ mScheduledQueue = <<>>
    /\ phase = "init"
    /\ cur = NoGuid
    /\ walked = {}
    /\ scanIdx = 0
    /\ AprioriFile = <<>>
    /\ mP2Discovered = 0
    /\ mP2AprioriCount = 0
    /\ mP2ApriEntries = 0
    /\ mP2Apriori = 0
    /\ mP2AprioriGuid = [i \in Slot |-> NoGuid]
    /\ mP2AprioriRes = [i \in Slot |-> "NUL"]
    /\ mP2ApriWhy = [i \in Slot |-> "NUL"]
    /\ mP2ApriSt = [i \in Slot |-> Success]
    /\ mP2ApriUnhit = 0
    /\ mP2ApriMiss = None
    /\ mP2ApriMatchFirst = None
    /\ mP2ApriMatchLast = 0
    /\ mP2Diag = <<>>
    /\ mP2Started = 0
    /\ mP2Tick = 0
    /\ lastRow = NoGuid
    /\ attempts = <<>>

(* CoreFwVolEventProtocolNotify up to the promotion loop: walk the volume, *)
(* add what it returns to mDiscoveredList, read the Apriori file.  A       *)
(* volume is installed before the dispatcher runs or by an EntryPoint, so  *)
(* the notification may preempt a start.  The walk may return fewer files  *)
(* than the Apriori file names: it holds what the image was built with.    *)
FwVolNotify ==
    /\ scanIdx = 0
    /\ phase \in {"init", "starting"}
    /\ volumes # <<>>
    /\ volumes' = Tail(volumes)
    /\ \E seen \in SUBSET (Head(volumes).files \ {DxeCore}) :
          /\ discovered' = discovered \cup seen
          /\ dependent' = dependent \cup seen
          /\ mP2Discovered' = mP2Discovered + Cardinality(seen)
          /\ walked' = seen
    /\ LET apriori == Head(volumes).apriori IN
       IF apriori = <<>>
         THEN UNCHANGED <<scanIdx, AprioriFile, mP2AprioriCount, mP2ApriEntries>>
         ELSE /\ AprioriFile' = apriori
              /\ scanIdx' = 1
              /\ mP2ApriEntries' = Len(apriori)
              /\ mP2AprioriCount' = IF Len(apriori) > mP2AprioriCount
                                      THEN Len(apriori) ELSE mP2AprioriCount
    /\ UNCHANGED <<untrusted, initialized, mScheduledQueue, phase, cur,
                   mP2ApriUnhit, mP2ApriMiss, mP2ApriMatchFirst, mP2ApriMatchLast,
                   mP2Apriori, slotVars, runVars>>

Scanning == scanIdx \in 1..Len(AprioriFile)

(* InsertTailList (&mScheduledQueue, ..) *)
ScheduledAtHead(g) == mScheduledQueue' = <<g>> \o mScheduledQueue    \* mutant
Scheduled(g)       == mScheduledQueue' = Append(mScheduledQueue, g)

(* The promotion loop, an entry that names a discovered driver. *)
PromoteHit ==
    /\ Scanning
    /\ LET g == AprioriFile[scanIdx] IN
       /\ g \in walked
       /\ dependent' = dependent \ {g}
       /\ Scheduled(g)
       /\ IF mP2Apriori < AprioriMax
            THEN /\ mP2AprioriGuid' = [mP2AprioriGuid EXCEPT ![mP2Apriori + 1] = g]
                 /\ mP2AprioriRes' = [mP2AprioriRes EXCEPT ![mP2Apriori + 1] = "?"]
            ELSE UNCHANGED <<mP2AprioriGuid, mP2AprioriRes>>
    /\ mP2Apriori' = mP2Apriori + 1
    /\ mP2ApriMatchFirst' = IF mP2ApriMatchFirst = None THEN scanIdx - 1
                                                        ELSE mP2ApriMatchFirst
    /\ mP2ApriMatchLast' = scanIdx - 1
    /\ scanIdx' = scanIdx + 1
    /\ UNCHANGED <<volumes, discovered, untrusted, initialized, phase, cur,
                   walked, AprioriFile, mP2Discovered, mP2AprioriCount, mP2ApriEntries,
                   mP2ApriUnhit, mP2ApriMiss, mP2ApriWhy, mP2ApriSt, runVars>>

(* `(Index > 0) && (mP2ApriMiss == (UINTN)-1)`: entry 0 is the core. *)
MissWithEntry0 == mP2ApriMiss = None                        \* mutant
MissIsNew      == scanIdx - 1 > 0 /\ mP2ApriMiss = None

(* Mutant: the count shares the record's condition. *)
PromoteMissCountsFirst ==
    /\ Scanning
    /\ AprioriFile[scanIdx] \notin walked
    /\ mP2ApriUnhit' = IF MissIsNew THEN mP2ApriUnhit + 1 ELSE mP2ApriUnhit
    /\ mP2ApriMiss' = IF MissIsNew THEN scanIdx - 1 ELSE mP2ApriMiss
    /\ scanIdx' = scanIdx + 1
    /\ UNCHANGED <<volumes, listVars, mScheduledQueue, phase, cur, walked, AprioriFile,
                   mP2Discovered, mP2AprioriCount, mP2ApriEntries, mP2ApriMatchFirst,
                   mP2ApriMatchLast, mP2Apriori, slotVars, runVars>>

(* The promotion loop, an entry that names no discovered driver. *)
PromoteMiss ==
    /\ Scanning
    /\ AprioriFile[scanIdx] \notin walked
    /\ mP2ApriUnhit' = mP2ApriUnhit + 1
    /\ mP2ApriMiss' = IF MissIsNew THEN scanIdx - 1 ELSE mP2ApriMiss
    /\ scanIdx' = scanIdx + 1
    /\ UNCHANGED <<volumes, listVars, mScheduledQueue, phase, cur, walked, AprioriFile,
                   mP2Discovered, mP2AprioriCount, mP2ApriEntries, mP2ApriMatchFirst,
                   mP2ApriMatchLast, mP2Apriori, slotVars, runVars>>

(* The loop's condition fails: the notification returns. *)
PromoteEnd ==
    /\ scanIdx = Len(AprioriFile) + 1
    /\ scanIdx' = 0
    /\ UNCHANGED <<volumes, listVars, mScheduledQueue, phase, cur, walked, AprioriFile,
                   mP2Discovered, apriVars, mP2Apriori, slotVars, runVars>>

-----------------------------------------------------------------------------
(* DxeMain enters CoreDispatcher. *)
Dispatch ==
    /\ phase = "init" /\ scanIdx = 0
    /\ phase' = "idle"
    /\ UNCHANGED <<volumes, listVars, mScheduledQueue, cur, scanVars,
                   mP2Discovered, apriVars, mP2Apriori, slotVars, runVars>>

(* The head of the queue is loaded; it stays queued until that returns. *)
BeginLoad ==
    /\ phase = "idle"
    /\ mScheduledQueue # <<>>
    /\ cur' = Head(mScheduledQueue)
    /\ phase' = "loading"
    /\ UNCHANGED <<volumes, listVars, mScheduledQueue, scanVars,
                   mP2Discovered, apriVars, mP2Apriori, slotVars, runVars>>

(* CoreLoadImage fails: untrusted or given up, recorded, unscheduled. *)
LoadFails(status) ==
    /\ phase = "loading"
    /\ IF status = SecurityViolation
         THEN untrusted' = untrusted \cup {cur} /\ UNCHANGED initialized
         ELSE initialized' = initialized \cup {cur} /\ UNCHANGED untrusted
    /\ Record(cur, "L", status)
    /\ mScheduledQueue' = Tail(mScheduledQueue)
    /\ Tick(cur)
    /\ attempts' = Append(attempts, Entry(cur, "L", status))
    /\ phase' = "idle"
    /\ cur' = NoGuid
    /\ UNCHANGED <<volumes, discovered, dependent, scanVars, mP2Discovered,
                   apriVars, mP2Apriori, mP2AprioriGuid, mP2Started>>

(* CoreLoadImage succeeds: off the queue, then CoreStartImage. *)
BeginStart ==
    /\ phase = "loading"
    /\ initialized' = initialized \cup {cur}
    /\ mScheduledQueue' = Tail(mScheduledQueue)
    /\ phase' = "starting"
    /\ UNCHANGED <<volumes, discovered, dependent, untrusted, cur, scanVars,
                   mP2Discovered, apriVars, mP2Apriori, slotVars, runVars>>

(* The EntryPoint returns an error. *)
StartFails(status) ==
    /\ phase = "starting" /\ scanIdx = 0
    /\ Record(cur, "S", status)
    /\ Tick(cur)
    /\ attempts' = Append(attempts, Entry(cur, "S", status))
    /\ phase' = "idle"
    /\ cur' = NoGuid
    /\ UNCHANGED <<volumes, listVars, mScheduledQueue, scanVars, mP2Discovered,
                   apriVars, mP2Apriori, mP2AprioriGuid, mP2Started>>

(* The EntryPoint returns EFI_SUCCESS. *)
StartSucceeds ==
    /\ phase = "starting" /\ scanIdx = 0
    /\ MarkSeq(cur, "s", Success)
    /\ mP2Started' = mP2Started + 1
    /\ Tick(cur)
    /\ attempts' = Append(attempts, Entry(cur, "s", Success))
    /\ phase' = "idle"
    /\ cur' = NoGuid
    /\ UNCHANGED <<volumes, listVars, mScheduledQueue, scanVars, mP2Discovered,
                   apriVars, mP2Apriori, mP2AprioriGuid, mP2Diag>>

(* The EntryPoint never returns. *)
StartHangs ==
    /\ phase = "starting" /\ scanIdx = 0
    /\ phase' = "hung"
    /\ UNCHANGED <<volumes, listVars, mScheduledQueue, cur, scanVars,
                   mP2Discovered, apriVars, mP2Apriori, slotVars, runVars>>

(* The queue is empty: the drivers whose DEPEX is now true are scheduled.  *)
(* Which ones is the DEPEX evaluator's business, so any of them may be.    *)
ScheduleReady ==
    /\ phase = "idle"
    /\ mScheduledQueue = <<>>
    /\ \E n \in 1..Cardinality(dependent) :
         \E order \in [1..n -> dependent] :
            /\ \A i, j \in 1..n : i # j => order[i] # order[j]
            /\ mScheduledQueue' = order
            /\ dependent' = dependent \ {order[i] : i \in 1..n}
    /\ UNCHANGED <<volumes, discovered, untrusted, initialized, phase, cur, scanVars,
                   mP2Discovered, apriVars, mP2Apriori, slotVars, runVars>>

(* Mutant: ReadyToRun is never cleared. *)
FinishSpins ==
    /\ phase = "idle"
    /\ mScheduledQueue = <<>>
    /\ UNCHANGED vars

(* No driver became ready: CoreDispatcher returns, and DxeMain calls       *)
(* CoreDisplayDiscoveredNotDispatched, which prints the digest.            *)
Finish ==
    /\ phase = "idle"
    /\ mScheduledQueue = <<>>
    /\ phase' = "done"
    /\ UNCHANGED <<volumes, listVars, mScheduledQueue, cur, scanVars,
                   mP2Discovered, apriVars, mP2Apriori, slotVars, runVars>>

Halted ==
    /\ phase \in {"hung", "done"}
    /\ UNCHANGED vars

Step ==
    \/ FwVolNotify \/ PromoteHit \/ PromoteMiss \/ PromoteEnd
    \/ Dispatch \/ BeginLoad \/ BeginStart \/ StartSucceeds \/ StartHangs
    \/ \E status \in ErrorStatus : LoadFails(status) \/ StartFails(status)
    \/ ScheduleReady \/ Finish

Next == Step \/ Halted

(* The core is one thread of control: a step that can be taken is taken.   *)
(* A load returns; whether an EntryPoint returns is the driver's choice,   *)
(* and StartHangs is the case in which it does not.                        *)
Fairness == WF_vars(Step)

Spec == Init /\ [][Next]_vars
FairSpec == Spec /\ Fairness

-----------------------------------------------------------------------------
(* P2Key: `KEY errors/SeqLen err=.. at=..`, the one line to photograph. *)
FailedSlots == {i \in 1..SeqLen : mP2ApriSt[i] # Success}
KeyErrors   == Cardinality(FailedSlots)
KeyAt       == CHOOSE i \in FailedSlots : \A j \in FailedSlots : i <= j

(* P2 SEQ: the letters of the slots in use. *)
SeqLetters == [i \in 1..SeqLen |-> mP2AprioriRes[i]]

-----------------------------------------------------------------------------
AttemptType == [guid : Driver, phase : {"L", "S", "s"}, status : ErrorStatus \cup {Success}]

(* Every variable has its type; the promotion loop stays within the file.  *)
TypeOK ==
    /\ volumes \in Seq(Volume)
    /\ discovered \subseteq Driver /\ dependent \subseteq discovered
    /\ untrusted \subseteq discovered /\ initialized \subseteq discovered
    /\ mScheduledQueue \in Seq(Driver)
    /\ phase \in {"init", "idle", "loading", "starting", "hung", "done"}
    /\ cur \in Driver \cup {NoGuid}
    /\ walked \subseteq discovered
    /\ AprioriFile \in Seq(Guid)
    /\ scanIdx \in 0..(Len(AprioriFile) + 1)
    /\ mP2Discovered \in Nat /\ mP2AprioriCount \in Nat /\ mP2ApriEntries \in Nat
    /\ mP2Apriori \in Nat /\ mP2ApriUnhit \in Nat /\ mP2ApriMatchLast \in Nat
    /\ mP2Started \in Nat /\ mP2Tick \in Nat
    /\ mP2AprioriGuid \in [Slot -> Driver \cup {NoGuid}]
    /\ mP2AprioriRes \in [Slot -> {"NUL", "?", "s", "S", "L"}]
    /\ mP2ApriWhy \in [Slot -> {"NUL", "s", "R", "N", "X", "D", "E", "P", "U", "O"}]
    /\ mP2ApriSt \in [Slot -> ErrorStatus \cup {Success}]
    /\ mP2ApriMiss \in Nat \cup {None} /\ mP2ApriMatchFirst \in Nat \cup {None}
    /\ mP2Diag \in Seq(AttemptType) /\ Len(mP2Diag) <= DiagMax
    /\ lastRow \in Driver \cup {NoGuid}
    /\ attempts \in Seq(AttemptType)

(* "one result character per Apriori entry, in promotion order - which is  *)
(* the order the dispatcher drains them in": behind a '?' there are only   *)
(* '?'s, so the SEQ line says where the batch broke, even when the volume  *)
(* was installed by an EntryPoint while other drivers were queued.         *)
SeqIsAPrefix ==
    \A i, j \in 1..SeqLen :
        i < j /\ mP2AprioriRes[i] = "?" => mP2AprioriRes[j] = "?"

(* "`unhit` is `entries - apriori` by construction": once the promotion    *)
(* loop is over the three numbers, printed on two lines of the digest, add *)
(* up, whatever the walk returned.                                         *)
UnhitChecksum == scanIdx = 0 => mP2ApriUnhit = mP2ApriEntries - mP2Apriori

(* A slot's letter and status are those of the one attempt to dispatch its *)
(* driver, and '?' means that no attempt has returned.  No driver is       *)
(* attempted twice: a failed load is not retried.                          *)
SlotsTellTheAttempts ==
    /\ \A k, m \in 1..Len(attempts) : attempts[k].guid = attempts[m].guid => k = m
    /\ \A i \in 1..SeqLen :
          IF mP2AprioriRes[i] = "?"
            THEN /\ mP2ApriSt[i] = Success
                 /\ \A k \in 1..Len(attempts) : attempts[k].guid # mP2AprioriGuid[i]
            ELSE \E k \in 1..Len(attempts) :
                    attempts[k] = Entry(mP2AprioriGuid[i], mP2AprioriRes[i], mP2ApriSt[i])

(* KEY's `at` is the failure that came first: every other promoted driver  *)
(* that failed was attempted after the one the key line names.             *)
KeyNamesTheFirstFailure ==
    \A k, m \in 1..Len(attempts) :
        \A j \in FailedSlots :
            attempts[k].guid = mP2AprioriGuid[j] /\ attempts[m].guid = mP2AprioriGuid[KeyAt]
                => m <= k

(* The attempts that failed, and where among them the k-th attempt comes. *)
Failures == {k \in 1..Len(attempts) : attempts[k].status # Success}
Place(k) == Cardinality({l \in Failures : l <= k})

(* When the digest is printed no promoted entry is pending, so KEY 0/n     *)
(* says that the whole batch started and not that it was never reached;    *)
(* the P2 DIAG rows are the first DiagMax failures in the order they       *)
(* happened; and the K counter, the started count and the failures add up. *)
DigestIsComplete ==
    LET shown == IF Cardinality(Failures) > DiagMax THEN DiagMax ELSE Cardinality(Failures)
    IN  phase = "done" =>
        /\ \A i \in 1..SeqLen : mP2AprioriRes[i] # "?"
        /\ KeyErrors = 0 <=> \A i \in 1..SeqLen : mP2AprioriRes[i] = "s"
        /\ Len(mP2Diag) = shown
        /\ \A k \in Failures : Place(k) <= shown => mP2Diag[Place(k)] = attempts[k]
        /\ mP2Tick = mP2Started + Cardinality(Failures)

(* The SEQ line keeps the reader's contract of SeqLine. *)
SeqContract == INSTANCE SeqLine WITH line <- SeqLetters, LineMax <- AprioriMax
KeepsSeqContract == SeqContract!Spec

(* The run ends in the digest, or inside an EntryPoint that never returns. *)
Settles == <>(phase \in {"hung", "done"})

-----------------------------------------------------------------------------
(* The inductive invariant behind SeqIsAPrefix, UnhitChecksum,             *)
(* SlotsTellTheAttempts, KeyNamesTheFirstFailure and DigestIsComplete.     *)

(* The driver whose EntryPoint is running: it is off the queue by then.    *)
Running(g)  == phase \in {"starting", "hung"} /\ cur = g
Queued(g)   == \E k \in 1..Len(mScheduledQueue) : mScheduledQueue[k] = g
PendingAt(i) == i \in 1..SeqLen /\ mP2AprioriRes[i] = "?"

(* The volumes still to come share no driver with those already walked,    *)
(* and at most one Apriori file is read in the whole run.                  *)
VolumeInv ==
    /\ WellFormed(volumes)
    /\ \A k \in 1..Len(volumes) :
          /\ (volumes[k].files \ {DxeCore}) \cap discovered = {}
          /\ AprioriFile # <<>> => volumes[k].apriori = <<>>
    /\ AprioriShape(AprioriFile)

(* The promotion loop has classified exactly the entries it has passed.    *)
ScanInv ==
    /\ scanIdx > 0 => phase \in {"init", "starting"} /\ AprioriFile # <<>>
    /\ mP2ApriEntries = Len(AprioriFile)
    /\ mP2Apriori + mP2ApriUnhit = IF scanIdx = 0 THEN Len(AprioriFile) ELSE scanIdx - 1
    /\ \A k \in 1..Len(AprioriFile) :
          scanIdx > 0 /\ k >= scanIdx /\ AprioriFile[k] \in walked
              => AprioriFile[k] \in dependent

(* A driver is waiting for its DEPEX, queued, running or done: one of them. *)
QueueInv ==
    /\ phase \in {"loading", "starting", "hung"} => cur \in discovered \ dependent
    /\ phase = "loading" => mScheduledQueue # <<>> /\ cur = mScheduledQueue[1]
    /\ \A k \in 1..Len(mScheduledQueue) :
          /\ mScheduledQueue[k] \in discovered \ dependent
          /\ ~Running(mScheduledQueue[k])
    /\ \A k, m \in 1..Len(mScheduledQueue) :
          mScheduledQueue[k] = mScheduledQueue[m] => k = m
    /\ phase = "done" => mScheduledQueue = <<>>

(* Every slot in use names a driver of its own that has left the DEPEX     *)
(* wait; a pending one is running or queued, in slot order; a resolved one *)
(* is neither.                                                             *)
SlotInv ==
    /\ \A i \in 1..SeqLen :
          /\ mP2AprioriGuid[i] \in discovered \ dependent
          /\ mP2AprioriRes[i] # "NUL"
          /\ mP2AprioriRes[i] = "?" <=>
                Running(mP2AprioriGuid[i]) \/ Queued(mP2AprioriGuid[i])
    /\ \A i \in Slot : i > SeqLen => mP2ApriSt[i] = Success
    /\ \A i, j \in 1..SeqLen : mP2AprioriGuid[i] = mP2AprioriGuid[j] => i = j
    /\ \A i, j \in 1..SeqLen : i < j /\ PendingAt(i) => ~Running(mP2AprioriGuid[j])
    /\ \A i, j \in 1..SeqLen :
          \A k, m \in 1..Len(mScheduledQueue) :
              /\ i < j
              /\ mScheduledQueue[k] = mP2AprioriGuid[i]
              /\ mScheduledQueue[m] = mP2AprioriGuid[j]
              => k < m

(* An attempted driver never comes back. *)
AttemptInv ==
    \A k \in 1..Len(attempts) :
        /\ attempts[k].guid \in discovered \ dependent
        /\ ~Queued(attempts[k].guid)
        /\ ~Running(attempts[k].guid)

(* The promoted drivers that were attempted, were attempted in slot order. *)
OrderInv ==
    \A i, j \in 1..SeqLen :
        \A k, m \in 1..Len(attempts) :
            /\ i < j
            /\ attempts[k].guid = mP2AprioriGuid[i]
            /\ attempts[m].guid = mP2AprioriGuid[j]
            => k < m

(* The records are the first failures, whether or not there is room for    *)
(* more, and every attempt is counted once, as a start or as a failure.    *)
RecordInv ==
    /\ \A k \in 1..Len(attempts) :
          attempts[k].phase = "s" <=> attempts[k].status = Success
    /\ Len(mP2Diag) = IF Cardinality(Failures) > DiagMax THEN DiagMax
                                                         ELSE Cardinality(Failures)
    /\ \A k \in Failures : Place(k) <= DiagMax => mP2Diag[Place(k)] = attempts[k]
    /\ mP2Tick = mP2Started + Cardinality(Failures)

DispatchInv ==
    /\ TypeOK /\ VolumeInv /\ ScanInv /\ QueueInv /\ SlotInv /\ AttemptInv
    /\ OrderInv /\ RecordInv
    /\ SeqIsAPrefix /\ SlotsTellTheAttempts
=============================================================================
