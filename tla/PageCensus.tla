----------------------------- MODULE PageCensus -----------------------------
(***************************************************************************)
(* The page allocator's failure census and the heap probes of the bring-up *)
(* digest (uefi/patches/mu-basecore-local.patch): P2FreeWhy, taken when a  *)
(* page request fails for good; P2LargestAlloc, the ladder of requests     *)
(* behind every `free=`; P2Retry, six cached requests; and the copies of   *)
(* P2Digest, which print what those three left behind.                     *)
(*                                                                         *)
(* The allocator itself (the search, promotion of untested memory, the     *)
(* merge of freed ranges) is not in the repository; it is modelled from    *)
(* what the patch says of it and how it calls it.                          *)
(***************************************************************************)
EXTENDS Integers, Sequences, FiniteSets, FiniteSetsExt

CONSTANTS
    HeapPages,      \* the conventional pages of the map, a set of page numbers
    PromotePages,   \* pages PromoteMemoryResource can still add, once
    Ladder,         \* the rungs, 4096, 1024, 256, 64, 16, 4, 1 in the build
    ImageMin,       \* the smallest request that is described, 4 in the build
    RetryRequests,  \* what P2Retry asks for: a sequence of requests
    RunRequests,    \* the requests drivers and image loads make
    Granule,        \* the allocation granularity of each memory type, in pages
    CallbackSizes,  \* page requests event callbacks make ({}: there are none)
    Copies,         \* copies of the digest, 41 in the build
    Bounds          \* of the runs explored: their requests, ticks and callbacks

MemoryType == DOMAIN Granule
Request    == [type : MemoryType, pages : Nat \ {0}]
LadderType == "EfiBootServicesData"

ASSUME CensusAssumption ==
    /\ HeapPages \subseteq Nat /\ PromotePages \subseteq Nat
    /\ IsFiniteSet(HeapPages) /\ IsFiniteSet(PromotePages)
    /\ HeapPages \cap PromotePages = {}
    /\ LadderType \in MemoryType
    /\ \A t \in MemoryType : Granule[t] \in Nat \ {0}
    /\ Ladder \in Seq(Nat \ {0}) /\ Ladder # <<>>
    /\ \A i \in 1..(Len(Ladder) - 1) : Ladder[i] > Ladder[i + 1]
    /\ ImageMin \in Nat \ {0}
    /\ RunRequests \subseteq Request /\ RetryRequests \in Seq(Request)
    /\ RetryRequests # <<>> /\ CallbackSizes \subseteq Nat \ {0}
    /\ Copies \in Nat \ {0} /\ Bounds \subseteq [requests : Nat, ticks : Nat, callbacks : Nat]

VARIABLES
    free,           \* the EfiConventionalMemory pages of gMemoryMap
    promoted,       \* PromoteMemoryResource has nothing left to give
    held,           \* the blocks the run and its callbacks hold
    probeBlock,     \* the block a probe holds between its allocate and its free
    mP2FwProbe,
    mP2FwSeen, mP2FwCount, mP2FwTy, mP2FwSkip,
    fwhy,           \* mP2FwType .. mP2FwDesc, the failure that was described
    mP2RetryDone,
    retry,          \* mP2Rc16 .. mP2Bs16: TRUE where the request succeeded
    pc, caller, rung, copy,
    row,            \* the digest copy being printed
    rows,           \* the copies printed so far
    bound, requests, ticks, callbacks,      \* of the run, and how much of it is used
    failures        \* history: the run's terminal failures, in order

fwVars  == <<mP2FwSeen, mP2FwCount, mP2FwTy, mP2FwSkip, fwhy>>
heap    == <<free, promoted>>
bounds  == <<bound, requests, ticks, callbacks>>
vars == <<heap, held, probeBlock, mP2FwProbe, fwVars, mP2RetryDone, retry,
          pc, caller, rung, copy, row, rows, bounds, failures>>

-----------------------------------------------------------------------------
(* The descriptors of a free map: its maximal runs of pages. *)
Runs(pages) ==
    {<<first, Min({last \in pages : last >= first /\ last + 1 \notin pages})>> :
        first \in {p \in pages : p - 1 \notin pages}}

Size(r) == r[2] - r[1] + 1

(* `DescEnd = ((DescEnd + 1) & ~(Alignment - 1)) - 1`: a run loses what is *)
(* above its last granule boundary, and may lose all of it.                *)
Clip(r, g) == <<r[1], ((r[2] + 1) \div g) * g - 1>>

Usable(pages, g) == {c \in {Clip(r, g) : r \in Runs(pages)} : c[2] >= c[1]}

(* CoreFindFreePagesI over the whole map: the highest run that is long     *)
(* enough, and the top of it.                                              *)
Candidates(pages, np, g) == {c \in Usable(pages, g) : Size(c) >= np}
Found(pages, np, g) ==
    LET top == Max({c[2] : c \in Candidates(pages, np, g)}) IN (top - np + 1)..top

(* FindFreePages: when the map has no such run, memory is promoted and the *)
(* search repeated; a second refusal is terminal.                          *)
MapSearched(np, g) ==
    IF Candidates(free, np, g) = {} /\ ~promoted THEN free \cup PromotePages ELSE free

Satisfied(np, t) == Candidates(MapSearched(np, Granule[t]), np, Granule[t]) # {}

(* The pages a request gets, {} if it is refused. *)
Block(np, t) ==
    IF Satisfied(np, t) THEN Found(MapSearched(np, Granule[t]), np, Granule[t]) ELSE {}

Allocates(np, t) ==
    /\ free' = MapSearched(np, Granule[t]) \ Block(np, t)
    /\ promoted' = (promoted \/ Candidates(free, np, Granule[t]) = {})

(* CoreFreePages: the pages are conventional memory again. *)
CoreFreePages(block) == free' = free \cup block

-----------------------------------------------------------------------------
TypeSlot(t) ==
    CASE t = "EfiBootServicesCode" -> "bc"
      [] t = "EfiBootServicesData" -> "bd"
      [] t \in {"EfiRuntimeServicesCode", "EfiRuntimeServicesData"} -> "rt"
      [] OTHER -> "oth"

TypeSlots == {"bc", "bd", "rt", "oth"}

MaxOr0(S) == IF S = {} THEN 0 ELSE Max(S)

(* Mutant: the descriptors are not clipped to the alignment. *)
CensusUnclipped(np, t, pages) ==
    LET raw == MaxOr0({Size(r) : r \in Runs(pages)}) IN
    [type |-> t, pages |-> np, big |-> raw, raw |-> raw,
     free |-> Cardinality(pages), desc |-> Cardinality(Runs(pages))]

(* The census loop of P2FreeWhy over a free map. *)
Census(np, t, pages) ==
    [type |-> t, pages |-> np,
     big  |-> MaxOr0({Size(c) : c \in Usable(pages, Granule[t])}),
     raw  |-> MaxOr0({Size(r) : r \in Runs(pages)}),
     free |-> Cardinality(pages),
     desc |-> Cardinality(Runs(pages))]

NoRecord == [type |-> "none", pages |-> 0, big |-> 0, raw |-> 0, free |-> 0, desc |-> 0]

(* Mutant: the probe's requests are counted with the run's. *)
FreeWhyCountsProbes(np, t, pages) ==
    /\ mP2FwCount' = mP2FwCount + 1
    /\ mP2FwTy' = [mP2FwTy EXCEPT ![TypeSlot(t)] = @ + 1]
    /\ IF mP2FwSeen \/ np < ImageMin
         THEN UNCHANGED <<mP2FwSeen, fwhy>>
         ELSE mP2FwSeen' = TRUE /\ fwhy' = Census(np, t, pages)
    /\ UNCHANGED mP2FwSkip

(* P2FreeWhy (MaxAddress, NumberOfPages, NewType, Alignment) *)
FreeWhy(np, t, pages) ==
    IF mP2FwProbe
      THEN /\ mP2FwSkip' = mP2FwSkip + 1
           /\ UNCHANGED <<mP2FwSeen, mP2FwCount, mP2FwTy, fwhy>>
      ELSE /\ mP2FwCount' = mP2FwCount + 1
           /\ mP2FwTy' = [mP2FwTy EXCEPT ![TypeSlot(t)] = @ + 1]
           /\ IF mP2FwSeen \/ np < ImageMin
                THEN UNCHANGED <<mP2FwSeen, fwhy>>
                ELSE mP2FwSeen' = TRUE /\ fwhy' = Census(np, t, pages)
           /\ UNCHANGED mP2FwSkip

(* A request and, if it is refused, the census of the map it was refused in. *)
Asks(np, t) ==
    /\ Allocates(np, t)
    /\ IF Satisfied(np, t) THEN UNCHANGED fwVars
       ELSE FreeWhy(np, t, MapSearched(np, Granule[t]))

-----------------------------------------------------------------------------
EmptyRow == [free |-> 0, ty |-> [s \in TypeSlots |-> 0], n |-> 0, fwhy |-> NoRecord,
             g |-> 0, retry |-> <<>>, key |-> 0]

Init ==
    /\ free = HeapPages
    /\ promoted = (PromotePages = {})
    /\ held = {}
    /\ probeBlock = {}
    /\ mP2FwProbe = FALSE
    /\ mP2FwSeen = FALSE
    /\ mP2FwCount = 0
    /\ mP2FwTy = [s \in TypeSlots |-> 0]
    /\ mP2FwSkip = 0
    /\ fwhy = NoRecord
    /\ mP2RetryDone = FALSE
    /\ retry = <<>>
    /\ pc = "run" /\ caller = "none" /\ rung = 0 /\ copy = 0
    /\ row = EmptyRow
    /\ rows = <<>>
    /\ bound \in Bounds /\ requests = 0 /\ ticks = 0 /\ callbacks = 0
    /\ failures = <<>>

(* A driver or an image load asks for pages. *)
RunAllocates ==
    /\ pc = "run" /\ requests < bound.requests
    /\ \E r \in RunRequests :
          LET block == Block(r.pages, r.type)
          IN  /\ Asks(r.pages, r.type)
              /\ held' = held \cup ({block} \ {{}})
              /\ failures' = IF block = {} THEN Append(failures, r) ELSE failures
    /\ requests' = requests + 1
    /\ UNCHANGED <<probeBlock, mP2FwProbe, mP2RetryDone, retry, pc, caller, rung, copy,
                   row, rows, bound, ticks, callbacks>>

(* A driver returns a block. *)
RunFrees ==
    /\ pc = "run"
    /\ \E block \in held :
          /\ held' = held \ {block}
          /\ CoreFreePages(block)
    /\ UNCHANGED <<promoted, probeBlock, mP2FwProbe, fwVars, mP2RetryDone, retry, pc, caller,
                   rung, copy, row, rows, bounds, failures>>

(* An event callback preempts whatever is running and asks for pages. *)
Callback ==
    /\ pc # "done" /\ callbacks < bound.callbacks
    /\ \E np \in CallbackSizes :
          LET t == LadderType
              block == Block(np, t)
          IN  /\ Asks(np, t)
              /\ held' = held \cup ({block} \ {{}})
              /\ failures' = IF block = {} /\ copy = 0
                               THEN Append(failures, [type |-> t, pages |-> np]) ELSE failures
    /\ callbacks' = callbacks + 1
    /\ UNCHANGED <<probeBlock, mP2FwProbe, mP2RetryDone, retry, pc, caller, rung, copy,
                   row, rows, bound, requests, ticks>>

-----------------------------------------------------------------------------
(* Mutant: the loop starts at Index 1. *)
EntersLadderAtOne(who) ==
    /\ mP2FwProbe' = TRUE
    /\ pc' = "rung" /\ caller' = who /\ rung' = 2

(* P2LargestAlloc, entered by P2Tick, by `P2 FREE largest=` or by P2Key. *)
EntersLadder(who) ==
    /\ mP2FwProbe' = TRUE
    /\ pc' = "rung" /\ caller' = who /\ rung' = 1

(* It returns `largest` to the one that called it. *)
LeavesLadder(largest) ==
    /\ mP2FwProbe' = FALSE
    /\ rung' = 0
    /\ \/ caller = "tick" /\ pc' = "run" /\ UNCHANGED <<copy, row, rows>>
       \/ /\ caller = "free" /\ pc' = "report"
          /\ row' = [row EXCEPT !.free = largest]
          /\ UNCHANGED <<copy, rows>>
       \/ /\ caller = "key"
          /\ rows' = Append(rows, [row EXCEPT !.key = largest])
          /\ row' = EmptyRow
          /\ pc' = IF copy < Copies THEN "hold" ELSE "done"
          /\ UNCHANGED copy
    /\ caller' = "none"

(* P2Tick, after a dispatch attempt. *)
Tick ==
    /\ pc = "run" /\ ticks < bound.ticks
    /\ ticks' = ticks + 1
    /\ EntersLadder("tick")
    /\ UNCHANGED <<heap, held, probeBlock, fwVars, mP2RetryDone, retry, copy, row, rows,
                   bound, requests, callbacks, failures>>

(* The busy-wait between two copies; its loop is bounded. *)
P2HoldForever == pc = "hold" /\ UNCHANGED vars     \* mutant: it is not
P2Hold ==
    /\ pc = "hold"
    /\ pc' = "held"
    /\ UNCHANGED <<heap, held, probeBlock, mP2FwProbe, fwVars, mP2RetryDone, retry, caller,
                   rung, copy, row, rows, bounds, failures>>

(* The dispatcher is done, or P2Hold is: a copy of the digest begins. *)
DigestBegins ==
    /\ pc \in {"run", "held"}
    /\ copy' = copy + 1
    /\ EntersLadder("free")
    /\ UNCHANGED <<heap, held, probeBlock, fwVars, mP2RetryDone, retry, row, rows,
                   bounds, failures>>

RungSucceeds ==
    /\ pc = "rung"
    /\ Satisfied(Ladder[rung], LadderType)
    /\ Asks(Ladder[rung], LadderType)
    /\ probeBlock' = Block(Ladder[rung], LadderType)
    /\ pc' = "release"
    /\ UNCHANGED <<held, mP2FwProbe, mP2RetryDone, retry, caller, rung, copy, row, rows,
                   bounds, failures>>

(* A probe's CoreFreePages of what it got: of as many pages as it asked for. *)
FreesOnePageLess ==                                                     \* mutant
    /\ CoreFreePages({p \in probeBlock : p + 1 \in probeBlock}) /\ probeBlock' = {}
ProbeFrees   == CoreFreePages(probeBlock) /\ probeBlock' = {}

(* The probe is freed, then the ladder returns the rung that succeeded. *)
RungReleases ==
    /\ pc = "release"
    /\ ProbeFrees
    /\ LeavesLadder(Ladder[rung])
    /\ UNCHANGED <<promoted, held, fwVars, mP2RetryDone, retry, bounds, failures>>

AfterLastRung == rung > Len(Ladder)      \* mutant
LastRung      == rung = Len(Ladder)

RungFails ==
    /\ pc = "rung"
    /\ ~Satisfied(Ladder[rung], LadderType)
    /\ Asks(Ladder[rung], LadderType)
    /\ IF LastRung THEN LeavesLadder(0)
       ELSE rung' = rung + 1 /\ UNCHANGED <<mP2FwProbe, pc, caller, copy, row, rows>>
    /\ UNCHANGED <<held, probeBlock, mP2RetryDone, retry, bounds, failures>>

(* P2Bins: P2FreeWhyReport, then P2Retry, which returns at once unless it  *)
(* is the first copy's.                                                    *)
FreeWhyReport ==
    /\ pc = "report"
    /\ row' = [row EXCEPT !.ty = mP2FwTy, !.n = mP2FwCount, !.fwhy = fwhy,
                          !.g = IF mP2FwSeen THEN mP2FwSkip ELSE 0]
    /\ pc' = IF mP2RetryDone THEN "print" ELSE "retry"
    /\ mP2RetryDone' = TRUE
    /\ UNCHANGED <<heap, held, probeBlock, mP2FwProbe, fwVars, retry, caller,
                   rung, copy, rows, bounds, failures>>

(* P2Retry asks, *)
RetryAsks ==
    /\ pc = "retry"
    /\ LET r == RetryRequests[Len(retry) + 1] IN
       /\ Asks(r.pages, r.type)
       /\ probeBlock' = Block(r.pages, r.type)
       /\ retry' = Append(retry, Satisfied(r.pages, r.type))
    /\ pc' = "retryRelease"
    /\ UNCHANGED <<held, mP2FwProbe, mP2RetryDone, caller, rung, copy, row, rows, bounds,
                   failures>>

(* ... gives back what it got, and goes on to the next request. *)
RetryReleases ==
    /\ pc = "retryRelease"
    /\ ProbeFrees
    /\ pc' = IF Len(retry) = Len(RetryRequests) THEN "print" ELSE "retry"
    /\ UNCHANGED <<promoted, held, mP2FwProbe, fwVars, mP2RetryDone, retry, caller, rung,
                   copy, row, rows, bounds, failures>>

(* The cached statuses are printed; P2Key walks the ladder once more. *)
PrintRetry ==
    /\ pc = "print"
    /\ row' = [row EXCEPT !.retry = retry]
    /\ EntersLadder("key")
    /\ UNCHANGED <<heap, held, probeBlock, fwVars, mP2RetryDone, retry, copy, rows, bounds,
                   failures>>

(* All copies are out; DxeMain goes on to its assert. *)
Done == pc = "done" /\ UNCHANGED vars

Instrument ==
    \/ P2Hold \/ DigestBegins \/ RungSucceeds \/ RungReleases \/ RungFails \/ FreeWhyReport
    \/ RetryAsks \/ RetryReleases \/ PrintRetry

Next == RunAllocates \/ RunFrees \/ Callback \/ Tick \/ Instrument \/ Done

(* The instrument is straight-line code of the one thread there is. *)
Spec == Init /\ [][Next]_vars
FairSpec == Spec /\ WF_vars(Instrument)

-----------------------------------------------------------------------------
(* Types, and the bounds the counters keep. *)
TypeOK ==
    /\ free \subseteq HeapPages \cup PromotePages
    /\ held \subseteq SUBSET (HeapPages \cup PromotePages)
    /\ probeBlock \subseteq HeapPages \cup PromotePages
    /\ {promoted, mP2FwProbe, mP2FwSeen, mP2RetryDone} \subseteq BOOLEAN
    /\ mP2FwTy \in [TypeSlots -> Nat] /\ mP2FwCount \in Nat /\ mP2FwSkip \in Nat
    /\ pc \in {"run", "rung", "release", "report", "retry", "retryRelease", "print", "hold", "held", "done"}
    /\ caller \in {"none", "tick", "free", "key"} /\ rung \in 0..Len(Ladder)
    /\ copy \in 0..Copies /\ Len(rows) \in 0..Copies

(* The probes give back what they take: at every moment a page is free, in *)
(* one block of the run, or in the block a probe is about to free, and in  *)
(* no two of these.                                                        *)
NoPageLost ==
    LET map == HeapPages \cup (IF promoted THEN PromotePages ELSE {})
        blocks == held \cup ({probeBlock} \ {{}})
    IN  /\ (UNION blocks) \cup free = map
        /\ (UNION blocks) \cap free = {}
        /\ \A a, b \in blocks : a # b => a \cap b = {}
        /\ pc \notin {"release", "retryRelease"} => probeBlock = {}
        /\ probeBlock \notin held \ {{}}

(* What every state of the heap is. *)
HeapInv == TypeOK /\ NoPageLost

CountOf(slot) == Cardinality({i \in 1..Len(failures) : TypeSlot(failures[i].type) = slot})

(* The first copy of the digest tells the run and not the instrument: P2   *)
(* FWTY counts the run's own terminal failures by type, and P2 FWHY is     *)
(* about the first of them that was image-sized.                           *)
FirstCopyTellsTheRun ==
    rows # <<>> /\ callbacks = 0 =>
        LET first == rows[1]
            image == {i \in 1..Len(failures) : failures[i].pages >= ImageMin}
        IN  /\ first.n = Len(failures)
            /\ \A s \in TypeSlots : first.ty[s] = CountOf(s)
            /\ IF image = {} THEN first.fwhy = NoRecord
               ELSE LET f == failures[Min(image)] IN
                    first.fwhy.type = f.type /\ first.fwhy.pages = f.pages

(* What is measured is the heap of the run: the census never contradicts   *)
(* the search it describes, and `big`, `raw` and `free` are ordered as a   *)
(* reader of the row relies on; and `free=` brackets the largest run: it   *)
(* is there, and the next rung is not - in the first copy and, as every    *)
(* copy finds the heap as the one before it did, in the photographed one.  *)
ProbesMeasureTheHeap ==
    /\ mP2FwSeen => /\ fwhy.big < fwhy.pages
                    /\ fwhy.big <= fwhy.raw /\ fwhy.raw <= fwhy.free
                    /\ fwhy.desc = 0 <=> fwhy.free = 0
    /\ pc = "report" /\ callbacks = 0 =>
          LET largest == MaxOr0({Size(c) : c \in Usable(free, Granule[LadderType])}) IN
          /\ row.free <= largest
          /\ \A i \in 1..Len(Ladder) : Ladder[i] > row.free => Ladder[i] > largest
    /\ callbacks = 0 => \A i \in 1..Len(rows) :
          /\ rows[i].free = rows[1].free /\ rows[i].key = rows[1].free
          /\ rows[i].retry = rows[1].retry

(* The loop is bounded: once the digest has begun, all copies get printed  *)
(* and control reaches the assert behind it.                               *)
DigestEnds == <>(pc = "done")
=============================================================================
