-------------------------- MODULE PageCensus_proofs --------------------------
(***************************************************************************)
(* Proof, for every heap, ladder, granularity, list of requests and number *)
(* of copies, that the probes lose no page and that the copies are counted *)
(* - with event callbacks between any two steps - and, as long as there    *)
(* are none, that the digest tells the run and measures its heap.          *)
(***************************************************************************)
EXTENDS PageCensus, FiniteSetTheorems, SequenceTheorems, WellFoundedInduction, TLAPS

AllPages == HeapPages \cup PromotePages

(* A finite set of numbers has a least element: of the sets of elements    *)
(* below one, one has no other inside it.                                  *)
LEMMA MinIsThere ==
    ASSUME NEW S \in SUBSET Int, IsFiniteSet(S), S # {}
    PROVE  /\ Min(S) \in S
           /\ \A y \in S : Min(S) <= y
<1> DEFINE Below(x) == {y \in S : y < x}
           T == {Below(x) : x \in S}
<1>1. T \subseteq FiniteSubsetsOf(S) /\ T # {}
  <2>1. ASSUME NEW x \in S PROVE Below(x) \in FiniteSubsetsOf(S)
    <3>1. Below(x) \in SUBSET S
      OBVIOUS
    <3> HIDE DEF Below
    <3> QED
      BY <3>1, FS_Subset DEF FiniteSubsetsOf
  <2> QED
    BY <2>1
<1>2. PICK t \in T : \A u \in T : <<u, t>> \notin StrictSubsetOrdering(S)
  <2>1. IsWellFoundedOn(StrictSubsetOrdering(S), FiniteSubsetsOf(S))
    BY FS_StrictSubsetOrderingWellFounded
  <2> HIDE DEF T
  <2> QED
    BY <1>1, <2>1, WFMin
<1>3. PICK x \in S : t = Below(x)
  BY <1>2
<1>4. \A y \in S : x <= y
  <2>1. SUFFICES ASSUME NEW y \in S, y < x PROVE FALSE
    OBVIOUS
  <2>2. Below(y) \subseteq Below(x) /\ y \in Below(x) /\ y \notin Below(y)
    <3>1. \A z \in S : z \in Int
      OBVIOUS
    <3>2. \A z \in S : z < y => z < x
      BY <2>1, <3>1
    <3>3. ~(y < y)
      BY <3>1
    <3> QED
      BY <2>1, <3>2, <3>3
  <2>3. <<Below(y), Below(x)>> \in StrictSubsetOrdering(S)
    <3>1. Below(y) \in SUBSET S /\ Below(x) \in SUBSET S /\ Below(y) # Below(x)
      BY <2>2
    <3> HIDE DEF Below
    <3> QED
      BY <2>2, <3>1 DEF StrictSubsetOrdering
  <2> QED
    BY <2>3, <1>2, <1>3
<1> QED
  BY <1>4 DEF Min

(* ... and a greatest one: its negation is the least of the negations.     *)
LEMMA MaxIsThere ==
    ASSUME NEW S \in SUBSET Int, IsFiniteSet(S), S # {}
    PROVE  /\ Max(S) \in S
           /\ \A y \in S : Max(S) >= y
<1> DEFINE Above(x) == {y \in S : y > x}
           T == {Above(x) : x \in S}
<1>1. T \subseteq FiniteSubsetsOf(S) /\ T # {}
  <2>1. ASSUME NEW x \in S PROVE Above(x) \in FiniteSubsetsOf(S)
    <3>1. Above(x) \in SUBSET S
      OBVIOUS
    <3> HIDE DEF Above
    <3> QED
      BY <3>1, FS_Subset DEF FiniteSubsetsOf
  <2> QED
    BY <2>1
<1>2. PICK t \in T : \A u \in T : <<u, t>> \notin StrictSubsetOrdering(S)
  <2>1. IsWellFoundedOn(StrictSubsetOrdering(S), FiniteSubsetsOf(S))
    BY FS_StrictSubsetOrderingWellFounded
  <2> HIDE DEF T
  <2> QED
    BY <1>1, <2>1, WFMin
<1>3. PICK x \in S : t = Above(x)
  BY <1>2
<1>4. \A y \in S : x >= y
  <2>1. SUFFICES ASSUME NEW y \in S, y > x PROVE FALSE
    OBVIOUS
  <2>2. Above(y) \subseteq Above(x) /\ y \in Above(x) /\ y \notin Above(y)
    <3>1. \A z \in S : z \in Int
      OBVIOUS
    <3>2. \A z \in S : z > y => z > x
      BY <2>1, <3>1
    <3>3. ~(y > y)
      BY <3>1
    <3> QED
      BY <2>1, <3>2, <3>3
  <2>3. <<Above(y), Above(x)>> \in StrictSubsetOrdering(S)
    <3>1. Above(y) \in SUBSET S /\ Above(x) \in SUBSET S /\ Above(y) # Above(x)
      BY <2>2
    <3> HIDE DEF Above
    <3> QED
      BY <2>2, <3>1 DEF StrictSubsetOrdering
  <2> QED
    BY <2>3, <1>2, <1>3
<1> QED
  BY <1>4 DEF Max

(* A run holds nothing but pages of the map: the first page missing in it  *)
(* would end it earlier.                                                   *)
LEMMA RunsAreFree ==
    ASSUME NEW pages \in SUBSET Nat, IsFiniteSet(pages), NEW r \in Runs(pages)
    PROVE  /\ r = <<r[1], r[2]>>
           /\ r[1] \in pages /\ r[2] \in pages /\ r[1] <= r[2]
           /\ \A p \in r[1]..r[2] : p \in pages
<1> DEFINE Ends(f) == {last \in pages : last >= f /\ last + 1 \notin pages}
<1>0. \A p \in pages : p \in Int
  OBVIOUS
<1>1. PICK f \in pages : r = <<f, Min(Ends(f))>>
  BY DEF Runs
<1>2. Ends(f) \subseteq Int /\ IsFiniteSet(Ends(f))
  <2>1. Ends(f) \in SUBSET pages /\ Ends(f) \subseteq Int
    BY <1>0
  <2> HIDE DEF Ends
  <2> QED
    BY <2>1, FS_Subset
<1>3. Ends(f) # {}
  <2> DEFINE from == {p \in pages : p >= f}
  <2>1. from \in SUBSET Int /\ IsFiniteSet(from) /\ from # {}
    <3>0. f >= f
      BY <1>0
    <3>1. from \in SUBSET pages /\ from \in SUBSET Int /\ f \in from
      BY <1>0, <3>0
    <3> HIDE DEF from
    <3> QED
      BY <3>1, FS_Subset
  <2>2. Max(from) \in from /\ \A y \in from : Max(from) >= y
    <3> HIDE DEF from
    <3> QED
      BY <2>1, MaxIsThere
  <2> DEFINE top == Max(from)
  <2>3. top \in from /\ \A y \in from : top >= y
    BY <2>2
  <2> HIDE DEF top
  <2>4. top \in Ends(f)
    BY <2>3
  <2> QED
    BY <2>4
<1> DEFINE l == Min(Ends(f))
<1>4. l \in Ends(f) /\ \A y \in Ends(f) : l <= y
  <2> HIDE DEF Ends
  <2> QED
    BY <1>2, <1>3, MinIsThere
<1>5. r = <<f, l>>
  BY <1>1
<1> HIDE DEF l
<1>6. \A p \in f..l : p \in pages
  <2> DEFINE holes == {p \in f..l : p \notin pages}
  <2>1. SUFFICES ASSUME holes # {} PROVE FALSE
    OBVIOUS
  <2>2. holes \in SUBSET Int /\ IsFiniteSet(holes)
    <3>1. f..l \in SUBSET Int /\ IsFiniteSet(f..l) /\ holes \in SUBSET (f..l)
      BY <1>4, FS_Interval
    <3> HIDE DEF holes
    <3> QED
      BY <3>1, FS_Subset
  <2>3. PICK h \in holes : \A y \in holes : h <= y
    <3> HIDE DEF holes
    <3> QED
      BY <2>1, <2>2, MinIsThere
  <2>4. h - 1 \in f..l /\ h - 1 \notin holes /\ h <= l
    BY <2>3, <1>4
  <2>5. h - 1 \in Ends(f)
    BY <2>3, <2>4
  <2> QED
    BY <2>4, <2>5, <1>4
<1> QED
  BY <1>4, <1>5, <1>6

(* Clipping a run takes pages from its end. *)
LEMMA ClipShortens ==
    ASSUME NEW f \in Nat, NEW l \in Nat, NEW g \in Nat \ {0}
    PROVE  /\ Clip(<<f, l>>, g)[1] = f
           /\ Clip(<<f, l>>, g)[2] \in Int
           /\ -1 <= Clip(<<f, l>>, g)[2] /\ Clip(<<f, l>>, g)[2] <= l
<1> DEFINE q == (l + 1) \div g
<1>1. q \in Int /\ g * q <= l + 1 /\ l + 1 < g * q + g
  OBVIOUS
<1>2. Clip(<<f, l>>, g) = <<f, q * g - 1>>
  BY DEF Clip
<1> HIDE DEF q
<1>3. q >= 0
  BY <1>1
<1>4. q * g = g * q /\ q * g \in Int /\ q * g >= 0
  BY <1>1, <1>3
<1> QED
  BY <1>1, <1>2, <1>4

(* What the search finds is free, and it is something. *)
LEMMA FoundIsFree ==
    ASSUME NEW pages \in SUBSET Nat, IsFiniteSet(pages), NEW np \in Nat \ {0},
           NEW g \in Nat \ {0}, Candidates(pages, np, g) # {}
    PROVE  Found(pages, np, g) \subseteq pages /\ Found(pages, np, g) # {}
<1> DEFINE tops == {c[2] : c \in Candidates(pages, np, g)}
<1>1. ASSUME NEW c \in Candidates(pages, np, g)
      PROVE  /\ c[1] \in Nat /\ c[2] \in Int /\ -1 <= c[2] /\ c[2] - c[1] + 1 >= np
             /\ \E l \in pages : c[2] <= l
             /\ \A p \in c[1]..c[2] : p \in pages
  <2>1. PICK r \in Runs(pages) : c = Clip(r, g)
    BY <1>1 DEF Candidates, Usable
  <2>2. /\ r = <<r[1], r[2]>>
        /\ r[1] \in pages /\ r[2] \in pages
        /\ \A p \in r[1]..r[2] : p \in pages
    BY RunsAreFree
  <2>3. r[1] \in Nat /\ r[2] \in Nat
    BY <2>2
  <2>4. c[1] = r[1] /\ c[2] \in Int /\ -1 <= c[2] /\ c[2] <= r[2]
    BY <2>1, <2>2, <2>3, ClipShortens
  <2>5. c[2] - c[1] + 1 >= np
    BY <1>1 DEF Candidates, Size
  <2>6. \A p \in c[1]..c[2] : p \in r[1]..r[2]
    BY <2>3, <2>4
  <2> QED
    BY <2>2, <2>3, <2>4, <2>5, <2>6
<1>2. tops # {} /\ tops \in SUBSET Int /\ IsFiniteSet(tops)
  <2>1. pages # {} /\ pages \in SUBSET Int
    <3>1. \A p \in pages : p \in Int
      OBVIOUS
    <3>2. PICK c \in Candidates(pages, np, g) : TRUE
      OBVIOUS
    <3> QED
      BY <1>1, <3>1, <3>2
  <2>2. /\ Max(pages) \in pages
        /\ \A p \in pages : p <= Max(pages)
    BY <2>1, MaxIsThere
  <2> DEFINE N == Max(pages)
  <2>3. N \in Nat /\ \A p \in pages : p <= N
    BY <2>2
  <2> HIDE DEF N
  <2>4. \A c \in Candidates(pages, np, g) : c[2] \in -1..N
    <3>1. SUFFICES ASSUME NEW c \in Candidates(pages, np, g) PROVE c[2] \in -1..N
      OBVIOUS
    <3>2. PICK l \in pages : c[2] <= l
      BY <1>1
    <3>3. l <= N /\ l \in Int
      BY <2>3
    <3> QED
      BY <1>1, <2>3, <3>2, <3>3
  <2>5. tops \in SUBSET (-1..N)
    BY <2>4
  <2>7. IsFiniteSet(-1..N)
    <3>1. -1 \in Int /\ N \in Int
      BY <2>3
    <3> QED
      BY <3>1, FS_Interval
  <2>6. IsFiniteSet(tops)
    <3> HIDE DEF tops
    <3> QED
      BY <2>5, <2>7, FS_Subset
  <2> QED
    BY <1>1, <2>6
<1>3. Max(tops) \in tops
  <2> HIDE DEF tops
  <2> QED
    BY <1>2, MaxIsThere
<1>4. PICK c \in Candidates(pages, np, g) : Max(tops) = c[2]
  BY <1>3
<1>5. Found(pages, np, g) = (c[2] - np + 1)..c[2]
  BY <1>4 DEF Found
<1>6. \A p \in (c[2] - np + 1)..c[2] : p \in c[1]..c[2]
  BY <1>1
<1>7. c[2] \in (c[2] - np + 1)..c[2]
  BY <1>1
<1> QED
  BY <1>1, <1>5, <1>6, <1>7

-----------------------------------------------------------------------------
(* The pages there are once memory has been promoted or not. *)
MapOf(p) == HeapPages \cup (IF p THEN PromotePages ELSE {})

(* NoPageLost without its set of blocks: the run's blocks h, the probe's   *)
(* block b and the free pages f share out the map m.                       *)
SharedOut(h, b, f, m) ==
    /\ (UNION h) \cup b \cup f = m
    /\ ((UNION h) \cup b) \cap f = {}
    /\ \A a \in h : b \cap a = {}
    /\ \A a, c \in h : a # c => a \cap c = {}

LEMMA SharedOutIsNoPageLost ==
    ASSUME NEW h, NEW b, NEW f, NEW m, SharedOut(h, b, f, m)
    PROVE  LET blocks == h \cup ({b} \ {{}}) IN
           /\ (UNION blocks) \cup f = m
           /\ (UNION blocks) \cap f = {}
           /\ \A a, c \in blocks : a # c => a \cap c = {}
           /\ b \notin h \ {{}}
<1> DEFINE blocks == h \cup ({b} \ {{}})
<1>1. UNION blocks = (UNION h) \cup b
  <2>1. CASE b = {}
    BY <2>1
  <2>2. CASE b # {}
    <3>1. blocks = h \cup {b}
      BY <2>2
    <3> QED
      BY <3>1
  <2> QED
    BY <2>1, <2>2
<1>2. ASSUME NEW a \in blocks, NEW c \in blocks, a # c PROVE a \cap c = {}
  <2>1. CASE a \in h /\ c \in h
    BY <1>2, <2>1 DEF SharedOut
  <2>2. CASE a = b
    <3>1. c \in h
      BY <1>2, <2>2
    <3> QED
      BY <2>2, <3>1 DEF SharedOut
  <2>3. CASE c = b
    <3>1. a \in h
      BY <1>2, <2>3
    <3>2. b \cap a = {}
      BY <3>1 DEF SharedOut
    <3> QED
      BY <2>3, <3>2
  <2> QED
    BY <1>2, <2>1, <2>2, <2>3
<1>3. b \notin h \ {{}}
  BY DEF SharedOut
<1> QED
  BY <1>1, <1>2, <1>3 DEF SharedOut

(* Where control is decides how many copies have begun and are printed.    *)
RowsInv == \E S : rows \in Seq(S)

ControlInv ==
    /\ RowsInv
    /\ retry \in Seq(BOOLEAN)
    /\ pc = "run" \/ caller = "tick" => copy = 0 /\ Len(rows) = 0
    /\ pc \in {"rung", "release"} => caller \in {"tick", "free", "key"} /\ rung \in 1..Len(Ladder)
    /\ pc \in {"hold", "held"} => copy < Copies /\ Len(rows) = copy
    /\ pc \in {"report", "retry", "retryRelease", "print"} \/ caller \in {"free", "key"}
         => copy >= 1 /\ Len(rows) = copy - 1
    /\ ~mP2RetryDone => retry = <<>>
    /\ pc = "retry" => Len(retry) < Len(RetryRequests) /\ mP2RetryDone
    /\ pc = "retryRelease" => Len(retry) <= Len(RetryRequests) /\ mP2RetryDone

ProbeInv == pc \notin {"release", "retryRelease"} => probeBlock = {}

PagesInv ==
    /\ free \subseteq AllPages /\ probeBlock \subseteq AllPages
    /\ \A a \in held : a \subseteq AllPages
    /\ promoted \in BOOLEAN
    /\ SharedOut(held, probeBlock, free, MapOf(promoted))

CountsInv ==
    /\ mP2FwSeen \in BOOLEAN
    /\ mP2FwTy \in [TypeSlots -> Nat] /\ mP2FwCount \in Nat /\ mP2FwSkip \in Nat

ControlTyped ==
    /\ mP2FwProbe \in BOOLEAN /\ mP2RetryDone \in BOOLEAN
    /\ pc \in {"run", "rung", "release", "report", "retry", "retryRelease", "print", "hold", "held", "done"}
    /\ caller \in {"none", "tick", "free", "key"} /\ rung \in 0..Len(Ladder)
    /\ copy \in 0..Copies /\ Len(rows) \in 0..Copies

(* The inductive invariant. *)
IInv == PagesInv /\ CountsInv /\ ControlTyped /\ ControlInv /\ ProbeInv

LEMMA IInvIsEnough == IInv => HeapInv
<1> SUFFICES ASSUME IInv PROVE TypeOK /\ NoPageLost
  BY DEF HeapInv
<1>1. TypeOK
  <2>1. {promoted, mP2FwProbe, mP2FwSeen, mP2RetryDone} \subseteq BOOLEAN
    BY DEF IInv, PagesInv, CountsInv, ControlTyped
  <2>2. held \subseteq SUBSET (HeapPages \cup PromotePages)
    BY DEF IInv, PagesInv, AllPages
  <2> QED
    BY <2>1, <2>2 DEF TypeOK, IInv, PagesInv, CountsInv, ControlTyped, AllPages
<1>2. NoPageLost
  BY SharedOutIsNoPageLost DEF IInv, NoPageLost, PagesInv, ProbeInv, MapOf
<1> QED
  BY <1>1, <1>2

-----------------------------------------------------------------------------
(* A request takes its block from the free pages and the promoted ones.    *)
LEMMA AsksTakesFreePages ==
    ASSUME CensusAssumption, PagesInv, NEW np \in Nat \ {0}, NEW t \in MemoryType,
           Allocates(np, t)
    PROVE  LET b == Block(np, t) owned == (UNION held) \cup probeBlock IN
           /\ promoted' \in BOOLEAN
           /\ free' \subseteq AllPages /\ b \subseteq AllPages
           /\ b \cap free' = {}
           /\ owned \cap b = {} /\ owned \cap free' = {}
           /\ owned \cup b \cup free' = MapOf(promoted')
           /\ ~Satisfied(np, t) => b = {}
<1> DEFINE b == Block(np, t)
           g == Granule[t]
           searched == MapSearched(np, g)
           owned == (UNION held) \cup probeBlock
           new == IF promoted' /\ ~promoted THEN PromotePages ELSE {}
<1>1. g \in Nat \ {0}
  BY DEF CensusAssumption
<1>2. AllPages \subseteq Nat /\ IsFiniteSet(AllPages)
  BY FS_Union DEF CensusAssumption, AllPages
<1>3. free \subseteq AllPages /\ promoted \in BOOLEAN
  BY DEF PagesInv
<1>4. promoted' \in BOOLEAN /\ searched = free \cup new
  BY <1>3 DEF Allocates, MapSearched
<1>5. searched \in SUBSET AllPages
  BY <1>3, <1>4 DEF AllPages
<1>6. b \subseteq searched /\ (~Satisfied(np, t) => b = {})
  <2>1. CASE ~Satisfied(np, t)
    BY <2>1 DEF Block
  <2>2. CASE Satisfied(np, t)
    <3>1. Candidates(searched, np, g) # {} /\ b = Found(searched, np, g)
      BY <2>2 DEF Satisfied, Block
    <3>2. searched \in SUBSET Nat /\ IsFiniteSet(searched)
      <4> HIDE DEF searched
      <4> QED
        BY <1>2, <1>5, FS_Subset
    <3> HIDE DEF searched, g, b
    <3>3. Found(searched, np, g) \subseteq searched
      BY <1>1, <3>1, <3>2, FoundIsFree
    <3> QED
      BY <2>2, <3>1, <3>3
  <2> QED
    BY <2>1, <2>2
<1>7. free' = searched \ b
  BY DEF Allocates
<1> HIDE DEF searched, b, g
<1>8. owned \cup free = MapOf(promoted) /\ owned \cap free = {}
  BY DEF PagesInv, SharedOut
<1>9. new \cap MapOf(promoted) = {} /\ MapOf(promoted') = MapOf(promoted) \cup new
  <2>1. promoted => promoted'
    BY <1>3 DEF Allocates
  <2> QED
    BY <1>3, <1>4, <2>1 DEF MapOf, CensusAssumption
<1> HIDE DEF owned, new
<1>10. owned \cap searched = {} /\ owned \cup searched = MapOf(promoted')
  BY <1>4, <1>8, <1>9
<1>11. /\ owned \cap b = {} /\ owned \cap free' = {} /\ b \cap free' = {}
       /\ owned \cup b \cup free' = MapOf(promoted')
  BY <1>6, <1>7, <1>10
<1>12. free' \subseteq AllPages /\ b \subseteq AllPages
  BY <1>5, <1>6, <1>7
<1> QED
  BY <1>4, <1>6, <1>11, <1>12 DEF owned, b

(* The census of a refusal counts and writes nothing else. *)
LEMMA CensusKeepsCounts ==
    ASSUME CountsInv, NEW np, NEW t, Asks(np, t)
    PROVE  CountsInv'
<1>1. /\ mP2FwSeen \in BOOLEAN
      /\ mP2FwTy \in [TypeSlots -> Nat] /\ mP2FwCount \in Nat /\ mP2FwSkip \in Nat
  BY DEF CountsInv
<1>2. CASE UNCHANGED fwVars
  BY <1>1, <1>2 DEF fwVars, CountsInv
<1>3. CASE FreeWhy(np, t, MapSearched(np, Granule[t]))
  <2>1. mP2FwSeen' \in BOOLEAN
    BY <1>1, <1>3 DEF FreeWhy
  <2>2. mP2FwCount' \in Nat /\ mP2FwSkip' \in Nat
    BY <1>1, <1>3 DEF FreeWhy
  <2>3. TypeSlot(t) \in TypeSlots
    BY DEF TypeSlot, TypeSlots
  <2>4. mP2FwTy' \in [TypeSlots -> Nat]
    BY <1>1, <1>3, <2>3 DEF FreeWhy
  <2> QED
    BY <2>1, <2>2, <2>4 DEF CountsInv
<1> QED
  BY <1>2, <1>3 DEF Asks

-----------------------------------------------------------------------------
(* The four things that happen to the shares of the map. *)

(* A block of the run is allocated, or refused; *)
LEMMA RunKeepsShares ==
    ASSUME CensusAssumption, PagesInv, NEW np \in Nat \ {0}, NEW t \in MemoryType,
           Allocates(np, t), held' = held \cup ({Block(np, t)} \ {{}}),
           UNCHANGED probeBlock
    PROVE  PagesInv'
<1> DEFINE b == Block(np, t)
           owned == (UNION held) \cup probeBlock
<1>1. /\ promoted' \in BOOLEAN
      /\ free' \subseteq AllPages /\ b \subseteq AllPages
      /\ b \cap free' = {}
      /\ owned \cap b = {} /\ owned \cap free' = {}
      /\ owned \cup b \cup free' = MapOf(promoted')
  BY AsksTakesFreePages
<1>2. held' = held \cup ({b} \ {{}}) /\ probeBlock' = probeBlock
  OBVIOUS
<1> HIDE DEF b
<1>3. UNION held' = (UNION held) \cup b
  <2>1. CASE b = {}
    <3>1. held' = held
      BY <1>2, <2>1
    <3> QED
      BY <2>1, <3>1
  <2>2. CASE b # {}
    <3>1. held' = held \cup {b}
      BY <1>2, <2>2
    <3> QED
      BY <3>1
  <2> QED
    BY <2>1, <2>2
<1>4. \A a \in held' : a \subseteq AllPages /\ probeBlock' \cap a = {}
  BY <1>1, <1>2 DEF PagesInv, SharedOut
<1>5. \A a, c \in held' : a # c => a \cap c = {}
  <2>1. \A a \in held : a \cap b = {}
    BY <1>1
  <2>2. \A a, c \in held : a # c => a \cap c = {}
    BY DEF PagesInv, SharedOut
  <2>3. \A a \in held' : a \in held \/ a = b
    BY <1>2
  <2>4. \A a \in held : b \cap a = {}
    BY <2>1
  <2> QED
    BY <2>1, <2>2, <2>3, <2>4
<1>6. (UNION held') \cup probeBlock' \cup free' = MapOf(promoted)'
  <2>1. MapOf(promoted)' = MapOf(promoted')
    BY DEF MapOf
  <2> QED
    BY <1>1, <1>2, <1>3, <2>1
<1>7. ((UNION held') \cup probeBlock') \cap free' = {}
  BY <1>1, <1>2, <1>3
<1>8. probeBlock' \subseteq AllPages
  BY <1>2 DEF PagesInv
<1> QED
  BY <1>1, <1>4, <1>5, <1>6, <1>7, <1>8 DEF PagesInv, SharedOut, AllPages

(* ... a block of the run is freed; *)
LEMMA FreeKeepsShares ==
    ASSUME PagesInv, NEW a \in held, held' = held \ {a}, CoreFreePages(a),
           UNCHANGED <<promoted, probeBlock>>
    PROVE  PagesInv'
<1>1. free' = free \cup a
  BY DEF CoreFreePages
<1>2. a \cap UNION held' = {} /\ (UNION held') \cup a = UNION held
  BY DEF PagesInv, SharedOut
<1>3. MapOf(promoted)' = MapOf(promoted)
  BY DEF MapOf
<1>4. a \cap probeBlock = {} /\ a \subseteq AllPages
  BY DEF PagesInv, SharedOut
<1>5. (UNION held') \cup probeBlock' \cup free' = MapOf(promoted)'
  BY <1>1, <1>2, <1>3 DEF PagesInv, SharedOut
<1>6. ((UNION held') \cup probeBlock') \cap free' = {}
  BY <1>1, <1>2, <1>4 DEF PagesInv, SharedOut
<1>7. /\ \A x \in held' : x \subseteq AllPages /\ probeBlock' \cap x = {}
      /\ \A x, y \in held' : x # y => x \cap y = {}
  BY DEF PagesInv, SharedOut
<1>8. free' \subseteq AllPages /\ probeBlock' \subseteq AllPages /\ promoted' \in BOOLEAN
  BY <1>1, <1>4 DEF PagesInv
<1> QED
  BY <1>5, <1>6, <1>7, <1>8 DEF PagesInv, SharedOut, AllPages

(* ... a probe takes a block, *)
LEMMA ProbeKeepsShares ==
    ASSUME CensusAssumption, PagesInv, NEW np \in Nat \ {0}, NEW t \in MemoryType,
           probeBlock = {}, Allocates(np, t), probeBlock' = Block(np, t), UNCHANGED held
    PROVE  PagesInv'
<1> DEFINE b == Block(np, t)
           owned == (UNION held) \cup probeBlock
<1>1. /\ promoted' \in BOOLEAN
      /\ free' \subseteq AllPages /\ b \subseteq AllPages
      /\ b \cap free' = {}
      /\ owned \cap b = {} /\ owned \cap free' = {}
      /\ owned \cup b \cup free' = MapOf(promoted')
  BY AsksTakesFreePages
<1>2. probeBlock' = b
  OBVIOUS
<1> HIDE DEF b
<1>3. MapOf(promoted)' = MapOf(promoted')
  BY DEF MapOf
<1>4. \A x \in held' : x \subseteq AllPages /\ probeBlock' \cap x = {}
  BY <1>1, <1>2 DEF PagesInv
<1>5. \A x, y \in held' : x # y => x \cap y = {}
  BY DEF PagesInv, SharedOut
<1>6. /\ (UNION held') \cup probeBlock' \cup free' = MapOf(promoted)'
      /\ ((UNION held') \cup probeBlock') \cap free' = {}
  BY <1>1, <1>2, <1>3
<1> QED
  BY <1>1, <1>2, <1>4, <1>5, <1>6 DEF PagesInv, SharedOut, AllPages

(* ... and gives it back. *)
LEMMA ProbeFreeKeepsShares ==
    ASSUME PagesInv, ProbeFrees, UNCHANGED <<promoted, held>>
    PROVE  PagesInv' /\ probeBlock' = {}
<1>1. free' = free \cup probeBlock /\ probeBlock' = {}
  BY DEF ProbeFrees, CoreFreePages
<1>2. MapOf(promoted)' = MapOf(promoted) /\ UNION held' = UNION held
  BY DEF MapOf
<1>3. (UNION held') \cup probeBlock' \cup free' = MapOf(promoted)'
  BY <1>1, <1>2 DEF PagesInv, SharedOut
<1>4. \A a \in held : a \cap probeBlock = {}
  BY DEF PagesInv, SharedOut
<1>5. ((UNION held') \cup probeBlock') \cap free' = {}
  BY <1>1, <1>4 DEF PagesInv, SharedOut
<1>6. /\ \A x \in held' : x \subseteq AllPages /\ probeBlock' \cap x = {}
      /\ \A x, y \in held' : x # y => x \cap y = {}
  BY <1>1 DEF PagesInv, SharedOut
<1>7. free' \subseteq AllPages /\ probeBlock' \subseteq AllPages /\ promoted' \in BOOLEAN
  BY <1>1 DEF PagesInv
<1> QED
  BY <1>1, <1>3, <1>5, <1>6, <1>7 DEF PagesInv, SharedOut, AllPages

-----------------------------------------------------------------------------
(* A step that leaves control and the copies alone keeps what is said of them. *)
LEMMA ControlStays ==
    ASSUME ControlTyped, ControlInv,
           UNCHANGED <<mP2FwProbe, mP2RetryDone, retry, pc, caller, rung, copy, rows>>
    PROVE  ControlTyped' /\ ControlInv'
<1>1. RowsInv'
  BY DEF ControlInv, RowsInv
<1>2. ControlTyped'
  BY DEF ControlTyped
<1>3. ControlInv'
  BY <1>1 DEF ControlInv
<1> QED
  BY <1>2, <1>3

(* The ladder is entered at its first rung, which there is. *)
LEMMA EntersKeepsControl ==
    ASSUME CensusAssumption, ControlTyped, ControlInv, NEW who, EntersLadder(who),
           UNCHANGED <<mP2RetryDone, retry, rows>>,
           copy' \in 0..Copies,
           \/ who = "tick" /\ copy' = 0 /\ Len(rows) = 0
           \/ who \in {"free", "key"} /\ copy' >= 1 /\ Len(rows) = copy' - 1
    PROVE  ControlTyped' /\ ControlInv'
<1>1. 1 \in 1..Len(Ladder) /\ 1 \in 0..Len(Ladder)
  <2>1. Ladder \in Seq(Nat \ {0}) /\ Ladder # <<>>
    BY DEF CensusAssumption
  <2>2. Len(Ladder) \in Nat /\ Len(Ladder) # 0
    BY <2>1, EmptySeq
  <2> QED
    BY <2>2
<1>2. ControlTyped'
  BY <1>1 DEF ControlTyped, EntersLadder
<1>3. ControlInv'
  <2>1. RowsInv'
    BY DEF ControlInv, RowsInv
  <2> QED
    BY <1>1, <2>1 DEF ControlTyped, ControlInv, EntersLadder
<1> QED
  BY <1>2, <1>3

(* It is left for the caller that is waiting. *)
LEMMA LeavesKeepsControl ==
    ASSUME CensusAssumption, ControlTyped, ControlInv, pc \in {"rung", "release"},
           NEW largest, LeavesLadder(largest), UNCHANGED <<mP2RetryDone, retry>>
    PROVE  ControlTyped' /\ ControlInv' /\ pc' \notin {"release", "retryRelease"}
<1>1. Len(Ladder) \in Nat /\ Copies \in Nat /\ copy \in Nat
  BY DEF CensusAssumption, ControlTyped
<1>2. CASE caller = "tick"
  <2>1. pc' = "run" /\ copy' = copy /\ rows' = rows /\ caller' = "none" /\ rung' = 0
        /\ mP2FwProbe' = FALSE
    BY <1>2 DEF LeavesLadder
  <2>2. RowsInv'
    BY <2>1 DEF ControlInv, RowsInv
  <2>3. ControlTyped'
    <3>1. mP2FwProbe' \in BOOLEAN /\ mP2RetryDone' \in BOOLEAN
      BY <2>1 DEF ControlTyped
    <3>2. rung' \in 0..Len(Ladder) /\ copy' \in 0..Copies /\ Len(rows') \in 0..Copies
      BY <1>1, <2>1 DEF ControlTyped
    <3> QED
      BY <2>1, <3>1, <3>2 DEF ControlTyped
  <2>4. ControlInv'
    BY <1>1, <1>2, <2>1, <2>2 DEF ControlTyped, ControlInv
  <2> QED
    BY <2>1, <2>3, <2>4
<1>3. CASE caller = "free"
  <2>1. pc' = "report" /\ copy' = copy /\ rows' = rows /\ caller' = "none" /\ rung' = 0
        /\ mP2FwProbe' = FALSE
    BY <1>3 DEF LeavesLadder
  <2>2. RowsInv'
    BY <2>1 DEF ControlInv, RowsInv
  <2>3. ControlTyped'
    <3>1. mP2FwProbe' \in BOOLEAN /\ mP2RetryDone' \in BOOLEAN
      BY <2>1 DEF ControlTyped
    <3>2. rung' \in 0..Len(Ladder) /\ copy' \in 0..Copies /\ Len(rows') \in 0..Copies
      BY <1>1, <2>1 DEF ControlTyped
    <3> QED
      BY <2>1, <3>1, <3>2 DEF ControlTyped
  <2>4. ControlInv'
    BY <1>1, <1>3, <2>1, <2>2 DEF ControlTyped, ControlInv
  <2> QED
    BY <2>1, <2>3, <2>4
<1>4. CASE caller = "key"
  <2>1. /\ pc' = (IF copy < Copies THEN "hold" ELSE "done")
        /\ copy' = copy /\ caller' = "none" /\ rung' = 0 /\ mP2FwProbe' = FALSE
        /\ rows' = Append(rows, [row EXCEPT !.key = largest])
    BY <1>4 DEF LeavesLadder
  <2>2. PICK S : rows \in Seq(S)
    BY DEF ControlInv, RowsInv
  <2> DEFINE x == [row EXCEPT !.key = largest]
             T == S \cup {x}
  <2>3. rows \in Seq(T) /\ x \in T
    BY <2>2
  <2> HIDE DEF x, T
  <2>4. Append(rows, x) \in Seq(T) /\ Len(Append(rows, x)) = Len(rows) + 1
    BY <2>3
  <2>5. rows' = Append(rows, x)
    BY <2>1 DEF x
  <2>6. copy >= 1 /\ Len(rows) = copy - 1
    BY <1>4 DEF ControlInv
  <2>7. Len(rows') = copy /\ RowsInv'
    <3>1. Len(rows') = copy
      BY <1>1, <2>4, <2>5, <2>6
    <3>2. rows' \in Seq(T)
      BY <2>4, <2>5
    <3> QED
      BY <3>1, <3>2 DEF RowsInv
  <2>8. ControlTyped'
    <3>1. mP2FwProbe' \in BOOLEAN /\ mP2RetryDone' \in BOOLEAN
      BY <2>1 DEF ControlTyped
    <3>2. rung' \in 0..Len(Ladder) /\ copy' \in 0..Copies /\ Len(rows') \in 0..Copies
      BY <1>1, <2>1, <2>7 DEF ControlTyped
    <3>3. pc' \in {"hold", "done"} /\ caller' = "none"
      BY <2>1
    <3> QED
      BY <3>1, <3>2, <3>3 DEF ControlTyped
  <2>9. ControlInv'
    BY <1>1, <2>1, <2>6, <2>7 DEF ControlTyped, ControlInv
  <2> QED
    BY <2>1, <2>8, <2>9
<1> QED
  BY <1>2, <1>3, <1>4 DEF LeavesLadder

-----------------------------------------------------------------------------
LEMMA InitEstablishes == ASSUME CensusAssumption, Init PROVE IInv
<1>1. PagesInv
  <2>1. MapOf(promoted) = HeapPages
    BY DEF Init, MapOf
  <2>2. (UNION held) \cup probeBlock = {}
    BY DEF Init
  <2> QED
    BY <2>1, <2>2 DEF Init, PagesInv, SharedOut, AllPages
<1>2. CountsInv
  BY DEF Init, CountsInv
<1>3. ControlTyped /\ ControlInv
  <2>1. Len(Ladder) \in Nat /\ Copies \in Nat
    BY DEF CensusAssumption
  <2>2. rows = <<>> /\ retry = <<>> /\ pc = "run" /\ caller = "none" /\ rung = 0 /\ copy = 0
        /\ mP2FwProbe = FALSE /\ mP2RetryDone = FALSE
    BY DEF Init
  <2>3. RowsInv /\ Len(rows) = 0
    <3>1. rows \in Seq({}) /\ Len(rows) = 0
      BY <2>2
    <3> QED
      BY <3>1 DEF RowsInv
  <2>4. ControlTyped
    <3>1. mP2FwProbe \in BOOLEAN /\ mP2RetryDone \in BOOLEAN
      BY <2>2
    <3>2. rung \in 0..Len(Ladder) /\ copy \in 0..Copies /\ Len(rows) \in 0..Copies
      BY <2>1, <2>2, <2>3
    <3> QED
      BY <2>2, <3>1, <3>2 DEF ControlTyped
  <2>5. ControlInv
    BY <2>1, <2>2, <2>3 DEF ControlInv
  <2> QED
    BY <2>4, <2>5
<1>4. ProbeInv
  BY DEF Init, ProbeInv
<1> QED
  BY <1>1, <1>2, <1>3, <1>4 DEF IInv

(* What is asked for is a request. *)
LEMMA RungAsks ==
    ASSUME CensusAssumption, ControlInv, pc = "rung"
    PROVE  Ladder[rung] \in Nat \ {0} /\ LadderType \in MemoryType
BY ElementOfSeq DEF CensusAssumption, ControlInv

LEMMA RetryAsksARequest ==
    ASSUME CensusAssumption, ControlInv, pc = "retry"
    PROVE  RetryRequests[Len(retry) + 1] \in Request
<1>1. Len(retry) \in Nat /\ Len(retry) + 1 \in 1..Len(RetryRequests)
  BY DEF ControlInv, CensusAssumption
<1> QED
  BY <1>1, ElementOfSeq DEF CensusAssumption

-----------------------------------------------------------------------------
(* One lemma for each action, or for the actions that do the same to the   *)
(* state the invariant is about.                                           *)
LEMMA RunRequestsKeep ==
    ASSUME CensusAssumption, IInv, RunAllocates \/ Callback
    PROVE  IInv'
<1>1. PagesInv /\ CountsInv /\ ControlTyped /\ ControlInv /\ ProbeInv
  BY DEF IInv
<1>2. PICK np \in Nat \ {0}, t \in MemoryType :
        Asks(np, t) /\ held' = held \cup ({Block(np, t)} \ {{}})
  <2>1. CASE RunAllocates
    <3>1. PICK r \in RunRequests :
            Asks(r.pages, r.type) /\ held' = held \cup ({Block(r.pages, r.type)} \ {{}})
      BY <2>1 DEF RunAllocates
    <3>2. r.pages \in Nat \ {0} /\ r.type \in MemoryType
      BY DEF CensusAssumption, Request
    <3> QED
      BY <3>1, <3>2
  <2>2. CASE Callback
    <3>1. PICK np \in CallbackSizes :
            Asks(np, LadderType) /\ held' = held \cup ({Block(np, LadderType)} \ {{}})
      BY <2>2 DEF Callback
    <3>2. np \in Nat \ {0} /\ LadderType \in MemoryType
      BY DEF CensusAssumption
    <3> QED
      BY <3>1, <3>2
  <2> QED
    BY <2>1, <2>2
<1>3. UNCHANGED <<probeBlock, mP2FwProbe, mP2RetryDone, retry, pc, caller, rung, copy, rows>>
  BY DEF RunAllocates, Callback
<1>4. PagesInv'
  <2>1. Allocates(np, t)
    BY <1>2 DEF Asks
  <2> QED
    BY <1>1, <1>2, <1>3, <2>1, RunKeepsShares
<1>5. CountsInv'
  BY <1>1, <1>2, CensusKeepsCounts
<1>6. ControlTyped' /\ ControlInv'
  BY <1>1, <1>3, ControlStays
<1>7. ProbeInv'
  BY <1>1, <1>3 DEF ProbeInv
<1> QED
  BY <1>4, <1>5, <1>6, <1>7 DEF IInv

LEMMA RunFreesKeeps == ASSUME IInv, RunFrees PROVE IInv'
<1>1. PagesInv /\ CountsInv /\ ControlTyped /\ ControlInv /\ ProbeInv
  BY DEF IInv
<1>2. PICK a \in held : held' = held \ {a} /\ CoreFreePages(a)
  BY DEF RunFrees
<1>3. UNCHANGED <<promoted, probeBlock, mP2FwProbe, mP2RetryDone, retry, pc, caller, rung,
                  copy, rows>>
  BY DEF RunFrees
<1>4. PagesInv'
  BY <1>1, <1>2, <1>3, FreeKeepsShares
<1>5. CountsInv'
  BY <1>1 DEF CountsInv, RunFrees, fwVars
<1>6. ControlTyped' /\ ControlInv'
  BY <1>1, <1>3, ControlStays
<1>7. ProbeInv'
  BY <1>1, <1>3 DEF ProbeInv
<1> QED
  BY <1>4, <1>5, <1>6, <1>7 DEF IInv

(* What a step that touches no page and no count leaves as it was. *)
LEMMA PagesStay ==
    ASSUME PagesInv, CountsInv, UNCHANGED <<heap, held, probeBlock, fwVars>>
    PROVE  PagesInv' /\ CountsInv'
<1>1. UNCHANGED <<free, promoted>>
  BY DEF heap
<1>2. MapOf(promoted)' = MapOf(promoted)
  BY <1>1 DEF MapOf
<1>3. PagesInv'
  BY <1>1, <1>2 DEF PagesInv, SharedOut, AllPages
<1>4. CountsInv'
  BY DEF CountsInv, fwVars
<1> QED
  BY <1>3, <1>4

LEMMA EntriesKeep ==
    ASSUME CensusAssumption, IInv, Tick \/ DigestBegins \/ PrintRetry
    PROVE  IInv'
<1>1. PagesInv /\ CountsInv /\ ControlTyped /\ ControlInv /\ ProbeInv
  BY DEF IInv
<1>2. UNCHANGED <<heap, held, probeBlock, fwVars, mP2RetryDone, retry, rows>>
  BY DEF Tick, DigestBegins, PrintRetry
<1>3. PICK who \in {"tick", "free", "key"} :
        /\ EntersLadder(who)
        /\ copy' \in 0..Copies
        /\ \/ who = "tick" /\ copy' = 0 /\ Len(rows) = 0
           \/ who \in {"free", "key"} /\ copy' >= 1 /\ Len(rows) = copy' - 1
  <2>0. Copies \in Nat \ {0} /\ copy \in 0..Copies
    BY <1>1 DEF CensusAssumption, ControlTyped
  <2>1. CASE Tick
    <3>1. EntersLadder("tick") /\ copy' = 0 /\ Len(rows) = 0
      BY <1>1, <2>1 DEF Tick, ControlInv
    <3> QED
      BY <2>0, <3>1
  <2>2. CASE DigestBegins
    <3>1. EntersLadder("free") /\ copy' = copy + 1 /\ Len(rows) = copy /\ copy < Copies
      BY <1>1, <2>0, <2>2 DEF DigestBegins, ControlInv
    <3>2. copy' \in 0..Copies /\ copy' >= 1 /\ Len(rows) = copy' - 1
      BY <2>0, <3>1
    <3> QED
      BY <3>1, <3>2
  <2>3. CASE PrintRetry
    <3>1. EntersLadder("key") /\ copy' = copy /\ copy >= 1 /\ Len(rows) = copy - 1
      BY <1>1, <2>3 DEF PrintRetry, ControlInv
    <3> QED
      BY <2>0, <3>1
  <2> QED
    BY <2>1, <2>2, <2>3
<1>4. PagesInv' /\ CountsInv'
  BY <1>1, <1>2, PagesStay
<1>5. ControlTyped' /\ ControlInv'
  BY <1>1, <1>2, <1>3, EntersKeepsControl
<1>6. ProbeInv'
  <2>1. probeBlock = {}
    BY <1>1 DEF ProbeInv, Tick, DigestBegins, PrintRetry
  <2> QED
    BY <1>2, <2>1 DEF ProbeInv
<1> QED
  BY <1>4, <1>5, <1>6 DEF IInv

LEMMA HoldAndReportKeep ==
    ASSUME CensusAssumption, IInv, P2Hold \/ FreeWhyReport
    PROVE  IInv'
<1>1. PagesInv /\ CountsInv /\ ControlTyped /\ ControlInv /\ ProbeInv
  BY DEF IInv
<1>2. UNCHANGED <<heap, held, probeBlock, fwVars, mP2FwProbe, retry, caller, rung, copy, rows>>
  BY DEF P2Hold, FreeWhyReport
<1>3. PagesInv' /\ CountsInv'
  BY <1>1, <1>2, PagesStay
<1>4. RowsInv'
  BY <1>1, <1>2 DEF ControlInv, RowsInv
<1>5. CASE P2Hold
  <2>1. pc = "hold" /\ pc' = "held" /\ mP2RetryDone' = mP2RetryDone
    BY <1>5 DEF P2Hold
  <2>2. ControlTyped'
    BY <1>1, <1>2, <2>1 DEF ControlTyped
  <2>3. ControlInv'
    BY <1>1, <1>2, <1>4, <2>1 DEF ControlInv
  <2> QED
    BY <1>1, <1>2, <1>3, <2>1, <2>2, <2>3 DEF IInv, ProbeInv
<1>6. CASE FreeWhyReport
  <2>1. /\ pc = "report" /\ pc' = (IF mP2RetryDone THEN "print" ELSE "retry")
        /\ mP2RetryDone' = TRUE
    BY <1>6 DEF FreeWhyReport
  <2>2. ControlTyped'
    BY <1>1, <1>2, <2>1 DEF ControlTyped
  <2>3. ~mP2RetryDone => Len(retry) < Len(RetryRequests)
    <3>1. Len(RetryRequests) \in Nat /\ Len(RetryRequests) # 0
      BY EmptySeq DEF CensusAssumption
    <3>2. ~mP2RetryDone => Len(retry) = 0
      BY <1>1 DEF ControlInv
    <3> QED
      BY <3>1, <3>2
  <2>4. ControlInv'
    BY <1>1, <1>2, <1>4, <2>1, <2>3 DEF ControlInv
  <2> QED
    BY <1>1, <1>2, <1>3, <2>1, <2>2, <2>4 DEF IInv, ProbeInv
<1> QED
  BY <1>5, <1>6

LEMMA RungSucceedsKeeps ==
    ASSUME CensusAssumption, IInv, RungSucceeds
    PROVE  IInv'
<1>1. PagesInv /\ CountsInv /\ ControlTyped /\ ControlInv /\ ProbeInv
  BY DEF IInv
<1>2. /\ pc = "rung" /\ pc' = "release"
      /\ Asks(Ladder[rung], LadderType)
      /\ probeBlock' = Block(Ladder[rung], LadderType)
      /\ UNCHANGED <<held, mP2FwProbe, mP2RetryDone, retry, caller, rung, copy, rows>>
  BY DEF RungSucceeds
<1>3. Ladder[rung] \in Nat \ {0} /\ LadderType \in MemoryType
  BY <1>1, <1>2, RungAsks
<1>4. PagesInv'
  <2>1. probeBlock = {}
    BY <1>1, <1>2 DEF ProbeInv
  <2>2. Allocates(Ladder[rung], LadderType)
    BY <1>2 DEF Asks
  <2> QED
    BY <1>1, <1>2, <1>3, <2>1, <2>2, ProbeKeepsShares
<1>5. CountsInv'
  BY <1>1, <1>2, CensusKeepsCounts
<1>6. RowsInv'
  BY <1>1, <1>2 DEF ControlInv, RowsInv
<1>7. ControlTyped'
  BY <1>1, <1>2 DEF ControlTyped
<1>8. ControlInv'
  BY <1>1, <1>2, <1>6 DEF ControlInv
<1> QED
  BY <1>2, <1>4, <1>5, <1>7, <1>8 DEF IInv, ProbeInv

LEMMA RungReleasesKeeps ==
    ASSUME CensusAssumption, IInv, RungReleases
    PROVE  IInv'
<1>1. PagesInv /\ CountsInv /\ ControlTyped /\ ControlInv /\ ProbeInv
  BY DEF IInv
<1>2. /\ pc = "release" /\ ProbeFrees /\ LeavesLadder(Ladder[rung])
      /\ UNCHANGED <<promoted, held, fwVars, mP2RetryDone, retry>>
  BY DEF RungReleases
<1>3. PagesInv' /\ probeBlock' = {}
  BY <1>1, <1>2, ProbeFreeKeepsShares
<1>4. CountsInv'
  BY <1>1, <1>2 DEF CountsInv, fwVars
<1>5. ControlTyped' /\ ControlInv'
  BY <1>1, <1>2, LeavesKeepsControl
<1> QED
  BY <1>3, <1>4, <1>5 DEF IInv, ProbeInv

LEMMA RungFailsKeeps ==
    ASSUME CensusAssumption, IInv, RungFails
    PROVE  IInv'
<1>1. PagesInv /\ CountsInv /\ ControlTyped /\ ControlInv /\ ProbeInv
  BY DEF IInv
<1>2. /\ pc = "rung" /\ ~Satisfied(Ladder[rung], LadderType)
      /\ Asks(Ladder[rung], LadderType)
      /\ UNCHANGED <<held, probeBlock, mP2RetryDone, retry>>
  BY DEF RungFails
<1>3. Ladder[rung] \in Nat \ {0} /\ LadderType \in MemoryType
  BY <1>1, <1>2, RungAsks
<1>4. probeBlock = {} /\ probeBlock' = {}
  BY <1>1, <1>2 DEF ProbeInv
<1>5. PagesInv'
  <2>1. Allocates(Ladder[rung], LadderType)
    BY <1>2 DEF Asks
  <2>2. Block(Ladder[rung], LadderType) = {}
    BY <1>2 DEF Block
  <2> QED
    BY <1>1, <1>2, <1>3, <1>4, <2>1, <2>2, ProbeKeepsShares
<1>6. CountsInv'
  BY <1>1, <1>2, CensusKeepsCounts
<1>7. ControlTyped' /\ ControlInv'
  <2>1. CASE LastRung
    <3>1. LeavesLadder(0)
      BY <2>1 DEF RungFails
    <3> QED
      BY <1>1, <1>2, <3>1, LeavesKeepsControl
  <2>2. CASE ~LastRung
    <3>1. /\ rung' = rung + 1
          /\ UNCHANGED <<mP2FwProbe, pc, caller, copy, row, rows>>
      BY <2>2 DEF RungFails
    <3>2. Len(Ladder) \in Nat /\ rung \in 1..Len(Ladder) /\ rung # Len(Ladder)
      BY <1>1, <1>2, <2>2 DEF CensusAssumption, ControlInv, LastRung
    <3>3. rung' \in 1..Len(Ladder) /\ rung' \in 0..Len(Ladder)
      BY <3>1, <3>2
    <3>4. RowsInv'
      BY <1>1, <3>1 DEF ControlInv, RowsInv
    <3>5. ControlTyped'
      BY <1>1, <1>2, <3>1, <3>3 DEF ControlTyped
    <3>6. ControlInv'
      BY <1>1, <1>2, <3>1, <3>3, <3>4 DEF ControlInv
    <3> QED
      BY <3>5, <3>6
  <2> QED
    BY <2>1, <2>2
<1> QED
  BY <1>4, <1>5, <1>6, <1>7 DEF IInv, ProbeInv

LEMMA RetryAsksKeeps ==
    ASSUME CensusAssumption, IInv, RetryAsks
    PROVE  IInv'
<1> DEFINE r == RetryRequests[Len(retry) + 1]
<1>1. PagesInv /\ CountsInv /\ ControlTyped /\ ControlInv /\ ProbeInv
  BY DEF IInv
<1>2. /\ pc = "retry" /\ pc' = "retryRelease"
      /\ Asks(r.pages, r.type) /\ probeBlock' = Block(r.pages, r.type)
      /\ retry' = Append(retry, Satisfied(r.pages, r.type))
      /\ UNCHANGED <<held, mP2FwProbe, mP2RetryDone, caller, rung, copy, rows>>
  BY DEF RetryAsks
<1>3. r.pages \in Nat \ {0} /\ r.type \in MemoryType
  BY <1>1, <1>2, RetryAsksARequest DEF Request
<1>4. PagesInv'
  <2>1. probeBlock = {}
    BY <1>1, <1>2 DEF ProbeInv
  <2>2. Allocates(r.pages, r.type)
    BY <1>2 DEF Asks
  <2> HIDE DEF r
  <2> QED
    BY <1>1, <1>2, <1>3, <2>1, <2>2, ProbeKeepsShares
<1>5. CountsInv'
  BY <1>1, <1>2, CensusKeepsCounts
<1>6. RowsInv'
  BY <1>1, <1>2 DEF ControlInv, RowsInv
<1>7. ControlTyped'
  BY <1>1, <1>2 DEF ControlTyped
<1>8. retry' \in Seq(BOOLEAN) /\ Len(retry') = Len(retry) + 1
  <2>1. Satisfied(r.pages, r.type) \in BOOLEAN
    BY DEF Satisfied
  <2>2. retry \in Seq(BOOLEAN)
    BY <1>1 DEF ControlInv
  <2> DEFINE ok == Satisfied(r.pages, r.type)
  <2>3. ok \in BOOLEAN /\ retry' = Append(retry, ok)
    BY <1>2, <2>1
  <2> HIDE DEF ok
  <2> QED
    BY <2>2, <2>3
<1>9. Len(retry') <= Len(RetryRequests) /\ mP2RetryDone
  <2>1. Len(retry) < Len(RetryRequests) /\ mP2RetryDone
    BY <1>1, <1>2 DEF ControlInv
  <2>2. Len(RetryRequests) \in Nat /\ Len(retry) \in Nat
    BY <1>1 DEF CensusAssumption, ControlInv
  <2> QED
    BY <1>8, <2>1, <2>2
<1> HIDE DEF r
<1>10. ControlInv'
  BY <1>1, <1>2, <1>6, <1>8, <1>9 DEF ControlInv
<1> QED
  BY <1>2, <1>4, <1>5, <1>7, <1>10 DEF IInv, ProbeInv

LEMMA RetryReleasesKeeps ==
    ASSUME CensusAssumption, IInv, RetryReleases
    PROVE  IInv'
<1>1. PagesInv /\ CountsInv /\ ControlTyped /\ ControlInv /\ ProbeInv
  BY DEF IInv
<1>2. /\ pc = "retryRelease" /\ ProbeFrees
      /\ pc' = (IF Len(retry) = Len(RetryRequests) THEN "print" ELSE "retry")
      /\ UNCHANGED <<promoted, held, mP2FwProbe, fwVars, mP2RetryDone, retry, caller, rung,
                     copy, rows>>
  BY DEF RetryReleases
<1>3. PagesInv' /\ probeBlock' = {}
  BY <1>1, <1>2, ProbeFreeKeepsShares
<1>4. CountsInv'
  BY <1>1, <1>2 DEF CountsInv, fwVars
<1>5. RowsInv'
  BY <1>1, <1>2 DEF ControlInv, RowsInv
<1>6. ControlTyped'
  BY <1>1, <1>2 DEF ControlTyped
<1>7. Len(retry) # Len(RetryRequests) => Len(retry) < Len(RetryRequests)
  <2>1. Len(RetryRequests) \in Nat /\ Len(retry) \in Nat /\ Len(retry) <= Len(RetryRequests)
    BY <1>1, <1>2 DEF CensusAssumption, ControlInv
  <2> QED
    BY <2>1
<1>8. ControlInv'
  BY <1>1, <1>2, <1>5, <1>7 DEF ControlInv
<1> QED
  BY <1>3, <1>4, <1>6, <1>8 DEF IInv, ProbeInv

LEMMA StutterKeeps == ASSUME IInv, UNCHANGED vars PROVE IInv'
<1>1. PagesInv /\ CountsInv /\ ControlTyped /\ ControlInv /\ ProbeInv
  BY DEF IInv
<1>2. UNCHANGED <<heap, held, probeBlock, fwVars, mP2FwProbe, mP2RetryDone, retry, pc, caller,
                  rung, copy, rows>>
  BY DEF vars
<1>3. PagesInv' /\ CountsInv'
  BY <1>1, <1>2, PagesStay
<1>4. ControlTyped' /\ ControlInv'
  BY <1>1, <1>2, ControlStays
<1> QED
  BY <1>1, <1>2, <1>3, <1>4 DEF IInv, ProbeInv

-----------------------------------------------------------------------------
LEMMA IInvStep == ASSUME IInv, [Next]_vars PROVE IInv'
<1>1. CASE RunAllocates \/ Callback
  BY <1>1, CensusAssumption, RunRequestsKeep
<1>2. CASE RunFrees
  BY <1>2, RunFreesKeeps
<1>3. CASE Tick \/ DigestBegins \/ PrintRetry
  BY <1>3, CensusAssumption, EntriesKeep
<1>4. CASE P2Hold \/ FreeWhyReport
  BY <1>4, CensusAssumption, HoldAndReportKeep
<1>5. CASE RungSucceeds
  BY <1>5, CensusAssumption, RungSucceedsKeeps
<1>6. CASE RungReleases
  BY <1>6, CensusAssumption, RungReleasesKeeps
<1>7. CASE RungFails
  BY <1>7, CensusAssumption, RungFailsKeeps
<1>8. CASE RetryAsks
  BY <1>8, CensusAssumption, RetryAsksKeeps
<1>9. CASE RetryReleases
  BY <1>9, CensusAssumption, RetryReleasesKeeps
<1>10. CASE Done \/ UNCHANGED vars
  BY <1>10, StutterKeeps DEF Done
<1> QED
  BY <1>1, <1>2, <1>3, <1>4, <1>5, <1>6, <1>7, <1>8, <1>9, <1>10 DEF Next, Instrument

(* The heap of every run: whatever the map, the ladder, the cached requests *)
(* and the callbacks between two steps, each page is free or in one block,  *)
(* the probes of P2LargestAlloc and P2Retry give back what they take, and   *)
(* no more copies are printed than there are.                               *)
THEOREM HeapIsKept == Spec => []HeapInv
<1>1. Init => IInv
  BY CensusAssumption, InitEstablishes
<1>2. IInv /\ [Next]_vars => IInv'
  BY IInvStep
<1>3. IInv => HeapInv
  BY IInvIsEnough
<1> QED
  BY <1>1, <1>2, <1>3, PTL DEF Spec

-----------------------------------------------------------------------------
(* The rungs go down. *)
LEMMA LadderFalls ==
    ASSUME CensusAssumption, NEW i \in 1..Len(Ladder), NEW j \in 1..Len(Ladder), i < j
    PROVE  Ladder[i] > Ladder[j]
<1> DEFINE high == {k \in 1..Len(Ladder) : i < k /\ ~(Ladder[i] > Ladder[k])}
<1>1. /\ Len(Ladder) \in Nat
      /\ \A k \in 1..Len(Ladder) : Ladder[k] \in Nat \ {0}
      /\ \A k \in 1..(Len(Ladder) - 1) : Ladder[k] > Ladder[k + 1]
  BY ElementOfSeq DEF CensusAssumption
<1>2. SUFFICES ASSUME high # {} PROVE FALSE
  OBVIOUS
<1>3. high \in SUBSET Int /\ IsFiniteSet(high)
  <2>1. IsFiniteSet(1..Len(Ladder)) /\ high \in SUBSET (1..Len(Ladder))
    BY <1>1, FS_Interval
  <2>2. high \in SUBSET Int
    BY <1>1
  <2> HIDE DEF high
  <2> QED
    BY <2>1, <2>2, FS_Subset
<1>4. PICK k \in high : \A m \in high : k <= m
  <2> HIDE DEF high
  <2> QED
    BY <1>2, <1>3, MinIsThere
<1>5. k - 1 \in 1..Len(Ladder) /\ k - 1 \notin high /\ k - 1 \in 1..(Len(Ladder) - 1)
  BY <1>1, <1>4
<1>6. Ladder[k - 1] > Ladder[k]
  <2>1. Ladder[k - 1] > Ladder[(k - 1) + 1]
    BY <1>1, <1>5
  <2>2. (k - 1) + 1 = k
    BY <1>1, <1>4
  <2> QED
    BY <2>1, <2>2
<1>7. Ladder[i] >= Ladder[k - 1]
  <2>1. CASE k - 1 = i
    BY <1>1, <2>1
  <2>2. CASE k - 1 # i
    <3>1. k \in Int /\ i \in Int /\ i < k
      BY <1>3, <1>4
    <3>2. i < k - 1
      BY <2>2, <3>1
    <3>3. Ladder[i] > Ladder[k - 1]
      BY <1>5, <3>2
    <3>4. Ladder[i] \in Nat /\ Ladder[k - 1] \in Nat
      BY <1>1, <1>5
    <3> QED
      BY <3>3, <3>4
  <2> QED
    BY <2>1, <2>2
<1>8. Ladder[i] \in Nat /\ Ladder[k] \in Nat /\ Ladder[k - 1] \in Nat
  <2>1. k \in 1..Len(Ladder) /\ k - 1 \in 1..Len(Ladder)
    BY <1>4, <1>5
  <2> QED
    BY <1>1, <2>1
<1>9. ~(Ladder[i] > Ladder[k])
  BY <1>4
<1> DEFINE a == Ladder[i]
           b == Ladder[k - 1]
           c == Ladder[k]
<1>10. a \in Nat /\ b \in Nat /\ c \in Nat /\ a >= b /\ b > c /\ ~(a > c)
  BY <1>6, <1>7, <1>8, <1>9
<1> HIDE DEF a, b, c
<1> QED
  BY <1>10

(* Free pages that follow each other are in one run. *)
LEMMA RunAround ==
    ASSUME NEW pages \in SUBSET Nat, IsFiniteSet(pages), NEW f \in Nat, NEW l \in Nat, f <= l,
           \A p \in f..l : p \in pages
    PROVE  \E r \in Runs(pages) : r[1] <= f /\ l <= r[2]
<1> DEFINE starts == {p \in pages : p <= f /\ p - 1 \notin pages}
           ends(s) == {p \in pages : p >= s /\ p + 1 \notin pages}
           gap(s)  == {p \in s..f : p \notin pages}
<1>0. \A p \in pages : p \in Nat /\ p \in Int
  OBVIOUS
<1>1. starts # {} /\ starts \in SUBSET Int /\ IsFiniteSet(starts)
  <2>1. pages # {} /\ pages \in SUBSET Int
    BY <1>0
  <2>2. PICK m \in pages : \A p \in pages : m <= p
    BY <2>1, MinIsThere
  <2>3. m \in starts
    BY <1>0, <2>2
  <2>4. starts \in SUBSET pages /\ starts \in SUBSET Int
    BY <1>0
  <2> HIDE DEF starts
  <2> QED
    BY <2>3, <2>4, FS_Subset
<1>2. PICK s \in starts : \A p \in starts : s >= p
  <2> HIDE DEF starts
  <2> QED
    BY <1>1, MaxIsThere
<1>3. s \in Nat /\ s <= f /\ s \in pages /\ s - 1 \notin pages
  BY <1>0, <1>2
<1>4. gap(s) = {}
  <2>1. SUFFICES ASSUME gap(s) # {} PROVE FALSE
    OBVIOUS
  <2>2. gap(s) \in SUBSET Int /\ IsFiniteSet(gap(s))
    <3>1. IsFiniteSet(s..f)
      BY <1>3, FS_Interval
    <3>2. gap(s) \in SUBSET (s..f)
      OBVIOUS
    <3>3. gap(s) \in SUBSET Int
      BY <1>3
    <3> HIDE DEF gap
    <3> QED
      BY <3>1, <3>2, <3>3, FS_Subset
  <2>3. PICK h \in gap(s) : \A p \in gap(s) : h >= p
    <3> HIDE DEF gap
    <3> QED
      BY <2>1, <2>2, MaxIsThere
  <2>4. h \in Int /\ h >= s /\ h < f /\ h \notin pages
    BY <1>3, <2>3
  <2>5. h + 1 \in pages
    BY <1>3, <2>3, <2>4
  <2>6. h + 1 \in starts
    BY <2>4, <2>5
  <2> QED
    BY <1>2, <1>3, <2>4, <2>6
<1>5. \A p \in s..l : p \in pages
  <2> TAKE p \in s..l
  <2>1. CASE p <= f
    BY <1>3, <1>4, <2>1
  <2>2. CASE p > f
    BY <2>2
  <2> QED
    BY <1>3, <2>1, <2>2
<1>6. <<s, Min(ends(s))>> \in Runs(pages)
  BY <1>3 DEF Runs
<1>7. Min(ends(s)) \in pages /\ Min(ends(s)) >= s /\ Min(ends(s)) + 1 \notin pages
  <2>1. ends(s) \in SUBSET Int /\ IsFiniteSet(ends(s))
    <3>1. ends(s) \in SUBSET pages /\ ends(s) \in SUBSET Int
      BY <1>0
    <3> HIDE DEF ends
    <3> QED
      BY <3>1, FS_Subset
  <2>2. ends(s) # {}
    <3>1. pages # {} /\ pages \in SUBSET Int
      BY <1>0, <1>3
    <3>2. PICK m \in pages : \A p \in pages : m >= p
      BY <3>1, MaxIsThere
    <3>3. m + 1 \notin pages /\ m >= s
      BY <1>0, <1>3, <3>2
    <3> QED
      BY <3>3
  <2>3. Min(ends(s)) \in ends(s)
    <3> HIDE DEF ends
    <3> QED
      BY <2>1, <2>2, MinIsThere
  <2> QED
    BY <2>3
<1> DEFINE e == Min(ends(s))
<1>8. e \in pages /\ e >= s /\ e + 1 \notin pages /\ <<s, e>> \in Runs(pages)
  BY <1>6, <1>7
<1> HIDE DEF e
<1>9. l <= e
  BY <1>0, <1>3, <1>5, <1>8
<1> QED
  BY <1>3, <1>8, <1>9

(* A run that ends later is clipped later. *)
LEMMA ClipGrows ==
    ASSUME NEW l \in Nat, NEW m \in Nat, l <= m, NEW g \in Nat \ {0}
    PROVE  ((l + 1) \div g) * g <= ((m + 1) \div g) * g
<1> DEFINE a == (l + 1) \div g
           b == (m + 1) \div g
<1>1. a \in Int /\ g * a <= l + 1 /\ l + 1 < g * a + g
  OBVIOUS
<1>2. b \in Int /\ g * b <= m + 1 /\ m + 1 < g * b + g
  OBVIOUS
<1> HIDE DEF a, b
<1>3. a <= b
  <2>1. SUFFICES ASSUME b + 1 <= a PROVE FALSE
    BY <1>1, <1>2
  <2>2. g * (b + 1) <= g * a
    BY <1>1, <1>2, <2>1
  <2>3. g * (b + 1) = g * b + g
    BY <1>2
  <2> QED
    BY <1>1, <1>2, <2>2, <2>3
<1>4. a * g <= b * g
  BY <1>1, <1>2, <1>3
<1> QED
  BY <1>4 DEF a, b

(* More free pages never hide a run that was long enough. *)
LEMMA FitsGrows ==
    ASSUME NEW S \in SUBSET Nat, IsFiniteSet(S), NEW T \in SUBSET Nat, IsFiniteSet(T),
           S \subseteq T, NEW np \in Nat \ {0}, NEW g \in Nat \ {0}, Candidates(S, np, g) # {}
    PROVE  Candidates(T, np, g) # {}
<1>1. PICK r \in Runs(S) : Clip(r, g)[2] >= Clip(r, g)[1] /\ Size(Clip(r, g)) >= np
  BY DEF Candidates, Usable
<1>2. /\ r = <<r[1], r[2]>>
      /\ r[1] \in S /\ r[2] \in S /\ r[1] <= r[2]
      /\ \A p \in r[1]..r[2] : p \in S
  BY RunsAreFree
<1>3. r[1] \in Nat /\ r[2] \in Nat /\ \A p \in r[1]..r[2] : p \in T
  BY <1>2
<1>4. PICK q \in Runs(T) : q[1] <= r[1] /\ r[2] <= q[2]
  BY <1>2, <1>3, RunAround
<1>5. q = <<q[1], q[2]>> /\ q[1] \in Nat /\ q[2] \in Nat
  <2>1. q = <<q[1], q[2]>> /\ q[1] \in T /\ q[2] \in T
    BY RunsAreFree
  <2> QED
    BY <2>1
<1>6. /\ Clip(r, g)[1] = r[1] /\ Clip(r, g)[2] = ((r[2] + 1) \div g) * g - 1
      /\ Clip(q, g)[1] = q[1] /\ Clip(q, g)[2] = ((q[2] + 1) \div g) * g - 1
  BY DEF Clip
<1>7. ((r[2] + 1) \div g) * g <= ((q[2] + 1) \div g) * g
  BY <1>3, <1>4, <1>5, ClipGrows
<1>8. Clip(r, g)[2] \in Int /\ Clip(q, g)[2] \in Int
  BY <1>2, <1>3, <1>5, ClipShortens
<1>9. Clip(r, g)[2] <= Clip(q, g)[2]
  <2> DEFINE x == ((r[2] + 1) \div g) * g
             y == ((q[2] + 1) \div g) * g
  <2>1. x \in Int /\ y \in Int /\ x <= y
    <3>1. (r[2] + 1) \div g \in Int /\ (q[2] + 1) \div g \in Int
      BY <1>3, <1>5
    <3> QED
      BY <1>7, <3>1
  <2>2. Clip(r, g)[2] = x - 1 /\ Clip(q, g)[2] = y - 1
    BY <1>6
  <2> HIDE DEF x, y
  <2> QED
    BY <2>1, <2>2
<1> DEFINE c == Clip(q, g)
<1>10. c[2] >= c[1] /\ Size(c) >= np
  <2>1. Clip(r, g)[2] - Clip(r, g)[1] + 1 >= np
    BY <1>1 DEF Size
  <2>2. c[1] = q[1] /\ Clip(r, g)[1] = r[1]
    BY <1>6
  <2>3. c[2] - c[1] + 1 >= np /\ c[2] >= c[1]
    BY <1>1, <1>3, <1>4, <1>5, <1>8, <1>9, <2>1, <2>2
  <2> QED
    BY <2>3 DEF Size
<1>11. c \in Candidates(T, np, g)
  BY <1>4, <1>10 DEF Candidates, Usable
<1> QED
  BY <1>11

(* The lengths the census takes the largest of. *)
Clipped(pages, g) == {Size(c) : c \in Usable(pages, g)}
Whole(pages)      == {Size(r) : r \in Runs(pages)}

(* A run is no longer than the map, a clipped one no longer than its run. *)
LEMMA LengthFacts ==
    ASSUME NEW pages \in SUBSET Nat, IsFiniteSet(pages), NEW g \in Nat \ {0}
    PROVE  /\ \A n \in Whole(pages) : n \in 1..Cardinality(pages)
           /\ \A n \in Clipped(pages, g) : n \in Nat \ {0} /\ \E m \in Whole(pages) : n <= m
           /\ Cardinality(pages) \in Nat
<1>1. Cardinality(pages) \in Nat
  BY FS_CardinalityType
<1>2. ASSUME NEW r \in Runs(pages)
      PROVE  Size(r) \in 1..Cardinality(pages)
  <2>1. /\ r[1] \in pages /\ r[2] \in pages /\ r[1] <= r[2]
        /\ \A p \in r[1]..r[2] : p \in pages
    BY RunsAreFree
  <2>2. r[1] \in Int /\ r[2] \in Int /\ r[1]..r[2] \in SUBSET pages
    <3>1. r[1] \in Nat /\ r[2] \in Nat
      BY <2>1
    <3> DEFINE all == r[1]..r[2]
    <3>2. \A p \in all : p \in pages
      BY <2>1
    <3> HIDE DEF all
    <3>3. all \in SUBSET pages
      BY <3>2
    <3>4. \A n \in Nat : n \in Int
      OBVIOUS
    <3>5. r[1] \in Int /\ r[2] \in Int
      BY <3>1, <3>4
    <3>6. r[1]..r[2] \in SUBSET pages
      BY <3>3 DEF all
    <3> HIDE DEF all
    <3> QED
      BY <3>5, <3>6
  <2>3. Cardinality(r[1]..r[2]) = r[2] - r[1] + 1
    <3>1. ASSUME NEW a \in Int, NEW b \in Int, a <= b PROVE Cardinality(a..b) = b - a + 1
      BY <3>1, FS_Interval
    <3> QED
      BY <2>1, <2>2, <3>1
  <2>4. Cardinality(r[1]..r[2]) <= Cardinality(pages)
    BY <2>2, FS_Subset
  <2> QED
    BY <1>1, <2>1, <2>2, <2>3, <2>4 DEF Size
<1>3. ASSUME NEW c \in Usable(pages, g)
      PROVE  Size(c) \in Nat \ {0} /\ \E m \in Whole(pages) : Size(c) <= m
  <2>1. PICK r \in Runs(pages) : c = Clip(r, g) /\ c[2] >= c[1]
    BY DEF Usable
  <2>2. r = <<r[1], r[2]>> /\ r[1] \in pages /\ r[2] \in pages
    BY RunsAreFree
  <2>3. r[1] \in Nat /\ r[2] \in Nat
    BY <2>2
  <2>4. c[1] = r[1] /\ c[2] \in Int /\ c[2] <= r[2]
    BY <2>1, <2>2, <2>3, ClipShortens
  <2>5. Size(c) \in Nat \ {0} /\ Size(c) <= Size(r)
    BY <2>1, <2>3, <2>4 DEF Size
  <2> QED
    BY <2>5 DEF Whole
<1> QED
  BY <1>1, <1>2, <1>3 DEF Whole, Clipped

(* The larger of nothing and the members of a bounded set. *)
LEMMA MaxOr0Facts ==
    ASSUME NEW S, NEW N \in Nat, \A n \in S : n \in 1..N
    PROVE  /\ MaxOr0(S) \in 0..N
           /\ \A n \in S : n <= MaxOr0(S)
           /\ MaxOr0(S) = 0 <=> S = {}
           /\ S # {} => MaxOr0(S) \in S
<1>1. CASE S = {}
  BY <1>1 DEF MaxOr0
<1>2. CASE S # {}
  <2>1. IsFiniteSet(1..N) /\ S \in SUBSET (1..N) /\ S \in SUBSET Int
    BY FS_Interval
  <2>2. IsFiniteSet(S)
    BY <2>1, FS_Subset
  <2>3. Max(S) \in S /\ \A n \in S : Max(S) >= n
    BY <1>2, <2>1, <2>2, MaxIsThere
  <2>4. MaxOr0(S) = Max(S)
    BY <1>2 DEF MaxOr0
  <2>5. Max(S) \in 1..N /\ \A n \in S : n \in Int
    BY <2>3
  <2> QED
    BY <1>2, <2>3, <2>4, <2>5
<1> QED
  BY <1>1, <1>2

(* The largest run the census counts is what the search would find. *)
LEMMA LargestIsFound ==
    ASSUME NEW pages \in SUBSET Nat, IsFiniteSet(pages), NEW g \in Nat \ {0},
           NEW np \in Nat \ {0}
    PROVE  LET largest == MaxOr0(Clipped(pages, g)) IN
           /\ largest \in Nat
           /\ Candidates(pages, np, g) # {} => np <= largest
           /\ Candidates(pages, np, g) = {} => largest < np
<1> DEFINE S == Clipped(pages, g)
           N == Cardinality(pages)
<1>1. N \in Nat /\ \A n \in S : n \in 1..N
  <2>1. /\ \A n \in Whole(pages) : n \in 1..N
        /\ \A n \in S : n \in Nat \ {0} /\ \E m \in Whole(pages) : n <= m
        /\ N \in Nat
    BY LengthFacts
  <2> HIDE DEF S, N
  <2>2. ASSUME NEW n \in S PROVE n \in 1..N
    <3>1. PICK m \in Whole(pages) : n <= m
      BY <2>1
    <3>2. m \in 1..N /\ n \in Nat \ {0}
      BY <2>1
    <3> QED
      BY <2>1, <3>1, <3>2
  <2> QED
    BY <2>1, <2>2
<1>2. /\ MaxOr0(S) \in 0..N
      /\ \A n \in S : n <= MaxOr0(S)
      /\ MaxOr0(S) = 0 <=> S = {}
      /\ S # {} => MaxOr0(S) \in S
  <2> HIDE DEF S, N
  <2> QED
    BY <1>1, MaxOr0Facts
<1>3. MaxOr0(S) \in Nat /\ \A n \in S : n \in Int
  <2> HIDE DEF S, N
  <2> QED
    BY <1>1, <1>2
<1>4. ASSUME Candidates(pages, np, g) # {} PROVE np <= MaxOr0(S)
  <2>1. PICK c \in Usable(pages, g) : Size(c) >= np
    BY <1>4 DEF Candidates
  <2>2. Size(c) \in S
    BY DEF Clipped
  <2> DEFINE n == Size(c)
  <2>3. n \in S /\ n >= np
    BY <2>1, <2>2
  <2> HIDE DEF n, S, N
  <2>4. n \in Int /\ n <= MaxOr0(S)
    BY <1>2, <1>3, <2>3
  <2> QED
    BY <1>3, <2>3, <2>4
<1>5. ASSUME Candidates(pages, np, g) = {} PROVE MaxOr0(S) < np
  <2>1. \A c \in Usable(pages, g) : ~(Size(c) >= np)
    BY <1>5 DEF Candidates
  <2>2. \A n \in S : ~(n >= np)
    BY <2>1 DEF Clipped
  <2> HIDE DEF S, N
  <2>3. CASE S = {}
    BY <1>2, <2>3
  <2>4. CASE S # {}
    BY <1>2, <1>3, <2>2, <2>4
  <2> QED
    BY <2>3, <2>4
<1> QED
  BY <1>3, <1>4, <1>5

(* A census taken where a request was refused agrees with the refusal. *)
LEMMA CensusAgrees ==
    ASSUME CensusAssumption, NEW pages \in SUBSET Nat, IsFiniteSet(pages),
           NEW np \in Nat \ {0}, NEW t \in MemoryType, Candidates(pages, np, Granule[t]) = {}
    PROVE  LET why == Census(np, t, pages) IN
           /\ why.big < why.pages
           /\ why.big <= why.raw /\ why.raw <= why.free
           /\ why.desc = 0 <=> why.free = 0
<1> DEFINE g == Granule[t]
           big == MaxOr0(Clipped(pages, g))
           raw == MaxOr0(Whole(pages))
           N == Cardinality(pages)
           D == Cardinality(Runs(pages))
<1>1. Census(np, t, pages) = [type |-> t, pages |-> np, big |-> big, raw |-> raw,
                              free |-> N, desc |-> D]
  BY DEF Census, Clipped, Whole
<1>2. g \in Nat \ {0}
  BY DEF CensusAssumption
<1>3. big \in Nat /\ big < np
  <2> HIDE DEF g
  <2> QED
    BY <1>2, LargestIsFound DEF g
<1>4. /\ N \in Nat /\ \A n \in Whole(pages) : n \in 1..N
      /\ \A n \in Clipped(pages, g) : n \in Nat \ {0} /\ \E m \in Whole(pages) : n <= m
  BY <1>2, LengthFacts
<1>5. raw \in 0..N /\ \A n \in Whole(pages) : n <= raw
  BY <1>4, MaxOr0Facts
<1>6. big <= raw
  <2>1. \A n \in Clipped(pages, g) : n \in 1..N
    <3> TAKE n \in Clipped(pages, g)
    <3>1. PICK m \in Whole(pages) : n <= m
      BY <1>4
    <3>2. m \in 1..N /\ n \in Nat \ {0}
      BY <1>4
    <3> HIDE DEF N, g
    <3> QED
      BY <1>4, <3>1, <3>2
  <2>2. Clipped(pages, g) # {} => big \in Clipped(pages, g)
    BY <1>4, <2>1, MaxOr0Facts
  <2>3. CASE Clipped(pages, g) = {}
    <3>1. big = 0
      BY <2>3 DEF MaxOr0
    <3> QED
      BY <1>4, <1>5, <3>1
  <2>4. CASE Clipped(pages, g) # {}
    <3>1. PICK m \in Whole(pages) : big <= m
      BY <1>4, <2>2, <2>4
    <3>2. m <= raw /\ m \in Int /\ raw \in Int
      BY <1>4, <1>5
    <3> HIDE DEF raw, big
    <3> QED
      BY <1>3, <3>1, <3>2
  <2> QED
    BY <2>3, <2>4
<1>7. D = 0 <=> N = 0
  <2>1. IsFiniteSet(Runs(pages))
    <3>1. IsFiniteSet(pages \X pages)
      BY FS_Product
    <3>2. Runs(pages) \in SUBSET (pages \X pages)
      <4>1. \A r \in Runs(pages) : r = <<r[1], r[2]>> /\ r[1] \in pages /\ r[2] \in pages
        BY RunsAreFree
      <4> QED
        BY <4>1
    <3> QED
      BY <3>1, <3>2, FS_Subset
  <2>2. D = 0 <=> Runs(pages) = {}
    BY <2>1, FS_EmptySet
  <2>3. N = 0 <=> pages = {}
    BY FS_EmptySet
  <2>4. pages = {} => Runs(pages) = {}
    BY DEF Runs
  <2>5. ASSUME NEW p \in pages PROVE Runs(pages) # {}
    <3>1. p \in Nat /\ p <= p /\ \A q \in p..p : q \in pages
      BY <2>5
    <3> QED
      BY <3>1, RunAround
  <2> QED
    BY <2>2, <2>3, <2>4, <2>5
<1> HIDE DEF big, raw, N, D, g
<1> QED
  BY <1>1, <1>3, <1>5, <1>6, <1>7

-----------------------------------------------------------------------------
(* What the instrument has done so far, by where control is: the flag of   *)
(* the probes is up while the ladder is walked, the cached requests have   *)
(* been made once the first copy has reported, and not before.             *)
OnceInv ==
    /\ callbacks \in Nat
    /\ DOMAIN row = DOMAIN EmptyRow
    /\ mP2FwProbe <=> pc \in {"rung", "release"}
    /\ pc \notin {"rung", "release"} => caller = "none"
    /\ pc = "run" \/ caller = "tick" => ~mP2RetryDone
    /\ pc \in {"retry", "retryRelease"} => mP2RetryDone /\ Len(rows) = 0
    /\ pc = "print" \/ caller = "key" => mP2RetryDone
    /\ pc = "report" \/ caller = "free" => (mP2RetryDone <=> Len(rows) > 0)
    /\ pc \in {"hold", "held", "done"} => Len(rows) > 0
    /\ Len(rows) > 0 => mP2RetryDone

LEMMA InitIsOnce == ASSUME Init PROVE OnceInv
<1>1. rows = <<>> /\ Len(rows) = 0 /\ pc = "run" /\ caller = "none" /\ row = EmptyRow
      /\ mP2FwProbe = FALSE /\ mP2RetryDone = FALSE /\ callbacks = 0
  BY EmptySeq DEF Init
<1> QED
  BY <1>1 DEF OnceInv

(* The copy that is begun is the one after those that are printed. *)
LEMMA OnceStep ==
    ASSUME CensusAssumption, IInv, OnceInv, [Next]_vars
    PROVE  OnceInv'
<1>1. ControlTyped /\ ControlInv
  BY DEF IInv
<1>2. Len(rows) \in Nat
  BY <1>1 DEF ControlTyped, CensusAssumption
<1>3. CASE RunAllocates \/ RunFrees \/ Callback \/ Done \/ UNCHANGED vars
  <2>1. UNCHANGED <<mP2FwProbe, mP2RetryDone, pc, caller, row, rows>>
    BY <1>3 DEF RunAllocates, RunFrees, Callback, Done, vars
  <2>2. callbacks' \in Nat
    <3>1. callbacks' = callbacks \/ callbacks' = callbacks + 1
      BY <1>3 DEF RunAllocates, RunFrees, Callback, Done, vars, bounds
    <3> QED
      BY <3>1 DEF OnceInv
  <2> QED
    BY <2>1, <2>2 DEF OnceInv
<1>4. CASE Tick
  <2>1. /\ pc = "run" /\ pc' = "rung" /\ caller' = "tick" /\ mP2FwProbe' = TRUE
        /\ UNCHANGED <<mP2RetryDone, row, rows, callbacks>>
    BY <1>4 DEF Tick, EntersLadder
  <2> QED
    BY <2>1 DEF OnceInv
<1>5. CASE DigestBegins
  <2>1. /\ pc \in {"run", "held"} /\ pc' = "rung" /\ caller' = "free" /\ mP2FwProbe' = TRUE
        /\ UNCHANGED <<mP2RetryDone, row, rows, callbacks>>
    BY <1>5 DEF DigestBegins, EntersLadder, bounds
  <2>2. pc = "run" => Len(rows) = 0
    BY <1>1 DEF ControlInv
  <2> QED
    BY <2>1, <2>2 DEF OnceInv
<1>6. CASE P2Hold
  <2>1. pc = "hold" /\ pc' = "held" /\ UNCHANGED <<mP2FwProbe, mP2RetryDone, caller, row, rows,
                                                   callbacks>>
    BY <1>6 DEF P2Hold, bounds
  <2> QED
    BY <2>1 DEF OnceInv
<1>7. CASE RungSucceeds
  <2>1. pc = "rung" /\ pc' = "release" /\ UNCHANGED <<mP2FwProbe, mP2RetryDone, caller, row,
                                                      rows, callbacks>>
    BY <1>7 DEF RungSucceeds, bounds
  <2> QED
    BY <2>1 DEF OnceInv
<1>8. ASSUME NEW v, pc \in {"rung", "release"}, LeavesLadder(v), UNCHANGED <<mP2RetryDone, callbacks>>
      PROVE  OnceInv'
  <2>1. mP2FwProbe' = FALSE /\ caller' = "none"
    BY <1>8 DEF LeavesLadder
  <2>2. CASE caller = "tick"
    <3>1. pc' = "run" /\ row' = row /\ rows' = rows
      BY <1>8, <2>2 DEF LeavesLadder
    <3> QED
      BY <1>8, <2>1, <2>2, <3>1 DEF OnceInv
  <2>3. CASE caller = "free"
    <3>1. pc' = "report" /\ row' = [row EXCEPT !.free = v] /\ rows' = rows
      BY <1>8, <2>3 DEF LeavesLadder
    <3>2. DOMAIN row' = DOMAIN row
      BY <3>1
    <3> QED
      BY <1>8, <2>1, <2>3, <3>1, <3>2 DEF OnceInv
  <2>4. CASE caller = "key"
    <3>1. pc' \in {"hold", "done"} /\ row' = EmptyRow
      BY <1>8, <2>4 DEF LeavesLadder
    <3>2. Len(rows') = Len(rows) + 1
      <4>1. PICK S : rows \in Seq(S)
        BY <1>1 DEF ControlInv, RowsInv
      <4>2. rows' = Append(rows, [row EXCEPT !.key = v])
        BY <1>8, <2>4 DEF LeavesLadder
      <4> QED
        BY <4>1, <4>2
    <3>3. Len(rows') > 0 /\ Len(rows') # 0 /\ mP2RetryDone
      BY <1>2, <2>4, <3>2 DEF OnceInv
    <3> QED
      BY <1>8, <2>1, <3>1, <3>3 DEF OnceInv
  <2> QED
    BY <1>8, <2>2, <2>3, <2>4 DEF LeavesLadder
<1>9. CASE RungReleases
  <2>1. pc = "release" /\ LeavesLadder(Ladder[rung]) /\ UNCHANGED <<mP2RetryDone, callbacks>>
    BY <1>9 DEF RungReleases, bounds
  <2> QED
    BY <1>8, <2>1
<1>10. CASE RungFails
  <2>1. pc = "rung" /\ UNCHANGED <<mP2RetryDone, callbacks>>
    BY <1>10 DEF RungFails, bounds
  <2>2. CASE LastRung
    <3>1. LeavesLadder(0)
      BY <1>10, <2>2 DEF RungFails
    <3> QED
      BY <1>8, <2>1, <3>1
  <2>3. CASE ~LastRung
    <3>1. UNCHANGED <<mP2FwProbe, pc, caller, row, rows>>
      BY <1>10, <2>3 DEF RungFails
    <3> QED
      BY <2>1, <3>1 DEF OnceInv
  <2> QED
    BY <2>2, <2>3
<1>11. CASE FreeWhyReport
  <2>1. /\ pc = "report" /\ pc' = (IF mP2RetryDone THEN "print" ELSE "retry")
        /\ mP2RetryDone' = TRUE /\ UNCHANGED <<mP2FwProbe, caller, rows, callbacks>>
    BY <1>11 DEF FreeWhyReport, bounds
  <2>2. DOMAIN row' = DOMAIN row
    BY <1>11 DEF FreeWhyReport
  <2>3. ~mP2RetryDone => Len(rows) = 0
    BY <1>2, <2>1 DEF OnceInv
  <2> QED
    BY <2>1, <2>2, <2>3 DEF OnceInv
<1>12. CASE RetryAsks
  <2>1. pc = "retry" /\ pc' = "retryRelease" /\ UNCHANGED <<mP2FwProbe, mP2RetryDone, caller,
                                                            row, rows, callbacks>>
    BY <1>12 DEF RetryAsks, bounds
  <2> QED
    BY <2>1 DEF OnceInv
<1>13. CASE RetryReleases
  <2>1. pc = "retryRelease" /\ pc' \in {"print", "retry"}
        /\ UNCHANGED <<mP2FwProbe, mP2RetryDone, caller, row, rows, callbacks>>
    BY <1>13 DEF RetryReleases, bounds
  <2> QED
    BY <2>1 DEF OnceInv
<1>14. CASE PrintRetry
  <2>1. /\ pc = "print" /\ pc' = "rung" /\ caller' = "key" /\ mP2FwProbe' = TRUE
        /\ UNCHANGED <<mP2RetryDone, rows, callbacks>>
    BY <1>14 DEF PrintRetry, EntersLadder, bounds
  <2>2. DOMAIN row' = DOMAIN row
    BY <1>14 DEF PrintRetry
  <2> QED
    BY <2>1, <2>2 DEF OnceInv
<1> QED
  BY <1>3, <1>4, <1>5, <1>6, <1>7, <1>9, <1>10, <1>11, <1>12, <1>13, <1>14 DEF Next, Instrument

-----------------------------------------------------------------------------
(* The map that is searched is one of pages there are. *)
LEMMA SearchedIsAMap ==
    ASSUME CensusAssumption, PagesInv, NEW np, NEW g
    PROVE  MapSearched(np, g) \in SUBSET Nat /\ IsFiniteSet(MapSearched(np, g))
<1>1. AllPages \in SUBSET Nat /\ IsFiniteSet(AllPages)
  BY FS_Union DEF CensusAssumption, AllPages
<1>2. MapSearched(np, g) \in SUBSET AllPages
  BY DEF PagesInv, MapSearched, AllPages
<1> QED
  BY <1>1, <1>2, FS_Subset

(* What P2 FWHY says of a map never contradicts the search that was made   *)
(* in it.                                                                  *)
CensusInv ==
    mP2FwSeen => /\ fwhy.big < fwhy.pages
                 /\ fwhy.big <= fwhy.raw /\ fwhy.raw <= fwhy.free
                 /\ fwhy.desc = 0 <=> fwhy.free = 0

LEMMA AsksKeepsCensus ==
    ASSUME CensusAssumption, PagesInv, CensusInv, NEW np \in Nat \ {0}, NEW t \in MemoryType,
           Asks(np, t)
    PROVE  CensusInv'
<1> DEFINE pages == MapSearched(np, Granule[t])
<1>1. CASE UNCHANGED <<mP2FwSeen, fwhy>>
  BY <1>1 DEF CensusInv
<1>2. CASE ~UNCHANGED <<mP2FwSeen, fwhy>>
  <2>1. ~Satisfied(np, t) /\ FreeWhy(np, t, pages)
    BY <1>2 DEF Asks, fwVars
  <2>2. mP2FwSeen' = TRUE /\ fwhy' = Census(np, t, pages)
    BY <1>2, <2>1 DEF FreeWhy
  <2>3. Candidates(pages, np, Granule[t]) = {}
    BY <2>1 DEF Satisfied
  <2>4. pages \in SUBSET Nat /\ IsFiniteSet(pages)
    BY SearchedIsAMap
  <2> DEFINE why == Census(np, t, pages)
  <2>5. /\ why.big < why.pages
        /\ why.big <= why.raw /\ why.raw <= why.free
        /\ why.desc = 0 <=> why.free = 0
    <3> HIDE DEF pages
    <3> QED
      BY <2>3, <2>4, CensusAgrees
  <2>6. fwhy' = why
    BY <2>2
  <2> HIDE DEF why
  <2> QED
    BY <2>5, <2>6 DEF CensusInv
<1> QED
  BY <1>1, <1>2

(* What each action asks for, if it asks. *)
LEMMA WhoAsks ==
    ASSUME CensusAssumption, IInv, [Next]_vars
    PROVE  \/ UNCHANGED fwVars
           \/ \E np \in Nat \ {0}, t \in MemoryType : Asks(np, t)
<1>1. CASE RunAllocates
  <2>1. PICK r \in RunRequests : Asks(r.pages, r.type)
    BY <1>1 DEF RunAllocates
  <2>2. r.pages \in Nat \ {0} /\ r.type \in MemoryType
    BY DEF CensusAssumption, Request
  <2> QED
    BY <2>1, <2>2
<1>2. CASE Callback
  <2>1. PICK np \in CallbackSizes : Asks(np, LadderType)
    BY <1>2 DEF Callback
  <2>2. np \in Nat \ {0} /\ LadderType \in MemoryType
    BY DEF CensusAssumption
  <2> QED
    BY <2>1, <2>2
<1>3. CASE RungSucceeds \/ RungFails
  <2>1. pc = "rung" /\ Asks(Ladder[rung], LadderType)
    BY <1>3 DEF RungSucceeds, RungFails
  <2>2. Ladder[rung] \in Nat \ {0} /\ LadderType \in MemoryType
    BY <2>1, RungAsks DEF IInv
  <2> QED
    BY <2>1, <2>2
<1>4. CASE RetryAsks
  <2> DEFINE r == RetryRequests[Len(retry) + 1]
  <2>1. pc = "retry" /\ Asks(r.pages, r.type)
    BY <1>4 DEF RetryAsks
  <2>2. r.pages \in Nat \ {0} /\ r.type \in MemoryType
    BY <2>1, RetryAsksARequest DEF Request, IInv
  <2> HIDE DEF r
  <2> QED
    BY <2>1, <2>2
<1>5. CASE RunFrees \/ Tick \/ P2Hold \/ DigestBegins \/ RungReleases \/ FreeWhyReport
  BY <1>5 DEF RunFrees, Tick, P2Hold, DigestBegins, RungReleases, FreeWhyReport
<1>6. CASE RetryReleases \/ PrintRetry \/ Done \/ UNCHANGED vars
  BY <1>6 DEF RetryReleases, PrintRetry, Done, vars
<1> QED
  BY <1>1, <1>2, <1>3, <1>4, <1>5, <1>6 DEF Next, Instrument

LEMMA CensusStep ==
    ASSUME CensusAssumption, IInv, CensusInv, [Next]_vars
    PROVE  CensusInv'
<1>1. CASE UNCHANGED fwVars
  BY <1>1 DEF fwVars, CensusInv
<1>2. CASE \E np \in Nat \ {0}, t \in MemoryType : Asks(np, t)
  BY <1>2, AsksKeepsCensus DEF IInv
<1> QED
  BY <1>1, <1>2, WhoAsks

-----------------------------------------------------------------------------
(* What a row has to say of a list of failures: how many there are, how    *)
(* many of each type, and the type and size of the first that was as large *)
(* as an image.                                                            *)
CountIn(fs, slot) == Cardinality({i \in 1..Len(fs) : TypeSlot(fs[i].type) = slot})
ImageSized(fs)    == {i \in 1..Len(fs) : fs[i].pages >= ImageMin}

Tells(fs, n, ty, why) ==
    /\ n = Len(fs)
    /\ \A s \in TypeSlots : ty[s] = CountIn(fs, s)
    /\ ImageSized(fs) = {} => why = NoRecord
    /\ ImageSized(fs) # {} => /\ why.type = fs[Min(ImageSized(fs))].type
                              /\ why.pages = fs[Min(ImageSized(fs))].pages

LEMMA NothingIsTold == Tells(<<>>, 0, [s \in TypeSlots |-> 0], NoRecord) /\ ImageSized(<<>>) = {}
<1>1. Len(<<>>) = 0
  BY EmptySeq
<1>2. ImageSized(<<>>) = {}
  BY <1>1 DEF ImageSized
<1>3. ASSUME NEW s \in TypeSlots PROVE [x \in TypeSlots |-> 0][s] = CountIn(<<>>, s)
  <2>1. {i \in 1..Len(<<>>) : TypeSlot(<<>>[i].type) = s} = {}
    BY <1>1
  <2> QED
    BY <2>1, FS_EmptySet DEF CountIn
<1> QED
  BY <1>1, <1>2, <1>3 DEF Tells

(* A failure more is counted under its type, *)
LEMMA CountGrows ==
    ASSUME NEW fs \in Seq(Request), NEW r \in Request, NEW slot
    PROVE  /\ CountIn(fs, slot) \in Nat
           /\ CountIn(Append(fs, r), slot)
                = (IF TypeSlot(r.type) = slot THEN CountIn(fs, slot) + 1 ELSE CountIn(fs, slot))
<1> DEFINE fs2 == Append(fs, r)
           S == {i \in 1..Len(fs) : TypeSlot(fs[i].type) = slot}
           S2 == {i \in 1..Len(fs2) : TypeSlot(fs2[i].type) = slot}
<1>1. Len(fs) \in Nat /\ Len(fs2) = Len(fs) + 1 /\ fs2[Len(fs) + 1] = r
      /\ \A i \in 1..Len(fs) : fs2[i] = fs[i]
  BY AppendProperties, LenProperties
<1>2. IsFiniteSet(S)
  <2>1. IsFiniteSet(1..Len(fs)) /\ S \in SUBSET (1..Len(fs))
    BY <1>1, FS_Interval
  <2> HIDE DEF S
  <2> QED
    BY <2>1, FS_Subset
<1>3. Len(fs) + 1 \notin S
  BY <1>1
<1>4. S2 = IF TypeSlot(r.type) = slot THEN S \cup {Len(fs) + 1} ELSE S
  <2> HIDE DEF fs2
  <2> QED
    BY <1>1
<1>5. Cardinality(S) \in Nat /\ Cardinality(S \cup {Len(fs) + 1}) = Cardinality(S) + 1
  <2> HIDE DEF S
  <2> QED
    BY <1>2, <1>3, FS_AddElement, FS_CardinalityType
<1>6. CountIn(fs, slot) = Cardinality(S) /\ CountIn(fs2, slot) = Cardinality(S2)
  BY DEF CountIn
<1> HIDE DEF S, S2
<1> QED
  BY <1>4, <1>5, <1>6

(* ... and the first one of an image's size is still the first.            *)
LEMMA FirstStays ==
    ASSUME CensusAssumption, NEW fs \in Seq(Request), NEW r \in Request
    PROVE  /\ ImageSized(Append(fs, r)) # {} <=> ImageSized(fs) # {} \/ r.pages >= ImageMin
           /\ ImageSized(fs) # {} =>
                Append(fs, r)[Min(ImageSized(Append(fs, r)))] = fs[Min(ImageSized(fs))]
           /\ ImageSized(fs) = {} /\ r.pages >= ImageMin =>
                Append(fs, r)[Min(ImageSized(Append(fs, r)))] = r
<1> DEFINE fs2 == Append(fs, r)
           n == Len(fs)
           S == ImageSized(fs)
           S2 == ImageSized(fs2)
<1>1. n \in Nat /\ Len(fs2) = n + 1 /\ fs2[n + 1] = r
      /\ \A i \in 1..n : fs2[i] = fs[i]
  BY AppendProperties, LenProperties
<1>2. S2 = IF r.pages >= ImageMin THEN S \cup {n + 1} ELSE S
  <2> HIDE DEF fs2
  <2> QED
    BY <1>1 DEF ImageSized
<1>3. S \in SUBSET (1..n) /\ S \in SUBSET Int /\ S2 \in SUBSET Int /\ IsFiniteSet(S)
      /\ IsFiniteSet(S2)
  <2>1. S \in SUBSET (1..n) /\ IsFiniteSet(1..n)
    BY <1>1, FS_Interval DEF ImageSized
  <2> HIDE DEF S, S2, n
  <2>2. IsFiniteSet(S)
    BY <2>1, FS_Subset
  <2>3. IsFiniteSet(S \cup {n + 1})
    BY <2>2, FS_AddElement
  <2>4. \A i \in S : i \in Int
    BY <1>1, <2>1
  <2>5. n + 1 \in Int
    BY <1>1
  <2> QED
    BY <1>2, <2>1, <2>2, <2>3, <2>4, <2>5
<1> HIDE DEF S, S2, n, fs2
<1>4. S2 # {} <=> S # {} \/ r.pages >= ImageMin
  BY <1>2
<1>5. ASSUME S # {} PROVE fs2[Min(S2)] = fs[Min(S)]
  <2>1. Min(S) \in S /\ \A y \in S : Min(S) <= y
    BY <1>3, <1>5, MinIsThere
  <2>2. Min(S2) \in S2 /\ \A y \in S2 : Min(S2) <= y
    BY <1>3, <1>4, <1>5, MinIsThere
  <2> DEFINE a == Min(S)
             b == Min(S2)
  <2>3. a \in S /\ b \in S2 /\ (\A y \in S : a <= y) /\ (\A y \in S2 : b <= y)
    BY <2>1, <2>2
  <2> HIDE DEF a, b
  <2>4. a \in 1..n /\ b <= a /\ b \in Int
    BY <1>2, <1>3, <2>3
  <2>5. b \in S
    BY <1>1, <1>2, <2>3, <2>4
  <2>6. a = b
    BY <1>1, <2>3, <2>4, <2>5
  <2> QED
    BY <1>1, <2>4, <2>6 DEF a, b
<1>6. ASSUME S = {}, r.pages >= ImageMin PROVE fs2[Min(S2)] = r
  <2>1. S2 = {n + 1}
    BY <1>2, <1>6
  <2>2. Min(S2) \in S2
    BY <1>3, <2>1, MinIsThere
  <2> QED
    BY <1>1, <2>1, <2>2
<1> QED
  BY <1>4, <1>5, <1>6 DEF S, S2, fs2

LEMMA TellsMore ==
    ASSUME CensusAssumption, NEW fs \in Seq(Request), NEW r \in Request, NEW n,
           NEW ty \in [TypeSlots -> Nat], NEW why, NEW pages, Tells(fs, n, ty, why)
    PROVE  Tells(Append(fs, r), n + 1, [ty EXCEPT ![TypeSlot(r.type)] = @ + 1],
                 IF ImageSized(fs) # {} \/ r.pages < ImageMin THEN why
                 ELSE Census(r.pages, r.type, pages))
<1> DEFINE fs2 == Append(fs, r)
           ty2 == [ty EXCEPT ![TypeSlot(r.type)] = @ + 1]
           why2 == IF ImageSized(fs) # {} \/ r.pages < ImageMin THEN why
                   ELSE Census(r.pages, r.type, pages)
<1>1. n + 1 = Len(fs2)
  BY DEF Tells
<1>2. ASSUME NEW s \in TypeSlots PROVE ty2[s] = CountIn(fs2, s)
  <2>1. ty[s] = CountIn(fs, s)
    BY DEF Tells
  <2>2. ty2[s] = IF TypeSlot(r.type) = s THEN ty[s] + 1 ELSE ty[s]
    OBVIOUS
  <2>3. CountIn(fs2, s) = IF TypeSlot(r.type) = s THEN CountIn(fs, s) + 1 ELSE CountIn(fs, s)
    BY CountGrows
  <2> HIDE DEF ty2, fs2
  <2> QED
    BY <2>1, <2>2, <2>3
<1>3. r.pages < ImageMin <=> ~(r.pages >= ImageMin)
  BY DEF Request, CensusAssumption
<1>4. /\ ImageSized(fs2) # {} <=> ImageSized(fs) # {} \/ r.pages >= ImageMin
      /\ ImageSized(fs) # {} => fs2[Min(ImageSized(fs2))] = fs[Min(ImageSized(fs))]
      /\ ImageSized(fs) = {} /\ r.pages >= ImageMin => fs2[Min(ImageSized(fs2))] = r
  BY FirstStays
<1>5. Census(r.pages, r.type, pages).type = r.type /\ Census(r.pages, r.type, pages).pages = r.pages
  BY DEF Census
<1>6. /\ ImageSized(fs) = {} => why = NoRecord
      /\ ImageSized(fs) # {} => /\ why.type = fs[Min(ImageSized(fs))].type
                                /\ why.pages = fs[Min(ImageSized(fs))].pages
  BY DEF Tells
<1>7. ImageSized(fs2) = {} => why2 = NoRecord
  BY <1>3, <1>4, <1>6
<1>8. ImageSized(fs2) # {} => /\ why2.type = fs2[Min(ImageSized(fs2))].type
                              /\ why2.pages = fs2[Min(ImageSized(fs2))].pages
  <2>1. CASE ImageSized(fs) # {}
    <3>1. why2 = why
      BY <2>1
    <3> QED
      BY <1>4, <1>6, <2>1, <3>1
  <2>2. CASE ImageSized(fs) = {} /\ r.pages >= ImageMin
    <3>1. why2 = Census(r.pages, r.type, pages)
      BY <1>3, <2>2
    <3> QED
      BY <1>4, <1>5, <2>2, <3>1
  <2> QED
    BY <1>4, <2>1, <2>2
<1> HIDE DEF fs2, ty2, why2
<1>9. Tells(fs2, n + 1, ty2, why2)
  BY <1>1, <1>2, <1>7, <1>8 DEF Tells
<1> QED
  BY <1>9 DEF fs2, ty2, why2

(* Until the first copy reports, the live counters tell the run; then the  *)
(* copy that is being printed does, and then the one that was printed.     *)
TellInv == callbacks = 0 =>
    /\ failures \in Seq(Request)
    /\ ~mP2RetryDone => /\ Tells(failures, mP2FwCount, mP2FwTy, fwhy)
                        /\ mP2FwSeen <=> ImageSized(failures) # {}
    /\ mP2RetryDone /\ Len(rows) = 0 => Tells(failures, row.n, row.ty, row.fwhy)
    /\ Len(rows) > 0 => Tells(failures, rows[1].n, rows[1].ty, rows[1].fwhy)

LEMMA InitIsTold == ASSUME Init PROVE TellInv
<1>1. rows = <<>> /\ Len(rows) = 0 /\ mP2RetryDone = FALSE /\ mP2FwSeen = FALSE
      /\ mP2FwCount = 0 /\ mP2FwTy = [s \in TypeSlots |-> 0] /\ fwhy = NoRecord
      /\ failures = <<>>
  BY EmptySeq DEF Init
<1>2. Tells(failures, mP2FwCount, mP2FwTy, fwhy) /\ ImageSized(failures) = {}
  BY <1>1, NothingIsTold
<1>3. failures \in Seq(Request)
  BY <1>1
<1> QED
  BY <1>1, <1>2, <1>3 DEF TellInv

(* A request gets no pages exactly if it is refused. *)
LEMMA RefusedGetsNothing ==
    ASSUME CensusAssumption, PagesInv, NEW np \in Nat \ {0}, NEW t \in MemoryType
    PROVE  Block(np, t) = {} <=> ~Satisfied(np, t)
<1> DEFINE pages == MapSearched(np, Granule[t])
<1>1. pages \in SUBSET Nat /\ IsFiniteSet(pages) /\ Granule[t] \in Nat \ {0}
  BY SearchedIsAMap DEF CensusAssumption
<1>2. CASE Satisfied(np, t)
  <2>1. Candidates(pages, np, Granule[t]) # {} /\ Block(np, t) = Found(pages, np, Granule[t])
    BY <1>2 DEF Satisfied, Block
  <2> HIDE DEF pages
  <2> QED
    BY <1>1, <1>2, <2>1, FoundIsFree
<1>3. CASE ~Satisfied(np, t)
  BY <1>3 DEF Block
<1> QED
  BY <1>2, <1>3

(* What a probe is refused is not counted with the run's. *)
LEMMA ProbesAreNotCounted ==
    ASSUME mP2FwProbe, NEW np, NEW t, Asks(np, t)
    PROVE  UNCHANGED <<mP2FwSeen, mP2FwCount, mP2FwTy, fwhy>>
BY DEF Asks, FreeWhy, fwVars

LEMMA TellStays ==
    ASSUME TellInv, UNCHANGED <<failures, callbacks, mP2RetryDone, rows>>,
           mP2RetryDone => row'.n = row.n /\ row'.ty = row.ty /\ row'.fwhy = row.fwhy,
           ~mP2RetryDone => UNCHANGED <<mP2FwSeen, mP2FwCount, mP2FwTy, fwhy>>
    PROVE  TellInv'
BY DEF TellInv

(* The copy that is printed is the last one. *)
LEMMA CopyIsPrinted ==
    ASSUME CensusAssumption, ControlTyped, ControlInv, NEW v, LeavesLadder(v), caller = "key"
    PROVE  /\ Len(rows) \in Nat /\ Len(rows') = Len(rows) + 1
           /\ rows'[Len(rows) + 1] = [row EXCEPT !.key = v]
           /\ \A i \in 1..Len(rows) : rows'[i] = rows[i]
<1> DEFINE x == [row EXCEPT !.key = v]
<1>1. rows' = Append(rows, x)
  BY DEF LeavesLadder
<1>2. PICK S : rows \in Seq(S)
  BY DEF ControlInv, RowsInv
<1> HIDE DEF x
<1>3. /\ Len(rows) \in Nat /\ Len(rows') = Len(rows) + 1
      /\ rows'[Len(rows) + 1] = x
      /\ \A i \in 1..Len(rows) : rows'[i] = rows[i]
  BY <1>1, <1>2
<1> QED
  BY <1>3 DEF x

LEMMA TellLeaves ==
    ASSUME CensusAssumption, ControlTyped, ControlInv, OnceInv, TellInv, NEW v,
           LeavesLadder(v), UNCHANGED <<failures, callbacks, mP2RetryDone>>,
           ~mP2RetryDone => UNCHANGED <<mP2FwSeen, mP2FwCount, mP2FwTy, fwhy>>
    PROVE  TellInv'
<1>1. CASE caller \in {"tick", "free"}
  <2>1. rows' = rows /\ (row' = row \/ row' = [row EXCEPT !.free = v])
    BY <1>1 DEF LeavesLadder
  <2>2. row'.n = row.n /\ row'.ty = row.ty /\ row'.fwhy = row.fwhy
    BY <2>1 DEF OnceInv, EmptyRow
  <2> QED
    BY <2>1, <2>2, TellStays
<1>2. CASE caller = "key"
  <2>1. /\ Len(rows) \in Nat /\ Len(rows') = Len(rows) + 1
        /\ rows'[Len(rows) + 1] = [row EXCEPT !.key = v]
        /\ \A i \in 1..Len(rows) : rows'[i] = rows[i]
    BY <1>2, CopyIsPrinted
  <2>2. mP2RetryDone /\ mP2RetryDone'
    BY <1>2 DEF OnceInv
  <2>3. SUFFICES ASSUME callbacks = 0
                 PROVE  /\ failures \in Seq(Request)
                        /\ Tells(failures, rows'[1].n, rows'[1].ty, rows'[1].fwhy)
    <3>1. Len(rows') # 0
      BY <2>1
    <3> QED
      BY <2>2, <2>3, <3>1 DEF TellInv
  <2>4. CASE Len(rows) = 0
    <3>1. rows'[1] = [row EXCEPT !.key = v]
      BY <2>1, <2>4
    <3>2. rows'[1].n = row.n /\ rows'[1].ty = row.ty /\ rows'[1].fwhy = row.fwhy
      BY <3>1 DEF OnceInv, EmptyRow
    <3> QED
      BY <2>2, <2>3, <2>4, <3>2 DEF TellInv
  <2>5. CASE Len(rows) > 0
    <3>1. rows'[1] = rows[1]
      BY <2>1, <2>5
    <3> QED
      BY <2>3, <2>5, <3>1 DEF TellInv
  <2> QED
    BY <2>1, <2>4, <2>5
<1> QED
  BY <1>1, <1>2 DEF LeavesLadder

(* The run asks while nothing has been reported, and the flag is down. *)
LEMMA TellRun ==
    ASSUME CensusAssumption, IInv, OnceInv, TellInv, RunAllocates
    PROVE  TellInv'
<1>1. pc = "run" /\ UNCHANGED <<callbacks, mP2RetryDone, row, rows>>
  BY DEF RunAllocates
<1>2. ~mP2RetryDone /\ ~mP2FwProbe /\ Len(rows) = 0
  BY <1>1 DEF OnceInv, IInv, ControlInv
<1>3. PICK r \in RunRequests :
        /\ Asks(r.pages, r.type)
        /\ failures' = IF Block(r.pages, r.type) = {} THEN Append(failures, r) ELSE failures
  BY DEF RunAllocates
<1>4. r \in Request /\ r.pages \in Nat \ {0} /\ r.type \in MemoryType
  BY DEF CensusAssumption, Request
<1>5. Block(r.pages, r.type) = {} <=> ~Satisfied(r.pages, r.type)
  BY <1>4, RefusedGetsNothing DEF IInv
<1>6. CASE Satisfied(r.pages, r.type)
  <2>1. failures' = failures /\ UNCHANGED fwVars
    BY <1>3, <1>5, <1>6 DEF Asks
  <2> QED
    BY <1>1, <2>1, TellStays DEF fwVars
<1>7. CASE ~Satisfied(r.pages, r.type)
  <2> DEFINE pages == MapSearched(r.pages, Granule[r.type])
             ty2 == [mP2FwTy EXCEPT ![TypeSlot(r.type)] = @ + 1]
  <2>1. failures' = Append(failures, r) /\ FreeWhy(r.pages, r.type, pages)
    BY <1>3, <1>5, <1>7 DEF Asks
  <2> HIDE DEF pages
  <2>2. /\ mP2FwCount' = mP2FwCount + 1
        /\ mP2FwTy' = ty2
        /\ mP2FwSeen \/ r.pages < ImageMin => UNCHANGED <<mP2FwSeen, fwhy>>
        /\ ~(mP2FwSeen \/ r.pages < ImageMin) =>
             mP2FwSeen' = TRUE /\ fwhy' = Census(r.pages, r.type, pages)
    BY <1>2, <2>1 DEF FreeWhy
  <2>3. SUFFICES ASSUME callbacks = 0
                 PROVE  /\ failures' \in Seq(Request)
                        /\ Tells(failures', mP2FwCount', mP2FwTy', fwhy')
                        /\ mP2FwSeen' <=> ImageSized(failures') # {}
    BY <1>1, <1>2 DEF TellInv
  <2>4. /\ failures \in Seq(Request) /\ Tells(failures, mP2FwCount, mP2FwTy, fwhy)
        /\ mP2FwSeen <=> ImageSized(failures) # {}
    BY <1>2, <2>3 DEF TellInv
  <2>5. mP2FwTy \in [TypeSlots -> Nat] /\ mP2FwSeen \in BOOLEAN
    BY DEF IInv, CountsInv
  <2>6. Tells(Append(failures, r), mP2FwCount + 1, ty2,
              IF ImageSized(failures) # {} \/ r.pages < ImageMin THEN fwhy
              ELSE Census(r.pages, r.type, pages))
    BY <1>4, <2>4, <2>5, TellsMore
  <2>7. ImageSized(failures') # {} <=> ImageSized(failures) # {} \/ r.pages >= ImageMin
    BY <1>4, <2>1, <2>4, FirstStays
  <2>8. fwhy' = IF ImageSized(failures) # {} \/ r.pages < ImageMin THEN fwhy
                ELSE Census(r.pages, r.type, pages)
    BY <2>2, <2>4
  <2>9. mP2FwSeen' <=> mP2FwSeen \/ r.pages >= ImageMin
    <3>1. r.pages < ImageMin <=> ~(r.pages >= ImageMin)
      BY <1>4 DEF CensusAssumption
    <3> QED
      BY <2>2, <3>1
  <2> HIDE DEF ty2
  <2>10. failures' \in Seq(Request)
    BY <1>4, <2>1, <2>4
  <2> QED
    BY <2>1, <2>2, <2>4, <2>6, <2>7, <2>8, <2>9, <2>10
<1> QED
  BY <1>6, <1>7

(* The first copy reports what the live counters are then. *)
LEMMA TellReports ==
    ASSUME CensusAssumption, OnceInv, TellInv, FreeWhyReport
    PROVE  TellInv'
<1>1. pc = "report" /\ mP2RetryDone' = TRUE /\ UNCHANGED <<callbacks, rows, failures>>
  BY DEF FreeWhyReport, bounds
<1>2. row'.n = mP2FwCount /\ row'.ty = mP2FwTy /\ row'.fwhy = fwhy
  <2>1. row' = [row EXCEPT !.ty = mP2FwTy, !.n = mP2FwCount, !.fwhy = fwhy,
                           !.g = IF mP2FwSeen THEN mP2FwSkip ELSE 0]
    BY DEF FreeWhyReport
  <2> QED
    BY <2>1 DEF OnceInv, EmptyRow
<1>3. mP2RetryDone <=> Len(rows) > 0
  BY <1>1 DEF OnceInv
<1>4. CASE mP2RetryDone
  <2>1. ~(Len(rows) = 0)
    BY <1>3, <1>4
  <2> QED
    BY <1>1, <1>3, <1>4, <2>1 DEF TellInv
<1>5. CASE ~mP2RetryDone
  BY <1>1, <1>2, <1>3, <1>5 DEF TellInv
<1> QED
  BY <1>4, <1>5

LEMMA TellStep ==
    ASSUME CensusAssumption, IInv, OnceInv, TellInv, [Next]_vars
    PROVE  TellInv'
<1>1. ControlTyped /\ ControlInv
  BY DEF IInv
<1>2. CASE RunAllocates
  BY <1>2, TellRun
<1>3. CASE Callback
  <2>1. callbacks' = callbacks + 1 /\ callbacks \in Nat
    BY <1>3 DEF Callback, OnceInv
  <2>2. callbacks' # 0
    BY <2>1
  <2> QED
    BY <2>2 DEF TellInv
<1>4. CASE RunFrees \/ Tick \/ P2Hold \/ DigestBegins \/ RetryReleases \/ Done \/ UNCHANGED vars
  <2>1. UNCHANGED <<failures, callbacks, mP2RetryDone, row, rows, fwVars>>
    BY <1>4 DEF RunFrees, Tick, P2Hold, DigestBegins, RetryReleases, Done, vars, bounds
  <2> QED
    BY <2>1, TellStays DEF fwVars
<1>5. CASE PrintRetry
  <2>1. UNCHANGED <<failures, callbacks, mP2RetryDone, rows, fwVars>>
    BY <1>5 DEF PrintRetry, bounds
  <2>2. row' = [row EXCEPT !.retry = retry]
    BY <1>5 DEF PrintRetry
  <2>3. row'.n = row.n /\ row'.ty = row.ty /\ row'.fwhy = row.fwhy
    BY <2>2 DEF OnceInv, EmptyRow
  <2> QED
    BY <2>1, <2>3, TellStays DEF fwVars
<1>6. CASE RungSucceeds
  <2>1. pc = "rung" /\ Asks(Ladder[rung], LadderType)
        /\ UNCHANGED <<failures, callbacks, mP2RetryDone, row, rows>>
    BY <1>6 DEF RungSucceeds, bounds
  <2>2. mP2FwProbe
    BY <2>1 DEF OnceInv
  <2>3. UNCHANGED <<mP2FwSeen, mP2FwCount, mP2FwTy, fwhy>>
    BY <2>1, <2>2, ProbesAreNotCounted
  <2> QED
    BY <2>1, <2>3, TellStays
<1>7. CASE RungFails
  <2>1. pc = "rung" /\ Asks(Ladder[rung], LadderType)
        /\ UNCHANGED <<failures, callbacks, mP2RetryDone>>
    BY <1>7 DEF RungFails, bounds
  <2>2. mP2FwProbe
    BY <2>1 DEF OnceInv
  <2>3. UNCHANGED <<mP2FwSeen, mP2FwCount, mP2FwTy, fwhy>>
    BY <2>1, <2>2, ProbesAreNotCounted
  <2>4. CASE LastRung
    <3>1. LeavesLadder(0)
      BY <1>7, <2>4 DEF RungFails
    <3> QED
      BY <1>1, <2>1, <2>3, <3>1, TellLeaves
  <2>5. CASE ~LastRung
    <3>1. UNCHANGED <<row, rows>>
      BY <1>7, <2>5 DEF RungFails
    <3> QED
      BY <2>1, <2>3, <3>1, TellStays
  <2> QED
    BY <2>4, <2>5
<1>8. CASE RungReleases
  <2>1. LeavesLadder(Ladder[rung]) /\ UNCHANGED <<failures, callbacks, mP2RetryDone, fwVars>>
    BY <1>8 DEF RungReleases, bounds
  <2> QED
    BY <1>1, <2>1, TellLeaves DEF fwVars
<1>9. CASE FreeWhyReport
  BY <1>9, TellReports
<1>10. CASE RetryAsks
  <2>1. pc = "retry" /\ UNCHANGED <<failures, callbacks, mP2RetryDone, row, rows>>
    BY <1>10 DEF RetryAsks, bounds
  <2>2. mP2RetryDone
    BY <2>1 DEF OnceInv
  <2> QED
    BY <2>1, <2>2, TellStays
<1> QED
  BY <1>2, <1>3, <1>4, <1>5, <1>6, <1>7, <1>8, <1>9, <1>10 DEF Next, Instrument

-----------------------------------------------------------------------------
(* The heap as the instrument found it: what it holds itself is free to    *)
(* the run.                                                                *)
Heap == free \cup probeBlock

Fits(pages, n) == Candidates(pages, n, Granule[LadderType]) # {}

(* `v` is what the ladder returns on a map: its highest rung that fits, 0  *)
(* if none does; below its first rung it has promoted memory on its way.   *)
Measured(v, pages, p) ==
    \/ v = 0 /\ p /\ \A i \in 1..Len(Ladder) : ~Fits(pages, Ladder[i])
    \/ \E k \in 1..Len(Ladder) :
          /\ v = Ladder[k] /\ Fits(pages, v)
          /\ \A i \in 1..(k - 1) : ~Fits(pages, Ladder[i])
          /\ k > 1 => p

RungInv ==
    pc \in {"rung", "release"} =>
        /\ \A i \in 1..(rung - 1) : ~Fits(Heap, Ladder[i])
        /\ rung > 1 => promoted
        /\ pc = "release" => Fits(Heap, Ladder[rung])

CopyInv ==
    /\ pc = "report" \/ (mP2RetryDone /\ Len(rows) = 0) => Measured(row.free, Heap, promoted)
    /\ Len(rows) > 0 => Measured(rows[1].free, Heap, promoted)
    /\ Len(rows) > 0 /\ (pc \in {"report", "print"} \/ caller = "key") => row.free = rows[1].free
    /\ caller = "key" => row.retry = retry
    /\ \A i \in 1..Len(rows) :
          rows[i].free = rows[1].free /\ rows[i].key = rows[1].free /\ rows[i].retry = retry

(* A copy finds the heap as the one before it did, as long as no callback  *)
(* has asked for pages in between.                                         *)
QuietInv == callbacks = 0 => RungInv /\ CopyInv

LEMMA LadderFacts ==
    ASSUME CensusAssumption
    PROVE  /\ Len(Ladder) \in Nat
           /\ \A i \in 1..Len(Ladder) : Ladder[i] \in Nat \ {0}
BY ElementOfSeq DEF CensusAssumption

(* One map is measured in one way. *)
LEMMA MeasureIsUnique ==
    ASSUME CensusAssumption, NEW v, NEW w, NEW pages, NEW p,
           Measured(v, pages, p), Measured(w, pages, p)
    PROVE  v = w
<1>1. Len(Ladder) \in Nat
  BY LadderFacts
<1>2. CASE v = 0 /\ \A i \in 1..Len(Ladder) : ~Fits(pages, Ladder[i])
  BY <1>2 DEF Measured
<1>3. CASE w = 0 /\ \A i \in 1..Len(Ladder) : ~Fits(pages, Ladder[i])
  BY <1>3 DEF Measured
<1>4. ASSUME NEW k \in 1..Len(Ladder), NEW m \in 1..Len(Ladder),
             v = Ladder[k], Fits(pages, v), \A i \in 1..(k - 1) : ~Fits(pages, Ladder[i]),
             w = Ladder[m], Fits(pages, w), \A i \in 1..(m - 1) : ~Fits(pages, Ladder[i])
      PROVE  v = w
  <2>1. ~(k < m)
    <3>1. k < m => k \in 1..(m - 1)
      BY <1>1
    <3> QED
      BY <1>4, <3>1
  <2>2. ~(m < k)
    <3>1. m < k => m \in 1..(k - 1)
      BY <1>1
    <3> QED
      BY <1>4, <3>1
  <2>3. k = m
    BY <1>1, <2>1, <2>2
  <2> QED
    BY <1>4, <2>3
<1> QED
  BY <1>2, <1>3, <1>4 DEF Measured

(* What a probe's request does to the heap: nothing, but for the first     *)
(* refusal, which promotes memory.                                         *)
LEMMA ProbeAsks ==
    ASSUME CensusAssumption, PagesInv, NEW np \in Nat \ {0}, NEW t \in MemoryType,
           probeBlock = {}, Asks(np, t), probeBlock' = Block(np, t)
    PROVE  /\ \/ Heap' = Heap /\ promoted' = promoted
              \/ ~promoted /\ promoted' /\ Heap' = Heap \cup PromotePages
           /\ Satisfied(np, t) <=> Candidates(Heap', np, Granule[t]) # {}
           /\ ~Satisfied(np, t) => promoted'
<1> DEFINE g == Granule[t]
           searched == MapSearched(np, g)
<1>1. free' = searched \ Block(np, t) /\ promoted' = (promoted \/ Candidates(free, np, g) = {})
  BY DEF Asks, Allocates
<1>2. Block(np, t) \subseteq searched
  <2>1. CASE Satisfied(np, t)
    <3>1. searched \in SUBSET Nat /\ IsFiniteSet(searched) /\ g \in Nat \ {0}
      BY SearchedIsAMap DEF CensusAssumption
    <3>2. Candidates(searched, np, g) # {} /\ Block(np, t) = Found(searched, np, g)
      BY <2>1 DEF Satisfied, Block
    <3> HIDE DEF searched, g
    <3>3. Found(searched, np, g) \subseteq searched
      BY <3>1, <3>2, FoundIsFree
    <3> QED
      BY <3>2, <3>3
  <2>2. CASE ~Satisfied(np, t)
    BY <2>2 DEF Block
  <2> QED
    BY <2>1, <2>2
<1>3. Heap' = searched /\ Heap = free
  BY <1>1, <1>2 DEF Heap
<1>4. Satisfied(np, t) <=> Candidates(Heap', np, g) # {}
  BY <1>3 DEF Satisfied
<1>5. promoted \in BOOLEAN
  BY DEF PagesInv
<1>6. CASE Candidates(free, np, g) = {} /\ ~promoted
  <2>1. searched = free \cup PromotePages /\ promoted' = TRUE
    BY <1>1, <1>6 DEF MapSearched
  <2> QED
    BY <1>3, <1>4, <1>6, <2>1
<1>7. CASE ~(Candidates(free, np, g) = {} /\ ~promoted)
  <2>1. searched = free
    BY <1>7 DEF MapSearched
  <2>2. promoted' = promoted
    BY <1>1, <1>5, <1>7
  <2>3. ~Satisfied(np, t) => promoted'
    BY <1>3, <1>4, <1>7, <2>1, <2>2
  <2> QED
    BY <1>3, <1>4, <2>1, <2>2, <2>3
<1> QED
  BY <1>6, <1>7

LEMMA HeapIsAMap ==
    ASSUME CensusAssumption, PagesInv
    PROVE  /\ Heap \in SUBSET Nat /\ IsFiniteSet(Heap)
           /\ Heap \cup PromotePages \in SUBSET Nat /\ IsFiniteSet(Heap \cup PromotePages)
<1>1. AllPages \in SUBSET Nat /\ IsFiniteSet(AllPages)
  BY FS_Union DEF CensusAssumption, AllPages
<1>2. Heap \in SUBSET AllPages /\ Heap \cup PromotePages \in SUBSET AllPages
  BY DEF PagesInv, Heap, AllPages
<1>3. IsFiniteSet(Heap) /\ IsFiniteSet(Heap \cup PromotePages)
  BY <1>1, <1>2, FS_Subset
<1> QED
  BY <1>1, <1>2, <1>3

(* What was measured is still so: memory is promoted at the first rung,    *)
(* and more memory does not make that one fail.                            *)
LEMMA MeasureStays ==
    ASSUME CensusAssumption, PagesInv, NEW v,
           \/ Heap' = Heap /\ promoted' = promoted
           \/ ~promoted /\ promoted' /\ Heap' = Heap \cup PromotePages,
           Measured(v, Heap, promoted)
    PROVE  Measured(v, Heap', promoted')
<1>1. CASE Heap' = Heap /\ promoted' = promoted
  BY <1>1
<1>2. CASE ~promoted /\ promoted' /\ Heap' = Heap \cup PromotePages
  <2>1. PICK k \in 1..Len(Ladder) : v = Ladder[k] /\ Fits(Heap, v) /\ (k > 1 => promoted)
    BY <1>2 DEF Measured
  <2>2. k = 1 /\ v \in Nat \ {0}
    BY <1>2, <2>1, LadderFacts
  <2>3. Granule[LadderType] \in Nat \ {0}
    BY DEF CensusAssumption
  <2> DEFINE more == Heap \cup PromotePages
  <2>4. /\ Heap \in SUBSET Nat /\ IsFiniteSet(Heap)
        /\ more \in SUBSET Nat /\ IsFiniteSet(more) /\ Heap \subseteq more
    BY HeapIsAMap
  <2>5. Candidates(Heap, v, Granule[LadderType]) # {}
    BY <2>1 DEF Fits
  <2> HIDE DEF more
  <2>6. Candidates(more, v, Granule[LadderType]) # {}
    BY <2>2, <2>3, <2>4, <2>5, FitsGrows
  <2>7. Fits(more, v) /\ Heap' = more
    BY <1>2, <2>6 DEF Fits, more
  <2>8. \A i \in 1..(k - 1) : ~Fits(more, Ladder[i])
    BY <2>2
  <2> QED
    BY <2>1, <2>2, <2>7, <2>8 DEF Measured
<1> QED
  BY <1>1, <1>2

LEMMA InitIsQuiet == ASSUME Init PROVE QuietInv
<1>1. rows = <<>> /\ Len(rows) = 0 /\ pc = "run" /\ caller = "none" /\ mP2RetryDone = FALSE
  BY EmptySeq DEF Init
<1>2. RungInv
  BY <1>1 DEF RungInv
<1>3. CopyInv
  BY <1>1 DEF CopyInv
<1> QED
  BY <1>2, <1>3 DEF QuietInv

(* The ladder is left with what it measured, which is what was measured    *)
(* before if anything was.                                                 *)
LEMMA LeavesIsQuiet ==
    ASSUME CensusAssumption, ControlTyped, ControlInv, OnceInv, CopyInv,
           NEW v, LeavesLadder(v), UNCHANGED <<mP2RetryDone, retry>>,
           Measured(v, Heap', promoted'),
           mP2RetryDone /\ Len(rows) = 0 => Measured(row.free, Heap', promoted'),
           Len(rows) > 0 => Measured(rows[1].free, Heap', promoted')
    PROVE  RungInv' /\ CopyInv'
<1>1. caller' = "none" /\ pc' \in {"run", "report", "hold", "done"}
  BY DEF LeavesLadder
<1>2. RungInv'
  BY <1>1 DEF RungInv
<1>3. CASE caller = "tick"
  <2>1. pc' = "run" /\ rows' = rows /\ Len(rows) = 0 /\ ~mP2RetryDone
    BY <1>3 DEF LeavesLadder, ControlInv, OnceInv
  <2> QED
    BY <1>1, <1>2, <2>1 DEF CopyInv
<1>4. CASE caller = "free"
  <2>1. pc' = "report" /\ rows' = rows /\ row' = [row EXCEPT !.free = v]
    BY <1>4 DEF LeavesLadder
  <2>2. row'.free = v
    BY <2>1 DEF OnceInv, EmptyRow
  <2>3. Len(rows) > 0 => rows[1].free = v
    BY MeasureIsUnique
  <2> QED
    BY <1>1, <1>2, <2>1, <2>2, <2>3 DEF CopyInv
<1>5. CASE caller = "key"
  <2>1. /\ Len(rows) \in Nat /\ Len(rows') = Len(rows) + 1
        /\ rows'[Len(rows) + 1] = [row EXCEPT !.key = v]
        /\ \A i \in 1..Len(rows) : rows'[i] = rows[i]
    BY <1>5, CopyIsPrinted
  <2> DEFINE n == Len(rows)
             last == rows'[n + 1]
  <2>2. last.free = row.free /\ last.key = v /\ last.retry = row.retry
    BY <2>1 DEF OnceInv, EmptyRow
  <2>3. mP2RetryDone /\ row.retry = retry /\ (n > 0 => row.free = rows[1].free)
    BY <1>5 DEF OnceInv, CopyInv
  <2>4. Measured(row.free, Heap', promoted')
    BY <2>1, <2>3
  <2>5. row.free = v
    BY <2>4, MeasureIsUnique
  <2>6. rows'[1].free = v
    <3>1. CASE n = 0
      <4>1. rows'[1] = last
        BY <3>1
      <4> HIDE DEF last
      <4> QED
        BY <2>2, <2>5, <4>1
    <3>2. CASE n > 0
      <4>1. 1 \in 1..n
        BY <2>1, <3>2
      <4>2. rows'[1] = rows[1]
        BY <2>1, <4>1
      <4> QED
        BY <2>3, <2>5, <3>2, <4>2
    <3>3. n = 0 \/ n > 0
      BY <2>1
    <3> QED
      BY <3>1, <3>2, <3>3
  <2>7. \A i \in 1..(n + 1) :
          rows'[i].free = v /\ rows'[i].key = v /\ rows'[i].retry = retry
    <3> TAKE i \in 1..(n + 1)
    <3>1. CASE i = n + 1
      BY <2>2, <2>3, <2>5, <3>1
    <3>2. CASE i # n + 1
      <4>1. i \in 1..n /\ rows'[i] = rows[i] /\ n > 0
        BY <2>1, <3>2
      <4>2. rows[i].free = rows[1].free /\ rows[i].key = rows[1].free /\ rows[i].retry = retry
        BY <4>1 DEF CopyInv
      <4> QED
        BY <2>3, <2>5, <4>1, <4>2
    <3> QED
      BY <3>1, <3>2
  <2>8. pc' \in {"hold", "done"} /\ ~(Len(rows') = 0)
    BY <1>5, <2>1 DEF LeavesLadder
  <2> HIDE DEF n, last
  <2>9. Len(rows') = n + 1
    BY <2>1 DEF n
  <2> QED
    BY <1>1, <1>2, <2>4, <2>5, <2>6, <2>7, <2>8, <2>9 DEF CopyInv
<1> QED
  BY <1>3, <1>4, <1>5 DEF LeavesLadder

(* What a probe's request leaves of what was measured. *)
LEMMA CopyAsks ==
    ASSUME CensusAssumption, PagesInv, CopyInv,
           \/ Heap' = Heap /\ promoted' = promoted
           \/ ~promoted /\ promoted' /\ Heap' = Heap \cup PromotePages
    PROVE  /\ mP2RetryDone /\ Len(rows) = 0 => Measured(row.free, Heap', promoted')
           /\ Len(rows) > 0 => Measured(rows[1].free, Heap', promoted')
<1>1. mP2RetryDone /\ Len(rows) = 0 => Measured(row.free, Heap, promoted)
  BY DEF CopyInv
<1>2. Len(rows) > 0 => Measured(rows[1].free, Heap, promoted)
  BY DEF CopyInv
<1> QED
  BY <1>1, <1>2, MeasureStays

LEMMA RungIsQuiet ==
    ASSUME CensusAssumption, IInv, OnceInv, QuietInv, callbacks = 0, RungSucceeds \/ RungFails
    PROVE  RungInv' /\ CopyInv'
<1> DEFINE np == Ladder[rung]
           sat == Satisfied(Ladder[rung], LadderType)
<1>1. PagesInv /\ ControlTyped /\ ControlInv /\ ProbeInv /\ RungInv /\ CopyInv
  BY DEF IInv, QuietInv
<1>2. pc = "rung" /\ Asks(np, LadderType) /\ UNCHANGED <<mP2RetryDone, retry>>
  BY DEF RungSucceeds, RungFails
<1>3. np \in Nat \ {0} /\ LadderType \in MemoryType /\ rung \in 1..Len(Ladder)
  BY <1>1, <1>2, RungAsks DEF ControlInv
<1>4. probeBlock = {} /\ probeBlock' = Block(np, LadderType)
  BY <1>1, <1>2 DEF ProbeInv, RungSucceeds, RungFails, Block
<1>5. /\ \/ Heap' = Heap /\ promoted' = promoted
         \/ ~promoted /\ promoted' /\ Heap' = Heap \cup PromotePages
      /\ sat <=> Fits(Heap', np)
      /\ ~sat => promoted'
  <2> HIDE DEF np
  <2> QED
    BY <1>1, <1>2, <1>3, <1>4, ProbeAsks DEF Fits, np
<1>6. /\ mP2RetryDone /\ Len(rows) = 0 => Measured(row.free, Heap', promoted')
      /\ Len(rows) > 0 => Measured(rows[1].free, Heap', promoted')
  BY <1>1, <1>5, CopyAsks
<1>7. (\A i \in 1..(rung - 1) : ~Fits(Heap', Ladder[i])) /\ (rung > 1 => promoted')
  <2>1. (\A i \in 1..(rung - 1) : ~Fits(Heap, Ladder[i])) /\ (rung > 1 => promoted)
    BY <1>1, <1>2 DEF RungInv
  <2>2. CASE Heap' = Heap /\ promoted' = promoted
    BY <2>1, <2>2
  <2>3. CASE ~promoted /\ promoted'
    <3>1. ~(rung > 1) /\ rung = 1
      BY <1>3, <2>1, <2>3, LadderFacts
    <3> QED
      BY <2>3, <3>1
  <2> QED
    BY <1>5, <2>2, <2>3
<1>8. CASE RungSucceeds
  <2>1. sat /\ pc' = "release" /\ UNCHANGED <<caller, rung, row, rows>>
    BY <1>8 DEF RungSucceeds
  <2>2. RungInv'
    BY <1>5, <1>7, <2>1 DEF RungInv
  <2>3. CopyInv'
    BY <1>1, <1>2, <1>6, <2>1 DEF CopyInv
  <2> QED
    BY <2>2, <2>3
<1>9. CASE RungFails
  <2>0. ~sat /\ promoted' /\ ~Fits(Heap', np)
    BY <1>5, <1>9 DEF RungFails
  <2>1. CASE LastRung
    <3>1. LeavesLadder(0) /\ rung = Len(Ladder)
      BY <1>9, <2>1 DEF RungFails, LastRung
    <3>2. \A i \in 1..Len(Ladder) : ~Fits(Heap', Ladder[i])
      <4> TAKE i \in 1..Len(Ladder)
      <4>1. i = rung \/ i \in 1..(rung - 1)
        BY <3>1, LadderFacts
      <4> QED
        BY <1>7, <2>0, <4>1
    <3>3. Measured(0, Heap', promoted')
      BY <2>0, <3>2 DEF Measured
    <3> QED
      BY <1>1, <1>2, <1>6, <3>1, <3>3, LeavesIsQuiet
  <2>2. CASE ~LastRung
    <3>1. rung' = rung + 1 /\ UNCHANGED <<pc, caller, row, rows>>
      BY <1>9, <2>2 DEF RungFails
    <3>2. \A i \in 1..(rung' - 1) : ~Fits(Heap', Ladder[i])
      <4> TAKE i \in 1..(rung' - 1)
      <4>1. i = rung \/ i \in 1..(rung - 1)
        BY <1>3, <3>1, LadderFacts
      <4> QED
        BY <1>7, <2>0, <4>1
    <3>3. RungInv'
      BY <1>2, <2>0, <3>1, <3>2 DEF RungInv
    <3>4. CopyInv'
      BY <1>1, <1>2, <1>6, <3>1 DEF CopyInv
    <3> QED
      BY <3>3, <3>4
  <2> QED
    BY <2>1, <2>2
<1> QED
  BY <1>8, <1>9

LEMMA ReleaseIsQuiet ==
    ASSUME CensusAssumption, IInv, OnceInv, QuietInv, callbacks = 0, RungReleases
    PROVE  RungInv' /\ CopyInv'
<1>1. PagesInv /\ ControlTyped /\ ControlInv /\ RungInv /\ CopyInv
  BY DEF IInv, QuietInv
<1>2. /\ pc = "release" /\ LeavesLadder(Ladder[rung])
      /\ free' = free \cup probeBlock /\ probeBlock' = {}
      /\ UNCHANGED <<promoted, mP2RetryDone, retry>>
  BY DEF RungReleases, ProbeFrees, CoreFreePages
<1>3. Heap' = Heap
  BY <1>2 DEF Heap
<1>4. rung \in 1..Len(Ladder)
  BY <1>1, <1>2 DEF ControlInv
<1>5. Measured(Ladder[rung], Heap', promoted')
  BY <1>1, <1>2, <1>3, <1>4 DEF RungInv, Measured
<1>6. /\ mP2RetryDone /\ Len(rows) = 0 => Measured(row.free, Heap', promoted')
      /\ Len(rows) > 0 => Measured(rows[1].free, Heap', promoted')
  BY <1>1, <1>2, <1>3 DEF CopyInv
<1> QED
  BY <1>1, <1>2, <1>5, <1>6, LeavesIsQuiet

LEMMA RetryIsQuiet ==
    ASSUME CensusAssumption, IInv, OnceInv, QuietInv, callbacks = 0, RetryAsks \/ RetryReleases
    PROVE  RungInv' /\ CopyInv'
<1>1. PagesInv /\ ControlInv /\ ProbeInv /\ CopyInv
  BY DEF IInv, QuietInv
<1>2. /\ pc \in {"retry", "retryRelease"} /\ pc' \in {"retryRelease", "print", "retry"}
      /\ UNCHANGED <<mP2RetryDone, caller, row, rows>>
  BY DEF RetryAsks, RetryReleases
<1>3. mP2RetryDone /\ Len(rows) = 0 /\ caller = "none"
  BY <1>2 DEF OnceInv
<1>4. Measured(row.free, Heap', promoted')
  <2>1. CASE RetryAsks
    <3> DEFINE r == RetryRequests[Len(retry) + 1]
               np == r.pages
               t == r.type
    <3>1. Asks(np, t) /\ probeBlock' = Block(np, t) /\ pc = "retry"
      BY <2>1 DEF RetryAsks
    <3>2. np \in Nat \ {0} /\ t \in MemoryType
      BY <1>1, <3>1, RetryAsksARequest DEF Request
    <3>3. probeBlock = {}
      BY <1>1, <3>1 DEF ProbeInv
    <3> HIDE DEF np, t
    <3>4. \/ Heap' = Heap /\ promoted' = promoted
          \/ ~promoted /\ promoted' /\ Heap' = Heap \cup PromotePages
      BY <1>1, <3>1, <3>2, <3>3, ProbeAsks
    <3> QED
      BY <1>1, <1>3, <3>4, CopyAsks
  <2>2. CASE RetryReleases
    <3>1. free' = free \cup probeBlock /\ probeBlock' = {} /\ promoted' = promoted
      BY <2>2 DEF RetryReleases, ProbeFrees, CoreFreePages
    <3>2. Heap' = Heap
      BY <3>1 DEF Heap
    <3> QED
      BY <1>1, <1>3, <3>1, <3>2 DEF CopyInv
  <2> QED
    BY <2>1, <2>2
<1>5. RungInv'
  BY <1>2 DEF RungInv
<1>6. CopyInv'
  BY <1>2, <1>3, <1>4 DEF CopyInv
<1> QED
  BY <1>5, <1>6

LEMMA ReportIsQuiet ==
    ASSUME OnceInv, QuietInv, callbacks = 0, FreeWhyReport \/ PrintRetry
    PROVE  RungInv' /\ CopyInv'
<1>1. CopyInv
  BY DEF QuietInv
<1>2. UNCHANGED <<free, promoted, probeBlock, retry, rows>>
  BY DEF FreeWhyReport, PrintRetry, heap
<1>3. Heap' = Heap
  BY <1>2 DEF Heap
<1>4. row'.free = row.free
  <2>1. CASE FreeWhyReport
    <3>1. row' = [row EXCEPT !.ty = mP2FwTy, !.n = mP2FwCount, !.fwhy = fwhy,
                             !.g = IF mP2FwSeen THEN mP2FwSkip ELSE 0]
      BY <2>1 DEF FreeWhyReport
    <3> QED
      BY <3>1 DEF OnceInv, EmptyRow
  <2>2. CASE PrintRetry
    <3>1. row' = [row EXCEPT !.retry = retry]
      BY <2>2 DEF PrintRetry
    <3> QED
      BY <3>1 DEF OnceInv, EmptyRow
  <2> QED
    BY <2>1, <2>2
<1>5. CASE FreeWhyReport
  <2>1. /\ pc = "report" /\ pc' \in {"print", "retry"} /\ mP2RetryDone' = TRUE /\ caller' = "none"
    BY <1>5 DEF FreeWhyReport, OnceInv
  <2>2. RungInv'
    BY <2>1 DEF RungInv
  <2>3. CopyInv'
    BY <1>1, <1>2, <1>3, <1>4, <2>1 DEF CopyInv
  <2> QED
    BY <2>2, <2>3
<1>6. CASE PrintRetry
  <2>1. /\ pc = "print" /\ pc' = "rung" /\ caller' = "key" /\ rung' = 1
        /\ mP2RetryDone' = mP2RetryDone
    BY <1>6 DEF PrintRetry, EntersLadder
  <2>2. row'.retry = retry
    BY <1>6 DEF PrintRetry, OnceInv, EmptyRow
  <2>3. RungInv'
    BY <2>1 DEF RungInv
  <2>4. CopyInv'
    BY <1>1, <1>2, <1>3, <1>4, <2>1, <2>2 DEF CopyInv
  <2> QED
    BY <2>3, <2>4
<1> QED
  BY <1>5, <1>6

LEMMA QuietStep ==
    ASSUME CensusAssumption, IInv, OnceInv, QuietInv, [Next]_vars
    PROVE  QuietInv'
<1>1. CASE Callback
  <2>1. callbacks' = callbacks + 1 /\ callbacks \in Nat
    BY <1>1 DEF Callback, OnceInv
  <2>2. callbacks' # 0
    BY <2>1
  <2> QED
    BY <2>2 DEF QuietInv
<1>2. SUFFICES ASSUME callbacks = 0, ~Callback PROVE RungInv' /\ CopyInv'
  <2>1. ~Callback => callbacks' = callbacks
    BY DEF Next, Instrument, RunAllocates, RunFrees, Tick, P2Hold, DigestBegins, RungSucceeds,
           RungReleases, RungFails, FreeWhyReport, RetryAsks, RetryReleases, PrintRetry, Done,
           bounds, vars
  <2> QED
    BY <1>1, <2>1 DEF QuietInv
<1>3. RungInv /\ CopyInv
  BY <1>2 DEF QuietInv
<1>4. CASE RunAllocates \/ RunFrees
  <2>1. pc = "run" /\ UNCHANGED <<pc, caller, row, rows, mP2RetryDone>>
    BY <1>4 DEF RunAllocates, RunFrees
  <2>2. caller = "none" /\ ~mP2RetryDone /\ Len(rows) = 0
    BY <2>1 DEF OnceInv, IInv, ControlInv
  <2>3. RungInv'
    BY <2>1 DEF RungInv
  <2>4. CopyInv'
    BY <2>1, <2>2 DEF CopyInv
  <2> QED
    BY <2>3, <2>4
<1>5. CASE Tick \/ DigestBegins
  <2>1. /\ UNCHANGED <<free, promoted, probeBlock, retry, row, rows, mP2RetryDone>>
        /\ pc' = "rung" /\ caller' \in {"tick", "free"} /\ rung' = 1
    BY <1>5 DEF Tick, DigestBegins, EntersLadder, heap
  <2>2. Heap' = Heap
    BY <2>1 DEF Heap
  <2>3. RungInv'
    BY <2>1 DEF RungInv
  <2>4. CopyInv'
    BY <1>3, <2>1, <2>2 DEF CopyInv
  <2> QED
    BY <2>3, <2>4
<1>6. CASE P2Hold
  <2>1. /\ UNCHANGED <<free, promoted, probeBlock, retry, row, rows, mP2RetryDone, caller>>
        /\ pc' = "held"
    BY <1>6 DEF P2Hold, heap
  <2>2. Heap' = Heap
    BY <2>1 DEF Heap
  <2>3. RungInv'
    BY <2>1 DEF RungInv
  <2>4. CopyInv'
    BY <1>3, <2>1, <2>2 DEF CopyInv
  <2> QED
    BY <2>3, <2>4
<1>7. CASE Done \/ UNCHANGED vars
  <2>1. UNCHANGED <<free, promoted, probeBlock, retry, row, rows, mP2RetryDone, caller, pc, rung>>
    BY <1>7 DEF Done, vars, heap
  <2>2. Heap' = Heap
    BY <2>1 DEF Heap
  <2>3. RungInv'
    BY <1>3, <2>1, <2>2 DEF RungInv
  <2>4. CopyInv'
    BY <1>3, <2>1, <2>2 DEF CopyInv
  <2> QED
    BY <2>3, <2>4
<1>8. CASE RungSucceeds \/ RungFails
  BY <1>2, <1>8, RungIsQuiet
<1>9. CASE RungReleases
  BY <1>2, <1>9, ReleaseIsQuiet
<1>10. CASE RetryAsks \/ RetryReleases
  BY <1>2, <1>10, RetryIsQuiet
<1>11. CASE FreeWhyReport \/ PrintRetry
  BY <1>2, <1>11, ReportIsQuiet
<1> QED
  BY <1>2, <1>4, <1>5, <1>6, <1>7, <1>8, <1>9, <1>10, <1>11 DEF Next, Instrument

-----------------------------------------------------------------------------
(* What the invariants say of the copies, in the words of the properties.  *)
LEMMA FirstIsTold == ControlInv /\ TellInv => FirstCopyTellsTheRun
<1>1. SUFFICES ASSUME ControlInv, TellInv, rows # <<>>, callbacks = 0
               PROVE  LET first == rows[1]
                          image == {i \in 1..Len(failures) : failures[i].pages >= ImageMin}
                      IN  /\ first.n = Len(failures)
                          /\ \A s \in TypeSlots : first.ty[s] = CountOf(s)
                          /\ IF image = {} THEN first.fwhy = NoRecord
                             ELSE LET f == failures[Min(image)] IN
                                  first.fwhy.type = f.type /\ first.fwhy.pages = f.pages
  BY DEF FirstCopyTellsTheRun
<1>2. Len(rows) > 0
  <2>1. PICK S : rows \in Seq(S)
    BY <1>1 DEF ControlInv, RowsInv
  <2>2. Len(rows) \in Nat /\ Len(rows) # 0
    BY <1>1, <2>1, EmptySeq
  <2> QED
    BY <2>2
<1>3. Tells(failures, rows[1].n, rows[1].ty, rows[1].fwhy)
  BY <1>1, <1>2 DEF TellInv
<1> QED
  BY <1>3 DEF Tells, CountIn, CountOf, ImageSized

LEMMA HeapIsMeasured ==
    ASSUME CensusAssumption, PagesInv, NEW v, Measured(v, free, promoted)
    PROVE  LET largest == MaxOr0({Size(c) : c \in Usable(free, Granule[LadderType])}) IN
           /\ v <= largest
           /\ \A i \in 1..Len(Ladder) : Ladder[i] > v => Ladder[i] > largest
<1> DEFINE g == Granule[LadderType]
           largest == MaxOr0(Clipped(free, g))
<1>1. free \in SUBSET Nat /\ IsFiniteSet(free) /\ g \in Nat \ {0}
  <2>1. AllPages \in SUBSET Nat /\ IsFiniteSet(AllPages) /\ free \in SUBSET AllPages
    BY FS_Union DEF CensusAssumption, AllPages, PagesInv
  <2>2. IsFiniteSet(free)
    BY <2>1, FS_Subset
  <2> QED
    BY <2>1, <2>2 DEF CensusAssumption
<1>2. ASSUME NEW np \in Nat \ {0}
      PROVE  /\ largest \in Nat
             /\ Fits(free, np) => np <= largest
             /\ ~Fits(free, np) => largest < np
  <2>1. Candidates(free, np, g) # {} <=> Fits(free, np)
    BY DEF Fits
  <2> HIDE DEF g
  <2> QED
    BY <1>1, <2>1, LargestIsFound
<1> HIDE DEF largest
<1>3. largest \in Nat
  BY <1>2
<1>4. \A i \in 1..Len(Ladder) : Ladder[i] \in Nat \ {0}
  BY LadderFacts
<1>5. CASE v = 0 /\ \A i \in 1..Len(Ladder) : ~Fits(free, Ladder[i])
  <2>1. \A i \in 1..Len(Ladder) : largest < Ladder[i]
    BY <1>2, <1>4, <1>5
  <2>2. \A i \in 1..Len(Ladder) : Ladder[i] > largest
    BY <1>3, <1>4, <2>1
  <2> QED
    BY <1>3, <1>5, <2>2 DEF largest, Clipped
<1>6. ASSUME NEW k \in 1..Len(Ladder), v = Ladder[k], Fits(free, v),
             \A i \in 1..(k - 1) : ~Fits(free, Ladder[i])
      PROVE  v <= largest /\ \A i \in 1..Len(Ladder) : Ladder[i] > v => Ladder[i] > largest
  <2>1. v \in Nat \ {0} /\ v <= largest
    BY <1>2, <1>4, <1>6
  <2>2. ASSUME NEW i \in 1..Len(Ladder), Ladder[i] > v PROVE Ladder[i] > largest
    <3>1. i < k
      <4>1. CASE i > k
        <5>1. Ladder[k] > Ladder[i]
          BY <4>1, LadderFalls
        <5> QED
          BY <1>4, <1>6, <2>1, <2>2, <5>1
      <4>2. CASE i = k
        BY <1>6, <2>1, <2>2, <4>2
      <4> QED
        BY <4>1, <4>2
    <3>2. i \in 1..(k - 1)
      BY <3>1, LadderFacts
    <3>3. largest < Ladder[i]
      BY <1>2, <1>4, <1>6, <3>2
    <3> QED
      BY <1>3, <1>4, <3>3
  <2> QED
    BY <2>1, <2>2
<1>7. CASE \E k \in 1..Len(Ladder) :
             /\ v = Ladder[k] /\ Fits(free, v)
             /\ \A i \in 1..(k - 1) : ~Fits(free, Ladder[i])
  BY <1>6, <1>7 DEF largest, Clipped
<1> QED
  BY <1>5, <1>7 DEF Measured

LEMMA MeasuresAreTrue ==
    ASSUME CensusAssumption, IInv, OnceInv, CensusInv, QuietInv
    PROVE  ProbesMeasureTheHeap
<1>1. ASSUME pc = "report", callbacks = 0
      PROVE  LET largest == MaxOr0({Size(c) : c \in Usable(free, Granule[LadderType])}) IN
             /\ row.free <= largest
             /\ \A i \in 1..Len(Ladder) : Ladder[i] > row.free => Ladder[i] > largest
  <2>1. Heap = free
    BY <1>1 DEF IInv, ProbeInv, Heap
  <2>2. Measured(row.free, free, promoted) /\ PagesInv
    BY <1>1, <2>1 DEF QuietInv, CopyInv, IInv
  <2> QED
    BY <2>2, HeapIsMeasured
<1>2. ASSUME callbacks = 0, NEW i \in 1..Len(rows)
      PROVE  /\ rows[i].free = rows[1].free /\ rows[i].key = rows[1].free
             /\ rows[i].retry = rows[1].retry
  <2>1. \A j \in 1..Len(rows) :
          rows[j].free = rows[1].free /\ rows[j].key = rows[1].free /\ rows[j].retry = retry
    BY <1>2 DEF QuietInv, CopyInv
  <2>2. 1 \in 1..Len(rows)
    BY DEF IInv, ControlTyped, CensusAssumption
  <2> QED
    BY <2>1, <2>2
<1> QED
  BY <1>1, <1>2 DEF ProbesMeasureTheHeap, CensusInv

(* All that is true of a run and of its digest. *)
JInv == IInv /\ OnceInv /\ CensusInv /\ TellInv /\ QuietInv

LEMMA DigestIsKept == Spec => []JInv
<1>1. Init => JInv
  <2> SUFFICES ASSUME Init PROVE JInv
    OBVIOUS
  <2>1. CensusInv
    BY DEF Init, CensusInv
  <2> QED
    BY <2>1, CensusAssumption, InitEstablishes, InitIsOnce, InitIsTold, InitIsQuiet DEF JInv
<1>2. JInv /\ [Next]_vars => JInv'
  <2> SUFFICES ASSUME JInv, [Next]_vars PROVE JInv'
    OBVIOUS
  <2>1. IInv /\ OnceInv /\ CensusInv /\ TellInv /\ QuietInv
    BY DEF JInv
  <2>2. IInv'
    BY <2>1, IInvStep
  <2>3. OnceInv'
    BY <2>1, CensusAssumption, OnceStep
  <2>4. CensusInv'
    BY <2>1, CensusAssumption, CensusStep
  <2>5. TellInv'
    BY <2>1, CensusAssumption, TellStep
  <2>6. QuietInv'
    BY <2>1, CensusAssumption, QuietStep
  <2> QED
    BY <2>2, <2>3, <2>4, <2>5, <2>6 DEF JInv
<1> QED
  BY <1>1, <1>2, PTL DEF Spec

(* The first copy of the digest tells the run, on every heap and with      *)
(* every granularity: P2 FWTY counts the run's own refusals by type, and   *)
(* P2 FWHY is of the first of them that was as large as an image, however  *)
(* many requests of the probes were refused around them.                   *)
THEOREM RunIsTold == Spec => []FirstCopyTellsTheRun
<1>1. JInv => FirstCopyTellsTheRun
  BY FirstIsTold DEF JInv, IInv
<1> QED
  BY <1>1, DigestIsKept, PTL

(* What is measured is the heap of the run: `big`, `raw` and `free` are    *)
(* ordered and never contradict the refusal they explain, `free=` is the   *)
(* rung of the ladder that brackets the largest run, and all copies say    *)
(* the same of it.                                                         *)
THEOREM ProbesTellTheHeap == Spec => []ProbesMeasureTheHeap
<1>1. JInv => ProbesMeasureTheHeap
  BY CensusAssumption, MeasuresAreTrue DEF JInv
<1> QED
  BY <1>1, DigestIsKept, PTL
=============================================================================
